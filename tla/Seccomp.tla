------------------------------- MODULE Seccomp -------------------------------
(***************************************************************************)
(* Filter installation in crates/seccomp: SeccompState (state.rs), the     *)
(* reference-counted filter tree (chain.rs) and the shared byte budget     *)
(* (budget.rs).  A thread takes a snapshot of its chain, charges the       *)
(* budget and allocates a leaf without a lock, and publishes the leaf      *)
(* later, for itself or for its whole group (TSYNC).                       *)
(*                                                                         *)
(* A node is an Arc: `refs` is its strong count and its name stands for    *)
(* its address, so a freed name can be allocated again.  Thread creation,  *)
(* exit and the lock under which a group is synchronized are the embedding *)
(* kernel's.                                                               *)
(*                                                                         *)
(* The second half is the pure part: the profile a classic-BPF program     *)
(* must satisfy and its path charge (bpf.rs), the view of seccomp_data a   *)
(* filter loads from, the precedence of actions (action.rs) and the        *)
(* decision over a chain (FilterChain::evaluate).  Executing a program     *)
(* belongs to the axcbpf library; a filter is what it returns for the call *)
(* at hand.                                                                *)
(***************************************************************************)
EXTENDS Integers, Sequences, FiniteSetsExt, SequencesExt, Functions

CONSTANTS
  Tasks, First,    \* thread slots; the one that exists at the start
  Nodes,           \* addresses the allocator hands out
  Programs,        \* program -> [charge, bytes]
  MaxPath,         \* MAX_INSNS_PER_PATH
  Penalty,         \* FILTER_PATH_PENALTY
  LimitBytes,      \* of the budget
  MaxInsns,        \* BPF_MAXINSNS
  Errnos           \* MAX_ERRNO

VARIABLES
  tasks,           \* existing thread -> SeccompState
  nodes,           \* live node -> FilterNode
  used,            \* used_bytes
  ops,             \* thread -> the installation it is in
  releases         \* thread -> references it has yet to drop

svars == <<tasks, nodes, used, ops, releases>>

None == "none"
Idle == [stage |-> "Idle"]
Settled == [todo |-> << >>, at |-> None, mode |-> "Drop", owed |-> 0]

Init ==
  /\ tasks = [t \in {First} |-> [mode |-> "Disabled", leaf |-> None]]
  /\ nodes = << >> /\ used = 0
  /\ ops = [t \in Tasks |-> Idle] /\ releases = [t \in Tasks |-> Settled]

Free(t) == ops[t] = Idle /\ releases[t] = Settled
Real(ns) == SelectSeq(ns, LAMBDA n : n # None)

(* Clones of the Arcs ns, None meaning an empty chain *)
Clone(ns) == [n \in DOMAIN nodes |-> [nodes[n] EXCEPT !.refs = @ + Len(SelectSeq(ns, LAMBDA m : m = n))]]

(* The handles ns go out of scope at the end of t's operation *)
DropLater(t, ns) == releases' = [releases EXCEPT ![t].todo = @ \o Real(ns)]

(* FilterChain::path_cost, filter_count *)
PathCost(n) == IF n = None THEN 0 ELSE nodes[n].path_cost
FilterCount(n) == IF n = None THEN 0 ELSE nodes[n].filter_count

(* The ancestry of a leaf, newest first *)
Chain(n) ==
  LET up[i \in 0..Cardinality(Nodes)] ==
        IF i = 0 THEN n ELSE IF up[i - 1] = None THEN None ELSE nodes[up[i - 1]].previous
  IN  [i \in 1..FilterCount(n) |-> up[i - 1]]

(* is_ancestor_of *)
IsAncestorOf(a, d) == a = None \/ a \in ToSet(Chain(d))

(* SeccompState::filters: the snapshot keeps its leaf alive.  try_append then
   checks the path before anything is charged. *)
Snapshot(t, p) ==
  LET leaf == tasks[t].leaf
      cost == Programs[p].charge + (IF leaf = None THEN 0 ELSE PathCost(leaf) + Penalty)
  IN  /\ t \in DOMAIN tasks /\ Free(t) /\ cost <= MaxPath
      /\ nodes' = Clone(<<leaf>>)
      /\ ops' = [ops EXCEPT ![t] = [stage |-> "Load", expected |-> leaf, program |-> p, cost |-> cost]]
      /\ UNCHANGED <<tasks, used, releases>>

Abandon(t, ns) ==
  /\ ops' = [ops EXCEPT ![t] = Idle]
  /\ DropLater(t, ns)

(* FilterBudget::try_reserve: load and compare with the limit *)
Load(t) ==
  /\ ops[t].stage = "Load"
  /\ IF used + Programs[ops[t].program].bytes <= LimitBytes
       THEN ops' = [ops EXCEPT ![t] = [stage |-> "Cas", expected |-> ops[t].expected, program |-> ops[t].program,
                                       cost |-> ops[t].cost, observed |-> used]]
            /\ UNCHANGED releases
       ELSE Abandon(t, <<ops[t].expected>>)
  /\ UNCHANGED <<tasks, nodes, used>>

AddBlindly(t) == used + Programs[ops[t].program].bytes

(* compare_exchange_weak: the sum replaces the value it was computed from *)
Exchanged(t) == IF used = ops[t].observed THEN used + Programs[ops[t].program].bytes ELSE used

Cas(t) ==
  LET op == ops[t]
      next == [stage |-> IF used = op.observed THEN "Charged" ELSE "Load",
               expected |-> op.expected, program |-> op.program, cost |-> op.cost]
  IN  /\ op.stage = "Cas"
      /\ used' = Exchanged(t)
      /\ ops' = [ops EXCEPT ![t] = next]
      /\ UNCHANGED <<tasks, nodes, releases>>

(* Arc::try_new of the node; a failure drops the charge *)
Allocate(t, n) ==
  LET op == ops[t]
      node == [program |-> op.program, previous |-> op.expected, path_cost |-> op.cost,
               filter_count |-> FilterCount(op.expected) + 1, refs |-> 1]
  IN  /\ op.stage = "Charged" /\ n \notin DOMAIN nodes
      /\ nodes' = [m \in DOMAIN nodes \cup {n} |-> IF m = n THEN node ELSE Clone(<<op.expected>>)[m]]
      /\ ops' = [ops EXCEPT ![t] = [stage |-> "Prepared", expected |-> op.expected, prepared |-> n]]
      /\ UNCHANGED <<tasks, used, releases>>

NoMemory(t) ==
  /\ ops[t].stage = "Charged"
  /\ used' = used - Programs[ops[t].program].bytes
  /\ Abandon(t, <<ops[t].expected>>)
  /\ UNCHANGED <<tasks, nodes>>

(* The checks of try_publish_filter: mode, same_identity, directly_extends *)
Publishable(t) ==
  /\ tasks[t].mode # "Strict"
  /\ tasks[t].leaf = ops[t].expected
  /\ nodes[ops[t].prepared].previous = ops[t].expected

(* sync_eligibility of a sibling, for a caller in Filter mode with this leaf *)
Eligible(u, leaf) ==
  \/ tasks[u].mode = "Disabled"
  \/ tasks[u].mode = "Filter" /\ IsAncestorOf(tasks[u].leaf, leaf)

(* The states of `who` become the published one, each with its own clone of
   the leaf; the references they held, and t's two handles, are dropped. *)
Install(t, who) ==
  LET leaf == ops[t].prepared
      olds == SetToSeq({u \in who : tasks[u].leaf # None})
  IN  /\ tasks' = [u \in DOMAIN tasks |-> IF u \in who THEN [mode |-> "Filter", leaf |-> leaf] ELSE tasks[u]]
      /\ nodes' = Clone([i \in 1..Cardinality(who) |-> leaf])
      /\ Abandon(t, [i \in 1..Len(olds) |-> tasks[olds[i]].leaf] \o <<ops[t].expected, leaf>>)
      /\ UNCHANGED used

(* try_publish_filter *)
Publish(t) ==
  /\ ops[t].stage = "Prepared"
  /\ IF Publishable(t) THEN Install(t, {t})
     ELSE Abandon(t, <<ops[t].expected, ops[t].prepared>>) /\ UNCHANGED <<tasks, nodes, used>>

(* TSYNC: the caller's publication and prepare_synchronized_from for every
   sibling, committed for all of them or for none *)
PublishSynchronized(t) ==
  /\ ops[t].stage = "Prepared"
  /\ IF Publishable(t) /\ \A u \in DOMAIN tasks \ {t} : Eligible(u, ops[t].prepared)
       THEN Install(t, DOMAIN tasks)
       ELSE Abandon(t, <<ops[t].expected, ops[t].prepared>>) /\ UNCHANGED <<tasks, nodes, used>>

(* try_enter_strict *)
EnterStrict(t) ==
  /\ t \in DOMAIN tasks /\ Free(t)
  /\ tasks[t] = [mode |-> "Disabled", leaf |-> None]
  /\ tasks' = [tasks EXCEPT ![t].mode = "Strict"]
  /\ UNCHANGED <<nodes, used, ops, releases>>

(* clone(2) inherits the state; an exiting thread drops it *)
Fork(t, c) ==
  /\ t \in DOMAIN tasks /\ Free(t) /\ c \in Tasks \ DOMAIN tasks /\ Free(c)
  /\ tasks' = [u \in DOMAIN tasks \cup {c} |-> IF u = c THEN tasks[t] ELSE tasks[u]]
  /\ nodes' = Clone(<<tasks[t].leaf>>)
  /\ UNCHANGED <<used, ops, releases>>

Exit(t) ==
  /\ t \in DOMAIN tasks /\ Free(t) /\ Cardinality(DOMAIN tasks) > 1
  /\ tasks' = Restrict(tasks, DOMAIN tasks \ {t})
  /\ DropLater(t, <<tasks[t].leaf>>)
  /\ UNCHANGED <<nodes, used, ops>>

-----------------------------------------------------------------------------
(* One FilterChain handle goes out of scope: Arc::drop *)
BeginDrop(t) ==
  LET r == releases[t]
  IN  /\ ops[t] = Idle /\ r.at = None /\ r.todo # << >>
      /\ releases' = [releases EXCEPT ![t] = [todo |-> Tail(r.todo), at |-> Head(r.todo), mode |-> "Drop", owed |-> r.owed]]
      /\ UNCHANGED <<tasks, nodes, used, ops>>

Bytes(n) == Programs[nodes[n].program].bytes

(* Arc::drop: the last reference runs FilterNode::drop, which walks on from
   the ancestor it held; its own charge is returned after the walk. *)
Decrement(t) ==
  LET r == releases[t]
      last == nodes[r.at].refs = 1
  IN  /\ r.at # None /\ r.mode = "Drop"
      /\ nodes' = IF last THEN Restrict(nodes, DOMAIN nodes \ {r.at}) ELSE [nodes EXCEPT ![r.at].refs = @ - 1]
      /\ releases' = [releases EXCEPT ![t].at = IF last THEN nodes[r.at].previous ELSE None,
                                      ![t].mode = "Unwrap",
                                      ![t].owed = @ + (IF last THEN Bytes(r.at) ELSE 0)]
      /\ UNCHANGED <<tasks, used, ops>>

(* Arc::try_unwrap succeeds for a unique reference only *)
Unique(t) == nodes[releases[t].at].refs = 1

(* The loop of FilterNode::drop: a unique ancestor is taken apart, its charge
   returned at once; a shared one is dropped, in a second atomic step. *)
Unwrap(t) ==
  LET r == releases[t]
  IN  /\ r.at # None /\ r.mode = "Unwrap"
      /\ IF Unique(t)
           THEN /\ nodes' = Restrict(nodes, DOMAIN nodes \ {r.at})
                /\ used' = used - Bytes(r.at)
                /\ releases' = [releases EXCEPT ![t].at = nodes[r.at].previous]
           ELSE /\ releases' = [releases EXCEPT ![t].mode = "Drop"]
                /\ UNCHANGED <<nodes, used>>
      /\ UNCHANGED <<tasks, ops>>

(* FilterCharge::drop of the nodes whose Drop has run *)
Refund(t) ==
  LET r == releases[t]
  IN  /\ r.at = None /\ r.mode = "Unwrap"
      /\ used' = used - r.owed
      /\ releases' = [releases EXCEPT ![t] = [Settled EXCEPT !.todo = r.todo]]
      /\ UNCHANGED <<tasks, nodes, ops>>

Next ==
  \E t \in Tasks :
    \/ \E p \in DOMAIN Programs : Snapshot(t, p)
    \/ Load(t) \/ Cas(t) \/ NoMemory(t)
    \/ \E n \in Nodes : Allocate(t, n)
    \/ Publish(t) \/ PublishSynchronized(t) \/ EnterStrict(t)
    \/ \E c \in Tasks : Fork(t, c)
    \/ Exit(t) \/ BeginDrop(t) \/ Decrement(t) \/ Unwrap(t) \/ Refund(t)

Spec == Init /\ [][Next]_svars

-----------------------------------------------------------------------------
Count(S, P(_)) == Cardinality({x \in S : P(x)})

(* Handles that thread t holds on n besides its published state *)
Holds(t, n) ==
  (IF ops[t].stage # "Idle" /\ ops[t].expected = n THEN 1 ELSE 0)
  + (IF ops[t].stage = "Prepared" /\ ops[t].prepared = n THEN 1 ELSE 0)
  + (IF releases[t].at = n THEN 1 ELSE 0)
  + Len(SelectSeq(releases[t].todo, LAMBDA m : m = n))

(* Nothing is freed while it can be reached, and nothing leaks: a node's count
   is the number of states, handles and children that refer to it, however
   walks of FilterNode::drop over shared ancestors interleave. *)
RefsExact ==
  /\ \A n \in DOMAIN nodes :
       nodes[n].refs = Count(DOMAIN tasks, LAMBDA t : tasks[t].leaf = n)
                       + Count(DOMAIN nodes, LAMBDA m : nodes[m].previous = n)
                       + MapThenSumSet(LAMBDA t : Holds(t, n), Tasks)
  /\ \A t \in DOMAIN tasks : tasks[t].leaf \in DOMAIN nodes \cup {None}
  /\ \A n \in DOMAIN nodes : nodes[n].previous \in DOMAIN nodes \cup {None} /\ nodes[n].refs > 0

(* The bytes in use are those of the live nodes, of charges not yet turned
   into a node and of nodes being torn down; they never exceed the limit. *)
BudgetExact ==
  /\ used = MapThenSumSet(Bytes, DOMAIN nodes)
            + MapThenSumSet(LAMBDA t : IF ops[t].stage = "Charged" THEN Programs[ops[t].program].bytes ELSE 0, Tasks)
            + MapThenSumSet(LAMBDA t : releases[t].owed, Tasks)
  /\ used <= LimitBytes
  /\ \A n \in DOMAIN nodes :
       LET chain == Chain(n)
       IN  /\ nodes[n].path_cost <= MaxPath
           /\ nodes[n].path_cost = MapThenSumSet(LAMBDA i : Programs[nodes[chain[i]].program].charge, 1..Len(chain))
                                   + Penalty * (Len(chain) - 1)

ProgramsOf(ns, ts, t) ==
  LET up[i \in 0..Cardinality(Nodes)] ==
        IF i = 0 THEN ts[t].leaf ELSE IF up[i - 1] = None THEN None ELSE ns[up[i - 1]].previous
      length == IF ts[t].leaf = None THEN 0 ELSE ns[ts[t].leaf].filter_count
  IN  [i \in 1..length |-> ns[up[length - i]].program]

(* A thread never loses a filter: whatever it or a synchronizing sibling
   publishes, also from an old snapshot, extends the chain it has; and strict
   mode is final. *)
FiltersOnlyGrow ==
  \A t \in DOMAIN tasks \cap DOMAIN tasks' :
    /\ tasks'[t] # tasks[t] => IsPrefix(ProgramsOf(nodes, tasks, t), ProgramsOf(nodes', tasks', t))
    /\ tasks[t].mode = "Strict" => tasks'[t].mode = "Strict"
    /\ tasks[t].mode = "Filter" => tasks'[t].mode = "Filter"

-----------------------------------------------------------------------------
DataSize == 64     \* SECCOMP_DATA_SIZE
NoWord == -1       \* words are naturals

(* The action fields, as signed 16-bit numbers: action_bits() as i32, shifted *)
KillProcess == -32768
KillThread == 0
Trap == 3
Errno == 5
UserNotif == 32704
Trace == 32752
Log == 32764
Allow == 32767
Unknown == 65536    \* the class of every other number
Named == {KillProcess, KillThread, Trap, Errno, UserNotif, Trace, Log, Allow}

(* Action::classify: unknown actions are a class of their own *)
Classify(action) ==
  IF action.bits \notin Named THEN [class |-> Unknown]
  ELSE IF action.bits = Errno THEN [class |-> Errno, data |-> Min({action.data, Errnos})]
  ELSE IF action.bits \in {Trap, UserNotif, Trace} THEN [class |-> action.bits, data |-> action.data]
  ELSE [class |-> action.bits]

(* Strictly less: a tie keeps the newer filter *)
Outranks(a, b) == a.bits < b.bits

(* FilterChain::evaluate over the results of the filters, newest first *)
Evaluate(results) ==
  LET Step(best, k) ==
        IF Outranks(results[k], best.action)
          THEN [action |-> results[k], matched |-> k] ELSE best
  IN  FoldLeft(Step, [action |-> [bits |-> Allow, data |-> 0], matched |-> 0], [k \in 1..Len(results) |-> k])

-----------------------------------------------------------------------------
(* SeccompData: 32-bit words; native_bytes lays them out, little endian *)
NativeWords(d) ==
  <<d.number, d.architecture, d.instruction_pointer.low, d.instruction_pointer.high>>
    \o FlattenSeq([i \in 1..6 |-> <<d.arguments[i].low, d.arguments[i].high>>])

NativeU64Word(v, byteOffset) == IF byteOffset = 0 THEN v.low ELSE v.high

(* SeccompData::load_word *)
LoadWord(d, offset) ==
  IF offset % 4 # 0 \/ offset >= DataSize THEN NoWord
  ELSE CASE offset = 0 -> d.number
         [] offset = 4 -> d.architecture
         [] offset \in {8, 12} -> NativeU64Word(d.instruction_pointer, offset - 8)
         [] offset \in 16..60 -> NativeU64Word(d.arguments[(offset - 16) \div 8 + 1], (offset - 16) % 8)

-----------------------------------------------------------------------------
(* Instructions by the classes the code tells apart: a load of seccomp_data,
   the register division, a constant return, the conditional jumps, any other
   allowed opcode, and an opcode outside the subset. *)
Jumps == {"JMP_K", "JMP_X", "JSET_K", "JSET_X"}
Allowed == {"LD_W_ABS", "DIV_X", "RET_K", "OTHER"} \cup Jumps

(* verify_seccomp_profile: the first offence, in program order *)
Offence(i) ==
  IF i.code \notin Allowed THEN "InvalidOpcode"
  ELSE IF i.code # "LD_W_ABS" THEN "Ok"
  ELSE IF i.k % 4 # 0 THEN "DataOffsetUnaligned"
  ELSE IF i.k >= DataSize THEN "DataOffsetOutOfRange" ELSE "Ok"

VerifyProfile(program) ==
  IF program = << >> THEN [error |-> "Empty"]
  ELSE IF Len(program) > MaxInsns THEN [error |-> "TooLong"]
  ELSE LET bad == {pc \in 1..Len(program) : Offence(program[pc]) # "Ok"}
       IN  IF bad = {} THEN [error |-> "Ok"]
           ELSE [error |-> Offence(program[Min(bad)]), pc |-> Min(bad) - 1]

(* converted_conditional_jump_charge *)
JumpCharge(i) ==
  IF i.jf = 0 \/ (i.jt = 0 /\ i.code \notin {"JSET_K", "JSET_X"}) THEN 1 ELSE 2

(* linux_v6_12_unblinded_instruction_charge *)
InstructionCharge(i) ==
  CASE i.code = "DIV_X" -> 5
    [] i.code = "RET_K" -> 2
    [] i.code \in {"JMP_K", "JSET_K"} -> (IF i.k < 0 THEN 1 ELSE 0) + JumpCharge(i)
    [] i.code \in {"JMP_X", "JSET_X"} -> JumpCharge(i)
    [] OTHER -> 1

(* linux_v6_12_unblinded_migration_charge, with its prologue of three *)
PathCharge(program) == 3 + FoldLeft(LAMBDA sum, i : sum + InstructionCharge(i), 0, program)

-----------------------------------------------------------------------------
(* The decision of a chain is the strictest result, from the newest filter
   that gave it; no other filter can loosen it, an unknown action is never
   taken for Allow, and a filter is named exactly when the call is not simply
   allowed. *)
EvaluateExact(results) ==
  LET decision == Evaluate(results)
      strictest == Min({results[k].bits : k \in 1..Len(results)} \cup {Allow})
  IN  /\ decision.action.bits = strictest
      /\ (decision.matched = 0) <=> (strictest = Allow)
      /\ decision.matched # 0 =>
           /\ results[decision.matched] = decision.action
           /\ \A k \in 1..(decision.matched - 1) : results[k].bits > strictest
      /\ Classify(decision.action).class = Allow => \A k \in 1..Len(results) : results[k].bits = Allow

(* The interpreter and the native translation read the same words, and every
   load of an accepted program finds one; a program is charged at least its
   prologue and its length. *)
ViewsAgree(d, program) ==
  /\ \A offset \in 0..(DataSize + 3) :
       LoadWord(d, offset) = IF offset % 4 = 0 /\ offset < DataSize
                               THEN NativeWords(d)[offset \div 4 + 1] ELSE NoWord
  /\ VerifyProfile(program).error = "Ok" =>
       /\ \A pc \in 1..Len(program) : program[pc].code = "LD_W_ABS" => LoadWord(d, program[pc].k) # NoWord
       /\ PathCharge(program) >= 3 + Len(program)
=============================================================================
