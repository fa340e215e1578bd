--------------------------- MODULE ProcessThreads ---------------------------
(***************************************************************************)
(* Thread memberships of the processes of one ProcessDomain                *)
(* (crates/process/src/process.rs): two-phase thread admission, thread and *)
(* group exit, and the exclusive final-exit transaction.                   *)
(*                                                                         *)
(* A step is one critical section of the code: the thread-group lock `tg`, *)
(* the registry `state` lock, or one atomic update of the domain-wide      *)
(* counter thread_memberships, which prepare_thread charges BEFORE it      *)
(* takes `tg` and every removal releases AFTER it has dropped `tg`.        *)
(***************************************************************************)
EXTENDS Integers, FiniteSets

CONSTANTS
  Procs,       \* process objects (Arc<Process>), each admitted at most once
  InitProcs,   \* those created with init = true
  Tids,        \* thread ids
  Codes,       \* exit codes passed by callers
  Cpus,        \* CPUs that can be inside a counter update
  Limit,       \* membership_limit of the registry
  Legacy       \* the processes on which remove_thread / exit_thread are used

ASSUME ThreadsAssumption ==
  /\ Limit \in Nat
  /\ Legacy \subseteq Procs
  /\ InitProcs \subseteq Procs
  /\ 0 \notin Codes

VARIABLES
  state,              \* lifecycle flags of a process object, see States
  reserved,           \* <<p, t>>: linked node, live = FALSE, ThreadAdmission held
  live,               \* <<p, t>>: linked node, live = TRUE
  departing,          \* <<p, t>>: unlinked node held by a ProcessExitAdmission
  memberships,        \* ThreadGroup.memberships
  live_threads,       \* ThreadGroup.live_threads
  exit_code,          \* ThreadGroup.exit_code
  group_exited,       \* ThreadGroup.group_exited
  exit_prepared,      \* ThreadGroup.exit_prepared
  exitTokens,         \* number of ProcessExitAdmission values held for a process
  thread_memberships, \* ProcessRegistry.thread_memberships
  preparing,          \* <<c, p, t, unpub>>: calls between charge and tg section
  releasing           \* CPUs between detaching a node and releasing its charge

groupVars == <<exit_code, group_exited>>
vars == <<state, reserved, live, departing, memberships, live_threads, exit_code,
          group_exited, exit_prepared, exitTokens, thread_memberships,
          preparing, releasing>>

(* published / is_zombie / reaped / registry link, as they can combine. *)
States == {"fresh", "admitted", "published", "zombie", "reaped", "dropped"}

LiveOf(p) == {t \in Tids : <<p, t>> \in live}

Linked(p) == {t \in Tids : <<p, t>> \in reserved \union live}

(* decrement_count and release_counter: checked, a zero counter stays zero. *)
Dec(n) == IF n > 0 THEN n - 1 ELSE 0

Idle(c) == c \notin releasing /\ \A x \in preparing : x[1] # c

(* A &ProcessAdmission is borrowed while it prepares a thread. *)
Borrowed(p) == \E x \in preparing : x[2] = p /\ x[4]

EnsurePublished(p) == state[p] \in {"published", "zombie"}

-----------------------------------------------------------------------------
Init ==
  /\ state = [p \in Procs |-> "fresh"]
  /\ reserved = {} /\ live = {} /\ departing = {}
  /\ memberships = [p \in Procs |-> 0]
  /\ live_threads = [p \in Procs |-> 0]
  /\ exit_code = [p \in Procs |-> 0]
  /\ group_exited = [p \in Procs |-> FALSE]
  /\ exit_prepared = [p \in Procs |-> FALSE]
  /\ exitTokens = [p \in Procs |-> 0]
  /\ thread_memberships = 0
  /\ preparing = {} /\ releasing = {}

(* ProcessRegistry::admit *)
AdmitProcess(p) ==
  /\ state[p] = "fresh"
  /\ Cardinality({q \in Procs : state[q] \in {"admitted", "published", "zombie"}}) < Limit
  /\ state' = [state EXCEPT ![p] = "admitted"]
  /\ UNCHANGED <<reserved, live, departing, memberships, live_threads, groupVars,
                 exit_prepared, exitTokens, thread_memberships, preparing, releasing>>

(* ProcessAdmission::commit, without an initial thread *)
PublishProcess(p) ==
  /\ state[p] = "admitted" /\ ~Borrowed(p)
  /\ state' = [state EXCEPT ![p] = "published"]
  /\ UNCHANGED <<reserved, live, departing, memberships, live_threads, groupVars,
                 exit_prepared, exitTokens, thread_memberships, preparing, releasing>>

(* InitialProcessAdmission::commit and ProcessAdmission::commit_with_thread
   (which refuses a group-exited process, the former does not): the node
   becomes live and the process visible in one tg section. *)
PublishWithThread(p, t) ==
  /\ state[p] = "admitted" /\ ~Borrowed(p)
  /\ <<p, t>> \in reserved
  /\ state' = [state EXCEPT ![p] = "published"]
  /\ reserved' = reserved \ {<<p, t>>}
  /\ live' = live \union {<<p, t>>}
  /\ live_threads' = [live_threads EXCEPT ![p] = @ + 1]
  /\ UNCHANGED <<departing, memberships, groupVars, exit_prepared, exitTokens,
                 thread_memberships, preparing, releasing>>

(* Drop for ProcessAdmission: unlink the unpublished process. *)
RollbackProcess(p) ==
  /\ state[p] = "admitted" /\ ~Borrowed(p)
  /\ state' = [state EXCEPT ![p] = "dropped"]
  /\ UNCHANGED <<reserved, live, departing, memberships, live_threads, groupVars,
                 exit_prepared, exitTokens, thread_memberships, preparing, releasing>>

-----------------------------------------------------------------------------

(* ProcessRegistry::reserve_thread_member: Capacity at the limit. *)
ReserveThreadMember ==
  thread_memberships + 1 <= Limit /\ thread_memberships' = thread_memberships + 1

(* prepare_thread, first part: reserve_thread_member charges the domain.
   unpub is allow_unpublished: the caller holds the ProcessAdmission. The
   ensure_published test of the domain call is repeated in the tg section. *)
PrepareThreadCharge(c, p, t, unpub) ==
  /\ Idle(c)
  /\ IF unpub THEN state[p] = "admitted" ELSE EnsurePublished(p)
  /\ ReserveThreadMember
  /\ preparing' = preparing \union {<<c, p, t, unpub>>}
  /\ UNCHANGED <<state, reserved, live, departing, memberships, live_threads,
                 groupVars, exit_prepared, exitTokens, releasing>>

AdmitsThreadAnyTid(p, t, unpub) ==
  /\ state[p] \notin {"zombie", "reaped"}
  /\ ~exit_prepared[p] /\ ~group_exited[p]
  /\ unpub \/ state[p] = "published"
  /\ memberships[p] + 1 <= Limit

(* The checks of prepare_thread_in under the tg lock. *)
AdmitsThread(p, t, unpub) ==
  /\ state[p] \notin {"zombie", "reaped"}
  /\ ~exit_prepared[p] /\ ~group_exited[p]
  /\ unpub \/ state[p] = "published"
  /\ memberships[p] + 1 <= Limit
  /\ t \notin Linked(p)

(* prepare_thread_in, tg section: link the node, or give up and release. *)
PrepareThreadLink(c, p, t, unpub) ==
  /\ <<c, p, t, unpub>> \in preparing
  /\ preparing' = preparing \ {<<c, p, t, unpub>>}
  /\ \/ /\ AdmitsThread(p, t, unpub)
        /\ reserved' = reserved \union {<<p, t>>}
        /\ memberships' = [memberships EXCEPT ![p] = @ + 1]
        /\ UNCHANGED releasing
     \/ /\ ~AdmitsThread(p, t, unpub)
        /\ releasing' = releasing \union {c}
        /\ UNCHANGED <<reserved, memberships>>
  /\ UNCHANGED <<state, live, departing, live_threads, groupVars,
                 exit_prepared, exitTokens, thread_memberships>>

AfterRelease == Dec(thread_memberships)

(* ProcessRegistry::release_thread_member *)
ReleaseThreadMember(c) ==
  /\ c \in releasing
  /\ thread_memberships' = AfterRelease
  /\ releasing' = releasing \ {c}
  /\ UNCHANGED <<state, reserved, live, departing, memberships, live_threads,
                 groupVars, exit_prepared, exitTokens, preparing>>

-----------------------------------------------------------------------------
(* ThreadAdmission::publish_locked(allow_unpublished = FALSE) succeeds. *)
Publishable(p) ==
  state[p] = "published" /\ ~group_exited[p] /\ ~exit_prepared[p]

(* ThreadAdmission::commit. A refused commit changes nothing under tg; its
   token is then dropped, which is DropThread. *)
CommitThread(p, t) ==
  /\ <<p, t>> \in reserved
  /\ Publishable(p)
  /\ reserved' = reserved \ {<<p, t>>}
  /\ live' = live \union {<<p, t>>}
  /\ live_threads' = [live_threads EXCEPT ![p] = @ + 1]
  /\ UNCHANGED <<state, departing, memberships, groupVars, exit_prepared,
                 exitTokens, thread_memberships, preparing, releasing>>

(* ThreadAdmission::commit_infallible: no check at all. *)
CommitThreadInfallible(p, t) ==
  /\ <<p, t>> \in reserved
  /\ reserved' = reserved \ {<<p, t>>}
  /\ live' = live \union {<<p, t>>}
  /\ live_threads' = [live_threads EXCEPT ![p] = @ + 1]
  /\ UNCHANGED <<state, departing, memberships, groupVars, exit_prepared,
                 exitTokens, thread_memberships, preparing, releasing>>

(* Drop for ThreadAdmission *)
DropThread(c, p, t) ==
  /\ <<p, t>> \in reserved /\ Idle(c)
  /\ reserved' = reserved \ {<<p, t>>}
  /\ memberships' = [memberships EXCEPT ![p] = Dec(@)]
  /\ releasing' = releasing \union {c}
  /\ UNCHANGED <<state, live, departing, live_threads, groupVars, exit_prepared,
                 exitTokens, thread_memberships, preparing>>

-----------------------------------------------------------------------------
RecordCodeAlways(p, code) == exit_code' = [exit_code EXCEPT ![p] = code]

(* A thread's code is recorded unless a group exit already fixed it. *)
RecordCode(p, code) ==
  exit_code' = [exit_code EXCEPT ![p] = IF group_exited[p] THEN @ ELSE code]

(* detach_thread_locked on a live node *)
Detach(p, t) ==
  /\ live' = live \ {<<p, t>>}
  /\ memberships' = [memberships EXCEPT ![p] = Dec(@)]
  /\ live_threads' = [live_threads EXCEPT ![p] = Dec(@)]

(* A reservation may still become live: the last live thread must wait. *)
Busy(p) == live_threads[p] = 1 /\ memberships[p] # 1

(* ProcessDomain::exit_thread. The last live thread leaves only when no
   reservation is outstanding (Busy otherwise), and then into a
   ProcessExitAdmission that keeps the node and its charge. *)
ExitThread(c, p, t, code) ==
  /\ EnsurePublished(p) /\ Idle(c)
  /\ <<p, t>> \in live /\ ~Busy(p)
  /\ Detach(p, t)
  /\ RecordCode(p, code)
  /\ \/ /\ live_threads[p] # 1
        /\ releasing' = releasing \union {c}
        /\ UNCHANGED <<departing, exit_prepared, exitTokens>>
     \/ /\ live_threads[p] = 1
        /\ p \notin InitProcs /\ state[p] # "zombie" /\ ~exit_prepared[p]
        /\ departing' = departing \union {<<p, t>>}
        /\ exit_prepared' = [exit_prepared EXCEPT ![p] = TRUE]
        /\ exitTokens' = [exitTokens EXCEPT ![p] = @ + 1]
        /\ UNCHANGED releasing
  /\ UNCHANGED <<state, reserved, group_exited, thread_memberships, preparing>>

(* Process::exit_thread (withCode) and Process::remove_thread *)
RemoveThread(c, p, t, withCode, code) ==
  /\ p \in Legacy /\ Idle(c)
  /\ <<p, t>> \in live
  /\ Detach(p, t)
  /\ IF withCode THEN RecordCode(p, code) ELSE UNCHANGED exit_code
  /\ releasing' = releasing \union {c}
  /\ UNCHANGED <<state, reserved, departing, group_exited, exit_prepared,
                 exitTokens, thread_memberships, preparing>>

(* Process::group_exit: the first caller fixes the code. *)
GroupExit(p, code) ==
  /\ state[p] # "fresh"
  /\ ~group_exited[p]
  /\ group_exited' = [group_exited EXCEPT ![p] = TRUE]
  /\ exit_code' = [exit_code EXCEPT ![p] = code]
  /\ UNCHANGED <<state, reserved, live, departing, memberships, live_threads,
                 exit_prepared, exitTokens, thread_memberships, preparing, releasing>>

-----------------------------------------------------------------------------
ExitPreparableTwice(p) == memberships[p] = 0

ExitPreparable(p) == memberships[p] = 0 /\ ~exit_prepared[p]

(* ProcessDomain::prepare_exit; zombie_payload is Some exactly for zombies. *)
PrepareExit(p) ==
  /\ state[p] = "published" /\ p \notin InitProcs
  /\ ExitPreparable(p)
  /\ exit_prepared' = [exit_prepared EXCEPT ![p] = TRUE]
  /\ exitTokens' = [exitTokens EXCEPT ![p] = @ + 1]
  /\ UNCHANGED <<state, reserved, live, departing, memberships, live_threads,
                 groupVars, thread_memberships, preparing, releasing>>

ForgetDeparting(c, p) ==
  /\ departing' = {x \in departing : x[1] # p}
  /\ UNCHANGED releasing

(* A departing thread is dropped and its charge released after the locks. *)
ReleaseDeparting(c, p) ==
  \/ /\ \A t \in Tids : <<p, t>> \notin departing
     /\ UNCHANGED <<departing, releasing>>
  \/ \E t \in Tids : /\ <<p, t>> \in departing /\ Idle(c)
                     /\ departing' = departing \ {<<p, t>>}
                     /\ releasing' = releasing \union {c}

(* ProcessExitAdmission::commit, zombie publication: the topology/tg section
   and, for a departing thread, the release that follows it. *)
CommitExit(c, p) ==
  /\ exitTokens[p] > 0
  /\ state' = [state EXCEPT ![p] = "zombie"]
  /\ exit_prepared' = [exit_prepared EXCEPT ![p] = FALSE]
  /\ exitTokens' = [exitTokens EXCEPT ![p] = @ - 1]
  /\ ReleaseDeparting(c, p)
  /\ UNCHANGED <<reserved, live, memberships, live_threads, groupVars,
                 thread_memberships, preparing>>

DiscardDeparting(p) ==
  /\ departing' = {x \in departing : x[1] # p}
  /\ UNCHANGED <<live, memberships, live_threads>>

RestoreDeparting(p) ==
  \/ /\ \A t \in Tids : <<p, t>> \notin departing
     /\ UNCHANGED <<departing, live, memberships, live_threads>>
  \/ \E t \in Tids : /\ <<p, t>> \in departing
                     /\ departing' = departing \ {<<p, t>>}
                     /\ live' = live \union {<<p, t>>}
                     /\ memberships' = [memberships EXCEPT ![p] = @ + 1]
                     /\ live_threads' = [live_threads EXCEPT ![p] = @ + 1]

(* Drop for ProcessExitAdmission: the departing node becomes live again. *)
RollbackExit(p) ==
  /\ exitTokens[p] > 0
  /\ exit_prepared' = [exit_prepared EXCEPT ![p] = FALSE]
  /\ exitTokens' = [exitTokens EXCEPT ![p] = @ - 1]
  /\ RestoreDeparting(p)
  /\ UNCHANGED <<state, reserved, groupVars, thread_memberships, preparing, releasing>>

(* ProcessDomain::reap *)
Reap(p) ==
  /\ state[p] = "zombie"
  /\ memberships[p] = 0
  /\ state' = [state EXCEPT ![p] = "reaped"]
  /\ UNCHANGED <<reserved, live, departing, memberships, live_threads, groupVars,
                 exit_prepared, exitTokens, thread_memberships, preparing, releasing>>

-----------------------------------------------------------------------------
ProcessStep(p) ==
  \/ AdmitProcess(p) \/ PublishProcess(p) \/ RollbackProcess(p)
  \/ PrepareExit(p) \/ RollbackExit(p) \/ Reap(p)
  \/ \E t \in Tids : \/ PublishWithThread(p, t) \/ CommitThread(p, t)
                     \/ CommitThreadInfallible(p, t)
  \/ \E code \in Codes : GroupExit(p, code)

CpuStep(c, p) ==
  \/ CommitExit(c, p)
  \/ \E t \in Tids :
       \/ \E unpub \in BOOLEAN : \/ PrepareThreadCharge(c, p, t, unpub)
                                 \/ PrepareThreadLink(c, p, t, unpub)
       \/ DropThread(c, p, t)
       \/ \E code \in Codes :
            \/ ExitThread(c, p, t, code)
            \/ \E withCode \in BOOLEAN : RemoveThread(c, p, t, withCode, code)

Next ==
  \/ \E p \in Procs : ProcessStep(p)
  \/ \E c \in Cpus : ReleaseThreadMember(c) \/ \E p \in Procs : CpuStep(c, p)

Spec == Init /\ [][Next]_vars

-----------------------------------------------------------------------------
TypeOK ==
  /\ state \in [Procs -> States]
  /\ reserved \subseteq Procs \X Tids
  /\ live \subseteq Procs \X Tids
  /\ departing \subseteq Procs \X Tids
  /\ memberships \in [Procs -> Nat]
  /\ live_threads \in [Procs -> Nat]
  /\ exit_code \in [Procs -> Codes \union {0}]
  /\ group_exited \in [Procs -> BOOLEAN]
  /\ exit_prepared \in [Procs -> BOOLEAN]
  /\ exitTokens \in [Procs -> Nat]
  /\ thread_memberships \in 0..Limit
  /\ preparing \subseteq Cpus \X Procs \X Tids \X BOOLEAN
  /\ releasing \subseteq Cpus

(* The counters of a ThreadGroup agree with its tree at every release of the
   tg lock: memberships counts the linked nodes, live_threads the live ones.
   The code maintains them by hand in five places and never recounts. *)
CountersAgree ==
  \A p \in Procs :
    /\ memberships[p] = Cardinality(Linked(p))
    /\ live_threads[p] = Cardinality(LiveOf(p))

(* Every unit of the domain-wide thread_memberships counter is owned by one
   node, one departing thread, or one call in progress: no path of admission,
   refused commit, exit, exit rollback or removal leaks or refunds twice. *)
ChargesConserved ==
  thread_memberships = Cardinality(reserved) + Cardinality(live)
                         + Cardinality(departing) + Cardinality(preparing)
                         + Cardinality(releasing)

(* The domain-wide bound of PROCESS_MEMBERSHIP_LIMIT: reserved plus live
   thread memberships of all processes together never exceed it. *)
ThreadsBounded ==
  Cardinality(reserved) + Cardinality(live) + Cardinality(departing) <= Limit

(* A ProcessExitAdmission is exclusive and valid while it exists: what commit
   debug-asserts (exit_prepared, no membership, no earlier zombie payload). *)
ExitTokenExclusive ==
  \A p \in Procs :
    /\ exitTokens[p] \in {0, 1}
    /\ exit_prepared[p] <=> exitTokens[p] = 1
    /\ exitTokens[p] = 1 => Linked(p) = {} /\ state[p] = "published"

(* A zombie has no thread, live or reserved, and gains none: a stale process
   Arc cannot add a thread after the zombie transition or after reap. *)
ZombieHasNoThread ==
  \A p \in Procs : state[p] \in {"zombie", "reaped"} =>
    Linked(p) = {} /\ \A t \in Tids : <<p, t>> \notin departing

(* Once a group exit linearized, its code is the process exit code for good:
   later thread exits and later group exits do not overwrite it. *)
GroupExitCodeSticky ==
  [][\A p \in Procs : group_exited[p] =>
       group_exited'[p] /\ exit_code'[p] = exit_code[p]]_vars

(* "a caller cannot strand a zero-thread, non-zombie process": with
   ProcessDomain::exit_thread alone, a process that has a live thread keeps
   one or holds the exit admission that either restores it or makes the
   process a zombie. *)
NoStranding ==
  [][\A p \in Procs \ Legacy :
       (\E t \in Tids : <<p, t>> \in live \union departing)
         => \/ \E t \in Tids : <<p, t>> \in live' \union departing'
            \/ state'[p] = "zombie"]_vars

(* The books of every thread group: the hand-kept counters match the tree, the
   domain limit bounds the threads of all processes, and a zombie or reaped
   process has no thread of any kind. *)
ThreadsInv == TypeOK /\ CountersAgree /\ ThreadsBounded /\ ZombieHasNoThread
=============================================================================
