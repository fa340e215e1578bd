------------------------------ MODULE MCPolicy ------------------------------
(***************************************************************************)
(* Small instances of the components that decide and publish: signal       *)
(* delivery, restartable sequences, seccomp, packet sockets, vfs and       *)
(* credentials.  They share no state, so one run explores them side by     *)
(* side: `part` is chosen once, and every other component rests.           *)
(* Restartable sequences are the module extended here; the slots s1 to s5  *)
(* hold the variables of another component (see its INSTANCE), and `input` *)
(* the arguments when the part is a pure function.                         *)
(***************************************************************************)
EXTENDS Rseq, Sequences, TLC

VARIABLES part, input, s1, s2, s3, s4, s5
slots == <<s1, s2, s3, s4, s5>>
mcVars == <<part, input, rvars, slots>>

Unused == "unused"

-----------------------------------------------------------------------------
(* signal: a forced signal and a lower-numbered one; nested handlers on
   an alternate stack with room for one frame or for two *)
Delivery == INSTANCE SignalDelivery WITH
  Signos <- {1, 2}, MaxGeneration <- 2, MaxRecords <- 3,
  pending <- s1, next <- s2, bypass <- s3, delivery <- s4, disposition <- s5

FrameActions ==
  {[flags |-> {"ONSTACK"}, mask |-> {}], [flags |-> {"NODEFER"}, mask |-> {2}]}
Frame == INSTANCE SignalFrame WITH
  Signos <- {1, 2}, Actions <- FrameActions, Masks <- {{}}, InitialSp <- 9001, Step <- 48,
  AltBase <- 20000, AltSizes <- {1200, 2600}, MaxDepth <- 2,
  context <- s1, blocked <- s2, stack <- s3, frames <- s4, program <- s5

-----------------------------------------------------------------------------
(* rseq: two threads; a gate whose restart is taken and one that faults *)
Descriptor(a, start, length, abort, flags) ==
  [address |-> a, version |-> 0, start_ip |-> start, post_commit_offset |-> length, abort_ip |-> abort, flags |-> flags]
Gate(d) ==
  [area |-> [rseq_cs |-> 1, flags |-> 0], descriptor |-> d, ip |-> 2, signature |-> "s", abort_signature |-> "s"]

RseqGates == {Gate(Descriptor(1, 2, 2, 5, 0)), Gate(NoDescriptor)}

Numbers == 0..6
RestartInputs ==
  {[op |-> "restart", area |-> [rseq_cs |-> 1, flags |-> f], descriptor |-> Descriptor(1, start, length, abort, g),
    ip |-> ip, events |-> e, abort_signature |-> s] :
     f \in {0, 1}, start \in Numbers, length \in Numbers, abort \in Numbers, g \in {0, 1},
     ip \in Numbers, e \in {{}, {"signal"}}, s \in {"s", "t"}}
CpuIds == {"0", "1", "u32::MAX", "u32::MAX - 1"}
CpuInputs == [op : {"cpu"}, area : [cpu_id_start : CpuIds, cpu_id : CpuIds], expected : CpuIds]

-----------------------------------------------------------------------------
(* seccomp: two threads, three filter nodes, a budget that two may race for *)
Seccomp == INSTANCE Seccomp WITH
  Tasks <- {1, 2}, First <- 1, Nodes <- {"n1", "n2", "n3"},
  Programs <- [a |-> [charge |-> 1, bytes |-> 1], b |-> [charge |-> 2, bytes |-> 2]],
  MaxPath <- 5, Penalty <- 1, LimitBytes <- 4, MaxInsns <- 2, Errnos <- 2,
  tasks <- s1, nodes <- s2, used <- s3, ops <- s4, releases <- s5

Results == [bits : {-32768, 0, 1, 5, 32767}, data : {0, 3}]
Instruction == [code : {"LD_W_ABS", "DIV_X", "RET_K", "JMP_K", "JSET_X", "BAD"}, k : {-1, 0, 2, 60, 64}, jt : {0}, jf : {0, 1}]
Word(i) == [low |-> 2 * i, high |-> 2 * i + 1]
CallData == [number |-> 100, architecture |-> 101, instruction_pointer |-> Word(0), arguments |-> [i \in 1..6 |-> Word(i)]]
Upto(S, n) == UNION {[1..k -> S] : k \in 0..n}
FilterInputs ==
  [op : {"evaluate"}, results : Upto(Results, 3)]
  \cup [op : {"program"}, program : Upto(Instruction, 2) \cup {[i \in 1..3 |-> [code |-> "RET_K", k |-> 0, jt |-> 0, jf |-> 0]]}]

-----------------------------------------------------------------------------
(* packet: two callers bind one socket to two interfaces *)
Packet == INSTANCE Packet WITH
  Base <- 2, EthAll <- 3, Callers <- {1, 2}, RawInterfaces <- -1..2, RawProtocols <- 0..3,
  MaxGeneration <- 3, AddressLength <- 2,
  socket <- s1, plans <- s2, rebinds <- s3

ReceiveInputs ==
  [op : {"receive"}, frame : 0..4, network : 0..4, type : {"Raw", "Datagram"}, captured : 0..4, buffer : 0..5,
   flags : SUBSET {"PEEK", "TRUNC"}]

-----------------------------------------------------------------------------
(* vfs: the owner of a set-id file, a member of another group, a privileged
   caller; the walk under each restriction *)
Cred(user, group, capabilities) == [user |-> user, group |-> group, groups |-> {}, capabilities |-> capabilities]
Mode(special, u, g, o) == [special |-> special, u |-> u, g |-> g, o |-> o]
Node(mode, user, group, kind, mapped) ==
  [mode |-> mode, user |-> user, group |-> group, kind |-> kind, ids_mapped |-> mapped]
RWX == {"r", "w", "x"}

Setattr == INSTANCE VfsSetattr WITH
  Callers <- <<Cred("ann", "g", {}), Cred("root", "h", {"Chown", "Fowner", "Fsetid", "Override"})>>,
  Nodes <- {Node(Mode({"suid", "sgid"}, RWX, RWX, {}), "ann", "g", "Regular", TRUE),
            Node(Mode({"sgid"}, RWX, {"r"}, {}), "ann", "h", "Regular", TRUE)},
  Modes <- {Mode({"suid", "sgid"}, RWX, {"x"}, {})}, Users <- {"root"}, Groups <- {"h"}, MaxGeneration <- 3,
  node <- s1, generation <- s2, reservations <- s3, calls <- s4, tampered <- s5

Grants == {{}, {"r"}, {"x"}, {"r", "w"}, RWX}
DacInputs ==
  {[op |-> "dac", node |-> Node(Mode({}, u, g, o), "ann", "g", kind, mapped), cred |-> Cred(user, group, caps)] :
     u \in Grants, g \in Grants, o \in Grants, kind \in {"Regular", "Directory"}, mapped \in BOOLEAN,
     user \in {"ann", "bob"}, group \in {"g", "h"}, caps \in SUBSET {"Override", "ReadSearch"}}
CreateInputs ==
  {[op |-> "create", parent |-> Node(Mode(special, RWX, RWX, RWX), "ann", "g", "Directory", mapped), kind |-> kind,
    requested |-> Mode(bits, RWX, x, {"x"}), umask |-> Mode({}, {}, m, RWX), cred |-> Cred("bob", group, caps)] :
     special \in {{}, {"sgid"}}, mapped \in BOOLEAN, kind \in {"Regular", "Directory"},
     bits \in SUBSET {"suid", "sgid"}, x \in Grants, m \in Grants, group \in {"g", "h"}, caps \in {{}, {"Fsetid"}}}

NamingInputs ==
  {[op |-> "naming", directory |-> Node(Mode(special, RWX, RWX, o), "ann", "g", "Directory", mapped),
    target |-> Node(Mode(bits, RWX, g, o), user, "g", kind, mapped), cred |-> Cred("bob", group, caps)] :
     special \in {{}, {"sticky"}}, o \in Grants, mapped \in BOOLEAN, bits \in SUBSET {"suid", "sgid"}, g \in Grants,
     user \in {"ann", "bob"}, kind \in {"Regular", "Other"}, group \in {"g", "h"}, caps \in SUBSET {"Fowner", "Override"}}

Walk == INSTANCE VfsWalk WITH
  FlagSets <- {f \in SUBSET {"NO_XDEV", "NO_MAGIC_LINKS", "NO_SYMLINKS", "BENEATH", "IN_ROOT", "CACHED"} :
                 f = {} \/ "NO_XDEV" \notin f \/ "CACHED" \notin f},
  Limits <- [max_path_bytes |-> 3, max_component_bytes |-> 2, max_components |-> 2, max_symlinks |-> 2,
             max_restarts |-> 1, max_mount_crossings |-> 1, max_retries |-> 1],
  Bytes <- {1, 2, 3},
  flags <- s1, at <- s2, budget <- s3, ended <- s4

-----------------------------------------------------------------------------
(* cred: a user namespace below the initial one *)
Owner(uid, gid) == [uid |-> uid, gid |-> gid]
Transition == INSTANCE CredTransition WITH
  Uids <- {0, 1}, Gids <- {0, 1}, Caps <- {"SETUID", "SETPCAP", "CHOWN"}, FsCaps <- {"CHOWN"}, Named <- {"SETUID"},
  Namespaces <- [init |-> [parent |-> "init", level |-> 0, owner |-> 0, root |-> 0, uids |-> {0, 1}, gids |-> {0, 1}],
                 child |-> [parent |-> "init", level |-> 1, owner |-> 1, root |-> 1, uids |-> {1}, gids |-> {1}]],
  Root <- "init",
  IdRequests <- {[kind |-> "Set", id |-> 1], [kind |-> "Res", r |-> 1, e |-> 1, s |-> -1],
                 [kind |-> "Re", r |-> -1, e |-> 0], [kind |-> "Fs", id |-> 1]},
  GroupRequests <- {[kind |-> "Set", id |-> 0]},
  CapRequests <- {[effective |-> {"SETUID"}, permitted |-> {"SETUID"}, inheritable |-> {"SETUID"}]},
  BitRequests <- {{"KEEP_CAPS", "KEEP_CAPS_LOCKED"}},
  Files <- {[suid |-> TRUE, sgid |-> TRUE, owner |-> Owner(0, 1), honored |-> TRUE, fcap |-> [absent |-> TRUE], readable |-> TRUE],
            [suid |-> FALSE, sgid |-> FALSE, owner |-> Owner(0, 0), honored |-> TRUE, readable |-> TRUE,
             fcap |-> [permitted |-> {"SETUID"}, inheritable |-> {}, effective |-> TRUE, rootid |-> 0]]},
  task <- s1, image <- s2, pending <- s3, traced <- s4

Row(first, lower, count) == [first |-> first, lower_first |-> lower, count |-> count]
IdMap == INSTANCE CredNamespace WITH
  InvalidId <- 5, MaxExtents <- 2, Writers <- {}, Owners <- {}, MaxParentLevel <- 0, MaxSpaces <- 0,
  Inputs <- {}, spaces <- s1, writes <- s2
Rows == [first : 0..3, lower_first : 0..4, count : 0..3]
FewRows == [first : {0, 2}, lower_first : {0, 1, 3}, count : {1, 2}]
ParentMaps == {IdMap!Identity, IdMap!EmptyMap, IdMap!TryFromParent(<<Row(2, 0, 2), Row(0, 2, 2)>>, IdMap!Identity)}
MapInputs == [op : {"map"}, rows : Upto(Rows, 2) \cup [1..3 -> FewRows], parent : ParentMaps]

Spaces == INSTANCE CredNamespace WITH
  InvalidId <- 2, MaxExtents <- 2, Writers <- {1}, Owners <- {1}, MaxParentLevel <- 1, MaxSpaces <- 3,
  Inputs <- {<<Row(1, 0, 1), Row(0, 1, 1)>>, <<Row(0, 0, 1)>>},
  spaces <- s1, writes <- s2

(* Of the task: its user, a stranger, its user with CAP_SYS_NICE in a namespace
   below, the creator of its namespace, and an administrator *)
Subject(ns, euid, ruid, effective, permitted) ==
  [ns |-> ns, euid |-> euid, ruid |-> ruid, suid |-> ruid, effective |-> effective, permitted |-> permitted]
Authority == INSTANCE CredAuthority WITH
  Namespaces <- [init |-> [parent |-> "init", level |-> 0, owner |-> 0],
                 child |-> [parent |-> "init", level |-> 1, owner |-> 1],
                 leaf |-> [parent |-> "child", level |-> 2, owner |-> 0]],
  Root <- "init", Target <- Subject("child", 1, 1, {}, {}),
  Actors <- [owner |-> Subject("child", 1, 1, {}, {}), stranger |-> Subject("child", 2, 2, {}, {}),
             insider |-> Subject("leaf", 1, 1, {"SYS_NICE"}, {"SYS_NICE"}),
             creator |-> Subject("init", 1, 1, {}, {}),
             admin |-> Subject("init", 0, 0, {"SYS_NICE"}, {"SYS_NICE"})],
  OwnNiceLimit <- [owner |-> 20, stranger |-> 40, insider |-> 0, creator |-> 25, admin |-> 0],
  Start <- [policy |-> "other", rt |-> 0, nice |-> 0, reset |-> TRUE],
  RtLimit <- 2, NiceLimit <- 22, Unlimited <- 99, Priorities <- 1..4, Nices <- {-5, -2, 0, 3},
  sched <- s1, granted <- s2

Powers == {"KILL", "SYS_PTRACE"}
Subjects == {Subject(ns, e, r, x, x \cup y) : ns \in {"init", "child", "leaf"}, e \in {0, 1}, r \in {0, 1},
                                              x \in SUBSET Powers, y \in {{}, Powers}}
AuthorityInputs ==
  [op : {"authority"}, actor : Subjects, other : {s \in Subjects : s.ruid = s.euid}, target : {"init", "child", "leaf"}]

-----------------------------------------------------------------------------
IsInput ==
  \/ input \in RestartInputs \/ input \in CpuInputs \/ input \in FilterInputs \/ input \in ReceiveInputs
  \/ input \in DacInputs \/ input \in CreateInputs \/ input \in NamingInputs \/ input \in MapInputs \/ input \in AuthorityInputs

Rest2 == s3 = Unused /\ s4 = Unused /\ s5 = Unused
Rest3 == s4 = Unused /\ s5 = Unused

MCInit ==
  /\ Init
  /\ \/ part = "input" /\ IsInput /\ s1 = Unused /\ s2 = Unused /\ Rest2
     \/ /\ input = Unused
        /\ \/ part = "rseq" /\ s1 = Unused /\ s2 = Unused /\ Rest2
           \/ part = "delivery" /\ Delivery!Init
           \/ part = "frame" /\ Frame!Init
           \/ part = "seccomp" /\ Seccomp!Init
           \/ part = "packet" /\ Packet!PacketInit /\ Rest3
           \/ part = "setattr" /\ Setattr!Init
           \/ part = "walk" /\ Walk!Init /\ s5 = Unused
           \/ part = "cred" /\ Transition!Init /\ s5 = Unused
           \/ part = "spaces" /\ Spaces!Init /\ Rest2
           \/ part = "sched" /\ Authority!Init /\ Rest2

MCNext ==
  /\ UNCHANGED <<part, input>>
  /\ \/ part = "rseq" /\ Next /\ UNCHANGED slots
     \/ /\ UNCHANGED rvars
        /\ \/ part = "delivery" /\ Delivery!Next
           \/ part = "frame" /\ Frame!Next
           \/ part = "seccomp" /\ Seccomp!Next
           \/ part = "packet" /\ Packet!PacketNext /\ UNCHANGED <<s4, s5>>
           \/ part = "setattr" /\ Setattr!Next
           \/ part = "walk" /\ Walk!Next /\ UNCHANGED s5
           \/ part = "cred" /\ Transition!Next /\ UNCHANGED s5
           \/ part = "spaces" /\ Spaces!Next /\ UNCHANGED <<s3, s4, s5>>
           \/ part = "sched" /\ Authority!Next /\ UNCHANGED <<s3, s4, s5>>

MCSpec == MCInit /\ [][MCNext]_mcVars

-----------------------------------------------------------------------------
(* No sequence of allowed steps leads out of bounds: a forced signal's bypass
   serves its own record only, handler frames keep off each other and give the
   mask and the alternate stack back, filter nodes are freed with their last
   reference and their bytes returned, a setattr transaction gives its
   reservation back on every path, a walk stays in its scope and budgets, a
   namespace maps only what its parents map, scheduler calls stay within limits
   and grants, a packet socket taps only what it is bound to, a credential
   keeps its capability order. *)
Confined ==
  /\ part = "delivery" => Delivery!DeliverySound
  /\ part = "frame" => Frame!FramesApart /\ Frame!HandlersUndone
  /\ part = "seccomp" => Seccomp!RefsExact /\ Seccomp!BudgetExact
  /\ part = "setattr" => Setattr!ReservationsSettled
  /\ part = "walk" => Walk!WalkConfined
  /\ part = "spaces" => Spaces!SpacesConfined
  /\ part = "sched" => Authority!SchedulerBounded
  /\ part = "packet" => Packet!DeliveryExact
  /\ part = "cred" => Transition!CredentialSound

(* The pure decisions equal their definitions on every small input. *)
DecisionsExact ==
  part = "input" =>
    CASE input.op = "restart" -> RestartExact(input.area, input.descriptor, input.ip, input.events, "s", input.abort_signature)
      [] input.op = "cpu" -> CpuExact(input.area, input.expected)
      [] input.op = "evaluate" -> Seccomp!EvaluateExact(input.results)
      [] input.op = "program" -> Seccomp!ViewsAgree(CallData, input.program)
      [] input.op = "receive" -> Packet!ReceiveExact(input.frame, input.network, input.type, input.captured, input.buffer, input.flags)
      [] input.op = "dac" -> Setattr!DacExact(input.node, input.cred)
      [] input.op = "create" -> Setattr!CreateExact(input.parent, input.kind, input.requested, input.umask, input.cred)
      [] input.op = "naming" -> Setattr!NamingExact(input.directory, input.target, input.cred)
      [] input.op = "map" -> IdMap!IdMapExact(input.rows, input.parent)
      [] input.op = "authority" -> Authority!AuthorityExact(input.actor, input.other, input.target, "KILL")

(* What was prepared from an old state never undoes a newer one: a bind, a
   filter installation, a chown or a map is published on the state it was
   prepared from or with its effect intact. *)
NothingUndone ==
  [][ /\ part = "seccomp" => Seccomp!FiltersOnlyGrow
      /\ part = "packet" => Packet!BindNotLost
      /\ part = "setattr" => Setattr!SetIdDropped
      /\ part = "walk" => Walk!WalkSpends
      /\ part = "spaces" => Spaces!MapsFinal ]_mcVars

(* A task gains capabilities or identities only by the rules that grant them,
   whatever calls, tracer and exec come between preparation and publication. *)
PrivilegeEarned == [][part = "cred" => Transition!PrivilegeEarned]_mcVars
=============================================================================
