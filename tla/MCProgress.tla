----------------------------- MODULE MCProgress -----------------------------
(***************************************************************************)
(* What must eventually happen, on small instances of four components.     *)
(* They share no state, so one run explores them side by side: `part` is   *)
(* chosen once, and the variables of the other components stay Unused.     *)
(*   "exit"    every tree of four processes, two of which exit             *)
(*   "close"   an io_uring instance with two slots that is closed          *)
(*   "retire"  a registered-file table that is unregistered                *)
(*   "queue"   an epoll instance with two sources and one waiter          *)
(***************************************************************************)
EXTENDS Integers, TLC

CONSTANTS s0, s1, Nobody, o1, l1, l2, NoOwner, k1, k2, w1, NoWaiter

VARIABLES part,
  status, parent, scope, isInit, subreaper, hasThread, exit_prepared, scopeInit,
  outer, topo, ex, told, panicked, toggles,
  entries, generation, free_slots, next_sequence, lifecycle, cq_head, cq_tail,
  terminal_credits, publication_in_flight, cqes, tokens, unread,
  owner, slot_leases, retire_cursor, leases, held, retirable, retired,
  ready, next_generation, rescan, waiters, level, callbacks, unseen, reported

Exit == INSTANCE ProcessReparent WITH
  N <- 4, Scopes <- {s0, s1}, RootScope <- s0, Batch <- 2, Booted <- 1..4,
  Subreapers <- {2}, Exiters <- {2, 3}, MaxToggles <- 0

Close == INSTANCE IoUringRequest WITH
  Capacity <- 2, CqEntries <- 2, Modulus <- 4, MaxGeneration <- 1, MaxSequence <- 2,
  UserData <- {7}, Causes <- {"Completed", "Closing"}

Retire == INSTANCE IoUringTables WITH
  Capacity <- 2, Owners <- {o1}, LeaseCapacity <- 2, LeaseIds <- {l1, l2},
  MaxAddress <- 0, ranges <- {}, leaseRange <- {}

Queue == INSTANCE FdEpoll WITH
  Capacity <- 2, Keys <- {k1, k2}, Bits <- {"in"}, Unconditional <- {}, Masks <- {{"in"}},
  Modes <- {[edge |-> FALSE, one_shot |-> FALSE]}, Waiters <- {w1}, MaxGeneration <- 3

exitOnly == <<status, parent, scope, isInit, subreaper, hasThread, exit_prepared,
              scopeInit, outer, topo, ex, told, panicked, toggles>>
ringOnly == <<free_slots, next_sequence, cq_head, cq_tail, terminal_credits,
              publication_in_flight, cqes, tokens, unread>>
filesOnly == <<owner, slot_leases, retire_cursor, leases, held, retirable, retired>>
queueOnly == <<ready, next_generation, rescan, waiters, level, callbacks, unseen, reported>>
vars == <<part, entries, generation, lifecycle, exitOnly, ringOnly, filesOnly, queueOnly>>

Unused == "unused"
ExitUnused ==
  /\ status = Unused /\ parent = Unused /\ scope = Unused /\ isInit = Unused
  /\ subreaper = Unused /\ hasThread = Unused /\ exit_prepared = Unused
  /\ scopeInit = Unused /\ outer = Unused /\ topo = Unused /\ ex = Unused
  /\ told = Unused /\ panicked = Unused /\ toggles = Unused
RingUnused ==
  /\ free_slots = Unused /\ next_sequence = Unused /\ cq_head = Unused
  /\ cq_tail = Unused /\ terminal_credits = Unused /\ publication_in_flight = Unused
  /\ cqes = Unused /\ tokens = Unused /\ unread = Unused
FilesUnused ==
  /\ owner = Unused /\ slot_leases = Unused /\ retire_cursor = Unused /\ leases = Unused
  /\ held = Unused /\ retirable = Unused /\ retired = Unused
QueueUnused ==
  /\ ready = Unused /\ next_generation = Unused /\ rescan = Unused /\ waiters = Unused
  /\ level = Unused /\ callbacks = Unused /\ unseen = Unused /\ reported = Unused

Init ==
  \/ /\ part = "exit" /\ Exit!ReparentInit /\ RingUnused /\ FilesUnused /\ QueueUnused
     /\ entries = Unused /\ generation = Unused /\ lifecycle = Unused
  \/ part = "close" /\ Close!Init /\ ExitUnused /\ FilesUnused /\ QueueUnused
  \/ /\ part = "retire" /\ Retire!TableInit /\ ExitUnused /\ RingUnused /\ QueueUnused
     /\ entries = Unused
  \/ /\ part = "queue" /\ Queue!Init /\ ExitUnused /\ RingUnused /\ FilesUnused
     /\ generation = Unused /\ lifecycle = Unused

(* A step of one component leaves everything else alone. *)
InExit(A) ==
  /\ part = "exit" /\ A
  /\ UNCHANGED <<part, entries, generation, lifecycle, ringOnly, filesOnly, queueOnly>>
InClose(A) == part = "close" /\ A /\ UNCHANGED <<part, exitOnly, filesOnly, queueOnly>>
InRetire(A) ==
  part = "retire" /\ A /\ UNCHANGED <<part, entries, exitOnly, ringOnly, queueOnly>>
InQueue(A) ==
  part = "queue" /\ A /\ UNCHANGED <<part, generation, lifecycle, exitOnly, ringOnly, filesOnly>>

Next ==
  \/ InExit(Exit!ReparentNext)
  \/ InClose(Close!Next)
  \/ InRetire(Retire!Next)
  \/ InQueue(Queue!Next)

(* A committing exit runs on its CPU until it returns; the topology spin lock
   does not starve a waiter. *)
ExitFairness == \A p \in {2, 3} : SF_vars(InExit(Exit!ExitStep(p)))

(* The adapter closes the ring, every token holder and executor goes on, a
   publication is not rolled back for ever, and the drain is retried. *)
CloseFairness ==
  /\ WF_vars(InClose(Close!BeginClose)) /\ WF_vars(InClose(Close!BeginDraining))
  /\ WF_vars(InClose(Close!DiscardPublished)) /\ WF_vars(InClose(Close!FinishClose))
  /\ \A s \in {0, 1} :
       LET id == [slot |-> s, generation |-> 1] IN
       /\ WF_vars(InClose(\E t \in tokens : t.id = id /\ Close!Advance(t)))
       /\ WF_vars(InClose(Close!ClaimTerminal(id, "Completed")))
       /\ WF_vars(InClose(\E t \in tokens : t.id = id /\ Close!Settle(t)))
       /\ SF_vars(InClose(\E t \in tokens : t.id = id /\ Close!CommitPublication(t)))

(* The unregistering caller runs its pass to the end and retries finish_retire;
   every request ends and releases its lease. *)
RetireFairness ==
  /\ WF_vars(InRetire(Retire!NextRetirable)) /\ WF_vars(InRetire(Retire!FinishRetire))
  /\ \A s \in {0, 1}, g \in {1, 2} :
       LET t == [slot |-> s, generation |-> g] IN
       WF_vars(InRetire(t \in retirable /\ Retire!Retire(t)))
  /\ \A l \in {l1, l2} : WF_vars(InRetire(Retire!Release(l)))

(* The thread in epoll_wait keeps waiting, and its copyout ends. *)
QueueFairness == WF_vars(InQueue(Queue!WaiterStep(w1)))

Spec ==
  Init /\ [][Next]_vars /\ ExitFairness /\ CloseFairness /\ RetireFairness /\ QueueFairness

-----------------------------------------------------------------------------
(* commit_with_reparent_handoff returns: each topology section moves at least
   the child the previous one deferred, whatever forks and other exits do. *)
ExitTerminates ==
  \A p \in {2, 3} :
    (part = "exit" /\ Exit!Exiting(p)) ~> (part = "exit" /\ ex[p].pc = "done")

(* A ring that starts closing reaches Closed. *)
CloseCompletes ==
  (part = "close" /\ lifecycle = "Closing") ~> (part = "close" /\ lifecycle = "Closed")

(* A file table that starts retiring reaches Closed, whether a slot is retired
   by the pass or by its last lease. *)
RetireCompletes ==
  (part = "retire" /\ lifecycle = "Retiring") ~> (part = "retire" /\ lifecycle = "Closed")

(* Every queued interest leaves the ready queue, although the other source
   becomes ready again and again. *)
QueueServed ==
  \A s \in {0, 1}, g \in {1, 2} :
    LET queued == part = "queue" /\ Queue!Queued([slot |-> s, generation |-> g]) IN
    queued ~> ~queued
=============================================================================
