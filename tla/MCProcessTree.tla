---------------------------- MODULE MCProcessTree ----------------------------
(***************************************************************************)
(* Small instances of ProcessJobControl, ProcessReparent and               *)
(* ProcessCursor.  They share no state, so one run explores them side by   *)
(* side: `part` is chosen once, and job control and the process tree,      *)
(* which this module extends, rest in an initial state while another part  *)
(* moves.  The slots x1 to x14 hold the variables of the other parts.      *)
(*   "jobs"  process groups and sessions                                   *)
(*   "tree"  every tree of four processes that has 3 below the subreaper 2  *)
(*   "fork"  init alone, with forks racing the exits                       *)
(*   "walk"  cursors over four processes, two of which share an id         *)
(*   "tids"  the same over four threads, with final exits and rollbacks    *)
(***************************************************************************)
EXTENDS ProcessJobControl, ProcessReparent, TLC

CONSTANTS s0, s1

VARIABLES part, x1, x2, x3, x4, x5, x6, x7, x8, x9, x10, x11, x12, x13, x14

Fork == INSTANCE ProcessReparent WITH
  N <- 3, Batch <- 2, Booted <- {1}, Subreapers <- {}, Exiters <- {2, 3}, MaxToggles <- 1,
  status <- x1, parent <- x2, scope <- x3, isInit <- x4, subreaper <- x5, hasThread <- x6,
  exit_prepared <- x7, scopeInit <- x8, outer <- x9, topo <- x10, ex <- x11, told <- x12,
  panicked <- x13, toggles <- x14

Walk == INSTANCE ProcessCursor WITH Tree <- "processes",
  Nodes <- {"a", "b", "c", "d"}, IdOf <- [a |-> 1, b |-> 2, c |-> 2, d |-> 3], Limit <- 3,
  nodes <- x1, walk <- x2, throughout <- x3, entered <- x4

Tids == INSTANCE ProcessCursor WITH Tree <- "threads",
  Nodes <- {"a", "b", "c", "d"}, IdOf <- [a |-> 1, b |-> 2, c |-> 2, d |-> 3], Limit <- 3,
  nodes <- x1, walk <- x2, throughout <- x3, entered <- x4

upper == <<x5, x6, x7, x8, x9, x10, x11, x12, x13, x14>>
slots == <<x1, x2, x3, x4, upper>>
mcVars == <<part, vars, reparentVars, slots>>

Unused == "unused"
UpperUnused ==
  /\ x5 = Unused /\ x6 = Unused /\ x7 = Unused /\ x8 = Unused /\ x9 = Unused
  /\ x10 = Unused /\ x11 = Unused /\ x12 = Unused /\ x13 = Unused /\ x14 = Unused
SlotsUnused == x1 = Unused /\ x2 = Unused /\ x3 = Unused /\ x4 = Unused /\ UpperUnused

TreeAtRest ==
  ReparentInit /\ scope = [p \in Pids |-> RootScope] /\ \A p \in Pids \ {1} : parent[p] = 1

MCInit ==
  /\ Init
  /\ \/ part = "jobs" /\ TreeAtRest /\ SlotsUnused
     \/ part = "tree" /\ ReparentInit /\ parent[3] = 2 /\ SlotsUnused
     \/ part = "fork" /\ TreeAtRest /\ Fork!ReparentInit
     \/ part = "walk" /\ TreeAtRest /\ Walk!Init /\ UpperUnused
     \/ part = "tids" /\ TreeAtRest /\ Tids!Init /\ UpperUnused

MCNext ==
  /\ UNCHANGED part
  /\ \/ part = "jobs" /\ Next /\ UNCHANGED <<reparentVars, slots>>
     \/ part = "tree" /\ ReparentNext /\ UNCHANGED <<vars, slots>>
     \/ part = "fork" /\ Fork!ReparentNext /\ UNCHANGED <<vars, reparentVars>>
     \/ part = "walk" /\ Walk!Next /\ UNCHANGED <<vars, reparentVars, upper>>
     \/ part = "tids" /\ Tids!Next /\ UNCHANGED <<vars, reparentVars, upper>>

MCSpec == MCInit /\ [][MCNext]_mcVars
Symmetry == Permutations(Cpus)

-----------------------------------------------------------------------------
(* Walks over the registry and over the threads of a process (Processes,
   ThreadIds, try_collect_process_values) yield increasing ids, miss no more
   than was linked meanwhile and never run out of room for a snapshot; the walk
   of exit reparenting misses nothing; and the tree stays sound while forks,
   also those of scope inits, race the exits. *)
WalkBounded ==
  /\ part = "walk" => Walk!TypeOK /\ Walk!YieldsInOrder /\ Walk!LossBounded /\ Walk!SnapshotFits
  /\ part = "tids" => Tids!TypeOK /\ Tids!YieldsInOrder /\ Tids!LossBounded /\ Tids!SnapshotFits
  /\ part = "tree" => ReparentTypeOK
  /\ part = "fork" => Fork!ReparentTypeOK /\ Fork!TreeSound /\ Fork!ZombieKnownToParent

(* "Visits every live thread ID without allocating.", "Fallibly snapshots every
   published process in PID order.": the budgeted walks miss nothing either. *)
WalkComplete ==
  /\ part = "walk" => Walk!WalkComplete
  /\ part = "tids" => Tids!WalkComplete
=============================================================================
