-------------------------------- MODULE MCFd --------------------------------
(***************************************************************************)
(* Small instances of the descriptor table, the epoll topology, the        *)
(* subscriptions, an epoll instance's interests and a file offset.  They   *)
(* share no state, so one run explores them side by side: `part` is chosen *)
(* once.  The descriptor table, which this module extends, moves in part   *)
(* "table" and stays in its initial state in the others; their variables   *)
(* are in the slots x1 to x9 (see each INSTANCE).                          *)
(*   "table"  one two-slot table                                           *)
(*   "fork"   a one-slot table and its copy                                *)
(*   "graph"  three epoll instances, nesting limit two, one parent each    *)
(*   "deep"   three epoll instances, nesting limit three, two parents each *)
(*   "watch"  three owners of one watch account                            *)
(*   "two"    an epoll with two sources and two waiters, level-triggered   *)
(*   "bits"   an epoll with one source that has a requested and an         *)
(*            unconditional bit, edge-triggered or one-shot                *)
(*   "offset" two tasks on the shared offset of one open file description  *)
(***************************************************************************)
EXTENDS FdTable, TLC

CONSTANTS CopyTable, e1, e2, e3, Leaf, o1, o2, o3, w1, w2, NoWaiter

VARIABLES part, x1, x2, x3, x4, x5, x6, x7, x8, x9

Fork == INSTANCE FdTable WITH
  Tables <- {FirstTable, CopyTable}, Flags <- {TRUE}, Capacity <- 1, BatchLimits <- {},
  tables <- x1, next_generation <- x2, slots <- x3, reservations <- x4,
  publications <- x5, observed <- x6, detach <- x7

Graph == INSTANCE FdEpollGraph WITH
  Epolls <- {e1, e2, e3}, NodeCapacity <- 3, EdgeCapacity <- 4, MaxNesting <- 2,
  MaxParents <- 1, MaxWalkSteps <- 18, MaxGeneration <- 7,
  registered <- x1, next_generation <- x2, edges <- x3, stale <- x4

Deep == INSTANCE FdEpollGraph WITH
  Epolls <- {e1, e2, e3}, NodeCapacity <- 3, EdgeCapacity <- 3, MaxNesting <- 3,
  MaxParents <- 2, MaxWalkSteps <- 24, MaxGeneration <- 6,
  registered <- x1, next_generation <- x2, edges <- x3, stale <- x4

Watch == INSTANCE FdSubscription WITH
  Owners <- {o1, o2, o3}, Limit <- 3, MaxSources <- 2,
  used <- x1, owner <- x2, amount <- x3, live <- x4

Level == [edge |-> FALSE, one_shot |-> FALSE]
OneShot == [edge |-> FALSE, one_shot |-> TRUE]
Edge == [edge |-> TRUE, one_shot |-> FALSE]

Two == INSTANCE FdEpoll WITH
  Capacity <- 2, Keys <- Descriptions, Bits <- {"in"}, Unconditional <- {}, Masks <- {{"in"}},
  Modes <- {Level}, Waiters <- {w1, w2}, MaxGeneration <- 3,
  entries <- x1, next_generation <- x2, ready <- x3, rescan <- x4, waiters <- x5, level <- x6,
  callbacks <- x7, unseen <- x8, reported <- x9

Pair == INSTANCE FdEpoll WITH
  Capacity <- 1, Keys <- {o1}, Bits <- {"in", "err"}, Unconditional <- {"err"},
  Masks <- {{"in"}}, Modes <- {Edge, OneShot}, Waiters <- {w1}, MaxGeneration <- 3,
  entries <- x1, next_generation <- x2, ready <- x3, rescan <- x4, waiters <- x5, level <- x6,
  callbacks <- x7, unseen <- x8, reported <- x9

Ofd == INSTANCE FdOffset WITH
  Tasks <- {w1, w2}, MaxOffset <- 4, Lengths <- {0, 1, 2},
  offset <- x1, io <- x2, segments <- x3

upper == <<x5, x6, x7, x8, x9>>
mcVars == <<part, vars, x1, x2, x3, x4, upper>>

Unused == "unused"
UpperUnused == x5 = Unused /\ x6 = Unused /\ x7 = Unused /\ x8 = Unused /\ x9 = Unused

MCInit ==
  /\ Init
  /\ \/ /\ part = "table" /\ UpperUnused
        /\ x1 = Unused /\ x2 = Unused /\ x3 = Unused /\ x4 = Unused
     \/ part = "fork" /\ Fork!Init /\ x8 = Unused /\ x9 = Unused
     \/ part = "graph" /\ Graph!Init /\ UpperUnused
     \/ part = "deep" /\ Deep!Init /\ UpperUnused
     \/ part = "watch" /\ Watch!Init /\ UpperUnused
     \/ part = "two" /\ Two!Init
     \/ part = "bits" /\ Pair!Init
     \/ part = "offset" /\ Ofd!Init /\ x4 = Unused /\ UpperUnused

MCNext ==
  /\ UNCHANGED part
  /\ \/ part = "table" /\ Next /\ UNCHANGED <<x1, x2, x3, x4, upper>>
     \/ /\ UNCHANGED vars
        /\ \/ part = "fork" /\ Fork!Next /\ UNCHANGED <<x8, x9>>
           \/ part = "graph" /\ Graph!Next /\ UNCHANGED upper
           \/ part = "deep" /\ Deep!Next /\ UNCHANGED upper
           \/ part = "watch" /\ Watch!Next /\ UNCHANGED upper
           \/ part = "two" /\ Two!Next
           \/ part = "bits" /\ Pair!Next
           \/ part = "offset" /\ Ofd!Next /\ UNCHANGED <<x4, upper>>

MCSpec == MCInit /\ [][MCNext]_mcVars
Symmetry == Permutations(Descriptions) \union Permutations({w1, w2})

-----------------------------------------------------------------------------
(* The books of the table's copies, the epoll graph, the watch accounts and
   an epoll instance: generations issued once, tokens honoured in a copy that
   counts its generations from one, parents and nesting within their limits,
   edges attached at both ends, removed edges out of reach of their old tokens,
   live sources paid for, watch accounts equal to the charges outstanding, a
   ready queue that holds each queued interest once and no other and that never
   overflows (rescan_ready never has work), and a shared file offset that counts
   the I/O of every task once.  And the budgeted walks of add_interest decide
   what the definitions of cycle, nesting and parent count say, or give up with
   WalkLimit. *)
FdInv ==
  /\ TypeOK /\ GenerationsUnique
  /\ part = "fork" => Fork!TypeOK /\ Fork!TokensHonoured
  /\ part = "graph" => /\ Graph!TypeOK /\ Graph!NestingBounded /\ Graph!ParentsBounded
                       /\ Graph!EdgesAttached /\ Graph!StaleTokenRefused
  /\ part = "deep" => Deep!VerdictExact
  /\ part = "watch" => Watch!TypeOK /\ Watch!SourcesPaid /\ Watch!CreditsExact
  /\ part = "two" => Two!TypeOK /\ Two!QueueExact /\ Two!RescanNeverNeeded
  /\ part = "offset" => Ofd!OffsetSequential

(* An event in userspace's hands belongs to one waiter and one interest, and a
   one-shot interest is reported at most once per arming. *)
DeliveryOwned ==
  /\ part = "two" => Two!DeliveryOwned
  /\ part = "bits" => Pair!OneShotOnce

(* Readiness is never lost: a level-triggered interest whose source is ready,
   and an edge-triggered one whose source rose, is queued, in delivery, or has a
   callback on its way; recorded readiness of an armed interest is scheduled. *)
ReadinessNotLost ==
  /\ part = "two" => Two!LevelNotLost
  /\ part = "bits" => Pair!RiseNotLost /\ Pair!ReadinessScheduled
=============================================================================
