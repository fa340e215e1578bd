------------------------------ MODULE MCSignal ------------------------------
(***************************************************************************)
(* Small instances of the signal components, explored side by side: `part` *)
(* is chosen once, and every other component rests in its initial state or *)
(* has its variables Unused.                                               *)
(*   "actions"   two managers and two deliveries                           *)
(*   "queue"     a thread's queue: one consumer                            *)
(*   "shared"    the process queue: two consumers                          *)
(*   "endpoint"  one thread registered twice, one sender                   *)
(*   "senders"   one thread registered once, two senders                   *)
(*   "registry"  two threads and two tids, no sender                       *)
(* The dispositions and the endpoint are the modules extended here; the    *)
(* slots x1 to x12 hold the variables of a queue or of another endpoint.   *)
(***************************************************************************)
EXTENDS SignalActions, SignalEndpoint, TLC

CONSTANTS s1, s2, c1, c2, t1, t2, proc, i1, i2, m1, m2, d1, d2

VARIABLES part, x1, x2, x3, x4, x5, x6, x7, x8, x9, x10, x11, x12

slots == <<x1, x2, x3, x4, x5, x6, x7, x8, x9, x10, x11, x12>>
mcVars == <<part, vars, endpointVars, slots>>

Queue == INSTANCE SignalRecords WITH
  Senders <- {s1, s2}, Consumers <- {c1}, Standard <- {1}, Realtime <- {34},
  UserLimit <- 3, GlobalLimit <- 2, MaxId <- 3,
  set <- x1, standard <- x2, realtime <- x3, epoch <- x4, user <- x5, global <- x6,
  owed <- x7, held <- x8, next_id <- x9, last <- x10, sender <- x11
Shared == INSTANCE SignalRecords WITH
  Senders <- {s1, s2}, Consumers <- {c1, c2}, Standard <- {1}, Realtime <- {34},
  UserLimit <- 3, GlobalLimit <- 2, MaxId <- 3,
  set <- x1, standard <- x2, realtime <- x3, epoch <- x4, user <- x5, global <- x6,
  owed <- x7, held <- x8, next_id <- x9, last <- x10, sender <- x11

Pair == INSTANCE SignalEndpoint WITH
  Threads <- {t1}, Tids <- {i1}, Senders <- {s1, s2}, Process <- proc, ThreadLimit <- 1,
  Varied <- {}, MaxEntry <- 1,
  plife <- x1, tlife <- x2, pending <- x3, hint <- x4, registration <- x5, entry <- x6,
  children <- x7, tokens <- x8, disposition <- x9, blocked <- x10, sender <- x11, delivering <- x12
Registry == INSTANCE SignalEndpoint WITH
  Threads <- {t1, t2}, Tids <- {i1, i2}, Senders <- {}, Process <- proc, ThreadLimit <- 2,
  Varied <- {}, MaxEntry <- 2,
  plife <- x1, tlife <- x2, pending <- x3, hint <- x4, registration <- x5, entry <- x6,
  children <- x7, tokens <- x8, disposition <- x9, blocked <- x10, sender <- x11, delivering <- x12

Unused == "unused"
Unused11 ==
  /\ x1 = Unused /\ x2 = Unused /\ x3 = Unused /\ x4 = Unused /\ x5 = Unused /\ x6 = Unused
  /\ x7 = Unused /\ x8 = Unused /\ x9 = Unused /\ x10 = Unused /\ x11 = Unused

MCInit ==
  /\ Init /\ EndpointInit
  /\ \/ part \in {"actions", "endpoint"} /\ Unused11 /\ x12 = Unused
     \/ part = "queue" /\ Queue!Init /\ x12 = Unused
     \/ part = "shared" /\ Shared!Init /\ x12 = Unused
     \/ part = "senders" /\ Pair!EndpointInit
     \/ part = "registry" /\ Registry!EndpointInit

MCNext ==
  /\ UNCHANGED part
  /\ \/ part = "actions" /\ Next /\ UNCHANGED <<endpointVars, slots>>
     \/ part = "endpoint" /\ EndpointNext /\ UNCHANGED <<vars, slots>>
     \/ /\ UNCHANGED <<vars, endpointVars>>
        /\ \/ part = "queue" /\ Queue!Next /\ UNCHANGED x12
           \/ part = "shared" /\ Shared!Next /\ UNCHANGED x12
           \/ part = "senders" /\ Pair!EndpointNext
           \/ part = "registry" /\ Registry!EndpointNext

MCSpec == MCInit /\ [][MCNext]_mcVars
Symmetry == Permutations({s1, s2}) \union Permutations(Managers) \union Permutations(Deliveries)

-----------------------------------------------------------------------------
(* The books of the signal crate: types, pending bits backed by records, both
   queue accounts equal to the real-time nodes that exist, and a registry that
   agrees with the endpoints it lists.  A fallback that a node has superseded
   comes back only when a flush ran while it was held (requeue_front), and with
   one consumer a real-time queue stays in publication order through delivery
   retries.  Two senders to one endpoint lose no hint either, nor bring the two
   job control signals together. *)
SignalInv ==
  /\ part = "queue" => /\ Queue!TypeOK /\ Queue!BitsBacked /\ Queue!ChargesExact
                       /\ Queue!RealtimeInOrder /\ Queue!FallbackNotResurrected
  /\ part = "shared" => /\ Shared!TypeOK /\ Shared!BitsBacked /\ Shared!ChargesExact
                        /\ Shared!FallbackNotResurrected
  /\ part = "senders" => Pair!HintNotLost /\ Pair!JobControlExclusive
  /\ part = "registry" => Registry!EndpointTypeOK /\ Registry!RegistryCoherent
  /\ TypeOK /\ EndpointTypeOK /\ RegistryCoherent

(* "Delivery Retry/Fault uses this rather than reconstructing siginfo so RT FIFO
   order and queue accounting remain unchanged", for the process queue, from
   which every thread of the process takes records (requeue_signal). *)
SharedInOrder == part = "shared" => Shared!RealtimeInOrder
=============================================================================
