------------------------ MODULE ProcessThreadsProofs ------------------------
(***************************************************************************)
(* Proofs about ProcessThreads for any number of processes, thread ids and *)
(* CPUs, and any limit.                                                    *)
(***************************************************************************)
EXTENDS ProcessThreads, FiniteSetTheorems, TLAPS

(* The sets whose cardinalities are counted are finite. *)
Finite ==
  /\ IsFiniteSet(reserved) /\ IsFiniteSet(live) /\ IsFiniteSet(departing)
  /\ IsFiniteSet(preparing) /\ IsFiniteSet(releasing)
  /\ \A p \in Procs : IsFiniteSet(Linked(p)) /\ IsFiniteSet(LiveOf(p))

(* A linked node is either reserved or live. *)
Disjoint == reserved \intersect live = {}

(* A departing thread belongs to the one exit admission of its process, and
   an exit admission has at most one. *)
DepartingOwned ==
  \A x \in departing : exitTokens[x[1]] = 1 /\ \A y \in departing : x[1] = y[1] => x = y

(* A call in progress occupies its CPU: none is at two places at once. *)
CpuExclusive ==
  \A x \in preparing : x[1] \notin releasing /\ \A y \in preparing : x[1] = y[1] => x = y

IInv ==
  /\ TypeOK /\ Finite /\ Disjoint /\ CountersAgree /\ ChargesConserved
  /\ ExitTokenExclusive /\ ZombieHasNoThread /\ DepartingOwned /\ CpuExclusive

-----------------------------------------------------------------------------
(* An empty link set is what a zero memberships counter means. *)
LEMMA ZeroMembers ==
  ASSUME IInv, NEW p \in Procs, memberships[p] = 0
  PROVE  Linked(p) = {}
BY FS_EmptySet, Zenon DEF IInv, Finite, CountersAgree

(* The cardinalities are numbers. *)
LEMMA Numbers ==
  ASSUME IInv
  PROVE  /\ Cardinality(reserved) \in Nat /\ Cardinality(live) \in Nat
         /\ Cardinality(departing) \in Nat /\ Cardinality(preparing) \in Nat
         /\ Cardinality(releasing) \in Nat
         /\ \A p \in Procs : Cardinality(Linked(p)) \in Nat /\ Cardinality(LiveOf(p)) \in Nat
BY FS_CardinalityType, Zenon DEF IInv, Finite

(* The node facts: what the tree operations of a ThreadGroup maintain. *)
NodesFinite ==
  /\ IsFiniteSet(reserved) /\ IsFiniteSet(live)
  /\ \A p \in Procs : IsFiniteSet(Linked(p)) /\ IsFiniteSet(LiveOf(p))

NodesOK == NodesFinite /\ Disjoint /\ CountersAgree

(* The facts about counted sets survive a step that moves no node and no
   charge. *)
LEMMA SetsUnchanged ==
  ASSUME IInv, UNCHANGED <<reserved, live, departing, memberships, live_threads,
                           thread_memberships, preparing, releasing>>
  PROVE  Finite' /\ Disjoint' /\ CountersAgree' /\ ChargesConserved' /\ CpuExclusive'
BY SMTT(40) DEF IInv, Finite, Disjoint, CountersAgree, ChargesConserved, CpuExclusive, Linked, LiveOf

(* The initial state satisfies the invariant. *)
LEMMA InitIInv == Init => IInv
<1> SUFFICES ASSUME Init PROVE IInv
  BY Zenon
<1>1. \A p \in Procs : Linked(p) = {} /\ LiveOf(p) = {}
  BY Zenon DEF Init, Linked, LiveOf
<1>2. Finite /\ CountersAgree /\ ChargesConserved
  BY <1>1, FS_EmptySet DEF Init, Finite, CountersAgree, ChargesConserved
<1>3. TypeOK
  BY ThreadsAssumption DEF Init, TypeOK, States
<1>4. ExitTokenExclusive /\ ZombieHasNoThread /\ DepartingOwned /\ CpuExclusive /\ Disjoint
  BY DEF Init, ExitTokenExclusive, ZombieHasNoThread, DepartingOwned, CpuExclusive, Disjoint
<1> QED BY <1>2, <1>3, <1>4, Zenon DEF IInv

-----------------------------------------------------------------------------
(* Linking a reserved node (prepare_thread_in). *)
LEMMA LinkNode ==
  ASSUME IInv, NEW p \in Procs, NEW t \in Tids, t \notin Linked(p),
         reserved' = reserved \union {<<p, t>>},
         memberships' = [memberships EXCEPT ![p] = @ + 1],
         UNCHANGED <<live, live_threads>>
  PROVE  NodesOK' /\ Cardinality(reserved') = Cardinality(reserved) + 1
<1>1. <<p, t>> \notin reserved \union live
  BY Zenon DEF Linked
<1>2. \A q \in Procs : LiveOf(q)' = LiveOf(q)
  BY Zenon DEF LiveOf
<1>3. \A q \in Procs : q # p => Linked(q)' = Linked(q)
  BY Zenon DEF Linked
<1>4. Linked(p)' = Linked(p) \union {t}
  BY Zenon DEF Linked
<1>5. IsFiniteSet(Linked(p)') /\ Cardinality(Linked(p)') = Cardinality(Linked(p)) + 1
  BY <1>4, FS_AddElement, Zenon DEF IInv, Finite
<1>6. IsFiniteSet(reserved') /\ Cardinality(reserved') = Cardinality(reserved) + 1
  BY <1>1, FS_AddElement, Zenon DEF IInv, Finite
<1>7. CountersAgree'
  BY <1>2, <1>3, <1>5, Numbers, Zenon DEF IInv, TypeOK, CountersAgree
<1> QED
  BY <1>1, <1>2, <1>3, <1>5, <1>6, <1>7, Zenon DEF IInv, Finite, NodesOK, NodesFinite, Disjoint

(* A reserved node becomes live (publish_locked). *)
LEMMA PublishNode ==
  ASSUME IInv, NEW p \in Procs, NEW t \in Tids, <<p, t>> \in reserved,
         reserved' = reserved \ {<<p, t>>},
         live' = live \union {<<p, t>>},
         live_threads' = [live_threads EXCEPT ![p] = @ + 1],
         UNCHANGED memberships
  PROVE  /\ NodesOK'
         /\ Cardinality(reserved') = Cardinality(reserved) - 1
         /\ Cardinality(live') = Cardinality(live) + 1
         /\ \A q \in Procs : Linked(q)' = Linked(q)
<1>1. <<p, t>> \notin live
  BY Zenon DEF IInv, Disjoint
<1>2. \A q \in Procs : Linked(q)' = Linked(q)
  BY Zenon DEF Linked
<1>3. \A q \in Procs : q # p => LiveOf(q)' = LiveOf(q)
  BY Zenon DEF LiveOf
<1>4. LiveOf(p)' = LiveOf(p) \union {t} /\ t \notin LiveOf(p)
  BY <1>1, Zenon DEF LiveOf
<1>5. IsFiniteSet(LiveOf(p)') /\ Cardinality(LiveOf(p)') = Cardinality(LiveOf(p)) + 1
  BY <1>4, FS_AddElement, Zenon DEF IInv, Finite
<1>6. /\ IsFiniteSet(reserved') /\ Cardinality(reserved') = Cardinality(reserved) - 1
      /\ IsFiniteSet(live') /\ Cardinality(live') = Cardinality(live) + 1
  BY <1>1, FS_AddElement, FS_RemoveElement, Zenon DEF IInv, Finite
<1>7. CountersAgree'
  BY <1>2, <1>3, <1>5, Numbers, Zenon DEF IInv, TypeOK, CountersAgree
<1>8. Disjoint'
  BY Zenon DEF IInv, Disjoint
<1> QED
  BY <1>2, <1>3, <1>5, <1>6, <1>7, <1>8, Zenon DEF IInv, Finite, NodesOK, NodesFinite

(* A reservation is withdrawn (Drop for ThreadAdmission). *)
LEMMA UnlinkNode ==
  ASSUME IInv, NEW p \in Procs, NEW t \in Tids, <<p, t>> \in reserved,
         reserved' = reserved \ {<<p, t>>},
         memberships' = [memberships EXCEPT ![p] = Dec(@)],
         UNCHANGED <<live, live_threads>>
  PROVE  NodesOK' /\ Cardinality(reserved') = Cardinality(reserved) - 1
<1>1. <<p, t>> \notin live
  BY Zenon DEF IInv, Disjoint
<1>2. \A q \in Procs : LiveOf(q)' = LiveOf(q)
  BY Zenon DEF LiveOf
<1>3. \A q \in Procs : q # p => Linked(q)' = Linked(q)
  BY Zenon DEF Linked
<1>4. Linked(p)' = Linked(p) \ {t} /\ t \in Linked(p)
  BY <1>1, Zenon DEF Linked
<1>5. IsFiniteSet(Linked(p)') /\ Cardinality(Linked(p)') = Cardinality(Linked(p)) - 1
  BY <1>4, FS_RemoveElement, Zenon DEF IInv, Finite
<1>6. IsFiniteSet(reserved') /\ Cardinality(reserved') = Cardinality(reserved) - 1
  BY FS_RemoveElement, Zenon DEF IInv, Finite
<1>7. Cardinality(Linked(p)') \in Nat
  BY <1>5, FS_CardinalityType, Zenon
<1>8. CountersAgree'
  BY <1>2, <1>3, <1>5, <1>7, Numbers DEF IInv, TypeOK, CountersAgree, Dec
<1> QED
  BY <1>1, <1>2, <1>3, <1>5, <1>6, <1>8, Zenon DEF IInv, Finite, NodesOK, NodesFinite, Disjoint

(* A live node leaves (detach_thread_locked). *)
LEMMA DetachNode ==
  ASSUME IInv, NEW p \in Procs, NEW t \in Tids, <<p, t>> \in live,
         Detach(p, t), UNCHANGED reserved
  PROVE  /\ NodesOK'
         /\ Cardinality(live') = Cardinality(live) - 1
         /\ Linked(p)' = Linked(p) \ {t} /\ t \in Linked(p)
         /\ \A q \in Procs : q # p => Linked(q)' = Linked(q)
<1> USE DEF Detach
<1>1. <<p, t>> \notin reserved
  BY Zenon DEF IInv, Disjoint
<1>2. \A q \in Procs : q # p => Linked(q)' = Linked(q) /\ LiveOf(q)' = LiveOf(q)
  BY Zenon DEF Linked, LiveOf
<1>3. Linked(p)' = Linked(p) \ {t} /\ t \in Linked(p)
  BY <1>1, Zenon DEF Linked
<1>4. LiveOf(p)' = LiveOf(p) \ {t} /\ t \in LiveOf(p)
  BY Zenon DEF LiveOf
<1>5. /\ IsFiniteSet(Linked(p)') /\ Cardinality(Linked(p)') = Cardinality(Linked(p)) - 1
      /\ IsFiniteSet(LiveOf(p)') /\ Cardinality(LiveOf(p)') = Cardinality(LiveOf(p)) - 1
  BY <1>3, <1>4, FS_RemoveElement, ZenonT(30) DEF IInv, Finite
<1>6. IsFiniteSet(live') /\ Cardinality(live') = Cardinality(live) - 1
  BY FS_RemoveElement, Zenon DEF IInv, Finite
<1>7. Cardinality(Linked(p)') \in Nat /\ Cardinality(LiveOf(p)') \in Nat
  BY <1>5, FS_CardinalityType, Zenon
<1>8. CountersAgree'
  BY <1>2, <1>5, <1>7, Numbers DEF IInv, TypeOK, CountersAgree, Dec
<1>9. Disjoint'
  BY Zenon DEF IInv, Disjoint
<1> QED
  BY <1>2, <1>3, <1>5, <1>6, <1>8, <1>9, Zenon DEF IInv, Finite, NodesOK, NodesFinite

(* A departed node returns (Drop for ProcessExitAdmission). *)
LEMMA RestoreNode ==
  ASSUME IInv, NEW p \in Procs, NEW t \in Tids, t \notin Linked(p),
         live' = live \union {<<p, t>>},
         memberships' = [memberships EXCEPT ![p] = @ + 1],
         live_threads' = [live_threads EXCEPT ![p] = @ + 1],
         UNCHANGED reserved
  PROVE  NodesOK' /\ Cardinality(live') = Cardinality(live) + 1
<1>1. <<p, t>> \notin reserved \union live
  BY Zenon DEF Linked
<1>2. \A q \in Procs : q # p => Linked(q)' = Linked(q) /\ LiveOf(q)' = LiveOf(q)
  BY Zenon DEF Linked, LiveOf
<1>3. Linked(p)' = Linked(p) \union {t}
  BY Zenon DEF Linked
<1>4. LiveOf(p)' = LiveOf(p) \union {t} /\ t \notin LiveOf(p)
  BY <1>1, Zenon DEF LiveOf
<1>5. /\ IsFiniteSet(Linked(p)') /\ Cardinality(Linked(p)') = Cardinality(Linked(p)) + 1
      /\ IsFiniteSet(LiveOf(p)') /\ Cardinality(LiveOf(p)') = Cardinality(LiveOf(p)) + 1
  <2>1. IsFiniteSet(Linked(p)) /\ IsFiniteSet(LiveOf(p))
    BY Zenon DEF IInv, Finite
  <2>2. IsFiniteSet(Linked(p)') /\ Cardinality(Linked(p)') = Cardinality(Linked(p)) + 1
    BY <1>3, <2>1, FS_AddElement, Zenon
  <2>3. IsFiniteSet(LiveOf(p)') /\ Cardinality(LiveOf(p)') = Cardinality(LiveOf(p)) + 1
    BY <1>4, <2>1, FS_AddElement, Zenon
  <2> QED BY <2>2, <2>3, Zenon
<1>6. IsFiniteSet(live') /\ Cardinality(live') = Cardinality(live) + 1
  BY <1>1, FS_AddElement, ZenonT(40) DEF IInv, Finite
<1>7. CountersAgree'
  BY <1>2, <1>5, Numbers, Zenon DEF IInv, TypeOK, CountersAgree
<1>8. Disjoint'
  BY <1>1, Zenon DEF IInv, Disjoint
<1> QED
  BY <1>2, <1>5, <1>6, <1>7, <1>8, Zenon DEF IInv, Finite, NodesOK, NodesFinite

-----------------------------------------------------------------------------
(* The steps that move no node and no charge. *)
LEMMA FlagSteps ==
  ASSUME IInv, NEW p \in Procs,
         \/ AdmitProcess(p) \/ PublishProcess(p) \/ RollbackProcess(p)
         \/ PrepareExit(p) \/ Reap(p) \/ \E code \in Codes : GroupExit(p, code)
  PROVE  IInv'
<1>1. UNCHANGED <<reserved, live, departing, memberships, live_threads,
                  thread_memberships, preparing, releasing>>
  BY Zenon DEF AdmitProcess, PublishProcess, RollbackProcess, PrepareExit, Reap, GroupExit
<1>2. Finite' /\ Disjoint' /\ CountersAgree' /\ ChargesConserved' /\ CpuExclusive'
  BY <1>1, SetsUnchanged, Zenon
<1>3. \A q \in Procs : Linked(q)' = Linked(q)
  BY <1>1, Zenon DEF Linked
<1>4. TypeOK'
  <2>1. CASE AdmitProcess(p) \/ PublishProcess(p) \/ RollbackProcess(p) \/ Reap(p)
    BY <2>1, Zenon DEF IInv, TypeOK, States, AdmitProcess, PublishProcess, RollbackProcess,
       Reap, groupVars
  <2>2. CASE PrepareExit(p)
    BY <2>2 DEF IInv, TypeOK, PrepareExit, groupVars
  <2>3. CASE \E code \in Codes : GroupExit(p, code)
    BY <2>3 DEF IInv, TypeOK, GroupExit
  <2> QED BY <2>1, <2>2, <2>3, SMTT(40)
<1>5. CASE \E code \in Codes : GroupExit(p, code)
  BY <1>2, <1>3, <1>4, <1>5 DEF IInv, GroupExit, ExitTokenExclusive,
     ZombieHasNoThread, DepartingOwned
<1>6. CASE AdmitProcess(p) \/ PublishProcess(p) \/ RollbackProcess(p)
  <2>1. exitTokens[p] = 0 /\ UNCHANGED <<exitTokens, exit_prepared>>
    BY <1>6, SMTT(30) DEF IInv, ExitTokenExclusive, AdmitProcess, PublishProcess, RollbackProcess
  <2>2. state' \in [Procs -> States] /\ state'[p] \notin {"zombie", "reaped"}
        /\ \A q \in Procs : q # p => state'[q] = state[q]
    BY <1>4, <1>6, Zenon DEF IInv, TypeOK, AdmitProcess, PublishProcess, RollbackProcess
  <2> QED
    BY <1>1, <1>2, <1>3, <1>4, <2>1, <2>2, SMTT(40) DEF IInv, ExitTokenExclusive,
       ZombieHasNoThread, DepartingOwned
<1>7. CASE PrepareExit(p)
  <2>1. Linked(p) = {}
    BY <1>7, ZeroMembers, Zenon DEF PrepareExit, ExitPreparable
  <2>2. exitTokens[p] = 0
    BY <1>7, Zenon DEF IInv, ExitTokenExclusive, TypeOK, PrepareExit, ExitPreparable
  <2>3. ExitTokenExclusive'
    BY <1>3, <1>7, <2>1, <2>2 DEF IInv, TypeOK, ExitTokenExclusive, PrepareExit
  <2> QED
    BY <1>1, <1>2, <1>3, <1>4, <1>7, <2>2, <2>3 DEF IInv, TypeOK, ZombieHasNoThread,
       DepartingOwned, PrepareExit
<1>8. CASE Reap(p)
  <2>1. exitTokens[p] = 0
    BY <1>8, Zenon DEF IInv, ExitTokenExclusive, Reap
  <2> QED
    BY <1>1, <1>2, <1>3, <1>4, <1>8, <2>1, ZenonT(30) DEF IInv, TypeOK, ExitTokenExclusive,
       ZombieHasNoThread, DepartingOwned, Reap
<1> QED BY <1>5, <1>6, <1>7, <1>8, Zenon

(* A reserved thread becomes live, with or without its process. *)
LEMMA PublishSteps ==
  ASSUME IInv, NEW p \in Procs, NEW t \in Tids,
         \/ PublishWithThread(p, t) \/ CommitThread(p, t) \/ CommitThreadInfallible(p, t)
  PROVE  IInv'
<1> USE DEF PublishWithThread, CommitThread, CommitThreadInfallible
<1>1. /\ <<p, t>> \in reserved
      /\ reserved' = reserved \ {<<p, t>>}
      /\ live' = live \union {<<p, t>>}
      /\ live_threads' = [live_threads EXCEPT ![p] = @ + 1]
      /\ UNCHANGED <<departing, memberships, exit_prepared, exitTokens,
                     thread_memberships, preparing, releasing>>
  BY Zenon
<1>2. /\ NodesOK'
      /\ Cardinality(reserved') = Cardinality(reserved) - 1
      /\ Cardinality(live') = Cardinality(live) + 1
      /\ \A q \in Procs : Linked(q)' = Linked(q)
  BY <1>1, PublishNode, ZenonT(40)
<1>3. ChargesConserved'
  BY <1>1, <1>2, Numbers, SMTT(40) DEF IInv, ChargesConserved
<1>4. Finite' /\ Disjoint' /\ CountersAgree' /\ CpuExclusive'
  BY <1>1, <1>2, Zenon DEF IInv, Finite, NodesOK, NodesFinite, CpuExclusive
<1>5. TypeOK'
  BY DEF IInv, TypeOK, States, groupVars
<1>6. t \in Linked(p)
  BY <1>1, Zenon DEF Linked
<1>7. exitTokens[p] = 0 /\ state[p] \notin {"zombie", "reaped"}
  BY <1>6, Zenon DEF IInv, ExitTokenExclusive, ZombieHasNoThread
<1>8. /\ state'[p] \notin {"zombie", "reaped"}
      /\ \A q \in Procs : q # p => state'[q] = state[q]
  BY <1>7, Zenon DEF IInv, TypeOK
<1>9. ExitTokenExclusive'
  BY <1>1, <1>2, <1>7, <1>8, SMTT(40) DEF IInv, ExitTokenExclusive
<1>10. ZombieHasNoThread'
  BY <1>1, <1>2, <1>7, <1>8, SMTT(40) DEF IInv, ZombieHasNoThread
<1>11. DepartingOwned'
  BY <1>1, <1>2, <1>7, <1>8, SMTT(40) DEF IInv, DepartingOwned
<1> QED BY <1>3, <1>4, <1>5, <1>9, <1>10, <1>11, Zenon DEF IInv

(* Every thread admission begins with a charge of the domain counter. *)
LEMMA ChargeStep ==
  ASSUME IInv, NEW c \in Cpus, NEW p \in Procs, NEW t \in Tids, NEW unpub \in BOOLEAN,
         PrepareThreadCharge(c, p, t, unpub)
  PROVE  IInv'
<1> USE DEF PrepareThreadCharge, ReserveThreadMember
<1>1. <<c, p, t, unpub>> \notin preparing
  BY Zenon DEF Idle
<1>2. IsFiniteSet(preparing') /\ Cardinality(preparing') = Cardinality(preparing) + 1
  BY <1>1, FS_AddElement, ZenonT(40) DEF IInv, Finite
<1>3. ChargesConserved'
  BY <1>2, Numbers DEF IInv, ChargesConserved
<1>4. \A q \in Procs : Linked(q)' = Linked(q) /\ LiveOf(q)' = LiveOf(q)
  BY Zenon DEF Linked, LiveOf
<1>5. Finite' /\ Disjoint' /\ CountersAgree'
  BY <1>2, <1>4, Zenon DEF IInv, Finite, Disjoint, CountersAgree
<1>6. CpuExclusive'
  BY DEF IInv, CpuExclusive, Idle
<1>7. TypeOK'
  BY ThreadsAssumption DEF IInv, TypeOK, groupVars
<1>8. ExitTokenExclusive' /\ ZombieHasNoThread' /\ DepartingOwned'
  BY <1>4, Zenon DEF IInv, ExitTokenExclusive, ZombieHasNoThread, DepartingOwned
<1> QED BY <1>3, <1>5, <1>6, <1>7, <1>8, Zenon DEF IInv

(* The tg section of a thread admission turns the charge into a node, or
   hands it to the release that follows. *)
LEMMA LinkStep ==
  ASSUME IInv, NEW c \in Cpus, NEW p \in Procs, NEW t \in Tids, NEW unpub \in BOOLEAN,
         PrepareThreadLink(c, p, t, unpub)
  PROVE  IInv'
<1> USE DEF PrepareThreadLink
<1>1. IsFiniteSet(preparing') /\ Cardinality(preparing') = Cardinality(preparing) - 1
  BY FS_RemoveElement, Zenon DEF IInv, Finite
<1>2. TypeOK'
  BY DEF IInv, TypeOK, groupVars
<1>3. CASE AdmitsThread(p, t, unpub)
  <2>1. NodesOK' /\ Cardinality(reserved') = Cardinality(reserved) + 1
    BY <1>3, LinkNode, Zenon DEF AdmitsThread
  <2>2. UNCHANGED releasing
    BY <1>3, Zenon
  <2>3. ChargesConserved'
    BY <1>1, <2>1, <2>2, Numbers DEF IInv, ChargesConserved
  <2>4. Finite' /\ Disjoint' /\ CountersAgree'
    BY <1>1, <2>1, <2>2, Zenon DEF IInv, Finite, NodesOK, NodesFinite
  <2>5. CpuExclusive'
    BY <2>2, Zenon DEF IInv, CpuExclusive
  <2>6. \A q \in Procs : q # p => Linked(q)' = Linked(q)
    BY <1>3, Zenon DEF Linked
  <2>7. exitTokens[p] # 1 /\ state[p] \notin {"zombie", "reaped"}
    BY <1>3, Zenon DEF IInv, ExitTokenExclusive, AdmitsThread
  <2>8. ExitTokenExclusive' /\ ZombieHasNoThread' /\ DepartingOwned'
    BY <2>6, <2>7, ZenonT(30) DEF IInv, ExitTokenExclusive, ZombieHasNoThread, DepartingOwned
  <2> QED BY <1>2, <2>3, <2>4, <2>5, <2>8, Zenon DEF IInv
<1>4. CASE ~AdmitsThread(p, t, unpub)
  <2>1. c \notin releasing /\ UNCHANGED <<reserved, memberships>>
        /\ releasing' = releasing \union {c}
    BY <1>4, Zenon DEF IInv, CpuExclusive
  <2>2. IsFiniteSet(releasing') /\ Cardinality(releasing') = Cardinality(releasing) + 1
    BY <2>1, FS_AddElement, Zenon DEF IInv, Finite
  <2>3. ChargesConserved'
    BY <1>1, <2>1, <2>2, Numbers DEF IInv, ChargesConserved
  <2>4. \A q \in Procs : Linked(q)' = Linked(q) /\ LiveOf(q)' = LiveOf(q)
    BY <2>1, Zenon DEF Linked, LiveOf
  <2>5. Finite' /\ Disjoint' /\ CountersAgree'
    <3>1. Finite /\ Disjoint /\ CountersAgree /\ UNCHANGED <<live, departing, live_threads>>
      BY Zenon DEF IInv, groupVars
    <3> QED BY ONLY <1>1, <2>1, <2>2, <2>4, <3>1, Zenon DEF Finite, Disjoint, CountersAgree
  <2>6. CpuExclusive'
    <3>1. CpuExclusive /\ preparing' = preparing \ {<<c, p, t, unpub>>}
          /\ <<c, p, t, unpub>> \in preparing
      BY Zenon DEF IInv
    <3> QED BY ONLY <2>1, <3>1, Zenon DEF CpuExclusive
  <2>7. ExitTokenExclusive' /\ ZombieHasNoThread' /\ DepartingOwned'
    BY <2>4, Zenon DEF IInv, ExitTokenExclusive, ZombieHasNoThread, DepartingOwned
  <2> QED BY <1>2, <2>3, <2>5, <2>6, <2>7, Zenon DEF IInv
<1> QED BY <1>3, <1>4, Zenon

(* A CPU that has detached a node still owes the release of its charge. *)
LEMMA BeginRelease ==
  ASSUME IInv, NEW c \in Cpus, Idle(c), releasing' = releasing \union {c},
         UNCHANGED preparing
  PROVE  /\ IsFiniteSet(releasing') /\ Cardinality(releasing') = Cardinality(releasing) + 1
         /\ CpuExclusive'
<1>1. IsFiniteSet(releasing') /\ Cardinality(releasing') = Cardinality(releasing) + 1
  BY FS_AddElement, Zenon DEF IInv, Finite, Idle
<1>2. CpuExclusive'
  BY Zenon DEF IInv, CpuExclusive, Idle
<1> QED BY <1>1, <1>2, Zenon

(* The release itself: the counter is positive, the guard of Dec is idle. *)
LEMMA ReleaseStep ==
  ASSUME IInv, NEW c \in Cpus, ReleaseThreadMember(c)
  PROVE  IInv'
<1> USE DEF ReleaseThreadMember, AfterRelease
<1>1. IsFiniteSet(releasing') /\ Cardinality(releasing') = Cardinality(releasing) - 1
  BY FS_RemoveElement, Zenon DEF IInv, Finite
<1>2. Cardinality(releasing') \in Nat
  BY <1>1, FS_CardinalityType, SMTT(30)
<1>3. thread_memberships > 0 /\ ChargesConserved'
  BY <1>1, <1>2, Numbers DEF IInv, TypeOK, ChargesConserved, Dec
<1>4. \A q \in Procs : Linked(q)' = Linked(q) /\ LiveOf(q)' = LiveOf(q)
  BY Zenon DEF Linked, LiveOf
<1>5. Finite' /\ Disjoint' /\ CountersAgree'
  BY <1>1, <1>4, Zenon DEF IInv, Finite, Disjoint, CountersAgree
<1>6. TypeOK'
  BY <1>3, ThreadsAssumption DEF IInv, TypeOK, groupVars, Dec
<1>7. ExitTokenExclusive' /\ ZombieHasNoThread' /\ DepartingOwned' /\ CpuExclusive'
  BY <1>4, Zenon DEF IInv, ExitTokenExclusive, ZombieHasNoThread, DepartingOwned, CpuExclusive
<1> QED BY <1>3, <1>5, <1>6, <1>7, Zenon DEF IInv

(* Dropping a reservation that was not admitted preserves the invariant. *)
LEMMA DropStep ==
  ASSUME IInv, NEW c \in Cpus, NEW p \in Procs, NEW t \in Tids, DropThread(c, p, t)
  PROVE  IInv'
<1> USE DEF DropThread
<1>1. NodesOK' /\ Cardinality(reserved') = Cardinality(reserved) - 1
  BY UnlinkNode, ZenonT(40)
<1>2. /\ IsFiniteSet(releasing') /\ Cardinality(releasing') = Cardinality(releasing) + 1
      /\ CpuExclusive'
  BY BeginRelease, Zenon
<1>3. ChargesConserved'
  <2>1. UNCHANGED <<thread_memberships, live, departing, preparing>>
    BY Zenon
  <2>2. ChargesConserved /\ Cardinality(live) \in Nat /\ Cardinality(departing) \in Nat
        /\ Cardinality(reserved) \in Nat /\ Cardinality(preparing) \in Nat
        /\ Cardinality(releasing) \in Nat
    BY Numbers, Zenon DEF IInv
  <2> QED BY ONLY <1>1, <1>2, <2>1, <2>2 DEF ChargesConserved
<1>4. Finite' /\ Disjoint' /\ CountersAgree'
  BY <1>1, <1>2, Zenon DEF IInv, Finite, NodesOK, NodesFinite
<1>5. TypeOK'
  BY DEF IInv, TypeOK, groupVars, Dec
<1>6. \A q \in Procs : Linked(q)' \subseteq Linked(q)
  BY SMTT(40) DEF Linked
<1>7. ExitTokenExclusive' /\ ZombieHasNoThread' /\ DepartingOwned'
  BY <1>6, Zenon DEF IInv, ExitTokenExclusive, ZombieHasNoThread, DepartingOwned
<1> QED BY <1>2, <1>3, <1>4, <1>5, <1>7, Zenon DEF IInv

(* A live thread leaves and others remain, or no admission protects it. *)
LEMMA LeaveStep ==
  ASSUME IInv, NEW c \in Cpus, NEW p \in Procs, NEW t \in Tids,
         <<p, t>> \in live, Idle(c), Detach(p, t),
         exit_code' \in [Procs -> Codes \union {0}],
         releasing' = releasing \union {c},
         UNCHANGED <<state, reserved, departing, group_exited, exit_prepared,
                     exitTokens, thread_memberships, preparing>>
  PROVE  IInv'
<1>1. NodesOK' /\ Cardinality(live') = Cardinality(live) - 1
  BY DetachNode, Zenon
<1>2. /\ IsFiniteSet(releasing') /\ Cardinality(releasing') = Cardinality(releasing) + 1
      /\ CpuExclusive'
  BY BeginRelease, Zenon
<1>3. ChargesConserved'
  <2>1. UNCHANGED <<thread_memberships, reserved, departing, preparing>>
    BY Zenon
  <2>2. ChargesConserved /\ Cardinality(live) \in Nat /\ Cardinality(departing) \in Nat
        /\ Cardinality(reserved) \in Nat /\ Cardinality(preparing) \in Nat
        /\ Cardinality(releasing) \in Nat
    BY Numbers, Zenon DEF IInv
  <2> QED BY ONLY <1>1, <1>2, <2>1, <2>2 DEF ChargesConserved
<1>4. Finite' /\ Disjoint' /\ CountersAgree'
  BY <1>1, <1>2, Zenon DEF IInv, Finite, NodesOK, NodesFinite
<1>5. TypeOK'
  <2>1. \A n \in Nat : Dec(n) \in Nat
    BY DEF Dec
  <2>2. memberships' \in [Procs -> Nat] /\ live_threads' \in [Procs -> Nat]
    BY <2>1, Zenon DEF IInv, TypeOK, Detach
  <2> QED BY <2>2, Zenon DEF IInv, TypeOK, Detach
<1>6. \A q \in Procs : Linked(q)' \subseteq Linked(q)
  BY SMTT(40) DEF Linked, Detach
<1>7. ExitTokenExclusive' /\ ZombieHasNoThread' /\ DepartingOwned'
  BY <1>6, Zenon DEF IInv, ExitTokenExclusive, ZombieHasNoThread, DepartingOwned
<1> QED BY <1>2, <1>3, <1>4, <1>5, <1>7, Zenon DEF IInv

(* Removing a thread, the last one included, preserves the invariant. *)
LEMMA RemoveStep ==
  ASSUME IInv, NEW c \in Cpus, NEW p \in Procs, NEW t \in Tids, NEW code \in Codes,
         NEW withCode \in BOOLEAN, RemoveThread(c, p, t, withCode, code)
  PROVE  IInv'
<1>1. exit_code' \in [Procs -> Codes \union {0}]
  <2>1. exit_code \in [Procs -> Codes \union {0}]
    BY Zenon DEF IInv, TypeOK
  <2>2. RecordCode(p, code) => exit_code' \in [Procs -> Codes \union {0}]
    BY ONLY <2>1, code \in Codes, SMTT(40) DEF RecordCode
  <2> QED BY <2>1, <2>2, Zenon DEF RemoveThread
<1> QED BY <1>1, LeaveStep, Zenon DEF RemoveThread

(* The final thread of a process leaves into an exit admission: it was the
   only linked node, so the admission starts with an empty thread group. *)
LEMMA ExitStep ==
  ASSUME IInv, NEW c \in Cpus, NEW p \in Procs, NEW t \in Tids, NEW code \in Codes,
         ExitThread(c, p, t, code)
  PROVE  IInv'
<1> USE DEF ExitThread, Busy
<1>1. exit_code' \in [Procs -> Codes \union {0}]
  <2>1. exit_code \in [Procs -> Codes \union {0}]
    BY Zenon DEF IInv, TypeOK
  <2> QED BY <2>1, Zenon DEF RecordCode
<1>2. CASE live_threads[p] # 1
  BY <1>1, <1>2, LeaveStep, Zenon
<1>3. CASE live_threads[p] = 1
  <2>1. /\ memberships[p] = 1 /\ state[p] # "zombie" /\ ~exit_prepared[p]
        /\ departing' = departing \union {<<p, t>>}
        /\ exit_prepared' = [exit_prepared EXCEPT ![p] = TRUE]
        /\ exitTokens' = [exitTokens EXCEPT ![p] = @ + 1]
        /\ UNCHANGED releasing
    BY <1>3, SMTT(40)
  <2>2. /\ NodesOK' /\ Cardinality(live') = Cardinality(live) - 1
        /\ Linked(p)' = Linked(p) \ {t} /\ t \in Linked(p)
        /\ \A q \in Procs : q # p => Linked(q)' = Linked(q)
    BY DetachNode, Zenon
  <2>3. Linked(p)' = {}
    <3>1. Cardinality(Linked(p)) = 1 /\ IsFiniteSet(Linked(p))
      BY <2>1, Zenon DEF IInv, CountersAgree, Finite
    <3>2. PICK u : Linked(p) = {u}
      BY <3>1, FS_Singleton, ZenonT(40)
    <3>3. Linked(p)' = Linked(p) \ {t} /\ t \in Linked(p)
      BY <2>2, Zenon
    <3> QED BY ONLY <3>2, <3>3, SMTT(40)
  <2>4. exitTokens[p] = 0 /\ state[p] = "published"
    BY <2>1, Zenon DEF IInv, ExitTokenExclusive, EnsurePublished
  <2>5. \A x \in departing : x[1] # p
    <3>1. DepartingOwned
      BY Zenon DEF IInv
    <3> QED BY ONLY <2>4, <3>1, p \in Procs DEF DepartingOwned
  <2>6. IsFiniteSet(departing') /\ Cardinality(departing') = Cardinality(departing) + 1
    BY <2>1, <2>5, FS_AddElement, ZenonT(40) DEF IInv, Finite
  <2>7. ChargesConserved'
    <3>1. UNCHANGED <<thread_memberships, reserved, preparing, releasing>>
      BY <2>1, Zenon
    <3>2. ChargesConserved /\ Cardinality(live) \in Nat /\ Cardinality(departing) \in Nat
          /\ Cardinality(reserved) \in Nat /\ Cardinality(preparing) \in Nat
          /\ Cardinality(releasing) \in Nat
      BY Numbers, Zenon DEF IInv
    <3> QED BY ONLY <2>2, <2>6, <3>1, <3>2 DEF ChargesConserved
  <2>8. Finite' /\ Disjoint' /\ CountersAgree'
    BY <2>1, <2>2, <2>6, ZenonT(40) DEF IInv, Finite, NodesOK, NodesFinite
  <2>9. TypeOK'
    BY <1>1, <2>1, SMTT(40) DEF IInv, TypeOK, Detach, Dec
  <2>10. ExitTokenExclusive'
    BY <2>1, <2>2, <2>3, <2>4, SMTT(40) DEF IInv, TypeOK, ExitTokenExclusive
  <2>11. DepartingOwned'
    BY <2>1, <2>4, <2>5, SMTT(40) DEF IInv, TypeOK, DepartingOwned
  <2>12. ZombieHasNoThread' /\ CpuExclusive'
    BY <2>1, <2>2, <2>4, Zenon DEF IInv, TypeOK, ZombieHasNoThread, CpuExclusive
  <2> QED BY ONLY <2>7, <2>8, <2>9, <2>10, <2>11, <2>12, SMTT(40) DEF IInv
<1> QED BY <1>2, <1>3, Zenon

(* The zombie transition: the departing thread, if any, was the only one the
   admission held, so nothing of the thread group is left. *)
LEMMA CommitExitStep ==
  ASSUME IInv, NEW c \in Cpus, NEW p \in Procs, CommitExit(c, p)
  PROVE  IInv'
<1> USE DEF CommitExit, ReleaseDeparting
<1>1. exitTokens[p] = 1 /\ Linked(p) = {}
  BY DEF IInv, TypeOK, ExitTokenExclusive
<1>2. /\ exitTokens'[p] = 0 /\ exit_prepared'[p] = FALSE /\ state'[p] = "zombie"
      /\ \A q \in Procs : q # p => /\ exitTokens'[q] = exitTokens[q]
                                   /\ exit_prepared'[q] = exit_prepared[q]
                                   /\ state'[q] = state[q]
  BY <1>1 DEF IInv, TypeOK
<1>3. \A q \in Procs : Linked(q)' = Linked(q) /\ LiveOf(q)' = LiveOf(q)
  BY Zenon DEF Linked, LiveOf
<1>4. ExitTokenExclusive'
  BY <1>2, <1>3 DEF IInv, ExitTokenExclusive
<1>5. CASE UNCHANGED <<departing, releasing>> /\ \A t \in Tids : <<p, t>> \notin departing
  <2>1. UNCHANGED <<reserved, live, departing, memberships, live_threads,
                    thread_memberships, preparing, releasing>>
    BY <1>5, Zenon
  <2>2. Finite' /\ Disjoint' /\ CountersAgree' /\ ChargesConserved' /\ CpuExclusive'
    BY <2>1, SetsUnchanged, SMTT(40)
  <2>3. TypeOK'
    BY <1>1, <1>5, SMTT(40) DEF IInv, TypeOK, States, groupVars
  <2>4. ZombieHasNoThread'
    BY <1>1, <1>2, <1>3, <1>5, Zenon DEF IInv, ZombieHasNoThread
  <2>5. \A x \in departing : x[1] \in Procs /\ x[1] # p
    BY <1>5 DEF IInv, TypeOK
  <2>6. DepartingOwned'
    BY <1>2, <1>5, <2>5, ZenonT(30) DEF IInv, DepartingOwned
  <2> QED BY <1>4, <2>2, <2>3, <2>4, <2>6, Zenon DEF IInv
<1>6. CASE \E t \in Tids : /\ <<p, t>> \in departing /\ Idle(c)
                           /\ departing' = departing \ {<<p, t>>}
                           /\ releasing' = releasing \union {c}
  <2>1. PICK t \in Tids : /\ <<p, t>> \in departing /\ Idle(c)
                          /\ departing' = departing \ {<<p, t>>}
                          /\ releasing' = releasing \union {c}
    BY <1>6, Zenon
  <2>2. /\ IsFiniteSet(releasing') /\ Cardinality(releasing') = Cardinality(releasing) + 1
        /\ CpuExclusive'
    BY <2>1, BeginRelease, ZenonT(40)
  <2>3. IsFiniteSet(departing') /\ Cardinality(departing') = Cardinality(departing) - 1
    BY <2>1, FS_RemoveElement, ZenonT(40) DEF IInv, Finite
  <2>4. ChargesConserved'
    BY <2>2, <2>3, Numbers, SMTT(40) DEF IInv, ChargesConserved
  <2>5. Finite' /\ Disjoint' /\ CountersAgree'
    BY <1>3, <2>2, <2>3, Zenon DEF IInv, Finite, Disjoint, CountersAgree
  <2>6. TypeOK'
    BY <1>1, <2>1, SMTT(30) DEF IInv, TypeOK, States, groupVars
  <2>7. \A x \in departing' : x \in departing /\ x[1] \in Procs /\ x[1] # p
    BY <2>1, Zenon DEF IInv, TypeOK, DepartingOwned
  <2>8. \A u \in Tids : <<p, u>> \notin departing'
    BY <2>7, Zenon
  <2>9. ZombieHasNoThread'
    BY <1>1, <1>2, <1>3, <2>7, <2>8, SMTT(30) DEF IInv, ZombieHasNoThread
  <2>10. DepartingOwned'
    BY <1>2, <2>7, ZenonT(30) DEF IInv, DepartingOwned
  <2> QED BY <1>4, <2>2, <2>4, <2>5, <2>6, <2>9, <2>10, Zenon DEF IInv
<1> QED BY <1>5, <1>6, Zenon

(* An abandoned exit gives the departing thread back: its node, its
   membership and its charge were never given away. *)
LEMMA RollbackExitStep ==
  ASSUME IInv, NEW p \in Procs, RollbackExit(p)
  PROVE  IInv'
<1> USE DEF RollbackExit, RestoreDeparting
<1>1. exitTokens[p] = 1 /\ Linked(p) = {} /\ state[p] = "published"
  BY DEF IInv, TypeOK, ExitTokenExclusive
<1>2. /\ exitTokens'[p] = 0 /\ exit_prepared'[p] = FALSE
      /\ \A q \in Procs : q # p => /\ exitTokens'[q] = exitTokens[q]
                                   /\ exit_prepared'[q] = exit_prepared[q]
  BY <1>1 DEF IInv, TypeOK
<1>3. \A q \in Procs : q # p => Linked(q)' = Linked(q)
  BY Zenon DEF Linked
<1>4. ExitTokenExclusive'
  BY <1>2, <1>3 DEF IInv, ExitTokenExclusive
<1>5. CASE /\ UNCHANGED <<departing, live, memberships, live_threads>>
           /\ \A t \in Tids : <<p, t>> \notin departing
  <2>1. UNCHANGED <<reserved, live, departing, memberships, live_threads,
                    thread_memberships, preparing, releasing>>
    BY <1>5, Zenon
  <2>2. Finite' /\ Disjoint' /\ CountersAgree' /\ ChargesConserved' /\ CpuExclusive'
    BY <2>1, SetsUnchanged, SMTT(30)
  <2>3. TypeOK'
    BY <1>1, <1>5 DEF IInv, TypeOK, groupVars
  <2>4. ZombieHasNoThread'
    BY <1>1, <1>3, <1>5, SMTT(30) DEF IInv, ZombieHasNoThread
  <2>5. \A x \in departing : x[1] \in Procs /\ x[1] # p
    BY <1>5 DEF IInv, TypeOK
  <2>6. DepartingOwned'
    BY <1>2, <1>5, <2>5, Zenon DEF IInv, DepartingOwned
  <2> QED BY <1>4, <2>2, <2>3, <2>4, <2>6, Zenon DEF IInv
<1>6. CASE \E t \in Tids : /\ <<p, t>> \in departing
                           /\ departing' = departing \ {<<p, t>>}
                           /\ live' = live \union {<<p, t>>}
                           /\ memberships' = [memberships EXCEPT ![p] = @ + 1]
                           /\ live_threads' = [live_threads EXCEPT ![p] = @ + 1]
  <2>1. PICK t \in Tids : /\ <<p, t>> \in departing
                          /\ departing' = departing \ {<<p, t>>}
                          /\ live' = live \union {<<p, t>>}
                          /\ memberships' = [memberships EXCEPT ![p] = @ + 1]
                          /\ live_threads' = [live_threads EXCEPT ![p] = @ + 1]
    BY <1>6, Zenon
  <2>2. NodesOK' /\ Cardinality(live') = Cardinality(live) + 1
    BY <1>1, <2>1, RestoreNode, Zenon
  <2>3. IsFiniteSet(departing') /\ Cardinality(departing') = Cardinality(departing) - 1
    BY <2>1, FS_RemoveElement, ZenonT(40) DEF IInv, Finite
  <2>4. ChargesConserved'
    BY <2>2, <2>3, Numbers, SMTT(30) DEF IInv, ChargesConserved
  <2>5. Finite' /\ Disjoint' /\ CountersAgree' /\ CpuExclusive'
    BY <2>2, <2>3, SMTT(30) DEF IInv, Finite, NodesOK, NodesFinite, CpuExclusive
  <2>6. TypeOK'
    BY <1>1, <2>1, SMTT(30) DEF IInv, TypeOK, groupVars
  <2>7. \A x \in departing' : x \in departing /\ x[1] \in Procs /\ x[1] # p
    BY <2>1, Zenon DEF IInv, TypeOK, DepartingOwned
  <2>8. ZombieHasNoThread'
    BY <1>1, <1>3, <2>7, SMTT(30) DEF IInv, ZombieHasNoThread
  <2>9. DepartingOwned'
    BY <1>2, <2>7, Zenon DEF IInv, DepartingOwned
  <2> QED BY <1>4, <2>4, <2>5, <2>6, <2>8, <2>9, SMTT(30) DEF IInv
<1> QED BY <1>5, <1>6, Zenon

-----------------------------------------------------------------------------
(* The invariant depends on the variables only. *)
LEMMA StutterIInv == IInv /\ UNCHANGED vars => IInv'
<1> SUFFICES ASSUME IInv, UNCHANGED vars PROVE IInv'
  BY Zenon
<1>1. Finite' /\ Disjoint' /\ CountersAgree' /\ ChargesConserved' /\ CpuExclusive'
  BY SetsUnchanged, SMTT(30) DEF vars
<1>2. TypeOK' /\ ExitTokenExclusive' /\ ZombieHasNoThread' /\ DepartingOwned'
  BY Zenon DEF IInv, vars, TypeOK, ExitTokenExclusive, ZombieHasNoThread, DepartingOwned, Linked
<1> QED BY <1>1, <1>2, Zenon DEF IInv

(* Every step preserves the invariant. *)
LEMMA NextIInv == IInv /\ [Next]_vars => IInv'
<1> SUFFICES ASSUME IInv, [Next]_vars PROVE IInv'
  BY Zenon
<1>1. ASSUME NEW p \in Procs, ProcessStep(p) PROVE IInv'
  BY <1>1, FlagSteps, RollbackExitStep, PublishSteps, Zenon DEF ProcessStep
<1>2. ASSUME NEW c \in Cpus, NEW p \in Procs, CpuStep(c, p) PROVE IInv'
  BY <1>2, CommitExitStep, ChargeStep, LinkStep, DropStep, ExitStep, RemoveStep, Zenon DEF CpuStep
<1> QED BY <1>1, <1>2, ReleaseStep, StutterIInv, Zenon DEF Next

(* The inductive invariant holds in every reachable state. *)
THEOREM Invariance == Spec => []IInv
BY InitIInv, NextIInv, PTL DEF Spec

(* Counters have the width the limit gives them and no field leaves its type. *)
THEOREM TypeCorrect == Spec => []TypeOK
BY Invariance, PTL DEF IInv

(* memberships and live_threads of every thread group always agree with its
   tree of nodes. *)
THEOREM CountersCorrect == Spec => []CountersAgree
BY Invariance, PTL DEF IInv

(* No path of admission, refusal, exit, exit rollback or removal leaks a unit
   of the domain-wide thread_memberships counter or refunds one twice. *)
THEOREM ChargesCorrect == Spec => []ChargesConserved
BY Invariance, PTL DEF IInv

(* The domain-wide limit bounds reserved, live and departing threads. *)
THEOREM BoundCorrect == Spec => []ThreadsBounded
<1>1. IInv => ThreadsBounded
  BY Numbers, ThreadsAssumption DEF IInv, TypeOK, ChargesConserved, ThreadsBounded
<1> QED BY <1>1, Invariance, PTL

(* An exit admission is exclusive, and its commit finds what it asserts. *)
THEOREM ExitCorrect == Spec => []ExitTokenExclusive
BY Invariance, PTL DEF IInv

(* A zombie has no thread and gains none. *)
THEOREM ZombieCorrect == Spec => []ZombieHasNoThread
BY Invariance, PTL DEF IInv

(* The books of every thread group balance, for every limit. *)
THEOREM ThreadsInvCorrect == Spec => []ThreadsInv
BY TypeCorrect, CountersCorrect, BoundCorrect, ZombieCorrect, PTL DEF ThreadsInv

-----------------------------------------------------------------------------
(* A process with a live or departing thread, as NoStranding speaks of it. *)
Inhabited(p) == \E t \in Tids : <<p, t>> \in live \union departing

(* A live thread that is not the only one leaves a live thread behind. *)
LEMMA OthersRemain ==
  ASSUME IInv, NEW p \in Procs, NEW t \in Tids, <<p, t>> \in live,
         Detach(p, t), live_threads[p] # 1
  PROVE  \E u \in Tids : <<p, u>> \in live'
<1>1. Cardinality(LiveOf(p)) # 1 /\ IsFiniteSet(LiveOf(p))
  BY Zenon DEF IInv, CountersAgree, Finite
<1>2. t \in LiveOf(p) /\ LiveOf(p) # {t}
  BY <1>1, FS_Singleton, Zenon DEF LiveOf
<1> QED BY <1>2, SMTT(40) DEF LiveOf, Detach

(* A process keeps a thread, live or departing, until it is a zombie. *)
LEMMA KeepsInhabited ==
  ASSUME IInv, [Next]_vars, NEW p \in Procs \ Legacy, Inhabited(p)
  PROVE  Inhabited(p)' \/ state'[p] = "zombie"
<1>1. CASE live \union departing \subseteq live' \union departing'
  BY <1>1, Zenon DEF Inhabited
<1>2. ASSUME NEW c \in Cpus, NEW q \in Procs, NEW t \in Tids, NEW code \in Codes,
             ExitThread(c, q, t, code)
      PROVE  Inhabited(p)'
  <2>1. CASE live_threads[q] = 1
    BY <1>2, <2>1, Zenon DEF ExitThread, Detach, Inhabited
  <2>2. CASE live_threads[q] # 1
    <3>1. \E u \in Tids : <<q, u>> \in live'
      BY <1>2, <2>2, OthersRemain, Zenon DEF ExitThread
    <3>2. q # p => Inhabited(p)'
      BY <1>2, <2>2, Zenon DEF ExitThread, Detach, Inhabited
    <3> QED BY <3>1, <3>2, SMTT(40) DEF Inhabited
  <2> QED BY <2>1, <2>2, Zenon
<1>3. ASSUME NEW c \in Cpus, NEW q \in Procs, CommitExit(c, q)
      PROVE  Inhabited(p)' \/ state'[p] = "zombie"
  BY <1>3, Zenon DEF CommitExit, ReleaseDeparting, Inhabited, IInv, TypeOK
<1>4. ASSUME NEW q \in Procs, RollbackExit(q)
      PROVE  live \union departing \subseteq live' \union departing'
  BY <1>4, Zenon DEF RollbackExit, RestoreDeparting
<1>5. ASSUME NEW q \in Procs, ProcessStep(q), ~RollbackExit(q)
      PROVE  live \union departing \subseteq live' \union departing'
  BY <1>5, Zenon DEF ProcessStep, AdmitProcess, PublishProcess, RollbackProcess, PrepareExit, Reap,
     PublishWithThread, CommitThread, CommitThreadInfallible, GroupExit
<1>6. ASSUME NEW c \in Cpus, NEW q \in Procs, CpuStep(c, q), ~CommitExit(c, q),
             ~\E t \in Tids, code \in Codes : ExitThread(c, q, t, code)
      PROVE  Inhabited(p)'
  BY <1>6, Zenon DEF CpuStep, PrepareThreadCharge, PrepareThreadLink, DropThread, RemoveThread,
     Detach, Inhabited
<1>7. ASSUME NEW c \in Cpus, ReleaseThreadMember(c)
      PROVE  live \union departing \subseteq live' \union departing'
  BY <1>7, Zenon DEF ReleaseThreadMember
<1>8. CASE UNCHANGED vars
  BY <1>1, <1>8, Zenon DEF vars
<1> QED BY <1>1, <1>2, <1>3, <1>4, <1>5, <1>6, <1>7, <1>8, Zenon DEF Next

(* A process on which Process::remove_thread and Process::exit_thread are not
   used is never stranded without a live thread before it is a zombie. *)
THEOREM NoStrandingCorrect == Spec => NoStranding
<1>1. IInv /\ [Next]_vars =>
        [\A p \in Procs \ Legacy :
           (\E t \in Tids : <<p, t>> \in live \union departing)
             => \/ \E t \in Tids : <<p, t>> \in live' \union departing'
                \/ state'[p] = "zombie"]_vars
  BY KeepsInhabited, Zenon DEF Inhabited
<1> QED BY <1>1, Invariance, PTL DEF Spec, NoStranding

-----------------------------------------------------------------------------
(* After a group exit, a step leaves the code and the flag of the process. *)
CodeFixed(p) == group_exited[p] => group_exited'[p] /\ exit_code'[p] = exit_code[p]

(* Recording a thread's code changes neither for a group that has exited. *)
LEMMA RecordedCode ==
  ASSUME IInv, NEW p \in Procs, NEW q \in Procs, NEW code,
         RecordCode(q, code), UNCHANGED group_exited
  PROVE  CodeFixed(p)
BY Zenon DEF IInv, TypeOK, RecordCode, CodeFixed

(* Only a first group exit sets the flag, and only group exits and thread
   exits touch the code. *)
LEMMA CodeStays == ASSUME IInv, [Next]_vars, NEW p \in Procs PROVE CodeFixed(p)
<1>1. CASE UNCHANGED groupVars
  BY <1>1, Zenon DEF CodeFixed, groupVars
<1>2. ASSUME NEW q \in Procs, NEW code \in Codes, GroupExit(q, code) PROVE CodeFixed(p)
  BY <1>2, Zenon DEF GroupExit, CodeFixed, IInv, TypeOK
<1>3. ASSUME NEW q \in Procs, ProcessStep(q) PROVE CodeFixed(p)
  <2>1. UNCHANGED groupVars \/ \E code \in Codes : GroupExit(q, code)
    BY <1>3, ZenonT(30) DEF ProcessStep, AdmitProcess, PublishProcess, RollbackProcess, PrepareExit,
         RollbackExit, Reap, PublishWithThread, CommitThread, CommitThreadInfallible
  <2> QED BY <1>1, <1>2, <2>1, SMTT(30)
<1>4. ASSUME NEW c \in Cpus, NEW q \in Procs, CpuStep(c, q) PROVE CodeFixed(p)
  <2>1. ASSUME NEW t \in Tids, NEW code \in Codes, ExitThread(c, q, t, code) PROVE CodeFixed(p)
    BY <2>1, RecordedCode, Zenon DEF ExitThread
  <2>2. ASSUME NEW t \in Tids, NEW code \in Codes, NEW withCode \in BOOLEAN,
               RemoveThread(c, q, t, withCode, code)
        PROVE  CodeFixed(p)
    <3>1. CASE withCode
      BY <2>2, <3>1, RecordedCode, Zenon DEF RemoveThread
    <3>2. CASE ~withCode
      BY <2>2, <3>2, Zenon DEF RemoveThread, CodeFixed
    <3> QED BY <3>1, <3>2, Zenon
  <2>3. CASE CommitExit(c, q)
    BY <1>1, <2>3, SMTT(30) DEF CommitExit
  <2>4. ASSUME NEW t \in Tids, NEW unpub \in BOOLEAN,
               \/ PrepareThreadCharge(c, q, t, unpub) \/ PrepareThreadLink(c, q, t, unpub)
               \/ DropThread(c, q, t)
        PROVE  CodeFixed(p)
    BY <1>1, <2>4, Zenon DEF PrepareThreadCharge, PrepareThreadLink, DropThread
  <2> QED BY <1>4, <2>1, <2>2, <2>3, <2>4, ZenonT(30) DEF CpuStep
<1>5. ASSUME NEW c \in Cpus, ReleaseThreadMember(c) PROVE CodeFixed(p)
  BY <1>1, <1>5, Zenon DEF ReleaseThreadMember
<1>6. CASE UNCHANGED vars
  BY <1>1, <1>6, Zenon DEF vars, groupVars
<1> QED BY <1>3, <1>4, <1>5, <1>6, Zenon DEF Next

(* Once a group exit linearized, its code is the exit code of the process for
   good (group_exit, exit_thread), for any threads that exit meanwhile. *)
THEOREM GroupExitCodeCorrect == Spec => GroupExitCodeSticky
<1>1. IInv /\ [Next]_vars =>
        [\A p \in Procs : group_exited[p] =>
           group_exited'[p] /\ exit_code'[p] = exit_code[p]]_vars
  BY CodeStays, Zenon DEF CodeFixed
<1> QED BY <1>1, Invariance, PTL DEF Spec, GroupExitCodeSticky
=============================================================================
