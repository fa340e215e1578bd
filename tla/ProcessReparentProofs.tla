----------------------- MODULE ProcessReparentProofs -----------------------
(***************************************************************************)
(* Proofs about ProcessReparent: a completed exit leaves no child behind,  *)
(* the parents never form a cycle, every batch has one reaper, a child is  *)
(* adopted inside its scope, and every zombie is known to its parent.      *)
(***************************************************************************)
EXTENDS ProcessReparent, WellFoundedInduction, TLAPS

Rolled == {"prepared", "departing"}
Ended == {"zombie", "between", "section", "handoff", "done"}
Walking == {"between", "section", "handoff"}

(* How far an exit has come, and what its locals hold by then. *)
PhaseOf(p) ==
  /\ exit_prepared[p] <=> ex[p].pc \in Rolled
  /\ ex[p].pc \in Rolled => status[p] = "published"
  /\ IsZombie(p) <=> ex[p].pc \in Ended
  /\ ex[p].pc = "section" <=> topo = p
  /\ hasThread[p] => status[p] = "published" /\ ex[p].pc = "none"
  /\ ex[p].pc \notin Walking => ex[p].after = 0 /\ ex[p].deferred = Nobody
  /\ ex[p].pc \notin {"section", "handoff"} => ex[p].moved = {}
  /\ ex[p].pc = "section" => ex[p].len < Batch
  /\ ex[p].finished => ex[p].pc = "handoff"

PhaseOK == \A p \in Pids : PhaseOf(p)

(* Which processes have a parent, and which scope has an init. *)
RootOK == isInit[1] /\ scope[1] = RootScope /\ scopeInit[RootScope] = 1 /\ parent[1] = Nobody

TreeOf(p) ==
  /\ parent[p] # Nobody => PublishedFlag(parent[p])
  /\ status[p] = "none" => parent[p] = Nobody /\ ~isInit[p]
  /\ status[p] = "admitted" =>
       /\ parent[p] # Nobody
       /\ status[parent[p]] = "published" /\ ~exit_prepared[parent[p]]
  /\ isInit[p] => status[p] \in {"admitted", "published"} /\ ex[p].pc = "none"
  /\ isInit[p] /\ status[p] = "published" => scopeInit[scope[p]] = p
  /\ status[p] # "none" /\ ~isInit[p] => scopeInit[scope[p]] # Nobody

ScopeOf(s) ==
  /\ scopeInit[s] # Nobody =>
       /\ status[scopeInit[s]] = "published" /\ isInit[scopeInit[s]]
       /\ scope[scopeInit[s]] = s
  /\ scopeInit[s] \notin {Nobody, 1} => outer[s] # Nobody /\ scopeInit[outer[s]] # Nobody

TreeOK == RootOK /\ (\A p \in Pids : TreeOf(p)) /\ (\A s \in Scopes : ScopeOf(s))

(* An order of creation: parents, and the inits of scopes, come first. *)
Ranked(rank) ==
  /\ \A p \in Pids : parent[p] # Nobody => rank[parent[p]] < rank[p]
  /\ \A p \in Pids : status[p] # "none" /\ ~isInit[p] => rank[scopeInit[scope[p]]] < rank[p]
  /\ \A s \in Scopes : scopeInit[s] \notin {Nobody, 1} =>
       rank[scopeInit[outer[s]]] < rank[scopeInit[s]]

RankOK == \E rank \in [Pids -> Nat] : Ranked(rank)

(* The children an exiting process still has are ahead of its cursor. *)
CursorOK ==
  \A p, q \in Pids : Published(q) /\ parent[q] = p =>
    /\ ex[p].pc # "done"
    /\ ex[p].pc \in Walking =>
         /\ ~ex[p].finished
         /\ q = ex[p].deferred \/ (ex[p].after < q /\ q <= ex[p].upper)

IInv ==
  /\ ReparentTypeOK /\ PhaseOK /\ TreeOK /\ RankOK /\ CursorOK
  /\ BatchHasOneReaper /\ ZombieKnownToParent

-----------------------------------------------------------------------------
(* A nonempty set of natural numbers has a least element. *)
LEMMA LeastElement ==
  ASSUME NEW S, S \subseteq Nat, S # {}
  PROVE  \E x \in S : \A y \in S : x <= y
<1>1. IsWellFoundedOn(OpToRel(<, Nat), Nat)
  BY NatLessThanWellFounded, ZenonT(30)
<1>2. PICK x \in S : \A y \in S : ~ (<<y, x>> \in OpToRel(<, Nat))
  BY <1>1, WFMin, ZenonT(30)
<1>3. \A y \in S : ~ (y < x)
  BY <1>2, ZenonT(30) DEF OpToRel
<1> QED BY <1>3

(* Min names that element. *)
LEMMA MinLeast ==
  ASSUME NEW S, S \subseteq Nat, S # {}
  PROVE  Min(S) \in S /\ \A y \in S : Min(S) <= y
BY LeastElement, ZenonT(30) DEF Min

(* Max names the greatest element of a bounded set. *)
LEMMA MaxGreatest ==
  ASSUME NEW S, NEW n \in Nat, S \subseteq 0..n, S # {}
  PROVE  Max(S) \in S /\ \A y \in S : Max(S) >= y
<1> DEFINE T == {n - x : x \in S}
<1>1. T \subseteq Nat
  OBVIOUS
<1> T # {}
  BY Zenon
<1>2. PICK z \in T : \A y \in T : z <= y
  <2> HIDE DEF T
  <2> QED BY <1>1, LeastElement, ZenonT(30)
<1>3. PICK x \in S : z = n - x
  BY <1>2, Zenon
<1>4. \A y \in S : n - y \in T
  BY Zenon
<1>5. \A y \in S : x >= y
  BY <1>2, <1>3, <1>4
<1> QED BY <1>5, ZenonT(30) DEF Max

(* The walk of SelectReaper, as an equation. *)
IsWalk(w, A, ends, found, up, n) ==
  w = [fuel \in 0..n |-> [q \in A |->
        IF q \in ends \/ fuel = 0 THEN found[q] ELSE w[fuel - 1][up[q]]]]

(* A walk that spends fuel on every step is a function: its recursive
   definition has a solution. *)
LEMMA WalkExists ==
  ASSUME NEW A, NEW ends, NEW found, NEW up, NEW n \in Nat
  PROVE  \E w : IsWalk(w, A, ends, found, up, n)
<1> DEFINE Step(w, fuel) == [q \in A |-> IF q \in ends \/ fuel = 0 THEN found[q] ELSE w[fuel - 1][up[q]]]
           Solves(w, k) == w = [fuel \in 0..k |-> Step(w, fuel)]
           Good(k) == \E w : Solves(w, k)
           Bad == {k \in Nat : ~ Good(k)}
<1>1. ASSUME NEW k \in Nat, \A j \in 0..(k - 1) : Good(j) PROVE Good(k)
  <2>1. CASE k = 0
    <3> DEFINE w == [fuel \in 0..0 |-> [q \in A |-> found[q]]]
    <3>1. \A fuel \in 0..0 : Step(w, fuel) = [q \in A |-> found[q]]
      OBVIOUS
    <3>2. Solves(w, 0)
      BY <3>1, Zenon
    <3> QED BY <2>1, <3>2, ZenonT(30)
  <2>2. CASE k # 0
    <3>1. k - 1 \in Nat /\ k - 1 \in 0..(k - 1)
      BY <2>2
    <3>2. PICK v : Solves(v, k - 1)
      <4> HIDE DEF Solves
      <4> QED BY <1>1, <3>1, Zenon
    <3> DEFINE w == [fuel \in 0..k |-> Step(v, fuel)]
    <3> HIDE DEF Step
    <3>3. \A j \in 0..(k - 1) : v[j] = Step(v, j) /\ w[j] = Step(v, j)
      BY <3>1, <3>2
    <3>4. ASSUME NEW fuel \in 0..k PROVE Step(v, fuel) = Step(w, fuel)
      <4>1. CASE fuel = 0
        BY <4>1, Zenon DEF Step
      <4>2. CASE fuel # 0
        <5>1. fuel - 1 \in 0..(k - 1)
          BY <3>1, <4>2
        <5>2. v[fuel - 1] = w[fuel - 1]
          <6> HIDE DEF w
          <6> QED BY <3>3, <5>1, Zenon
        <5> HIDE DEF w
        <5> QED BY <5>2, Zenon DEF Step
      <4> QED BY <4>1, <4>2, Zenon
    <3>5. w = [fuel \in 0..k |-> Step(w, fuel)]
      BY <3>4, Zenon
    <3> QED BY <3>5, ZenonT(30)
  <2> QED BY <2>1, <2>2, Zenon
<1> HIDE DEF Good
<1>2. Good(n)
  <2> SUFFICES ASSUME Bad # {} PROVE FALSE
    BY Zenon DEF Bad
  <2>1. Bad \subseteq Nat
    BY Zenon DEF Bad
  <2>2. PICK k \in Bad : \A j \in Bad : k <= j
    <3> HIDE DEF Bad
    <3> QED BY <2>1, LeastElement, ZenonT(30)
  <2>3. k \in Nat /\ ~ Good(k)
    BY Zenon DEF Bad
  <2>4. ASSUME NEW j \in 0..(k - 1), ~ Good(j) PROVE FALSE
    <3>1. j \in Nat /\ j < k
      BY <2>3
    <3>2. j \in Bad
      BY <2>4, <3>1, Zenon DEF Bad
    <3> QED BY <2>2, <2>3, <3>1, <3>2
  <2> QED BY <1>1, <2>3, <2>4, Zenon
<1> QED BY <1>2, Zenon DEF Good, IsWalk

(* Every node of D that the walk can stand on offers a result in R, or the
   walk goes on to a node of D. *)
WalkStays(D, R, A, ends, found, up) ==
  D \subseteq A /\ \A q \in D : found[q] \in R /\ (q \notin ends => up[q] \in D)

(* What such a walk returns, from what every node it can stand on offers. *)
LEMMA WalkResult ==
  ASSUME NEW A, NEW ends, NEW found, NEW up, NEW n \in Nat, NEW w,
         IsWalk(w, A, ends, found, up, n),
         NEW D, NEW R, WalkStays(D, R, A, ends, found, up), NEW start \in D
  PROVE  w[n][start] \in R
<1> USE DEF WalkStays
<1> DEFINE Missed(k) == \E q \in D : w[k][q] \notin R
           Bad == {k \in 0..n : Missed(k)}
<1>1. ASSUME NEW k \in 0..n, Missed(k) PROVE k # 0 /\ Missed(k - 1)
  <2>1. PICK q \in D : w[k][q] \notin R
    BY <1>1, Zenon
  <2>2. w[k][q] = IF q \in ends \/ k = 0 THEN found[q] ELSE w[k - 1][up[q]]
    BY DEF IsWalk
  <2>3. q \notin ends /\ k # 0
    BY <2>1, <2>2, Zenon
  <2> QED BY <2>1, <2>2, <2>3, Zenon
<1>2. SUFFICES ASSUME Missed(n) PROVE FALSE
  BY Zenon
<1> HIDE DEF Missed
<1>3. Bad \subseteq Nat /\ n \in Bad
  BY <1>2 DEF Bad
<1>4. PICK k \in Bad : \A j \in Bad : k <= j
  <2> HIDE DEF Bad
  <2> QED BY <1>3, LeastElement, ZenonT(30)
<1>5. k \in 0..n /\ k # 0 /\ Missed(k - 1)
  BY <1>1, <1>4, Zenon DEF Bad
<1>6. k - 1 \in 0..n
  BY <1>5
<1>7. k - 1 \in Bad
  BY <1>5, <1>6, Zenon DEF Bad
<1> QED BY <1>4, <1>5, <1>7

(* select_reaper_for_exit_locked returns an eligible process that was created
   before the exiting one, or the fallback of the child's scope. *)
LEMMA SelectReaperResult ==
  ASSUME ReparentTypeOK, NEW p \in Pids, NEW child \in Pids, NEW freed,
         NEW rank \in [Pids -> Nat], Ranked(rank)
  PROVE  \/ SelectReaper(p, child, freed) = Fallback(child)
         \/ /\ SelectReaper(p, child, freed) \in Pids
            /\ Eligible(SelectReaper(p, child, freed), scope[child])
            /\ rank[SelectReaper(p, child, freed)] < rank[p]
<1> DEFINE s == scope[child]
           A == Pids \union {Nobody}
           up == [q \in Pids |-> IF parent[q] \in freed THEN Nobody ELSE parent[q]]
           ends == {q \in Pids : Eligible(q, s) \/ scope[q] # s} \union {Nobody}
           found == [q \in A |-> IF q # Nobody /\ Eligible(q, s) THEN q ELSE Fallback(child)]
           walk[fuel \in 0..N] ==
             [q \in A |-> IF q \in ends \/ fuel = 0 THEN found[q] ELSE walk[fuel - 1][up[q]]]
           D == {q \in Pids : rank[q] < rank[p]} \union {Nobody}
           R == {q \in Pids : Eligible(q, s) /\ rank[q] < rank[p]} \union {Fallback(child)}
<1>1. SelectReaper(p, child, freed) = walk[N][up[p]]
  BY Zenon DEF SelectReaper
<1>2. N \in Nat /\ Nobody \notin Pids
  BY ReparentAssumption, Zenon DEF Pids
<1>3. \A q \in Pids : up[q] \in A /\ (up[q] # Nobody => rank[up[q]] < rank[q])
  BY Zenon DEF ReparentTypeOK, Ranked
<1>4. D \subseteq A
  BY Zenon
<1>5. up[p] \in D
  <2> HIDE DEF up
  <2> QED BY <1>3, Zenon
<1>6. ASSUME NEW q \in D PROVE found[q] \in R /\ (q \notin ends => up[q] \in D)
  <2>1. found[q] \in R
    BY <1>2, Zenon
  <2>2. ASSUME q \notin ends PROVE up[q] \in D
    <3>1. q \in Pids /\ rank[q] < rank[p]
      BY <2>2, Zenon
    <3> HIDE DEF up, ends
    <3>2. rank[p] \in Nat /\ rank[q] \in Nat /\ (up[q] # Nobody => rank[up[q]] \in Nat)
      BY <1>3, <3>1, Zenon
    <3> QED BY <1>3, <3>1, <3>2
  <2> QED BY <2>1, <2>2, Zenon
<1> HIDE DEF A, D, R, up, found, ends
<1>7. IsWalk(walk, A, ends, found, up, N)
  <2>1. \E w : IsWalk(w, A, ends, found, up, N)
    BY ONLY <1>2, WalkExists, ZenonT(30)
  <2> QED BY ONLY <2>1, ZenonT(30) DEF IsWalk
<1> HIDE DEF walk
<1>8. WalkStays(D, R, A, ends, found, up)
  BY <1>4, <1>6, Zenon DEF WalkStays
<1>9. walk[N][up[p]] \in R
  BY ONLY <1>2, <1>5, <1>8, <1>7, WalkResult, ZenonT(30)
<1> QED BY <1>1, <1>9, Zenon DEF R

(* Nobody is no process. *)
LEMMA NobodyNoPid == Nobody \notin Pids /\ 1 \in Pids
BY ReparentAssumption, Zenon DEF Pids

(* The locals of an exit keep their types when one of them is assigned. *)
LEMMA ExitStateUpdates ==
  ASSUME NEW e \in ExitState
  PROVE  /\ \A v \in {"none", "prepared", "departing", "zombie", "between", "section", "handoff", "done"} :
              [e EXCEPT !.pc = v] \in ExitState
         /\ \A v \in 0..N : [e EXCEPT !.after = v] \in ExitState
         /\ \A v \in 0..N : [e EXCEPT !.upper = v] \in ExitState
         /\ \A v \in Pids \union {Nobody} : [e EXCEPT !.deferred = v] \in ExitState
         /\ \A v \in 0..Batch : [e EXCEPT !.len = v] \in ExitState
         /\ \A v \in Pids \union {Nobody} : [e EXCEPT !.reaper = v] \in ExitState
         /\ \A v \in SUBSET (Pids \X Pids \X BOOLEAN) : [e EXCEPT !.moved = v] \in ExitState
         /\ \A v \in BOOLEAN : [e EXCEPT !.finished = v] \in ExitState
BY Zenon DEF ExitState

(* A process that is not exiting has the idle exit state. *)
LEMMA IdleType == Idle \in ExitState
BY ReparentAssumption DEF Idle, ExitState

(* RankOK is about the tree alone. *)
LEMMA RankKept ==
  ASSUME RankOK, UNCHANGED <<parent, scope, isInit, scopeInit, outer>>,
         \A p \in Pids : status'[p] # "none" => status[p] # "none"
  PROVE  RankOK'
BY Zenon DEF RankOK, Ranked

(* Finitely many processes have a bound on their ranks. *)
LEMMA RankBounded ==
  ASSUME NEW rank \in [Pids -> Nat]
  PROVE  \E top \in Nat : \A p \in Pids : rank[p] < top
<1> DEFINE Bounded(n) == \E top \in Nat : \A p \in 1..n : rank[p] < top
           Bad == {n \in 0..N : ~ Bounded(n)}
<1>1. N \in Nat
  BY ReparentAssumption, Zenon
<1>2. Bounded(0)
  OBVIOUS
<1>3. ASSUME NEW n \in 1..N, Bounded(n - 1) PROVE Bounded(n)
  <2>1. PICK top \in Nat : \A p \in 1..(n - 1) : rank[p] < top
    BY <1>3, Zenon
  <2>2. n \in Pids /\ rank[n] \in Nat
    BY <1>1, Zenon DEF Pids
  <2>3. top + rank[n] + 1 \in Nat
    BY <2>2
  <2>4. ASSUME NEW p \in 1..n PROVE rank[p] < top + rank[n] + 1
    <3>1. p \in Pids /\ rank[p] \in Nat
      BY <1>1 DEF Pids
    <3>2. CASE p = n
      BY <2>2, <3>2
    <3>3. CASE p # n
      <4>1. p \in 1..(n - 1)
        BY <3>3
      <4> QED BY <2>1, <2>2, <3>1, <4>1
    <3> QED BY <3>2, <3>3, Zenon
  <2> QED BY <2>3, <2>4, Zenon
<1> HIDE DEF Bounded
<1>4. SUFFICES Bounded(N)
  BY Zenon DEF Bounded, Pids
<1>5. SUFFICES ASSUME Bad # {} PROVE FALSE
  BY <1>1 DEF Bad
<1>6. PICK n \in Bad : \A m \in Bad : n <= m
  <2>1. Bad \subseteq Nat
    BY DEF Bad
  <2> HIDE DEF Bad
  <2> QED BY <1>5, <2>1, LeastElement, ZenonT(30)
<1>7. n \in 1..N /\ n - 1 \in 0..N
  BY <1>1, <1>2, <1>6 DEF Bad
<1>8. n - 1 \notin Bad
  BY <1>6, <1>7 DEF Bad
<1> QED BY <1>3, <1>6, <1>7, <1>8, Zenon DEF Bad

(* A step that makes no new zombie or parent and takes back no notice. *)
LEMMA ZombieKept ==
  ASSUME ZombieKnownToParent,
         \A z \in Pids : status'[z] = "zombie" /\ parent'[z] # Nobody /\ status'[parent'[z]] = "published" =>
           /\ status[z] = "zombie" /\ parent'[z] = parent[z]
           /\ status[parent[z]] = "published" /\ told[z] \subseteq told'[z],
         \A r \in Pids : ex[r].pc \in {"section", "handoff"} =>
           ex'[r].pc \in {"section", "handoff"} /\ ex'[r].moved = ex[r].moved
  PROVE  ZombieKnownToParent'
BY ZenonT(30) DEF ZombieKnownToParent

(* A fork is prepared: the new process is the latest in the order of creation. *)
LEMMA PrepareForkInv ==
  ASSUME IInv, NEW q \in Pids, NEW p \in Pids, NEW s \in Scopes, PrepareFork(q, p, s)
  PROVE  IInv'
<1> USE DEF IInv
<1>1. ReparentTypeOK'
  BY ReparentAssumption, NobodyNoPid, Zenon DEF PrepareFork, ForkAllowed, ReparentTypeOK
<1>2. PhaseOK'
  BY ReparentAssumption, NobodyNoPid DEF PrepareFork, ForkAllowed, PhaseOK, PhaseOf, ReparentTypeOK, ExitState, IsZombie, Rolled, Ended, Walking, TreeOK, RootOK, TreeOf, ScopeOf
<1>3. TreeOK'
  <2>1. p # 1 /\ q # p
    BY ReparentAssumption, NobodyNoPid DEF PrepareFork, ForkAllowed, TreeOK, RootOK, TreeOf, ScopeOf, PhaseOK, PhaseOf
  <2>2. \A r \in Pids : parent[r] # p
    BY ReparentAssumption, NobodyNoPid DEF PrepareFork, ForkAllowed, TreeOK, RootOK, TreeOf, ScopeOf, PublishedFlag
  <2>3. \A o \in Scopes : scopeInit[o] # p
    BY ReparentAssumption, NobodyNoPid DEF PrepareFork, ForkAllowed, TreeOK, RootOK, TreeOf, ScopeOf
  <2>4. ex[p].pc = "none"
    BY Zenon DEF PrepareFork, ForkAllowed, PhaseOK, PhaseOf, IsZombie, Rolled, Ended, ReparentTypeOK, ExitState
  <2>5. (isInit[1] /\ scope[1] = RootScope /\ scopeInit[RootScope] = 1 /\ parent[1] = Nobody)'
    BY ReparentAssumption, NobodyNoPid, <2>1 DEF PrepareFork, ForkAllowed, TreeOK, RootOK, TreeOf, ScopeOf, ReparentTypeOK
  <2>6. ASSUME NEW r \in Pids
        PROVE  /\ parent'[r] # Nobody => PublishedFlag(parent[r])'
               /\ status'[r] = "none" => parent'[r] = Nobody /\ ~isInit'[r]
               /\ status'[r] = "admitted" =>
                    /\ parent'[r] # Nobody
                    /\ status'[parent'[r]] = "published" /\ ~exit_prepared'[parent'[r]]
    BY ReparentAssumption, NobodyNoPid, <2>1, <2>2 DEF PrepareFork, ForkAllowed, TreeOK, RootOK, TreeOf, ScopeOf, ReparentTypeOK, PublishedFlag, Pids
  <2>7. ASSUME NEW r \in Pids
        PROVE  /\ isInit'[r] => status'[r] \in {"admitted", "published"} /\ ex'[r].pc = "none"
               /\ isInit'[r] /\ status'[r] = "published" => scopeInit'[scope'[r]] = r
               /\ status'[r] # "none" /\ ~isInit'[r] => scopeInit'[scope'[r]] # Nobody
    BY <2>4 DEF PrepareFork, ForkAllowed, TreeOK, RootOK, TreeOf, ScopeOf, ReparentTypeOK
  <2>8. ASSUME NEW o \in Scopes
        PROVE  /\ scopeInit'[o] # Nobody =>
                    /\ status'[scopeInit'[o]] = "published" /\ isInit'[scopeInit'[o]]
                    /\ scope'[scopeInit'[o]] = o
               /\ scopeInit'[o] \notin {Nobody, 1} => outer'[o] # Nobody /\ scopeInit'[outer'[o]] # Nobody
    BY <2>3 DEF PrepareFork, ForkAllowed, TreeOK, RootOK, TreeOf, ScopeOf, ReparentTypeOK
  <2> QED BY <2>5, <2>6, <2>7, <2>8, Zenon DEF TreeOK, RootOK, TreeOf, ScopeOf
<1>4. RankOK'
  <2>1. PICK rank \in [Pids -> Nat] : Ranked(rank)
    BY Zenon DEF RankOK
  <2>2. PICK top \in Nat : \A r \in Pids : rank[r] < top
    BY RankBounded, Zenon
  <2> DEFINE after == [rank EXCEPT ![p] = top]
  <2>3. after \in [Pids -> Nat]
    BY Zenon
  <2>4. \A r \in Pids : parent[r] # p
    BY ReparentAssumption, NobodyNoPid DEF TreeOK, RootOK, TreeOf, ScopeOf, PrepareFork, ForkAllowed, PublishedFlag
  <2>5. \A o \in Scopes : scopeInit[o] # p
    BY ReparentAssumption, NobodyNoPid DEF TreeOK, RootOK, TreeOf, ScopeOf, PrepareFork, ForkAllowed
  <2>6. ASSUME NEW r \in Pids, parent'[r] # Nobody PROVE after[parent'[r]] < after[r]
    BY <2>1, <2>2, <2>4, <2>6, ZenonT(30) DEF Ranked, PrepareFork, ForkAllowed, ReparentTypeOK
  <2>7. ASSUME NEW r \in Pids, status'[r] # "none", ~isInit'[r]
        PROVE  after[scopeInit'[scope'[r]]] < after[r]
    <3>1. CASE r = p
      <4>1. scopeInit'[scope'[r]] = scopeInit[s] /\ isInit'[p] = FALSE
        BY <3>1, Zenon DEF PrepareFork, ForkAllowed, ReparentTypeOK
      <4>2. scopeInit[s] \in Pids /\ scopeInit[s] # p
        BY <2>5, <2>7, <3>1, <4>1, Zenon DEF PrepareFork, ForkAllowed, ReparentTypeOK
      <4> QED BY <2>2, <3>1, <4>1, <4>2, Zenon
    <3>2. CASE r # p
      BY <2>1, <2>5, <2>7, <3>2 DEF Ranked, PrepareFork, ForkAllowed, ReparentTypeOK, TreeOK, RootOK, TreeOf, ScopeOf
    <3> QED BY <3>1, <3>2, Zenon
  <2>8. ASSUME NEW o \in Scopes, scopeInit'[o] \notin {Nobody, 1}
        PROVE  after[scopeInit'[outer'[o]]] < after[scopeInit'[o]]
    BY <2>1, <2>5, <2>8 DEF Ranked, PrepareFork, ForkAllowed, ReparentTypeOK, TreeOK, RootOK, TreeOf, ScopeOf
  <2>9. Ranked(after)'
    BY <2>6, <2>7, <2>8, Zenon DEF Ranked
  <2> QED BY <2>3, <2>9, ZenonT(30) DEF RankOK
<1>5. CursorOK'
  BY ReparentAssumption, NobodyNoPid DEF PrepareFork, ForkAllowed, CursorOK, Published, PhaseOK, PhaseOf, ReparentTypeOK, ExitState, Walking, Rolled, TreeOK, RootOK, TreeOf, ScopeOf
<1>6. BatchHasOneReaper'
  BY DEF PrepareFork, ForkAllowed, BatchHasOneReaper, PhaseOK, PhaseOf, ReparentTypeOK, ExitState
<1>7. ZombieKnownToParent'
  <2>1. \A z \in Pids : status'[z] = "zombie" /\ parent'[z] # Nobody /\ status'[parent'[z]] = "published" =>
          /\ status[z] = "zombie" /\ parent'[z] = parent[z]
          /\ status[parent[z]] = "published" /\ told[z] \subseteq told'[z]
    BY DEF PrepareFork, ForkAllowed, ReparentTypeOK, TreeOK, RootOK, TreeOf, ScopeOf, PublishedFlag
  <2>2. \A r \in Pids : ex[r].pc \in {"section", "handoff"} =>
          ex'[r].pc \in {"section", "handoff"} /\ ex'[r].moved = ex[r].moved
    BY Zenon DEF PrepareFork, ForkAllowed, ReparentTypeOK, ExitState
  <2> QED BY <2>1, <2>2, ZombieKept, Zenon
<1> QED BY <1>1, <1>2, <1>3, <1>4, <1>5, <1>6, <1>7, Zenon

(* The same for a scope's init. *)
LEMMA PrepareForkInitInv ==
  ASSUME IInv, NEW q \in Pids, NEW p \in Pids, NEW s \in Scopes, PrepareForkInit(q, p, s)
  PROVE  IInv'
<1> USE DEF IInv
<1>1. ReparentTypeOK'
  BY ReparentAssumption, NobodyNoPid, Zenon DEF PrepareForkInit, ForkAllowed, ReparentTypeOK
<1>2. PhaseOK'
  BY ReparentAssumption, NobodyNoPid DEF PrepareForkInit, ForkAllowed, PhaseOK, PhaseOf, ReparentTypeOK, ExitState, IsZombie, Rolled, Ended, Walking, TreeOK, RootOK, TreeOf, ScopeOf
<1>3. TreeOK'
  <2>1. p # 1 /\ q # p
    BY ReparentAssumption, NobodyNoPid, Zenon DEF PrepareForkInit, ForkAllowed, TreeOK, RootOK, TreeOf, ScopeOf, PhaseOK, PhaseOf
  <2>2. \A r \in Pids : parent[r] # p
    BY ReparentAssumption, NobodyNoPid DEF PrepareForkInit, ForkAllowed, TreeOK, RootOK, TreeOf, ScopeOf, PublishedFlag
  <2>3. \A o \in Scopes : scopeInit[o] # p
    BY ReparentAssumption, NobodyNoPid DEF PrepareForkInit, ForkAllowed, TreeOK, RootOK, TreeOf, ScopeOf
  <2>4. ex[p].pc = "none"
    BY Zenon DEF PrepareForkInit, ForkAllowed, PhaseOK, PhaseOf, IsZombie, Rolled, Ended, ReparentTypeOK, ExitState
  <2>5. (isInit[1] /\ scope[1] = RootScope /\ scopeInit[RootScope] = 1 /\ parent[1] = Nobody)'
    BY ReparentAssumption, NobodyNoPid, <2>1 DEF PrepareForkInit, ForkAllowed, TreeOK, RootOK, TreeOf, ScopeOf, ReparentTypeOK
  <2>6. ASSUME NEW r \in Pids
        PROVE  /\ parent'[r] # Nobody => PublishedFlag(parent[r])'
               /\ status'[r] = "none" => parent'[r] = Nobody /\ ~isInit'[r]
               /\ status'[r] = "admitted" =>
                    /\ parent'[r] # Nobody
                    /\ status'[parent'[r]] = "published" /\ ~exit_prepared'[parent'[r]]
    BY ReparentAssumption, NobodyNoPid, <2>1, <2>2 DEF PrepareForkInit, ForkAllowed, TreeOK, RootOK, TreeOf, ScopeOf, ReparentTypeOK, PublishedFlag, Pids
  <2>7. ASSUME NEW r \in Pids
        PROVE  /\ isInit'[r] => status'[r] \in {"admitted", "published"} /\ ex'[r].pc = "none"
               /\ isInit'[r] /\ status'[r] = "published" => scopeInit'[scope'[r]] = r
               /\ status'[r] # "none" /\ ~isInit'[r] => scopeInit'[scope'[r]] # Nobody
    BY <2>4 DEF PrepareForkInit, ForkAllowed, TreeOK, RootOK, TreeOf, ScopeOf, ReparentTypeOK
  <2>8. ASSUME NEW o \in Scopes
        PROVE  /\ scopeInit'[o] # Nobody =>
                    /\ status'[scopeInit'[o]] = "published" /\ isInit'[scopeInit'[o]]
                    /\ scope'[scopeInit'[o]] = o
               /\ scopeInit'[o] \notin {Nobody, 1} => outer'[o] # Nobody /\ scopeInit'[outer'[o]] # Nobody
    BY <2>3 DEF PrepareForkInit, ForkAllowed, TreeOK, RootOK, TreeOf, ScopeOf, ReparentTypeOK
  <2> QED BY <2>5, <2>6, <2>7, <2>8, Zenon DEF TreeOK, RootOK, TreeOf, ScopeOf
<1>4. RankOK'
  <2>1. PICK rank \in [Pids -> Nat] : Ranked(rank)
    BY Zenon DEF RankOK
  <2>2. PICK top \in Nat : \A r \in Pids : rank[r] < top
    BY RankBounded, Zenon
  <2> DEFINE after == [rank EXCEPT ![p] = top]
  <2>3. after \in [Pids -> Nat]
    BY Zenon
  <2>4. \A r \in Pids : parent[r] # p
    BY ReparentAssumption, NobodyNoPid DEF TreeOK, RootOK, TreeOf, ScopeOf, PrepareForkInit, ForkAllowed, PublishedFlag
  <2>5. \A o \in Scopes : scopeInit[o] # p
    BY ReparentAssumption, NobodyNoPid DEF TreeOK, RootOK, TreeOf, ScopeOf, PrepareForkInit, ForkAllowed
  <2>6. ASSUME NEW r \in Pids, parent'[r] # Nobody PROVE after[parent'[r]] < after[r]
    BY <2>1, <2>2, <2>4, <2>6, ZenonT(30) DEF Ranked, PrepareForkInit, ForkAllowed, ReparentTypeOK
  <2>7. ASSUME NEW r \in Pids, status'[r] # "none", ~isInit'[r]
        PROVE  after[scopeInit'[scope'[r]]] < after[r]
    <3>1. CASE r = p
      <4>1. scopeInit'[scope'[r]] = scopeInit[s] /\ isInit'[p] = TRUE
        BY <3>1, Zenon DEF PrepareForkInit, ForkAllowed, ReparentTypeOK
      <4>2. scopeInit[s] \in Pids /\ scopeInit[s] # p
        BY <2>5, <2>7, <3>1, <4>1, Zenon DEF PrepareForkInit, ForkAllowed, ReparentTypeOK
      <4> QED BY <2>2, <3>1, <4>1, <4>2, Zenon
    <3>2. CASE r # p
      BY <2>1, <2>5, <2>7, <3>2 DEF Ranked, PrepareForkInit, ForkAllowed, ReparentTypeOK, TreeOK, RootOK, TreeOf, ScopeOf
    <3> QED BY <3>1, <3>2, Zenon
  <2>8. ASSUME NEW o \in Scopes, scopeInit'[o] \notin {Nobody, 1}
        PROVE  after[scopeInit'[outer'[o]]] < after[scopeInit'[o]]
    BY <2>1, <2>5, <2>8 DEF Ranked, PrepareForkInit, ForkAllowed, ReparentTypeOK, TreeOK, RootOK, TreeOf, ScopeOf
  <2>9. Ranked(after)'
    BY <2>6, <2>7, <2>8, Zenon DEF Ranked
  <2> QED BY <2>3, <2>9, ZenonT(30) DEF RankOK
<1>5. CursorOK'
  BY ReparentAssumption, NobodyNoPid DEF PrepareForkInit, ForkAllowed, CursorOK, Published, PhaseOK, PhaseOf, ReparentTypeOK, ExitState, Walking, Rolled, TreeOK, RootOK, TreeOf, ScopeOf
<1>6. BatchHasOneReaper'
  BY DEF PrepareForkInit, ForkAllowed, BatchHasOneReaper, PhaseOK, PhaseOf, ReparentTypeOK, ExitState
<1>7. ZombieKnownToParent'
  <2>1. \A z \in Pids : status'[z] = "zombie" /\ parent'[z] # Nobody /\ status'[parent'[z]] = "published" =>
          /\ status[z] = "zombie" /\ parent'[z] = parent[z]
          /\ status[parent[z]] = "published" /\ told[z] \subseteq told'[z]
    BY DEF PrepareForkInit, ForkAllowed, ReparentTypeOK, TreeOK, RootOK, TreeOf, ScopeOf, PublishedFlag
  <2>2. \A r \in Pids : ex[r].pc \in {"section", "handoff"} =>
          ex'[r].pc \in {"section", "handoff"} /\ ex'[r].moved = ex[r].moved
    BY Zenon DEF PrepareForkInit, ForkAllowed, ReparentTypeOK, ExitState
  <2> QED BY <2>1, <2>2, ZombieKept, Zenon
<1> QED BY <1>1, <1>2, <1>3, <1>4, <1>5, <1>6, <1>7, Zenon

(* A fork is committed. *)
LEMMA CommitForkInv ==
  ASSUME IInv, NEW p \in Pids, NEW t \in BOOLEAN, CommitFork(p, t)
  PROVE  IInv'
<1> USE DEF IInv
<1>1. ReparentTypeOK'
  BY ReparentAssumption, NobodyNoPid, Zenon DEF CommitFork, treeVars, ReparentTypeOK
<1>2. PhaseOK'
  BY ReparentAssumption, NobodyNoPid DEF CommitFork, treeVars, PhaseOK, PhaseOf, ReparentTypeOK, ExitState, IsZombie, Rolled, Ended, Walking, TreeOK, RootOK, TreeOf, ScopeOf
<1>3. TreeOK'
  BY ReparentAssumption, NobodyNoPid DEF CommitFork, treeVars, TreeOK, RootOK, TreeOf, ScopeOf, PhaseOK, PhaseOf, ReparentTypeOK, PublishedFlag, IsZombie, Rolled, Ended
<1>4. RankOK'
  BY RankKept, ZenonT(30) DEF CommitFork, treeVars, ReparentTypeOK, PhaseOK, PhaseOf, Rolled
<1>5. CursorOK'
  <2>1. ex[parent[p]].pc \notin Ended
    BY ReparentAssumption, NobodyNoPid DEF CommitFork, treeVars, TreeOK, RootOK, TreeOf, ScopeOf, PhaseOK, PhaseOf, IsZombie, ReparentTypeOK
  <2> QED BY <2>1, Zenon DEF CommitFork, treeVars, Discard, CursorOK, Published, ReparentTypeOK, Walking, Ended
<1>6. BatchHasOneReaper'
  BY DEF CommitFork, treeVars, BatchHasOneReaper, PhaseOK, PhaseOf, ReparentTypeOK, ExitState
<1>7. ZombieKnownToParent'
  <2>1. \A z \in Pids : status'[z] = "zombie" /\ parent'[z] # Nobody /\ status'[parent'[z]] = "published" =>
          /\ status[z] = "zombie" /\ parent'[z] = parent[z]
          /\ status[parent[z]] = "published" /\ told[z] \subseteq told'[z]
    BY DEF CommitFork, treeVars, ReparentTypeOK, TreeOK, RootOK, TreeOf, ScopeOf, PublishedFlag
  <2>2. \A r \in Pids : ex[r].pc \in {"section", "handoff"} =>
          ex'[r].pc \in {"section", "handoff"} /\ ex'[r].moved = ex[r].moved
    BY Zenon DEF CommitFork, treeVars, ReparentTypeOK, ExitState
  <2> QED BY <2>1, <2>2, ZombieKept, Zenon
<1> QED BY <1>1, <1>2, <1>3, <1>4, <1>5, <1>6, <1>7, Zenon

(* An unpublished process leaves the tree, and nothing refers to it. *)
LEMMA DiscardKeeps ==
  ASSUME IInv, NEW p \in Pids, status[p] = "admitted", Discard(p),
         UNCHANGED <<subreaper, hasThread, exit_prepared, scopeInit, outer, topo, ex, told, toggles>>,
         panicked' \in BOOLEAN
  PROVE  IInv'
<1> USE DEF IInv
<1>0. /\ p # 1 /\ ex[p].pc = "none" /\ ~hasThread[p]
      /\ \A r \in Pids : parent[r] # p
      /\ \A o \in Scopes : scopeInit[o] # p
  <2>1. \A r \in Pids : parent[r] # p
    BY NobodyNoPid DEF TreeOK, RootOK, TreeOf, ScopeOf, PublishedFlag
  <2>2. \A o \in Scopes : scopeInit[o] # p
    BY NobodyNoPid DEF TreeOK, RootOK, TreeOf, ScopeOf
  <2>3. ex[p].pc = "none"
    BY Zenon DEF PhaseOK, PhaseOf, IsZombie, Rolled, Ended, ReparentTypeOK, ExitState
  <2>4. p # 1 /\ ~hasThread[p]
    BY ReparentAssumption, <2>2, Zenon DEF TreeOK, RootOK, TreeOf, ScopeOf, PhaseOK, PhaseOf
  <2> QED BY <2>1, <2>2, <2>3, <2>4, Zenon
<1>1. ReparentTypeOK'
  BY ReparentAssumption, Zenon DEF Discard, ReparentTypeOK
<1>2. PhaseOK'
  BY <1>0 DEF Discard, PhaseOK, PhaseOf, ReparentTypeOK, IsZombie, Rolled, Ended
<1>3. TreeOK'
  <2>1. (isInit[1] /\ scope[1] = RootScope /\ scopeInit[RootScope] = 1 /\ parent[1] = Nobody)'
    BY NobodyNoPid, <1>0 DEF Discard, TreeOK, RootOK, TreeOf, ScopeOf, ReparentTypeOK
  <2>2. ASSUME NEW r \in Pids
        PROVE  /\ parent'[r] # Nobody => PublishedFlag(parent[r])'
               /\ status'[r] = "none" => parent'[r] = Nobody /\ ~isInit'[r]
               /\ status'[r] = "admitted" =>
                    /\ parent'[r] # Nobody
                    /\ status'[parent'[r]] = "published" /\ ~exit_prepared'[parent'[r]]
    BY <1>0 DEF Discard, TreeOK, RootOK, TreeOf, ScopeOf, ReparentTypeOK, PublishedFlag
  <2>3. ASSUME NEW r \in Pids
        PROVE  /\ isInit'[r] => status'[r] \in {"admitted", "published"} /\ ex'[r].pc = "none"
               /\ isInit'[r] /\ status'[r] = "published" => scopeInit'[scope'[r]] = r
               /\ status'[r] # "none" /\ ~isInit'[r] => scopeInit'[scope'[r]] # Nobody
    BY <1>0 DEF Discard, TreeOK, RootOK, TreeOf, ScopeOf, ReparentTypeOK
  <2>4. ASSUME NEW o \in Scopes
        PROVE  /\ scopeInit'[o] # Nobody =>
                    /\ status'[scopeInit'[o]] = "published" /\ isInit'[scopeInit'[o]]
                    /\ scope'[scopeInit'[o]] = o
               /\ scopeInit'[o] \notin {Nobody, 1} => outer'[o] # Nobody /\ scopeInit'[outer'[o]] # Nobody
    BY <1>0 DEF Discard, TreeOK, RootOK, TreeOf, ScopeOf, ReparentTypeOK
  <2> QED BY <2>1, <2>2, <2>3, <2>4 DEF TreeOK, RootOK, TreeOf, ScopeOf
<1>4. RankOK'
  <2>1. PICK rank \in [Pids -> Nat] : Ranked(rank)
    BY Zenon DEF RankOK
  <2>2. ASSUME NEW r \in Pids, parent'[r] # Nobody PROVE rank[parent'[r]] < rank[r]
    BY <2>1, <2>2, Zenon DEF Ranked, Discard, ReparentTypeOK
  <2>3. ASSUME NEW r \in Pids, status'[r] # "none", ~isInit'[r]
        PROVE  rank[scopeInit'[scope'[r]]] < rank[r]
    BY <2>1, <2>3, Zenon DEF Ranked, Discard, ReparentTypeOK
  <2>4. Ranked(rank)'
    BY <2>1, <2>2, <2>3, Zenon DEF Ranked
  <2> QED BY <2>4, Zenon DEF RankOK
<1>5. CursorOK'
  BY Zenon DEF Discard, CursorOK, Published, ReparentTypeOK
<1>6. BatchHasOneReaper'
  BY Zenon DEF BatchHasOneReaper
<1>7. ZombieKnownToParent'
  <2>1. \A z \in Pids : status'[z] = "zombie" /\ parent'[z] # Nobody /\ status'[parent'[z]] = "published" =>
          /\ status[z] = "zombie" /\ parent'[z] = parent[z]
          /\ status[parent[z]] = "published" /\ told[z] \subseteq told'[z]
    BY <1>0, Zenon DEF Discard, ReparentTypeOK
  <2> QED BY <2>1, ZombieKept, Zenon
<1> QED BY <1>1, <1>2, <1>3, <1>4, <1>5, <1>6, <1>7, Zenon

(* A scope's init is committed: it binds the scope, whose outer scope is its
   parent's; an already bound scope ends it. *)
LEMMA CommitForkInitInv ==
  ASSUME IInv, NEW p \in Pids, NEW t \in BOOLEAN, CommitForkInit(p, t)
  PROVE  IInv'
<1>a. CASE scopeInit[scope[p]] # Nobody
  BY <1>a, DiscardKeeps, ZenonT(30) DEF CommitForkInit
<1>b. SUFFICES ASSUME scopeInit[scope[p]] = Nobody PROVE IInv'
  BY <1>a, Zenon
<1> DEFINE s == scope[p]
           q == parent[p]
<1> USE DEF IInv
<1>c. /\ status[p] = "admitted" /\ isInit[p] /\ s \in Scopes
      /\ scopeInit' = [scopeInit EXCEPT ![s] = p]
      /\ outer' = [outer EXCEPT ![s] = scope[q]]
      /\ status' = [status EXCEPT ![p] = "published"]
      /\ hasThread' = [hasThread EXCEPT ![p] = t]
      /\ UNCHANGED <<panicked, parent, scope, isInit, subreaper, exit_prepared, topo, ex, told, toggles>>
  BY <1>b, Zenon DEF CommitForkInit, ReparentTypeOK
<1>d. q \in Pids /\ q # p /\ status[q] = "published" /\ ~exit_prepared[q] /\ q # Nobody /\ scope[q] \in Scopes
  BY <1>c, NobodyNoPid DEF TreeOK, RootOK, TreeOf, ScopeOf, ReparentTypeOK
<1>e. scopeInit[scope[q]] # Nobody /\ scope[q] # s /\ s # RootScope
  <2>1. scopeInit[RootScope] # Nobody
    BY NobodyNoPid, Zenon DEF TreeOK, RootOK
  <2>2. TreeOf(q)
    BY <1>d, Zenon DEF TreeOK
  <2>3. scopeInit[scope[q]] # Nobody
    BY <1>d, <2>2, NobodyNoPid, Zenon DEF TreeOf
  <2> QED BY <1>b, <2>1, <2>3, Zenon
<1>f. /\ \A o \in Scopes : scopeInit[o] # p
      /\ \A r \in Pids : status[r] # "none" /\ ~isInit[r] => scope[r] # s
      /\ \A o \in Scopes : scopeInit[o] \notin {Nobody, 1} => outer[o] # s
      /\ p # 1 /\ ex[p].pc = "none"
  <2>1. \A o \in Scopes : scopeInit[o] # p
    BY <1>c, NobodyNoPid DEF TreeOK, RootOK, TreeOf, ScopeOf
  <2>2. \A r \in Pids : status[r] # "none" /\ ~isInit[r] => scope[r] # s
    BY <1>b DEF TreeOK, RootOK, TreeOf, ScopeOf
  <2>3. \A o \in Scopes : scopeInit[o] \notin {Nobody, 1} => outer[o] # s
    BY <1>b DEF TreeOK, RootOK, TreeOf, ScopeOf
  <2>4. p # 1
    BY <2>1, ReparentAssumption DEF TreeOK, RootOK, TreeOf, ScopeOf
  <2>5. ex[p].pc = "none"
    BY <1>c, Zenon DEF TreeOK, RootOK, TreeOf, ScopeOf
  <2> QED BY <2>1, <2>2, <2>3, <2>4, <2>5, Zenon
<1> HIDE DEF s, q
<1>1. ReparentTypeOK'
  BY <1>c, <1>d, Zenon DEF ReparentTypeOK
<1>2. PhaseOK'
  BY <1>c, <1>f DEF PhaseOK, PhaseOf, ReparentTypeOK, IsZombie, Rolled, Ended
<1>3. TreeOK'
  <2>1. (isInit[1] /\ scope[1] = RootScope /\ scopeInit[RootScope] = 1 /\ parent[1] = Nobody)'
    BY NobodyNoPid, ReparentAssumption, <1>c, <1>e DEF TreeOK, RootOK, TreeOf, ScopeOf, ReparentTypeOK
  <2>2. ASSUME NEW r \in Pids
        PROVE  /\ parent'[r] # Nobody => PublishedFlag(parent[r])'
               /\ status'[r] = "none" => parent'[r] = Nobody /\ ~isInit'[r]
               /\ status'[r] = "admitted" =>
                    /\ parent'[r] # Nobody
                    /\ status'[parent'[r]] = "published" /\ ~exit_prepared'[parent'[r]]
    BY <1>c DEF TreeOK, RootOK, TreeOf, ScopeOf, ReparentTypeOK, PublishedFlag
  <2>3. ASSUME NEW r \in Pids
        PROVE  /\ isInit'[r] => status'[r] \in {"admitted", "published"} /\ ex'[r].pc = "none"
               /\ isInit'[r] /\ status'[r] = "published" => scopeInit'[scope'[r]] = r
               /\ status'[r] # "none" /\ ~isInit'[r] => scopeInit'[scope'[r]] # Nobody
    <3>1. CASE r = p
      BY <1>c, <1>f, <3>1 DEF TreeOK, RootOK, TreeOf, ScopeOf, ReparentTypeOK, s
    <3>2. CASE r # p
      <4>1. status'[r] = status[r] /\ isInit'[r] = isInit[r] /\ scope'[r] = scope[r] /\ ex'[r] = ex[r]
        BY <1>c, <3>2, Zenon DEF ReparentTypeOK
      <4>2. isInit[r] /\ status[r] = "published" => scope[r] # s
        BY <1>b, NobodyNoPid DEF TreeOK, RootOK, TreeOf, ScopeOf, s
      <4>3. \A o \in Scopes : o # s => scopeInit'[o] = scopeInit[o]
        BY <1>c, Zenon DEF ReparentTypeOK
      <4> QED BY <1>f, <4>1, <4>2, <4>3 DEF TreeOK, RootOK, TreeOf, ScopeOf, ReparentTypeOK
    <3> QED BY <3>1, <3>2, Zenon
  <2>4. ASSUME NEW o \in Scopes
        PROVE  /\ scopeInit'[o] # Nobody =>
                    /\ status'[scopeInit'[o]] = "published" /\ isInit'[scopeInit'[o]]
                    /\ scope'[scopeInit'[o]] = o
               /\ scopeInit'[o] \notin {Nobody, 1} => outer'[o] # Nobody /\ scopeInit'[outer'[o]] # Nobody
    <3>1. CASE o = s
      <4>1. scopeInit'[o] = p /\ outer'[o] = scope[q] /\ scopeInit'[scope[q]] = scopeInit[scope[q]]
        BY <1>c, <1>d, <1>e, <3>1, Zenon DEF ReparentTypeOK
      <4>2. scope[q] # Nobody
        BY <1>d, ReparentAssumption, Zenon
      <4> QED BY <1>c, <1>e, <3>1, <4>1, <4>2, Zenon DEF ReparentTypeOK, s
    <3>2. CASE o # s
      <4>1. scopeInit'[o] = scopeInit[o] /\ outer'[o] = outer[o]
        BY <1>c, <3>2, Zenon DEF ReparentTypeOK
      <4>2. \A x \in Scopes : x # s => scopeInit'[x] = scopeInit[x]
        BY <1>c, Zenon DEF ReparentTypeOK
      <4>3. scopeInit[o] # Nobody => status'[scopeInit[o]] = status[scopeInit[o]]
        BY <1>c, <1>f, Zenon DEF ReparentTypeOK
      <4> QED BY <1>c, <1>f, <4>1, <4>2, <4>3 DEF TreeOK, RootOK, TreeOf, ScopeOf, ReparentTypeOK
    <3> QED BY <3>1, <3>2, Zenon
  <2> QED BY <2>1, <2>2, <2>3, <2>4, ZenonT(30) DEF TreeOK, RootOK, TreeOf, ScopeOf
<1>4. RankOK'
  <2>1. PICK rank \in [Pids -> Nat] : Ranked(rank)
    BY Zenon DEF RankOK
  <2>2. \A o \in Scopes : o # s => scopeInit'[o] = scopeInit[o] /\ outer'[o] = outer[o]
    BY <1>c, Zenon DEF ReparentTypeOK
  <2>3. ASSUME NEW r \in Pids, status'[r] # "none", ~isInit'[r]
        PROVE  rank[scopeInit'[scope'[r]]] < rank[r]
    <3>1. status[r] # "none" /\ ~isInit[r] /\ scope'[r] = scope[r] /\ scope[r] # s /\ scope[r] \in Scopes
      BY <1>c, <1>f, <2>3, Zenon DEF ReparentTypeOK
    <3> QED BY <2>1, <2>2, <3>1, ZenonT(30) DEF Ranked
  <2>4. rank[scopeInit[scope[q]]] < rank[p]
    <3>1. rank[q] < rank[p]
      BY <1>d, <2>1, Zenon DEF Ranked, q
    <3>2. scopeInit[scope[q]] = q \/ rank[scopeInit[scope[q]]] < rank[q]
      BY <1>d, <2>1, Zenon DEF Ranked, TreeOK, RootOK, TreeOf, ScopeOf
    <3>3. scopeInit[scope[q]] \in Pids
      BY <1>d, <1>e, Zenon DEF ReparentTypeOK
    <3>4. rank[p] \in Nat /\ rank[q] \in Nat /\ rank[scopeInit[scope[q]]] \in Nat
      BY <1>d, <3>3, Zenon
    <3> QED BY <3>1, <3>2, <3>4
  <2>5. ASSUME NEW o \in Scopes, scopeInit'[o] \notin {Nobody, 1}
        PROVE  rank[scopeInit'[outer'[o]]] < rank[scopeInit'[o]]
    <3>1. CASE o = s
      <4>1. scopeInit'[o] = p /\ outer'[o] = scope[q] /\ scopeInit'[scope[q]] = scopeInit[scope[q]]
        BY <1>c, <1>d, <1>e, <3>1, Zenon DEF ReparentTypeOK
      <4> QED BY <2>4, <4>1, Zenon
    <3>2. CASE o # s
      <4>1. outer[o] # s /\ outer[o] \in Scopes
        BY <1>f, <2>2, <2>5, <3>2 DEF TreeOK, RootOK, TreeOf, ScopeOf, ReparentTypeOK
      <4> QED BY <2>1, <2>2, <2>5, <3>2, <4>1, Zenon DEF Ranked
    <3> QED BY <3>1, <3>2, Zenon
  <2>6. \A r \in Pids : parent'[r] # Nobody => rank[parent'[r]] < rank[r]
    BY <1>c, <2>1, ZenonT(30) DEF Ranked
  <2>7. Ranked(rank)'
    BY <2>3, <2>5, <2>6, ZenonT(30) DEF Ranked
  <2> QED BY <2>7, Zenon DEF RankOK
<1>5. CursorOK'
  <2>1. ex[q].pc \notin Ended
    BY <1>d, Zenon DEF PhaseOK, PhaseOf, IsZombie
  <2>2. ASSUME NEW x \in Pids, NEW y \in Pids, Published(y)', parent'[y] = x, y # p
        PROVE  Published(y) /\ parent[y] = x
    BY <1>c, <2>2, Zenon DEF Published, ReparentTypeOK
  <2> QED BY <1>c, <2>1, <2>2, Zenon DEF CursorOK, Walking, Ended, q
<1>6. BatchHasOneReaper'
  BY <1>c, ZenonT(30) DEF BatchHasOneReaper
<1>7. ZombieKnownToParent'
  <2>1. \A r \in Pids : parent[r] # p
    BY <1>c, NobodyNoPid DEF TreeOK, RootOK, TreeOf, ScopeOf, PublishedFlag
  <2>2. \A z \in Pids : status'[z] = "zombie" /\ parent'[z] # Nobody /\ status'[parent'[z]] = "published" =>
          /\ status[z] = "zombie" /\ parent'[z] = parent[z]
          /\ status[parent[z]] = "published" /\ told[z] \subseteq told'[z]
    BY <1>c, <2>1, Zenon DEF ReparentTypeOK
  <2> QED BY <1>c, <2>2, ZombieKept, Zenon
<1> QED BY <1>1, <1>2, <1>3, <1>4, <1>5, <1>6, <1>7, Zenon

(* An admission is dropped. *)
LEMMA RollbackForkInv ==
  ASSUME IInv, NEW p \in Pids, RollbackFork(p)
  PROVE  IInv'
BY DiscardKeeps, Zenon DEF RollbackFork, IInv, ReparentTypeOK

(* SetSubreaper *)
LEMMA SetSubreaperInv ==
  ASSUME IInv, NEW p \in Pids, NEW on \in BOOLEAN, SetSubreaper(p, on)
  PROVE  IInv'
<1> USE DEF IInv
<1>1. ReparentTypeOK'
  <2>1. toggles' \in 0..MaxToggles
    BY ReparentAssumption, NobodyNoPid DEF SetSubreaper, ReparentTypeOK
  <2> QED BY <2>1, Zenon DEF SetSubreaper, ReparentTypeOK
<1>2. PhaseOK'
  BY ReparentAssumption, NobodyNoPid DEF SetSubreaper, PhaseOK, PhaseOf, ReparentTypeOK, ExitState, IsZombie, Rolled, Ended, Walking, TreeOK, RootOK, TreeOf, ScopeOf
<1>3. TreeOK'
  BY ReparentAssumption, NobodyNoPid DEF SetSubreaper, TreeOK, RootOK, TreeOf, ScopeOf, PhaseOK, PhaseOf, ReparentTypeOK, PublishedFlag, IsZombie, Rolled, Ended
<1>4. RankOK'
  BY RankKept, ZenonT(30) DEF SetSubreaper, ReparentTypeOK, PhaseOK, PhaseOf, Rolled
<1>5. CursorOK'
  BY ReparentAssumption, NobodyNoPid DEF SetSubreaper, CursorOK, Published, PhaseOK, PhaseOf, ReparentTypeOK, ExitState, Walking, Rolled, TreeOK, RootOK, TreeOf, ScopeOf
<1>6. BatchHasOneReaper'
  BY DEF SetSubreaper, BatchHasOneReaper, PhaseOK, PhaseOf, ReparentTypeOK, ExitState
<1>7. ZombieKnownToParent'
  <2>1. \A z \in Pids : status'[z] = "zombie" /\ parent'[z] # Nobody /\ status'[parent'[z]] = "published" =>
          /\ status[z] = "zombie" /\ parent'[z] = parent[z]
          /\ status[parent[z]] = "published" /\ told[z] \subseteq told'[z]
    BY Zenon DEF SetSubreaper, ReparentTypeOK, TreeOK, RootOK, TreeOf, ScopeOf, PublishedFlag
  <2>2. \A r \in Pids : ex[r].pc \in {"section", "handoff"} =>
          ex'[r].pc \in {"section", "handoff"} /\ ex'[r].moved = ex[r].moved
    BY Zenon DEF SetSubreaper, ReparentTypeOK, ExitState
  <2> QED BY <2>1, <2>2, ZombieKept, Zenon
<1> QED BY <1>1, <1>2, <1>3, <1>4, <1>5, <1>6, <1>7, Zenon

(* An action of p's exit: it changes nothing of another process, and leaves
   the locals e. *)
OwnStep(p, e) ==
  /\ UNCHANGED <<parent, scope, isInit, scopeInit, outer>>
  /\ ex'[p] = e
  /\ \A x \in Pids : x # p =>
       /\ ex'[x] = ex[x] /\ status'[x] = status[x]
       /\ exit_prepared'[x] = exit_prepared[x] /\ hasThread'[x] = hasThread[x]
       /\ topo' = x <=> topo = x

(* Such an action keeps the invariant if it keeps it of p. *)
LEMMA OwnStepKeeps ==
  ASSUME IInv, NEW p \in Pids, NEW e, OwnStep(p, e), PhaseOf(p)', ~isInit[p],
         PublishedFlag(p), PublishedFlag(p)', Published(p)' => Published(p),
         \A q \in Pids : status[q] = "admitted" /\ parent[q] = p =>
           status'[p] = status[p] /\ (exit_prepared'[p] => exit_prepared[p]),
         \A q \in Pids : Published(q) /\ parent[q] = p =>
           /\ e.pc # "done"
           /\ e.pc \in Walking => ~e.finished /\ (q = e.deferred \/ (e.after < q /\ q <= e.upper)),
         \A m \in e.moved : m[2] = e.reaper
  PROVE  PhaseOK' /\ TreeOK' /\ RankOK' /\ CursorOK' /\ BatchHasOneReaper'
<1> USE DEF IInv
<1>1. PhaseOK'
  <2>1. ASSUME NEW x \in Pids, x # p PROVE PhaseOf(x)'
    <3>1. PhaseOf(x)
      BY Zenon DEF PhaseOK
    <3>2. /\ ex'[x] = ex[x] /\ status'[x] = status[x]
          /\ exit_prepared'[x] = exit_prepared[x] /\ hasThread'[x] = hasThread[x]
          /\ topo' = x <=> topo = x
      BY <2>1, Zenon DEF OwnStep
    <3> QED BY ONLY <3>1, <3>2, Zenon DEF PhaseOf, IsZombie
  <2> QED BY <2>1, ZenonT(30) DEF PhaseOK
<1>2. UNCHANGED <<parent, scope, isInit, scopeInit, outer>>
  BY Zenon DEF OwnStep
<1>3. \A x \in Pids : (PublishedFlag(x) => PublishedFlag(x)') /\ (Published(x)' => Published(x))
  BY Zenon DEF OwnStep, PublishedFlag, Published
<1>4. TreeOK'
  <2>1. RootOK'
    BY <1>2, ZenonT(30) DEF TreeOK, RootOK
  <2>2. ASSUME NEW x \in Pids PROVE TreeOf(x)'
    <3>1. TreeOf(x) /\ parent[x] \in Pids \union {Nobody} /\ parent'[x] = parent[x]
      BY <1>2, ZenonT(30) DEF TreeOK, ReparentTypeOK
    <3>2. parent'[x] # Nobody => PublishedFlag(parent[x])'
      BY <1>2, <1>3, <3>1, Zenon DEF TreeOf
    <3>3. /\ status'[x] = "none" => status[x] = "none"
          /\ status'[x] = "admitted" => status[x] = "admitted"
          /\ status[x] = "none" => status'[x] = "none"
      BY Zenon DEF OwnStep, PublishedFlag
    <3>4. status'[x] = "admitted" => status'[parent[x]] = "published" /\ ~exit_prepared'[parent[x]]
      <4>1. CASE parent[x] = p
        BY <3>1, <3>3, <4>1, Zenon DEF TreeOf
      <4>2. CASE parent[x] # p
        BY <3>1, <3>3, <4>2, Zenon DEF TreeOf, OwnStep
      <4> QED BY <4>1, <4>2, Zenon
    <3>5. isInit[x] => status'[x] = status[x] /\ ex'[x] = ex[x]
      BY Zenon DEF OwnStep
    <3> QED BY ONLY <1>2, <3>1, <3>2, <3>3, <3>4, <3>5, Zenon DEF TreeOf
  <2>3. ASSUME NEW s \in Scopes PROVE ScopeOf(s)'
    <3>1. ScopeOf(s) /\ scopeInit[s] \in Pids \union {Nobody}
      BY Zenon DEF TreeOK, ReparentTypeOK
    <3>2. scopeInit[s] # Nobody => status'[scopeInit[s]] = status[scopeInit[s]]
      BY <3>1, ZenonT(30) DEF ScopeOf, OwnStep
    <3> QED BY ONLY <1>2, <3>1, <3>2, Zenon DEF ScopeOf
  <2> QED BY <2>1, <2>2, <2>3, Zenon DEF TreeOK
<1>5. RankOK'
  <2>1. \A x \in Pids : status'[x] # "none" => status[x] # "none"
    BY ZenonT(30) DEF OwnStep, PublishedFlag
  <2> QED BY <1>2, <2>1, RankKept, ZenonT(30)
<1>6. CursorOK'
  <2>1. ASSUME NEW x \in Pids, NEW q \in Pids, Published(q)', parent'[q] = x
        PROVE  /\ ex'[x].pc # "done"
               /\ ex'[x].pc \in Walking =>
                    /\ ~ex'[x].finished
                    /\ q = ex'[x].deferred \/ (ex'[x].after < q /\ q <= ex'[x].upper)
    <3>1. Published(q) /\ parent[q] = x
      BY <1>2, <1>3, <2>1, Zenon
    <3>2. CASE x = p
      BY <3>1, <3>2, Zenon DEF OwnStep
    <3>3. CASE x # p
      <4>1. ex'[x] = ex[x]
        BY <3>3, Zenon DEF OwnStep
      <4> QED BY <3>1, <4>1, Zenon DEF CursorOK
    <3> QED BY <3>2, <3>3, ZenonT(30)
  <2> QED BY <2>1, ZenonT(30) DEF CursorOK
<1>7. BatchHasOneReaper'
  <2>1. ASSUME NEW x \in Pids PROVE \A m \in ex'[x].moved : m[2] = ex'[x].reaper
    <3>1. CASE x = p
      BY <3>1, ZenonT(30) DEF OwnStep
    <3>2. CASE x # p
      BY <3>2 DEF OwnStep, BatchHasOneReaper
    <3> QED BY <3>1, <3>2, Zenon
  <2> QED BY <2>1, Zenon DEF BatchHasOneReaper
<1> QED BY <1>1, <1>4, <1>5, <1>6, <1>7, ZenonT(30)

(* And no zombie is forgotten by it if p neither turns zombie nor drops what
   it still has to tell. *)
LEMMA OwnStepTells ==
  ASSUME IInv, NEW p \in Pids, NEW e, OwnStep(p, e),
         status'[p] = "zombie" => status[p] = "zombie",
         status'[p] = "published" => status[p] = "published",
         \A z \in Pids : told[z] \subseteq told'[z],
         ex[p].pc \in {"section", "handoff"} => e.pc \in {"section", "handoff"} /\ e.moved = ex[p].moved
  PROVE  ZombieKnownToParent'
<1>1. \A z \in Pids : status'[z] = "zombie" /\ parent'[z] # Nobody /\ status'[parent'[z]] = "published" =>
        /\ status[z] = "zombie" /\ parent'[z] = parent[z]
        /\ status[parent[z]] = "published" /\ told[z] \subseteq told'[z]
  <2>1. \A z \in Pids : parent'[z] = parent[z] /\ parent[z] \in Pids \union {Nobody}
    BY Zenon DEF OwnStep, IInv, ReparentTypeOK
  <2>2. \A z \in Pids : /\ status'[z] = "zombie" => status[z] = "zombie"
                        /\ status'[z] = "published" => status[z] = "published"
    BY ZenonT(30) DEF OwnStep
  <2> QED BY ONLY <2>1, <2>2, \A z \in Pids : told[z] \subseteq told'[z], Zenon
<1>2. \A r \in Pids : ex[r].pc \in {"section", "handoff"} =>
        ex'[r].pc \in {"section", "handoff"} /\ ex'[r].moved = ex[r].moved
  BY Zenon DEF OwnStep
<1> QED BY <1>1, <1>2, ZombieKept, Zenon DEF IInv

(* Both invariants of the process itself and of its place in the tree. *)
LEMMA InvOf ==
  ASSUME IInv, NEW p \in Pids
  PROVE  /\ PhaseOf(p) /\ TreeOf(p) /\ ex[p] \in ExitState
         /\ parent[p] \in Pids \union {Nobody}
BY Zenon DEF IInv, PhaseOK, TreeOK, ReparentTypeOK

(* PrepareExit *)
LEMMA PrepareExitInv ==
  ASSUME IInv, NEW p \in Pids, PrepareExit(p)
  PROVE  IInv'
<1> DEFINE v == IF hasThread[p] THEN "departing" ELSE "prepared"
           e == [Idle EXCEPT !.pc = v]
<1>1. v \in Rolled
  BY Zenon DEF Rolled
<1>2. /\ ~ForkInProgress(p) /\ status[p] = "published" /\ ~isInit[p]
      /\ exit_prepared' = [exit_prepared EXCEPT ![p] = TRUE]
      /\ ex' = [ex EXCEPT ![p] = e]
      /\ hasThread' = [hasThread EXCEPT ![p] = FALSE]
      /\ UNCHANGED <<parent, scope, isInit, scopeInit, outer, panicked, toggles, status, subreaper, topo, told>>
  BY Zenon DEF PrepareExit, treeVars
<1> HIDE DEF v
<1>3. /\ e \in ExitState /\ e.pc = v /\ e.after = 0 /\ e.deferred = Nobody /\ e.moved = {} /\ ~e.finished
  <2>1. e \in ExitState
    BY <1>1, IdleType, ExitStateUpdates, ZenonT(30) DEF Rolled
  <2> QED BY <2>1, Zenon DEF Idle
<1> HIDE DEF e
<1>4. ReparentTypeOK'
  BY <1>2, <1>3, Zenon DEF IInv, ReparentTypeOK
<1>5. OwnStep(p, e) /\ exit_prepared'[p] = TRUE /\ hasThread'[p] = FALSE
  BY <1>2, Zenon DEF IInv, ReparentTypeOK, OwnStep
<1>6. PhaseOf(p) /\ ex[p].pc \notin {"section", "handoff"}
  BY <1>2, InvOf, Zenon DEF PhaseOf, IsZombie, Ended
<1>7. PhaseOf(p)'
  BY ONLY <1>1, <1>2, <1>3, <1>5, <1>6, ZenonT(30) DEF PhaseOf, OwnStep, IsZombie, Rolled, Ended, Walking
<1>8. PhaseOK' /\ TreeOK' /\ RankOK' /\ CursorOK' /\ BatchHasOneReaper'
  <2>1. PublishedFlag(p) /\ PublishedFlag(p)' /\ Published(p)
    BY <1>2, Zenon DEF PublishedFlag, Published
  <2>2. \A q \in Pids : ~(status[q] = "admitted" /\ parent[q] = p)
    BY <1>2, Zenon DEF ForkInProgress
  <2>3. e.pc \notin Walking /\ e.pc # "done"
    BY <1>1, <1>3, Zenon DEF Rolled, Walking
  <2> QED BY <1>2, <1>3, <1>5, <1>7, <2>1, <2>2, <2>3, OwnStepKeeps, ZenonT(30)
<1>9. ZombieKnownToParent'
  BY <1>2, <1>5, <1>6, OwnStepTells, Zenon
<1> QED BY <1>4, <1>8, <1>9, Zenon DEF IInv

(* RollbackExit *)
LEMMA RollbackExitInv ==
  ASSUME IInv, NEW p \in Pids, RollbackExit(p)
  PROVE  IInv'
<1>1. /\ ex[p].pc \in Rolled
      /\ exit_prepared' = [exit_prepared EXCEPT ![p] = FALSE]
      /\ hasThread' = [hasThread EXCEPT ![p] = ex[p].pc = "departing"]
      /\ ex' = [ex EXCEPT ![p] = Idle]
      /\ UNCHANGED <<parent, scope, isInit, scopeInit, outer, panicked, toggles, status, subreaper, topo, told>>
  BY Zenon DEF RollbackExit, treeVars, Rolled
<1>2. /\ Idle \in ExitState /\ Idle.pc = "none" /\ Idle.after = 0 /\ Idle.deferred = Nobody
      /\ Idle.moved = {} /\ ~Idle.finished
  BY IdleType, Zenon DEF Idle
<1>3. ReparentTypeOK'
  BY <1>1, <1>2, Zenon DEF IInv, ReparentTypeOK
<1>4. OwnStep(p, Idle) /\ exit_prepared'[p] = FALSE
  BY <1>1, Zenon DEF IInv, ReparentTypeOK, OwnStep
<1>5. PhaseOf(p) /\ status[p] = "published" /\ ~isInit[p] /\ ex[p].pc \notin {"section", "handoff"}
  BY <1>1, InvOf, ZenonT(30) DEF PhaseOf, TreeOf, Rolled
<1>6. PhaseOf(p)'
  BY ONLY <1>1, <1>2, <1>4, <1>5, Zenon DEF PhaseOf, OwnStep, IsZombie, Rolled, Ended, Walking
<1>7. PhaseOK' /\ TreeOK' /\ RankOK' /\ CursorOK' /\ BatchHasOneReaper'
  <2>1. PublishedFlag(p) /\ PublishedFlag(p)' /\ Published(p)
    BY <1>1, <1>5, Zenon DEF PublishedFlag, Published
  <2>2. Idle.pc \notin Walking /\ Idle.pc # "done"
    BY <1>2, Zenon DEF Walking
  <2> QED BY <1>1, <1>2, <1>4, <1>5, <1>6, <2>1, <2>2, OwnStepKeeps, ZenonT(30)
<1>8. ZombieKnownToParent'
  BY <1>1, <1>4, <1>5, OwnStepTells, Zenon
<1> QED BY <1>3, <1>7, <1>8, Zenon DEF IInv

(* CommitExit *)
LEMMA CommitExitInv ==
  ASSUME IInv, NEW p \in Pids, CommitExit(p)
  PROVE  IInv'
<1> DEFINE e == [ex[p] EXCEPT !.pc = "zombie"]
<1>1. /\ ex[p].pc \in Rolled
      /\ status' = [status EXCEPT ![p] = "zombie"]
      /\ exit_prepared' = [exit_prepared EXCEPT ![p] = FALSE]
      /\ told' = [told EXCEPT ![p] = NotificationParent(p)]
      /\ ex' = [ex EXCEPT ![p] = e]
      /\ UNCHANGED <<parent, scope, isInit, scopeInit, outer, panicked, toggles, subreaper, hasThread, topo>>
  BY Zenon DEF CommitExit, treeVars, Rolled
<1>2. /\ PhaseOf(p) /\ status[p] = "published" /\ ~isInit[p] /\ exit_prepared[p]
      /\ ex[p].pc \notin {"section", "handoff"} /\ ex[p] \in ExitState
  BY <1>1, InvOf, Zenon DEF PhaseOf, TreeOf, Rolled
<1>3. e \in ExitState
  BY <1>2, ExitStateUpdates, ZenonT(30)
<1>4. /\ e.pc = "zombie" /\ e.after = ex[p].after /\ e.deferred = ex[p].deferred
      /\ e.moved = ex[p].moved /\ e.finished = ex[p].finished /\ e.reaper = ex[p].reaper
  BY <1>2, Zenon DEF ExitState
<1> HIDE DEF e
<1>5. ReparentTypeOK'
  <2>1. NotificationParent(p) \subseteq Pids
    BY InvOf, Zenon DEF NotificationParent
  <2> QED BY <1>1, <1>3, <2>1, Zenon DEF IInv, ReparentTypeOK
<1>6. OwnStep(p, e) /\ exit_prepared'[p] = FALSE /\ status'[p] = "zombie"
  BY <1>1, Zenon DEF IInv, ReparentTypeOK, OwnStep
<1>7. PhaseOf(p)'
  BY ONLY <1>1, <1>2, <1>4, <1>6, ZenonT(30) DEF PhaseOf, OwnStep, IsZombie, Rolled, Ended, Walking
<1>8. PhaseOK' /\ TreeOK' /\ RankOK' /\ CursorOK' /\ BatchHasOneReaper'
  <2>1. PublishedFlag(p) /\ PublishedFlag(p)' /\ Published(p)
    BY <1>2, <1>6, ZenonT(30) DEF PublishedFlag, Published
  <2>2. e.pc \notin Walking /\ e.pc # "done"
    BY <1>4, Zenon DEF Walking
  <2>3. e.moved = {}
    BY <1>2, <1>4, Zenon DEF PhaseOf
  <2>4. ASSUME NEW q \in Pids, status[q] = "admitted", parent[q] = p PROVE FALSE
    BY <1>2, <2>4, InvOf, Zenon DEF TreeOf
  <2> QED BY <1>2, <1>6, <1>7, <2>1, <2>2, <2>3, <2>4, OwnStepKeeps, ZenonT(30)
<1>9. ZombieKnownToParent'
  <2>1. ASSUME NEW z \in Pids, status'[z] = "zombie", parent'[z] # Nobody, status'[parent'[z]] = "published"
        PROVE  \/ parent'[z] \in told'[z]
               \/ \E r \in Pids : ex'[r].pc \in {"section", "handoff"} /\ <<z, parent'[z], TRUE>> \in ex'[r].moved
    <3>1. parent'[z] = parent[z] /\ parent[z] \in Pids
      BY <1>1, <2>1, InvOf, Zenon
    <3>2. CASE z = p
      <4>1. told'[p] = NotificationParent(p)
        BY <1>1, Zenon DEF IInv, ReparentTypeOK
      <4> QED BY <2>1, <3>1, <3>2, <4>1, Zenon DEF NotificationParent
    <3>3. CASE z # p
      <4>1. /\ status[z] = "zombie" /\ told'[z] = told[z]
            /\ parent[z] # Nobody /\ status[parent[z]] = "published"
        BY <1>1, <1>6, <2>1, <3>1, <3>3, ZenonT(30) DEF IInv, ReparentTypeOK, OwnStep
      <4>2. ASSUME NEW r \in Pids, ex[r].pc \in {"section", "handoff"}
            PROVE  ex'[r] = ex[r]
        BY <1>2, <1>6, <4>2, ZenonT(30) DEF OwnStep
      <4> QED BY <3>1, <4>1, <4>2, ZenonT(30) DEF IInv, ZombieKnownToParent
    <3> QED BY <3>2, <3>3, ZenonT(30)
  <2> QED BY <2>1, ZenonT(30) DEF ZombieKnownToParent
<1> QED BY <1>5, <1>8, <1>9, Zenon DEF IInv

(* CaptureBound *)
LEMMA CaptureBoundInv ==
  ASSUME IInv, NEW p \in Pids, CaptureBound(p)
  PROVE  IInv'
<1> DEFINE entries == {q \in Pids : InRegistry(q)} \union {0}
           max == Max(entries)
           e == [[ex[p] EXCEPT !.pc = "between"] EXCEPT !.upper = max]
<1>1. max \in 0..N /\ \A y \in entries : y <= max
  <2>1. entries \subseteq 0..N /\ entries # {} /\ N \in Nat
    BY ReparentAssumption DEF Pids
  <2> HIDE DEF entries
  <2>2. Max(entries) \in entries /\ \A y \in entries : Max(entries) >= y
    BY <2>1, MaxGreatest, ZenonT(30)
  <2> QED BY <2>1, <2>2, ZenonT(30)
<1>2. /\ ex[p].pc = "zombie" /\ ex' = [ex EXCEPT ![p] = e]
      /\ UNCHANGED <<parent, scope, isInit, scopeInit, outer, panicked, toggles,
                     status, subreaper, hasThread, exit_prepared, topo, told>>
  <2>1. ex[p].pc = "zombie"
    BY Zenon DEF CaptureBound
  <2>2. ex' = [ex EXCEPT ![p] = e]
    BY ZenonT(30) DEF CaptureBound
  <2> QED BY <2>1, <2>2, Zenon DEF CaptureBound, treeVars
<1>3. \A q \in Pids : Published(q) => q \in entries
  BY Zenon DEF Published, InRegistry
<1> HIDE DEF entries, max
<1>4. /\ PhaseOf(p) /\ ex[p] \in ExitState /\ IsZombie(p) /\ ~isInit[p]
      /\ ex[p].after = 0 /\ ~ex[p].finished /\ ex[p].moved = {}
  BY <1>2, InvOf, Zenon DEF PhaseOf, TreeOf, Ended, Walking, IsZombie
<1>5. e \in ExitState
  <2>1. [ex[p] EXCEPT !.pc = "between"] \in ExitState
    BY <1>4, ExitStateUpdates, ZenonT(30)
  <2> QED BY <1>1, <2>1, ExitStateUpdates, ZenonT(30)
<1>6. /\ e.pc = "between" /\ e.upper = max /\ e.after = 0 /\ ~e.finished /\ e.moved = {}
      /\ e.deferred = ex[p].deferred
  BY <1>4, Zenon DEF ExitState
<1> HIDE DEF e
<1>7. ReparentTypeOK'
  BY <1>2, <1>5, Zenon DEF IInv, ReparentTypeOK
<1>8. OwnStep(p, e)
  BY <1>2, Zenon DEF IInv, ReparentTypeOK, OwnStep
<1>9. PhaseOf(p)'
  BY ONLY <1>2, <1>4, <1>6, <1>8, ZenonT(30) DEF PhaseOf, OwnStep, IsZombie, Rolled, Ended, Walking
<1>10. PhaseOK' /\ TreeOK' /\ RankOK' /\ CursorOK' /\ BatchHasOneReaper'
  <2>1. PublishedFlag(p) /\ PublishedFlag(p)' /\ (Published(p)' => Published(p))
    BY <1>2, <1>4, Zenon DEF PublishedFlag, Published, IsZombie
  <2>2. \A q \in Pids : Published(q) => e.after < q /\ q <= e.upper
    BY <1>1, <1>3, <1>6 DEF Pids
  <2> QED BY <1>2, <1>4, <1>6, <1>8, <1>9, <2>1, <2>2, OwnStepKeeps, ZenonT(30)
<1>11. ZombieKnownToParent'
  BY <1>2, <1>8, OwnStepTells, Zenon
<1> QED BY <1>7, <1>10, <1>11, Zenon DEF IInv

(* BeginSection *)
LEMMA BeginSectionInv ==
  ASSUME IInv, NEW p \in Pids, BeginSection(p)
  PROVE  IInv'
<1> DEFINE a == [ex[p] EXCEPT !.pc = "section"]
           b == [a EXCEPT !.len = 0]
           c == [b EXCEPT !.reaper = Nobody]
           e == [c EXCEPT !.moved = {}]
<1>1. /\ topo = Nobody /\ ex[p].pc = "between" /\ topo' = p /\ ex' = [ex EXCEPT ![p] = e]
      /\ UNCHANGED <<parent, scope, isInit, scopeInit, outer, panicked, toggles,
                     status, subreaper, hasThread, exit_prepared, told>>
  <2>1. ex' = [ex EXCEPT ![p] = e]
    BY ZenonT(30) DEF BeginSection, NoReaperYet
  <2> HIDE DEF e
  <2> QED BY <2>1, ZenonT(30) DEF BeginSection, treeVars
<1>2. PhaseOf(p) /\ ex[p] \in ExitState /\ IsZombie(p) /\ ~isInit[p] /\ ~ex[p].finished
  BY <1>1, InvOf, Zenon DEF PhaseOf, TreeOf, Ended, IsZombie
<1>3. e \in ExitState
  <2>1. a \in ExitState
    BY <1>2, ExitStateUpdates, ZenonT(30)
  <2> HIDE DEF a
  <2>2. b \in ExitState
    <3>1. 0 \in 0..Batch
      BY ReparentAssumption
    <3> QED BY <2>1, <3>1, ExitStateUpdates, ZenonT(30)
  <2> HIDE DEF b
  <2>3. c \in ExitState
    BY <2>2, ExitStateUpdates, ZenonT(30)
  <2> HIDE DEF c
  <2> QED BY <2>3, ExitStateUpdates, ZenonT(30)
<1>4. /\ e.pc = "section" /\ e.upper = ex[p].upper /\ e.after = ex[p].after /\ ~e.finished /\ e.moved = {}
      /\ e.deferred = ex[p].deferred /\ e.len = 0
  BY <1>2, Zenon DEF ExitState
<1> HIDE DEF e
<1>5. ReparentTypeOK'
  BY <1>1, <1>3, Zenon DEF IInv, ReparentTypeOK
<1>6. OwnStep(p, e)
  BY <1>1, NobodyNoPid, Zenon DEF IInv, ReparentTypeOK, OwnStep
<1>7. PhaseOf(p)'
  <2>1. 0 < Batch
    BY ReparentAssumption
  <2> QED BY ONLY <1>1, <1>2, <1>4, <1>6, <2>1, Zenon DEF PhaseOf, OwnStep, IsZombie, Rolled, Ended, Walking
<1>8. PhaseOK' /\ TreeOK' /\ RankOK' /\ CursorOK' /\ BatchHasOneReaper'
  <2>1. PublishedFlag(p) /\ PublishedFlag(p)' /\ (Published(p)' => Published(p))
    BY <1>1, <1>2, Zenon DEF PublishedFlag, Published, IsZombie
  <2>2. \A q \in Pids : Published(q) /\ parent[q] = p =>
          q = e.deferred \/ (e.after < q /\ q <= e.upper)
    BY <1>1, <1>4, ZenonT(30) DEF IInv, CursorOK, Walking
  <2> QED BY <1>1, <1>2, <1>4, <1>6, <1>7, <2>1, <2>2, OwnStepKeeps, ZenonT(30)
<1>9. ZombieKnownToParent'
  BY <1>1, <1>6, OwnStepTells, Zenon
<1> QED BY <1>5, <1>8, <1>9, Zenon DEF IInv

(* ScanFinished *)
LEMMA ScanFinishedInv ==
  ASSUME IInv, NEW p \in Pids, ScanFinished(p)
  PROVE  IInv'
<1> DEFINE a == [ex[p] EXCEPT !.pc = "handoff"]
           e == [a EXCEPT !.finished = TRUE]
<1>1. /\ topo = p /\ NextChild(p) = Nobody /\ topo' = Nobody /\ ex' = [ex EXCEPT ![p] = e]
      /\ UNCHANGED <<parent, scope, isInit, scopeInit, outer, panicked, toggles,
                     status, subreaper, hasThread, exit_prepared, told>>
  <2>1. ex' = [ex EXCEPT ![p] = e]
    BY ZenonT(30) DEF ScanFinished
  <2> HIDE DEF e
  <2> QED BY <2>1, ZenonT(30) DEF ScanFinished, treeVars
<1>2. PhaseOf(p) /\ ex[p] \in ExitState /\ IsZombie(p) /\ ~isInit[p] /\ ex[p].pc = "section" /\ ~ex[p].finished
  BY <1>1, InvOf, Zenon DEF PhaseOf, TreeOf, Ended, IsZombie
<1>3. e \in ExitState
  <2>1. a \in ExitState
    BY <1>2, ExitStateUpdates, ZenonT(30)
  <2> HIDE DEF a
  <2> QED BY <2>1, ExitStateUpdates, ZenonT(30)
<1>4. /\ e.pc = "handoff" /\ e.after = ex[p].after /\ e.finished /\ e.moved = ex[p].moved
      /\ e.deferred = ex[p].deferred /\ e.reaper = ex[p].reaper
  BY <1>2, Zenon DEF ExitState
<1> HIDE DEF e
<1>5. ReparentTypeOK'
  BY <1>1, <1>3, Zenon DEF IInv, ReparentTypeOK
<1>6. OwnStep(p, e)
  BY <1>1, NobodyNoPid, ZenonT(30) DEF IInv, ReparentTypeOK, OwnStep
<1>7. PhaseOf(p)'
  BY ONLY <1>1, <1>2, <1>4, <1>6, NobodyNoPid, ZenonT(30) DEF PhaseOf, OwnStep, IsZombie, Rolled, Ended, Walking
<1>8. PhaseOK' /\ TreeOK' /\ RankOK' /\ CursorOK' /\ BatchHasOneReaper'
  <2>1. PublishedFlag(p) /\ PublishedFlag(p)' /\ (Published(p)' => Published(p))
    BY <1>1, <1>2, ZenonT(30) DEF PublishedFlag, Published, IsZombie
  <2>2. ASSUME NEW q \in Pids, Published(q), parent[q] = p PROVE FALSE
    <3> DEFINE rest == {x \in Pids : InRegistry(x) /\ x > ex[p].after /\ x <= ex[p].upper}
    <3>1. ex[p].deferred = Nobody /\ (rest # {} => Min(rest) = Nobody)
      BY <1>1, Zenon DEF NextChild, NextRaw
    <3>2. ex[p].after < q /\ q <= ex[p].upper
      BY <1>2, <2>2, <3>1, NobodyNoPid, Zenon DEF IInv, CursorOK, Walking
    <3>3. q \in rest
      <4>1. InRegistry(q)
        BY <2>2, Zenon DEF Published, InRegistry
      <4>2. ex[p].after \in 0..N /\ N \in Nat /\ q \in 1..N
        BY <1>2, ReparentAssumption, Zenon DEF ExitState, Pids
      <4> QED BY <3>2, <4>1, <4>2, Zenon
    <3>4. rest \subseteq Pids /\ rest \subseteq Nat
      BY ReparentAssumption DEF Pids
    <3> HIDE DEF rest
    <3>5. Min(rest) \in rest
      BY <3>3, <3>4, MinLeast, ZenonT(30)
    <3> QED BY <3>1, <3>3, <3>4, <3>5, NobodyNoPid, Zenon
  <2>3. \A m \in e.moved : m[2] = e.reaper
    BY <1>4, Zenon DEF IInv, BatchHasOneReaper
  <2> QED BY <1>1, <1>2, <1>4, <1>6, <1>7, <2>1, <2>2, <2>3, OwnStepKeeps, ZenonT(30)
<1>9. ZombieKnownToParent'
  BY <1>1, <1>4, <1>6, OwnStepTells, Zenon
<1> QED BY <1>5, <1>8, <1>9, Zenon DEF IInv

(* Handoff *)
LEMMA HandoffInv ==
  ASSUME IInv, NEW p \in Pids, Handoff(p)
  PROVE  IInv'
<1> DEFINE a == [ex[p] EXCEPT !.pc = "between"]
           b == [a EXCEPT !.moved = {}]
           d == [Idle EXCEPT !.pc = "done"]
           e == IF ex[p].finished THEN d ELSE b
<1>1. /\ ex[p].pc = "handoff" /\ ex' = [ex EXCEPT ![p] = e]
      /\ told' = [z \in Pids |-> IF <<z, ex[p].reaper, TRUE>> \in ex[p].moved
                                 THEN told[z] \union {ex[p].reaper} ELSE told[z]]
      /\ UNCHANGED <<parent, scope, isInit, scopeInit, outer, panicked, toggles,
                     status, subreaper, hasThread, exit_prepared, topo>>
  <2>1. ex' = [ex EXCEPT ![p] = e]
    BY ZenonT(30) DEF Handoff
  <2> HIDE DEF e
  <2> QED BY <2>1, ZenonT(30) DEF Handoff, treeVars
<1>2. PhaseOf(p) /\ ex[p] \in ExitState /\ IsZombie(p) /\ ~isInit[p]
  BY <1>1, InvOf, Zenon DEF PhaseOf, TreeOf, Ended, IsZombie
<1>3. b \in ExitState /\ d \in ExitState
  <2>1. d \in ExitState
    BY IdleType, ExitStateUpdates, ZenonT(30)
  <2>2. a \in ExitState
    BY <1>2, ExitStateUpdates, ZenonT(30)
  <2> HIDE DEF a
  <2>3. b \in ExitState
    BY <2>2, ExitStateUpdates, ZenonT(30)
  <2> QED BY <2>1, <2>3, Zenon
<1>4. /\ b.pc = "between" /\ b.after = ex[p].after /\ b.upper = ex[p].upper /\ b.finished = ex[p].finished
      /\ b.moved = {} /\ b.deferred = ex[p].deferred
  BY <1>2, Zenon DEF ExitState
<1>5. /\ d.pc = "done" /\ d.after = 0 /\ d.deferred = Nobody /\ d.moved = {} /\ d.finished = FALSE
  BY Zenon DEF Idle
<1> HIDE DEF b, d
<1>6. e \in ExitState /\ e.moved = {}
  BY <1>3, <1>4, <1>5, ZenonT(30)
<1>7. ReparentTypeOK'
  <2>1. told' \in [Pids -> SUBSET Pids]
    <3>1. \A z \in Pids : <<z, ex[p].reaper, TRUE>> \in ex[p].moved => ex[p].reaper \in Pids
      BY <1>2, Zenon DEF ExitState
    <3> QED BY <1>1, <3>1, ZenonT(30) DEF IInv, ReparentTypeOK
  <2> HIDE DEF e
  <2> QED BY <1>1, <1>6, <2>1, ZenonT(30) DEF IInv, ReparentTypeOK
<1>8. OwnStep(p, e)
  <2> HIDE DEF e
  <2> QED BY <1>1, Zenon DEF IInv, ReparentTypeOK, OwnStep
<1>9. PhaseOf(p)'
  <2>1. ex'[p] = e /\ status' = status /\ topo' = topo /\ exit_prepared' = exit_prepared /\ hasThread' = hasThread
    BY <1>1, <1>8, Zenon DEF OwnStep
  <2>2. CASE ex[p].finished
    BY ONLY <1>1, <1>2, <1>5, <2>1, <2>2, Zenon DEF PhaseOf, IsZombie, Rolled, Ended, Walking
  <2>3. CASE ~ex[p].finished
    BY ONLY <1>1, <1>2, <1>4, <2>1, <2>3, Zenon DEF PhaseOf, IsZombie, Rolled, Ended, Walking
  <2> QED BY <2>2, <2>3, Zenon
<1>10. PhaseOK' /\ TreeOK' /\ RankOK' /\ CursorOK' /\ BatchHasOneReaper'
  <2>1. PublishedFlag(p) /\ PublishedFlag(p)' /\ (Published(p)' => Published(p))
    BY <1>1, <1>2, ZenonT(30) DEF PublishedFlag, Published, IsZombie
  <2>2. ASSUME NEW q \in Pids, Published(q), parent[q] = p
        PROVE  /\ e.pc # "done" /\ ~e.finished
               /\ q = e.deferred \/ (e.after < q /\ q <= e.upper)
    <3>1. ~ex[p].finished /\ (q = ex[p].deferred \/ (ex[p].after < q /\ q <= ex[p].upper))
      BY <1>1, <2>2, Zenon DEF IInv, CursorOK, Walking
    <3> QED BY <1>4, <3>1, Zenon
  <2> HIDE DEF e
  <2> QED BY <1>1, <1>2, <1>6, <1>8, <1>9, <2>1, <2>2, OwnStepKeeps, ZenonT(30)
<1>11. ZombieKnownToParent'
  <2>1. ASSUME NEW z \in Pids, status'[z] = "zombie", parent'[z] # Nobody, status'[parent'[z]] = "published"
        PROVE  \/ parent'[z] \in told'[z]
               \/ \E r \in Pids : ex'[r].pc \in {"section", "handoff"} /\ <<z, parent'[z], TRUE>> \in ex'[r].moved
    <3>1. status[z] = "zombie" /\ parent'[z] = parent[z] /\ parent[z] # Nobody /\ status[parent[z]] = "published"
      BY <1>1, <2>1, ZenonT(30)
    <3>2. CASE parent[z] \in told[z]
      BY <1>1, <3>1, <3>2, Zenon
    <3>3. CASE parent[z] \notin told[z]
      <4>1. PICK r \in Pids : ex[r].pc \in {"section", "handoff"} /\ <<z, parent[z], TRUE>> \in ex[r].moved
        BY <3>1, <3>3, ZenonT(30) DEF IInv, ZombieKnownToParent
      <4>2. CASE r = p
        <5>1. parent[z] = ex[p].reaper
          BY <4>1, <4>2, Zenon DEF IInv, BatchHasOneReaper
        <5>2. parent[z] \in told'[z]
          BY <1>1, <4>1, <4>2, <5>1, Zenon
        <5> QED BY <3>1, <5>2, Zenon
      <4>3. CASE r # p
        <5>1. ex'[r] = ex[r]
          BY <1>8, <4>3, Zenon DEF OwnStep
        <5> QED BY <3>1, <4>1, <5>1, Zenon
      <4> QED BY <4>2, <4>3, ZenonT(30)
    <3> QED BY <3>2, <3>3, ZenonT(30)
  <2> QED BY <2>1, ZenonT(30) DEF ZombieKnownToParent
<1> QED BY <1>7, <1>10, <1>11, Zenon DEF IInv

(* ReapZombie *)
LEMMA ReapZombieInv ==
  ASSUME IInv, NEW p \in Pids, ReapZombie(p)
  PROVE  IInv'
<1>1. /\ status[p] = "zombie" /\ status' = [status EXCEPT ![p] = "reaped"]
      /\ UNCHANGED <<parent, scope, isInit, scopeInit, outer, panicked, toggles,
                     subreaper, hasThread, exit_prepared, topo, ex, told>>
  BY Zenon DEF ReapZombie, treeVars
<1>2. PhaseOf(p) /\ ~isInit[p]
  BY <1>1, InvOf, Zenon DEF TreeOf
<1>3. ReparentTypeOK'
  BY <1>1, Zenon DEF IInv, ReparentTypeOK
<1>4. OwnStep(p, ex[p]) /\ status'[p] = "reaped"
  BY <1>1, Zenon DEF IInv, ReparentTypeOK, OwnStep
<1>5. PhaseOf(p)'
  BY ONLY <1>1, <1>2, <1>4, Zenon DEF PhaseOf, IsZombie, Rolled, Ended
<1>6. PhaseOK' /\ TreeOK' /\ RankOK' /\ CursorOK' /\ BatchHasOneReaper'
  <2>1. PublishedFlag(p) /\ PublishedFlag(p)' /\ Published(p)
    BY <1>1, <1>4, Zenon DEF PublishedFlag, Published
  <2>2. \A q \in Pids : Published(q) /\ parent[q] = p =>
          /\ ex[p].pc # "done"
          /\ ex[p].pc \in Walking =>
               ~ex[p].finished /\ (q = ex[p].deferred \/ (ex[p].after < q /\ q <= ex[p].upper))
    BY Zenon DEF IInv, CursorOK
  <2>3. \A m \in ex[p].moved : m[2] = ex[p].reaper
    BY Zenon DEF IInv, BatchHasOneReaper
  <2>4. ASSUME NEW q \in Pids, status[q] = "admitted", parent[q] = p PROVE FALSE
    BY <1>1, <2>4, InvOf, Zenon DEF TreeOf
  <2> QED BY <1>2, <1>4, <1>5, <2>1, <2>2, <2>3, <2>4, OwnStepKeeps, ZenonT(30)
<1>7. ZombieKnownToParent'
  BY <1>1, <1>4, OwnStepTells, Zenon
<1> QED BY <1>3, <1>6, <1>7, Zenon DEF IInv

-----------------------------------------------------------------------------
(* Whom select_reaper_for_exit_locked chooses for a published child of the
   exiting process: a live process created before the child, in the child's
   scope unless the child is that scope's init. *)
LEMMA AdoptionResult ==
  ASSUME IInv, NEW p \in Pids, NEW child \in Pids, NEW freed,
         PublishedFlag(child), parent[child] = p,
         NEW rank \in [Pids -> Nat], Ranked(rank), NEW r, r = SelectReaper(p, child, freed)
  PROVE  /\ r \in Pids /\ status[r] = "published" /\ rank[r] < rank[child]
         /\ \/ scope[r] = scope[child]
            \/ child = scopeInit[scope[child]] /\ r = scopeInit[outer[scope[child]]]
<1> DEFINE s == scope[child]
<1>1. s \in Scopes /\ child # 1 /\ rank[p] < rank[child]
  BY NobodyNoPid DEF IInv, ReparentTypeOK, TreeOK, RootOK, TreeOf, ScopeOf, Ranked
<1>2. CASE r = Fallback(child)
  <2>1. CASE isInit[child]
    <3>1. scopeInit[s] = child
      BY <2>1, ZenonT(30) DEF IInv, TreeOK, RootOK, TreeOf, ScopeOf, PublishedFlag
    <3>2. r = scopeInit[outer[s]] /\ outer[s] # Nobody /\ r # Nobody /\ rank[r] < rank[child]
      <4>1. r = scopeInit[outer[s]]
        BY <1>2, <3>1, Zenon DEF Fallback
      <4>2. scopeInit[s] \notin {Nobody, 1} /\ ScopeOf(s)
        BY <1>1, <3>1, NobodyNoPid, Zenon DEF IInv, TreeOK
      <4>3. outer[s] # Nobody /\ scopeInit[outer[s]] # Nobody
        BY <4>2, Zenon DEF ScopeOf
      <4>4. rank[scopeInit[outer[s]]] < rank[scopeInit[s]]
        BY <1>1, <4>2, Zenon DEF Ranked
      <4> QED BY <3>1, <4>1, <4>3, <4>4, ZenonT(30)
    <3>3. outer[s] \in Scopes
      BY <1>1, <3>2, Zenon DEF IInv, ReparentTypeOK
    <3>4. r \in Pids /\ status[r] = "published"
      BY <3>2, <3>3 DEF IInv, ReparentTypeOK, TreeOK, RootOK, TreeOf, ScopeOf
    <3> QED BY <3>1, <3>2, <3>4, ZenonT(30)
  <2>2. CASE ~isInit[child]
    <3>1. status[child] # "none"
      BY ZenonT(30) DEF PublishedFlag
    <3>2. scopeInit[s] # Nobody /\ scopeInit[s] # child /\ rank[scopeInit[s]] < rank[child]
      BY <1>1, <2>2, <3>1, NobodyNoPid DEF IInv, TreeOK, RootOK, TreeOf, ScopeOf, Ranked
    <3>3. r = scopeInit[s]
      BY <1>2, <3>2, Zenon DEF Fallback
    <3>4. r \in Pids /\ status[r] = "published" /\ scope[r] = s
      BY <1>1, <3>2, <3>3 DEF IInv, ReparentTypeOK, TreeOK, RootOK, TreeOf, ScopeOf
    <3> QED BY <3>2, <3>3, <3>4, ZenonT(30)
  <2> QED BY <2>1, <2>2, ZenonT(30)
<1>3. CASE r \in Pids /\ Eligible(r, s) /\ rank[r] < rank[p]
  <2>1. status[r] = "published" /\ scope[r] = s
    BY <1>3, ZenonT(30) DEF IInv, PhaseOK, PhaseOf, Eligible
  <2>2. rank[r] \in Nat /\ rank[p] \in Nat /\ rank[child] \in Nat
    BY <1>3, ZenonT(30)
  <2>3. rank[r] < rank[child]
    BY ONLY <1>1, <1>3, <2>2
  <2> QED BY <1>3, <2>1, <2>3, ZenonT(30)
<1> QED BY <1>2, <1>3, SelectReaperResult, ZenonT(30) DEF IInv

(* What the cursor hands out, and that it passes over no other child. *)
LEMMA NextChildStep ==
  ASSUME IInv, NEW p \in Pids, topo = p, NextChild(p) # Nobody,
         NEW child, child = NextChild(p), NEW e, e = Scanned(p, child)
  PROVE  /\ child \in Pids /\ e \in ExitState
         /\ e.pc = "section" /\ e.deferred = Nobody /\ ~e.finished
         /\ e.reaper = ex[p].reaper /\ e.moved = ex[p].moved
         /\ \A q \in Pids : Published(q) /\ parent[q] = p /\ q # child =>
              e.after < q /\ q <= e.upper
<1> DEFINE rest == {q \in Pids : InRegistry(q) /\ q > ex[p].after /\ q <= ex[p].upper}
<1>1. /\ ex[p] \in ExitState /\ ex[p].pc = "section" /\ ex[p].len < Batch /\ ~ex[p].finished
      /\ ex[p].deferred \in Pids \union {Nobody} /\ ex[p].len \in 0..Batch
      /\ ex[p].after \in 0..N /\ ex[p].upper \in 0..N
  BY Zenon DEF IInv, ReparentTypeOK, PhaseOK, PhaseOf, ExitState
<1>2. ASSUME ex[p].deferred = Nobody
      PROVE  child \in rest /\ \A y \in rest : child <= y
  <2>1. child = IF rest = {} THEN Nobody ELSE Min(rest)
    BY <1>2, Zenon DEF NextChild, NextRaw
  <2>2. rest \subseteq Nat /\ rest # {}
    BY <2>1, ReparentAssumption DEF Pids
  <2> HIDE DEF rest
  <2> QED BY <2>1, <2>2, MinLeast, ZenonT(30)
<1>3. child \in Pids
  BY <1>1, <1>2, Zenon DEF NextChild
<1>4. ex[p].len + 1 \in 0..Batch /\ Batch \in Nat /\ N \in Nat
  BY <1>1, ReparentAssumption
<1> DEFINE at == IF ex[p].deferred # Nobody THEN ex[p].after ELSE child
<1>5. at \in 0..N
  BY <1>1, <1>3, <1>4 DEF Pids
<1>6. e = [[[ex[p] EXCEPT !.deferred = Nobody] EXCEPT !.len = ex[p].len + 1] EXCEPT !.after = at]
  BY <1>1, Zenon DEF Scanned, ExitState
<1> HIDE DEF at
<1>7. e \in ExitState
  <2>1. [ex[p] EXCEPT !.deferred = Nobody] \in ExitState
    BY <1>1, ExitStateUpdates, ZenonT(30)
  <2>2. [[ex[p] EXCEPT !.deferred = Nobody] EXCEPT !.len = ex[p].len + 1] \in ExitState
    BY <1>4, <2>1, ExitStateUpdates, ZenonT(30)
  <2> DEFINE f == [[ex[p] EXCEPT !.deferred = Nobody] EXCEPT !.len = ex[p].len + 1]
  <2>3. f \in ExitState /\ e = [f EXCEPT !.after = at]
    BY <1>6, <2>2, Zenon
  <2> HIDE DEF f
  <2>4. \A v \in 0..N : [f EXCEPT !.after = v] \in ExitState
    BY <2>3, ExitStateUpdates, ZenonT(30)
  <2> QED BY <1>5, <2>3, <2>4, Zenon
<1>8. /\ e.pc = "section" /\ e.deferred = Nobody /\ ~e.finished /\ e.reaper = ex[p].reaper
      /\ e.moved = ex[p].moved /\ e.after = at /\ e.upper = ex[p].upper
  BY <1>1, <1>6, Zenon DEF ExitState
<1>9. ASSUME NEW q \in Pids, Published(q), parent[q] = p, q # child
      PROVE  at < q /\ q <= ex[p].upper
  <2>1. q = ex[p].deferred \/ (ex[p].after < q /\ q <= ex[p].upper)
    BY <1>1, <1>9, Zenon DEF IInv, CursorOK, Walking
  <2>2. CASE ex[p].deferred # Nobody
    BY <1>9, <2>1, <2>2, Zenon DEF NextChild, at
  <2>3. CASE ex[p].deferred = Nobody
    <3>1. ex[p].after < q /\ q <= ex[p].upper
      BY <2>1, <2>3, NobodyNoPid, Zenon
    <3>2. q \in rest
      BY <1>9, <3>1, Zenon DEF Published, InRegistry, Pids
    <3>3. child <= q
      BY <1>2, <2>3, <3>2, Zenon
    <3> QED BY <1>3, <1>9, <2>3, <3>1, <3>3 DEF Pids, at
  <2> QED BY <2>2, <2>3, Zenon
<1> QED BY <1>3, <1>7, <1>8, <1>9, Zenon

(* Where the inner loop ends; Leave changes nothing but the program counter. *)
LEMMA LeaveStep ==
  ASSUME NEW e \in ExitState, e.pc = "section", NEW close \in BOOLEAN, NEW f, f = Leave(e, close)
  PROVE  /\ f \in ExitState /\ f.pc \in {"section", "handoff"}
         /\ f.pc = "section" => f.len < Batch
         /\ f.deferred = e.deferred /\ f.finished = e.finished /\ f.reaper = e.reaper
         /\ f.moved = e.moved /\ f.after = e.after /\ f.upper = e.upper
<1>1. CASE close \/ e.len = Batch
  <2>1. f = [e EXCEPT !.pc = "handoff"]
    BY <1>1, Zenon DEF Leave
  <2>2. f \in ExitState
    BY <2>1, ExitStateUpdates, ZenonT(30)
  <2> QED BY <2>1, <2>2, Zenon DEF ExitState
<1>2. CASE ~ (close \/ e.len = Batch)
  <2>1. f = e
    BY <1>2, Zenon DEF Leave
  <2>2. e.len < Batch
    BY <1>2, ReparentAssumption DEF ExitState
  <2> QED BY <2>1, <2>2, Zenon
<1> QED BY <1>1, <1>2, Zenon

(* A turn of the scan, whatever it does with the child: the types, the phases
   and the cursor. *)
LEMMA ScanTurn ==
  ASSUME IInv, NEW p \in Pids, topo = p, NEW e \in ExitState,
         e.pc \in {"section", "handoff"}, e.pc = "section" => e.len < Batch, ~e.finished,
         ex' = [ex EXCEPT ![p] = e], topo' = IF e.pc = "handoff" THEN Nobody ELSE p,
         UNCHANGED <<status, scope, isInit, subreaper, hasThread, exit_prepared,
                     scopeInit, outer, told, panicked, toggles>>,
         parent' \in [Pids -> Pids \union {Nobody}],
         \A q \in Pids : Published(q) /\ parent'[q] = p =>
           q = e.deferred \/ (e.after < q /\ q <= e.upper),
         \A q \in Pids : parent'[q] = parent[q] \/ status[parent'[q]] = "published"
  PROVE  ReparentTypeOK' /\ PhaseOK' /\ CursorOK'
<1> USE DEF IInv
<1>1. ReparentTypeOK'
  BY ZenonT(30) DEF ReparentTypeOK
<1>2. ex'[p] = e /\ \A q \in Pids : q # p => ex'[q] = ex[q]
  BY ZenonT(30) DEF ReparentTypeOK
<1>3. PhaseOf(p) /\ ex[p].pc = "section"
  BY ZenonT(30) DEF PhaseOK, PhaseOf
<1>4. PhaseOK'
  <2>1. ASSUME NEW x \in Pids, x # p PROVE PhaseOf(x)'
    <3>1. PhaseOf(x) /\ topo # x /\ topo' # x
      BY <2>1, NobodyNoPid, Zenon DEF PhaseOK
    <3> QED BY <1>2, <2>1, <3>1, ZenonT(30) DEF PhaseOf, IsZombie
  <2>2. PhaseOf(p)'
    <3>1. topo' = p <=> e.pc = "section"
      BY NobodyNoPid, ZenonT(30)
    <3>2. status' = status /\ exit_prepared' = exit_prepared /\ hasThread' = hasThread
      BY Zenon
    <3>3. e.pc \in {"section", "handoff"} /\ (e.pc = "section" => e.len < Batch) /\ ~e.finished
      BY Zenon
    <3> QED BY ONLY <1>2, <1>3, <3>1, <3>2, <3>3, Zenon DEF PhaseOf, IsZombie, Rolled, Ended, Walking
  <2> QED BY <2>1, <2>2, Zenon DEF PhaseOK
<1>5. ASSUME NEW q \in Pids, NEW x \in Pids, Published(q)', parent'[q] = x
      PROVE  /\ ex'[x].pc # "done"
             /\ ex'[x].pc \in Walking =>
                  /\ ~ex'[x].finished
                  /\ q = ex'[x].deferred \/ (ex'[x].after < q /\ q <= ex'[x].upper)
  <2>1. Published(q)
    BY <1>5, ZenonT(30) DEF Published
  <2>2. CASE x = p
    BY <1>2, <1>5, <2>1, <2>2, ZenonT(30)
  <2>3. CASE x # p /\ parent[q] = x
    BY <1>2, <2>1, <2>3, Zenon DEF CursorOK
  <2>4. CASE x # p /\ status[x] = "published"
    BY <1>2, <2>4, ZenonT(30) DEF PhaseOK, PhaseOf, IsZombie, Ended, Walking
  <2> QED BY <1>5, <2>2, <2>3, <2>4, ZenonT(30)
<1>6. CursorOK'
  BY <1>5, Zenon DEF CursorOK
<1> QED BY <1>1, <1>4, <1>6, Zenon

(* A turn that moves no child leaves the rest as it was. *)
LEMMA QuietTurn ==
  ASSUME IInv, NEW p \in Pids, topo = p, NEW e \in ExitState,
         e.pc \in {"section", "handoff"}, e.reaper = ex[p].reaper, e.moved = ex[p].moved,
         ex' = [ex EXCEPT ![p] = e],
         UNCHANGED <<treeVars, status, subreaper, hasThread, exit_prepared, told>>
  PROVE  TreeOK' /\ RankOK' /\ BatchHasOneReaper' /\ ZombieKnownToParent'
<1> USE DEF IInv, treeVars
<1>1. ex'[p] = e /\ \A q \in Pids : q # p => ex'[q] = ex[q]
  BY Zenon DEF ReparentTypeOK
<1>2. ex[p].pc = "section" /\ ~isInit[p]
  BY ZenonT(30) DEF PhaseOK, PhaseOf, TreeOK, RootOK, TreeOf, ScopeOf
<1>3. TreeOK'
  BY <1>1, <1>2 DEF TreeOK, RootOK, TreeOf, ScopeOf, PublishedFlag
<1>4. RankOK'
  BY RankKept, ZenonT(30)
<1>5. BatchHasOneReaper'
  BY <1>1 DEF BatchHasOneReaper
<1>6. ZombieKnownToParent'
  <2>1. \A r \in Pids : ex[r].pc \in {"section", "handoff"} =>
          ex'[r].pc \in {"section", "handoff"} /\ ex'[r].moved = ex[r].moved
    BY <1>1, Zenon
  <2> QED BY <2>1, ZombieKept, ZenonT(30)
<1> QED BY <1>3, <1>4, <1>5, <1>6, Zenon

(* The scan passes over an entry that is no published child. *)
LEMMA ScanSkipInv ==
  ASSUME IInv, NEW p \in Pids, ScanSkip(p)
  PROVE  IInv'
<1> DEFINE child == NextChild(p)
           d == Scanned(p, child)
           e == Leave(d, FALSE)
<1>1. /\ topo = p /\ child # Nobody /\ (~PublishedFlag(child) \/ parent[child] # p)
      /\ ex' = [ex EXCEPT ![p] = e] /\ topo' = IF e.pc = "handoff" THEN Nobody ELSE p
      /\ UNCHANGED <<treeVars, status, subreaper, hasThread, exit_prepared, told>>
  BY Zenon DEF ScanSkip
<1>2. /\ child \in Pids /\ d \in ExitState
      /\ d.pc = "section" /\ d.deferred = Nobody /\ ~d.finished
      /\ d.reaper = ex[p].reaper /\ d.moved = ex[p].moved
      /\ \A q \in Pids : Published(q) /\ parent[q] = p /\ q # child => d.after < q /\ q <= d.upper
  BY <1>1, NextChildStep, ZenonT(30)
<1> HIDE DEF d, child
<1>3. /\ e \in ExitState /\ e.pc \in {"section", "handoff"}
      /\ e.pc = "section" => e.len < Batch
      /\ e.deferred = d.deferred /\ e.finished = d.finished /\ e.reaper = d.reaper
      /\ e.moved = d.moved /\ e.after = d.after /\ e.upper = d.upper
  BY <1>2, LeaveStep, ZenonT(30)
<1> HIDE DEF e
<1>4. \A q \in Pids : Published(q) /\ parent'[q] = p => q = e.deferred \/ (e.after < q /\ q <= e.upper)
  <2>1. Published(child) => PublishedFlag(child)
    BY Zenon DEF Published, PublishedFlag
  <2> QED BY <1>1, <1>2, <1>3, <2>1, Zenon DEF treeVars
<1>5. ReparentTypeOK' /\ PhaseOK' /\ CursorOK'
  <2>1. parent' \in [Pids -> Pids \union {Nobody}]
    BY <1>1, Zenon DEF treeVars, IInv, ReparentTypeOK
  <2> QED BY <1>1, <1>2, <1>3, <1>4, <2>1, ScanTurn, ZenonT(30) DEF treeVars
<1>6. TreeOK' /\ RankOK' /\ BatchHasOneReaper' /\ ZombieKnownToParent'
  BY <1>1, <1>2, <1>3, QuietTurn, ZenonT(30)
<1> QED BY <1>5, <1>6, Zenon DEF IInv

(* A child for another reaper stays ahead of the cursor, as the deferred one. *)
LEMMA ScanDeferInv ==
  ASSUME IInv, NEW p \in Pids, ScanDefer(p)
  PROVE  IInv'
<1> DEFINE child == NextChild(p)
           d == Scanned(p, child)
           c == [d EXCEPT !.deferred = child]
           e == Leave(c, TRUE)
<1>1. /\ topo = p /\ child # Nobody
      /\ ex' = [ex EXCEPT ![p] = e] /\ topo' = Nobody
      /\ UNCHANGED <<treeVars, status, subreaper, hasThread, exit_prepared, told>>
  BY Zenon DEF ScanDefer
<1>2. /\ child \in Pids /\ d \in ExitState
      /\ d.pc = "section" /\ d.deferred = Nobody /\ ~d.finished
      /\ d.reaper = ex[p].reaper /\ d.moved = ex[p].moved
      /\ \A q \in Pids : Published(q) /\ parent[q] = p /\ q # child => d.after < q /\ q <= d.upper
  BY <1>1, NextChildStep, Zenon
<1> HIDE DEF d, child
<1>3. /\ c \in ExitState /\ c.pc = "section" /\ c.deferred = child /\ ~c.finished
      /\ c.reaper = d.reaper /\ c.moved = d.moved /\ c.after = d.after /\ c.upper = d.upper
  <2>1. c \in ExitState
    BY <1>2, ExitStateUpdates, ZenonT(30)
  <2> QED BY <1>2, <2>1, Zenon DEF ExitState
<1> HIDE DEF c
<1>4. /\ e \in ExitState /\ e.pc \in {"section", "handoff"}
      /\ e.pc = "section" => e.len < Batch
      /\ e.deferred = c.deferred /\ e.finished = c.finished /\ e.reaper = c.reaper
      /\ e.moved = c.moved /\ e.after = c.after /\ e.upper = c.upper
  BY <1>3, LeaveStep, ZenonT(30)
<1>5. e.pc = "handoff"
  BY <1>3, Zenon DEF Leave, ExitState
<1> HIDE DEF e
<1>6. \A q \in Pids : Published(q) /\ parent'[q] = p => q = e.deferred \/ (e.after < q /\ q <= e.upper)
  BY <1>1, <1>2, <1>3, <1>4, Zenon DEF treeVars
<1>7. ReparentTypeOK' /\ PhaseOK' /\ CursorOK'
  <2>1. parent' \in [Pids -> Pids \union {Nobody}]
    BY <1>1, Zenon DEF treeVars, IInv, ReparentTypeOK
  <2> QED BY <1>1, <1>2, <1>3, <1>4, <1>5, <1>6, <2>1, ScanTurn, ZenonT(30) DEF treeVars
<1>8. TreeOK' /\ RankOK' /\ BatchHasOneReaper' /\ ZombieKnownToParent'
  BY <1>1, <1>2, <1>3, <1>4, QuietTurn, ZenonT(30)
<1> QED BY <1>7, <1>8, Zenon DEF IInv

(* The child is moved to its reaper: it keeps its place in the order of
   creation, leaves the cursor's range and, as a zombie, is in the batch. *)
LEMMA ScanMoveInv ==
  ASSUME IInv, NEW p \in Pids, ScanMove(p)
  PROVE  IInv'
<1>1. PICK freed \in SUBSET MayBeFreed :
        LET child == NextChild(p)
            r == SelectReaper(p, child, freed)
            e == Leave([Scanned(p, child) EXCEPT
                          !.reaper = IF @ = Nobody THEN r ELSE @,
                          !.moved = @ \union {<<child, r, WasZombie(child)>>}],
                       WasZombie(child))
        IN  /\ PublishedFlag(child) /\ parent[child] = p
            /\ ~MustDefer(p, r)
            /\ parent' = [parent EXCEPT ![child] = r]
            /\ ex' = [ex EXCEPT ![p] = e]
            /\ topo' = IF e.pc = "handoff" THEN Nobody ELSE p
  BY ZenonT(30) DEF ScanMove
<1> DEFINE child == NextChild(p)
           r == SelectReaper(p, child, freed)
           d == Scanned(p, child)
           b == WasZombie(child)
           to == IF d.reaper = Nobody THEN r ELSE d.reaper
           c == [[d EXCEPT !.reaper = to] EXCEPT !.moved = d.moved \union {<<child, r, b>>}]
           e == Leave(c, b)
<1>2. topo = p /\ child # Nobody
      /\ UNCHANGED <<status, scope, isInit, subreaper, hasThread, exit_prepared,
                     scopeInit, outer, told, panicked, toggles>>
  BY Zenon DEF ScanMove
<1>3. /\ child \in Pids /\ d \in ExitState
      /\ d.pc = "section" /\ d.deferred = Nobody /\ ~d.finished
      /\ d.reaper = ex[p].reaper /\ d.moved = ex[p].moved
      /\ \A q \in Pids : Published(q) /\ parent[q] = p /\ q # child => d.after < q /\ q <= d.upper
  BY <1>2, NextChildStep, Zenon
<1>4. PublishedFlag(child) /\ parent[child] = p /\ parent' = [parent EXCEPT ![child] = r]
  BY <1>1, Zenon
<1>5. ~MustDefer(p, r)
  BY <1>1, Zenon
<1>6. ex' = [ex EXCEPT ![p] = e] /\ topo' = IF e.pc = "handoff" THEN Nobody ELSE p
  <2>1. c = [d EXCEPT !.reaper = IF @ = Nobody THEN r ELSE @, !.moved = @ \union {<<child, r, b>>}]
    BY <1>3, Zenon DEF ExitState
  <2> QED BY <1>1, <2>1, Zenon
<1>7. b \in BOOLEAN /\ (b <=> status[child] \in {"zombie", "reaped"})
  BY DEF WasZombie, IsZombie
<1>8. PICK rank \in [Pids -> Nat] : Ranked(rank)
  BY Zenon DEF IInv, RankOK
<1>9. r \in Pids /\ status[r] = "published" /\ rank[r] < rank[child]
  <2>1. r = SelectReaper(p, child, freed)
    BY Zenon
  <2>2. child \in Pids /\ PublishedFlag(child) /\ parent[child] = p
    BY <1>3, <1>4, Zenon
  <2> HIDE DEF child, r, d, b
  <2> QED BY ONLY IInv, p \in Pids, <1>8, <2>1, <2>2, AdoptionResult
<1> HIDE DEF child, r, d, b
<1>10. to = r /\ \A m \in ex[p].moved : m[2] = r
  <2>1. ex[p].moved \subseteq Pids \X Pids \X BOOLEAN
    BY Zenon DEF IInv, ReparentTypeOK, ExitState
  <2>2. \A m \in ex[p].moved : m[2] = ex[p].reaper /\ m[2] # Nobody
    BY <2>1, NobodyNoPid, Zenon DEF IInv, BatchHasOneReaper
  <2> QED BY <1>3, <1>5, <2>2, ZenonT(30) DEF MustDefer
<1>11. /\ c \in ExitState /\ c.pc = "section" /\ c.deferred = Nobody /\ ~c.finished /\ c.reaper = r
       /\ c.moved = ex[p].moved \union {<<child, r, b>>} /\ c.after = d.after /\ c.upper = d.upper
  <2>1. [d EXCEPT !.reaper = to] \in ExitState
    BY <1>3, <1>9, <1>10, ExitStateUpdates, ZenonT(30)
  <2>2. d.moved \union {<<child, r, b>>} \in SUBSET (Pids \X Pids \X BOOLEAN)
    BY <1>3, <1>7, <1>9 DEF ExitState
  <2>3. c \in ExitState
    BY <2>1, <2>2, ExitStateUpdates, ZenonT(30)
  <2> QED BY <1>3, <1>10, <2>3, Zenon DEF ExitState
<1> HIDE DEF c
<1>12. /\ e \in ExitState /\ e.pc \in {"section", "handoff"}
       /\ e.pc = "section" => e.len < Batch
       /\ e.deferred = c.deferred /\ e.finished = c.finished /\ e.reaper = c.reaper
       /\ e.moved = c.moved /\ e.after = c.after /\ e.upper = c.upper
  BY <1>7, <1>11, LeaveStep
<1> HIDE DEF e
<1>13. /\ parent' \in [Pids -> Pids \union {Nobody}] /\ parent'[child] = r
       /\ \A q \in Pids : q # child => parent'[q] = parent[q]
  BY <1>3, <1>4, <1>9, Zenon DEF IInv, ReparentTypeOK
<1>14. /\ ex[p].pc = "section" /\ IsZombie(p) /\ ~isInit[p] /\ r # p
       /\ ex'[p] = e /\ \A q \in Pids : q # p => ex'[q] = ex[q]
  <2>1. PhaseOf(p) /\ TreeOf(p)
    BY InvOf, Zenon
  <2>2. ex[p].pc = "section" /\ IsZombie(p) /\ ~isInit[p]
    BY <1>2, <2>1, Zenon DEF PhaseOf, TreeOf, Ended
  <2>3. r # p
    BY <1>9, <2>2, Zenon DEF IsZombie
  <2>4. ex'[p] = e /\ \A q \in Pids : q # p => ex'[q] = ex[q]
    BY <1>6, Zenon DEF IInv, ReparentTypeOK
  <2> QED BY <2>2, <2>3, <2>4, ZenonT(30)
<1>15. ReparentTypeOK' /\ PhaseOK' /\ CursorOK'
  <2>1. \A q \in Pids : Published(q) /\ parent'[q] = p => q = e.deferred \/ (e.after < q /\ q <= e.upper)
    BY <1>3, <1>11, <1>12, <1>13, <1>14, ZenonT(30)
  <2>2. \A q \in Pids : parent'[q] = parent[q] \/ status[parent'[q]] = "published"
    BY <1>9, <1>13, ZenonT(30)
  <2> QED BY <1>2, <1>6, <1>11, <1>12, <1>13, <2>1, <2>2, ScanTurn, ZenonT(30)
<1>16. TreeOK'
  <2>1. child # 1
    BY <1>4, NobodyNoPid, ZenonT(30) DEF IInv, TreeOK, RootOK, TreeOf, ScopeOf
  <2>2. ASSUME NEW q \in Pids PROVE TreeOf(q)'
    <3>1. TreeOf(q)
      BY InvOf, Zenon
    <3>2. isInit[q] => ex'[q] = ex[q]
      BY <1>14, Zenon
    <3>3. CASE q = child
      <4>1. parent'[q] = r /\ PublishedFlag(q) /\ PublishedFlag(r)
        BY <1>4, <1>9, <1>13, <3>3, Zenon DEF PublishedFlag
      <4>2. PublishedFlag(parent[q])'
        BY <1>2, <4>1, Zenon DEF PublishedFlag
      <4> QED BY <1>2, <3>1, <3>2, <4>1, <4>2, ZenonT(30) DEF TreeOf, PublishedFlag
    <3>4. CASE q # child
      <4>1. parent'[q] = parent[q]
        BY <1>13, <3>4, Zenon
      <4> QED BY <1>2, <3>1, <3>2, <4>1, ZenonT(30) DEF TreeOf, PublishedFlag
    <3> QED BY <3>3, <3>4, Zenon
  <2>3. ASSUME NEW o \in Scopes PROVE ScopeOf(o)'
    <3>1. ScopeOf(o)
      BY Zenon DEF IInv, TreeOK
    <3> QED BY <1>2, <3>1, Zenon DEF ScopeOf
  <2>4. RootOK'
    <3>1. RootOK /\ parent'[1] = parent[1]
      BY <1>13, <2>1, NobodyNoPid, Zenon DEF IInv, TreeOK
    <3> QED BY <1>2, <3>1, Zenon DEF RootOK
  <2> QED BY <2>2, <2>3, <2>4, Zenon DEF TreeOK
<1>17. RankOK'
  <2>1. \A q \in Pids : parent'[q] # Nobody => rank[parent'[q]] < rank[q]
    BY <1>8, <1>9, <1>13, ZenonT(30) DEF Ranked
  <2>2. Ranked(rank)'
    BY <1>2, <1>8, <2>1, ZenonT(30) DEF Ranked
  <2> QED BY <2>2, Zenon DEF RankOK
<1>18. BatchHasOneReaper'
  <2>1. e.reaper = r /\ e.moved = ex[p].moved \union {<<child, r, b>>}
    BY <1>11, <1>12, Zenon
  <2>2. \A m \in e.moved : m[2] = e.reaper
    BY ONLY <1>10, <2>1
  <2> QED BY <1>14, <2>2, ZenonT(30) DEF IInv, BatchHasOneReaper
<1>19. ZombieKnownToParent'
  <2>1. ASSUME NEW z \in Pids, status'[z] = "zombie", parent'[z] # Nobody, status'[parent'[z]] = "published"
        PROVE  \/ parent'[z] \in told'[z]
               \/ \E q \in Pids : ex'[q].pc \in {"section", "handoff"} /\ <<z, parent'[z], TRUE>> \in ex'[q].moved
    <3>1. CASE z = child
      <4>1. b = TRUE /\ parent'[z] = r
        BY <1>2, <1>7, <1>13, <2>1, <3>1, Zenon
      <4>2. <<z, parent'[z], TRUE>> \in ex'[p].moved
        BY <1>11, <1>12, <1>14, <3>1, <4>1, ZenonT(30)
      <4> QED BY <1>12, <1>14, <4>2, Zenon
    <3>2. CASE z # child
      <4>1. status[z] = "zombie" /\ parent'[z] = parent[z] /\ told'[z] = told[z]
            /\ parent[z] # Nobody /\ status[parent[z]] = "published"
        BY <1>2, <1>13, <2>1, <3>2, Zenon
      <4>2. ASSUME NEW q \in Pids, ex[q].pc \in {"section", "handoff"}
            PROVE  ex'[q].pc \in {"section", "handoff"} /\ ex[q].moved \subseteq ex'[q].moved
        BY <1>11, <1>12, <1>14, <4>2, Zenon
      <4> QED BY <4>1, <4>2, ZenonT(30) DEF IInv, ZombieKnownToParent
    <3> QED BY <3>1, <3>2, ZenonT(30)
  <2> QED BY <2>1, ZenonT(30) DEF ZombieKnownToParent
<1> QED BY <1>15, <1>16, <1>17, <1>18, <1>19, Zenon DEF IInv

-----------------------------------------------------------------------------
(* The booted tree: process IDs are an order of creation. *)
LEMMA InitInv == ReparentInit => IInv
<1> SUFFICES ASSUME ReparentInit PROVE IInv
  BY Zenon
<1> DEFINE m(s) == {p \in Booted : scope[p] = s}
<1>1. /\ Booted \subseteq Pids /\ 1 \in Booted /\ Pids \subseteq Nat /\ \A p \in Pids : 1 <= p
      /\ RootScope \in Scopes /\ Nobody \notin Scopes /\ 0 \in 0..MaxToggles
  BY ReparentAssumption DEF Pids
<1>2. /\ status = [p \in Pids |-> IF p \in Booted THEN "published" ELSE "none"]
      /\ parent \in [Pids -> Pids \union {Nobody}]
      /\ \A p \in Pids : IF p \in Booted \ {1} THEN parent[p] \in Booted /\ parent[p] < p ELSE parent[p] = Nobody
      /\ scope \in [Pids -> Scopes]
      /\ \A p \in Pids : p \notin Booted \ {1} => scope[p] = RootScope
      /\ scopeInit = [s \in Scopes |-> IF m(s) = {} THEN Nobody ELSE Min(m(s))]
      /\ isInit = [p \in Pids |-> p \in Booted /\ p = scopeInit[scope[p]]]
      /\ outer = [s \in Scopes |-> IF scopeInit[s] \in {1, Nobody} THEN Nobody
                                   ELSE scope[parent[scopeInit[s]]]]
      /\ subreaper = [p \in Pids |-> p \in Subreapers]
      /\ hasThread = [p \in Pids |-> p \in Booted]
      /\ exit_prepared = [p \in Pids |-> FALSE] /\ topo = Nobody
      /\ ex = [p \in Pids |-> Idle] /\ told = [p \in Pids |-> {}]
      /\ panicked = FALSE /\ toggles = 0
  BY Zenon DEF ReparentInit
<1>3. ASSUME NEW s \in Scopes
      PROVE  /\ scopeInit[s] \in Pids \union {Nobody}
             /\ scopeInit[s] # Nobody => scopeInit[s] \in Booted /\ scope[scopeInit[s]] = s
             /\ \A p \in Booted : scope[p] = s =>
                  scopeInit[s] # Nobody /\ scopeInit[s] \in Pids /\ scopeInit[s] <= p
  <2>1. m(s) \subseteq Booted /\ m(s) \subseteq Nat
    BY <1>1, ZenonT(30)
  <2>2. scopeInit[s] = IF m(s) = {} THEN Nobody ELSE Min(m(s))
    BY <1>2, Zenon
  <2>3. \A p \in m(s) : p \in Booted /\ scope[p] = s
    BY Zenon
  <2>4. \A p \in Booted : scope[p] = s => p \in m(s)
    BY Zenon
  <2> HIDE DEF m
  <2>5. m(s) # {} => Min(m(s)) \in m(s) /\ \A y \in m(s) : Min(m(s)) <= y
    BY <2>1, MinLeast, Zenon
  <2> QED BY <1>1, <2>1, <2>2, <2>3, <2>4, <2>5, NobodyNoPid, Zenon
<1> HIDE DEF m
<1>4. scopeInit[RootScope] = 1
  <2>1. scope[1] = RootScope
    BY <1>1, <1>2, Zenon
  <2>2. scopeInit[RootScope] \in Pids /\ scopeInit[RootScope] <= 1
    BY <1>1, <1>3, <2>1, Zenon
  <2> QED BY <2>2 DEF Pids
<1>5. Idle \in ExitState /\ Idle.pc = "none" /\ Idle.after = 0 /\ Idle.deferred = Nobody
      /\ Idle.moved = {} /\ Idle.finished = FALSE
  BY IdleType, ZenonT(30) DEF Idle
<1>6. ASSUME NEW s \in Scopes, scopeInit[s] \notin {Nobody, 1}
      PROVE  /\ outer[s] = scope[parent[scopeInit[s]]] /\ outer[s] \in Scopes
             /\ parent[scopeInit[s]] \in Booted /\ parent[scopeInit[s]] < scopeInit[s]
             /\ scopeInit[outer[s]] # Nobody /\ scopeInit[outer[s]] \in Pids
             /\ scopeInit[outer[s]] <= parent[scopeInit[s]]
  <2>1. scopeInit[s] \in Booted \ {1} /\ scopeInit[s] \in Pids
    BY <1>1, <1>3, <1>6, Zenon
  <2>2. outer[s] = scope[parent[scopeInit[s]]]
    BY <1>2, <1>6, Zenon
  <2>3. parent[scopeInit[s]] \in Booted /\ parent[scopeInit[s]] < scopeInit[s]
    BY <1>2, <2>1, Zenon
  <2>4. outer[s] \in Scopes
    BY <1>1, <1>2, <2>2, <2>3, ZenonT(30)
  <2> QED BY <1>3, <2>2, <2>3, <2>4, ZenonT(30)
<1>7. ReparentTypeOK
  <2>1. scopeInit \in [Scopes -> Pids \union {Nobody}]
    <3>1. scopeInit = [s \in Scopes |-> scopeInit[s]]
      BY <1>2, Zenon
    <3> QED BY <1>3, <3>1, Zenon
  <2>2. outer \in [Scopes -> Scopes \union {Nobody}]
    <3>1. ASSUME NEW s \in Scopes PROVE outer[s] \in Scopes \union {Nobody}
      BY <1>2, <1>6, ZenonT(30)
    <3>2. outer = [s \in Scopes |-> outer[s]]
      BY <1>2, Zenon
    <3> QED BY <3>1, <3>2, Zenon
  <2>3. status \in [Pids -> {"none", "admitted", "published", "zombie", "reaped"}]
    BY <1>2, Zenon
  <2>4. /\ isInit \in [Pids -> BOOLEAN] /\ subreaper \in [Pids -> BOOLEAN]
        /\ hasThread \in [Pids -> BOOLEAN] /\ exit_prepared \in [Pids -> BOOLEAN]
    BY <1>2
  <2>5. ex \in [Pids -> ExitState] /\ told \in [Pids -> SUBSET Pids]
    BY <1>2, <1>5, ZenonT(30)
  <2> QED BY <1>1, <1>2, <2>1, <2>2, <2>3, <2>4, <2>5, ZenonT(30) DEF ReparentTypeOK
<1>8. PhaseOK
  BY <1>2, <1>5, NobodyNoPid, ZenonT(30) DEF PhaseOK, PhaseOf, IsZombie, Rolled, Ended, Walking
<1>9. TreeOK
  <2>1. isInit[1] /\ scope[1] = RootScope /\ scopeInit[RootScope] = 1 /\ parent[1] = Nobody
    BY <1>1, <1>2, <1>4, ZenonT(30)
  <2>2. ASSUME NEW p \in Pids
        PROVE  /\ parent[p] # Nobody => PublishedFlag(parent[p])
               /\ status[p] = "none" => parent[p] = Nobody /\ ~isInit[p]
               /\ status[p] # "admitted"
               /\ isInit[p] => status[p] \in {"admitted", "published"} /\ ex[p].pc = "none"
    BY <1>1, <1>2, <1>5, ZenonT(30) DEF PublishedFlag
  <2>3. ASSUME NEW p \in Pids
        PROVE  /\ isInit[p] /\ status[p] = "published" => scopeInit[scope[p]] = p
               /\ status[p] # "none" /\ ~isInit[p] => scopeInit[scope[p]] # Nobody
    BY <1>2, <1>3, ZenonT(30)
  <2>4. ASSUME NEW s \in Scopes, scopeInit[s] # Nobody
        PROVE  status[scopeInit[s]] = "published" /\ isInit[scopeInit[s]] /\ scope[scopeInit[s]] = s
    BY <1>1, <1>2, <1>3, <2>4, ZenonT(30)
  <2>5. ASSUME NEW s \in Scopes, scopeInit[s] \notin {Nobody, 1}
        PROVE  outer[s] # Nobody /\ scopeInit[outer[s]] # Nobody
    BY <1>1, <1>6, <2>5, Zenon
  <2> QED BY <2>1, <2>2, <2>3, <2>4, <2>5, ZenonT(30) DEF TreeOK, RootOK, TreeOf, ScopeOf
<1>10. RankOK
  <2> DEFINE rank == [p \in Pids |-> p]
  <2>1. rank \in [Pids -> Nat]
    BY <1>1, Zenon
  <2>2. ASSUME NEW p \in Pids, parent[p] # Nobody PROVE rank[parent[p]] < rank[p]
    BY <1>1, <1>2, <2>2, Zenon
  <2>3. ASSUME NEW p \in Pids, status[p] # "none", ~isInit[p]
        PROVE  rank[scopeInit[scope[p]]] < rank[p]
    <3>1. p \in Booted /\ p # scopeInit[scope[p]]
      BY <1>2, <2>3, ZenonT(30)
    <3>2. scopeInit[scope[p]] \in Pids /\ scopeInit[scope[p]] <= p
      BY <1>2, <1>3, <3>1, Zenon
    <3>3. rank[scopeInit[scope[p]]] = scopeInit[scope[p]] /\ rank[p] = p
      BY <3>2, Zenon
    <3> HIDE DEF rank
    <3> QED BY <3>1, <3>2, <3>3 DEF Pids
  <2>4. ASSUME NEW s \in Scopes, scopeInit[s] \notin {Nobody, 1}
        PROVE  rank[scopeInit[outer[s]]] < rank[scopeInit[s]]
    <3>1. scopeInit[s] \in Pids
      BY <1>3, <2>4, Zenon
    <3>2. /\ scopeInit[outer[s]] \in Pids /\ scopeInit[outer[s]] <= parent[scopeInit[s]]
          /\ parent[scopeInit[s]] < scopeInit[s] /\ parent[scopeInit[s]] \in Pids
      BY <1>1, <1>6, <2>4, ZenonT(30)
    <3>3. rank[scopeInit[outer[s]]] = scopeInit[outer[s]] /\ rank[scopeInit[s]] = scopeInit[s]
      BY <3>1, <3>2, Zenon
    <3> HIDE DEF rank
    <3> QED BY <3>1, <3>2, <3>3 DEF Pids
  <2> HIDE DEF rank
  <2>5. Ranked(rank)
    BY <2>2, <2>3, <2>4, Zenon DEF Ranked
  <2> QED BY <2>1, <2>5, Zenon DEF RankOK
<1>11. CursorOK /\ BatchHasOneReaper
  BY <1>2, <1>5, ZenonT(30) DEF CursorOK, BatchHasOneReaper, Walking
<1>12. ZombieKnownToParent
  BY <1>2, ZenonT(30) DEF ZombieKnownToParent
<1> QED BY <1>7, <1>8, <1>9, <1>10, <1>11, <1>12, Zenon DEF IInv

(* Every step of the fork, exit and reap protocols keeps the invariant. *)
LEMMA NextInv == IInv /\ [ReparentNext]_reparentVars => IInv'
<1> SUFFICES ASSUME IInv, [ReparentNext]_reparentVars PROVE IInv'
  BY Zenon
<1>1. ASSUME NEW p \in Pids, NEW q \in Pids, NEW s \in Scopes, PrepareFork(q, p, s) \/ PrepareForkInit(q, p, s)
      PROVE  IInv'
  BY <1>1, PrepareForkInv, PrepareForkInitInv, Zenon
<1>2. ASSUME NEW p \in Pids, NEW t \in BOOLEAN, CommitFork(p, t) \/ CommitForkInit(p, t)
      PROVE  IInv'
  BY <1>2, CommitForkInv, CommitForkInitInv, Zenon
<1>3. ASSUME NEW p \in Pids, RollbackFork(p) PROVE IInv'
  BY <1>3, RollbackForkInv, Zenon
<1>4. ASSUME NEW p \in Pids, NEW on \in BOOLEAN, SetSubreaper(p, on) PROVE IInv'
  BY <1>4, SetSubreaperInv, Zenon
<1>5. ASSUME NEW p \in Pids, PrepareExit(p) \/ RollbackExit(p) \/ CommitExit(p) PROVE IInv'
  BY <1>5, PrepareExitInv, RollbackExitInv, CommitExitInv, Zenon
<1>6. ASSUME NEW p \in Pids, ExitStep(p) PROVE IInv'
  BY <1>6, CaptureBoundInv, BeginSectionInv, ScanSkipInv, ScanDeferInv, ScanMoveInv, ScanFinishedInv,
     HandoffInv, Zenon DEF ExitStep
<1>7. ASSUME NEW p \in Pids, ReapZombie(p) PROVE IInv'
  BY <1>7, ReapZombieInv, Zenon
<1>8. ASSUME UNCHANGED reparentVars PROVE IInv'
  <2> USE <1>8 DEF reparentVars, IInv
  <2>1. ReparentTypeOK'
    BY Zenon DEF ReparentTypeOK
  <2>2. PhaseOK'
    BY ZenonT(30) DEF PhaseOK, PhaseOf, IsZombie
  <2>3. TreeOK'
    BY ZenonT(30) DEF TreeOK, RootOK, TreeOf, ScopeOf, PublishedFlag
  <2>4. RankOK'
    BY RankKept, Zenon
  <2>5. CursorOK' /\ BatchHasOneReaper' /\ ZombieKnownToParent'
    BY ZenonT(30) DEF CursorOK, BatchHasOneReaper, ZombieKnownToParent, Published
  <2> QED BY <2>1, <2>2, <2>3, <2>4, <2>5, Zenon
<1> QED BY <1>1, <1>2, <1>3, <1>4, <1>5, <1>6, <1>7, <1>8, Zenon DEF ReparentNext, ForkStep

(* The inductive invariant holds throughout. *)
LEMMA IInvAlways == ReparentSpec => []IInv
BY InitInv, NextInv, PTL DEF ReparentSpec

(* An order of creation excludes cycles: the oldest process of a set has its
   parent outside. *)
LEMMA OrderExcludesCycles == IInv => AncestryAcyclic
<1> SUFFICES ASSUME IInv, NEW S \in (SUBSET Pids) \ {{}} PROVE \E p \in S : parent[p] \notin S
  BY Zenon DEF AncestryAcyclic
<1>1. PICK rank \in [Pids -> Nat] : Ranked(rank)
  BY Zenon DEF IInv, RankOK
<1> DEFINE ages == {rank[p] : p \in S}
<1>2. ages \subseteq Nat /\ ages # {}
  BY <1>1, Zenon
<1>3. PICK x \in ages : \A y \in ages : x <= y
  <2> HIDE DEF ages
  <2> QED BY <1>2, LeastElement, ZenonT(30)
<1>4. PICK p \in S : x = rank[p]
  BY <1>3, Zenon
<1>5. ASSUME parent[p] \in S PROVE FALSE
  <2>1. rank[parent[p]] < rank[p]
    BY <1>1, <1>5, NobodyNoPid, Zenon DEF Ranked
  <2>2. x <= rank[parent[p]] /\ rank[parent[p]] \in Nat /\ x \in Nat
    BY <1>1, <1>2, <1>3, <1>5, ZenonT(30)
  <2> QED BY <1>4, <2>1, <2>2
<1> QED BY <1>5, Zenon

(* TreeSound, for every number of processes, scopes and batch size: after its
   sections an exit has left no published child behind, whatever was forked,
   moved or reaped in between; the parents never form a cycle; and every batch
   handed off has the one reaper it is announced to. *)
THEOREM TreeSoundCorrect == ReparentSpec => []TreeSound
<1>1. IInv => NoOrphans
  BY ZenonT(30) DEF IInv, CursorOK, NoOrphans
<1>2. IInv => TreeSound
  BY <1>1, OrderExcludesCycles, Zenon DEF IInv, TreeSound
<1> QED BY <1>2, IInvAlways, PTL

(* Every zombie with a live parent is known to it, or the exit that moved it
   is about to tell. *)
THEOREM ZombieKnownToParentCorrect == ReparentSpec => []ZombieKnownToParent
<1>1. IInv => ZombieKnownToParent
  BY Zenon DEF IInv
<1> QED BY <1>1, IInvAlways, PTL

(* A step that changes a parent either makes or drops an unpublished process,
   or moves a child inside its scope. *)
LEMMA StepAdoptsInScope == IInv /\ [ReparentNext]_reparentVars => AdoptsInScope
<1> SUFFICES ASSUME IInv, [ReparentNext]_reparentVars, NEW c \in Pids,
                    parent'[c] # parent[c], status[c] # "none", status'[c] # "none"
             PROVE  /\ parent'[c] # Nobody /\ parent'[c] # c /\ status[parent'[c]] = "published"
                    /\ \/ scope[parent'[c]] = scope[c]
                       \/ c = scopeInit[scope[c]] /\ parent'[c] = scopeInit[outer[scope[c]]]
  BY Zenon DEF AdoptsInScope
<1>1. PICK p \in Pids : ScanMove(p)
  <2>1. \A p \in Pids : ~Discard(p)
    BY Zenon DEF Discard, IInv, ReparentTypeOK
  <2>2. \A p, q \in Pids, s \in Scopes : ~PrepareFork(q, p, s) /\ ~PrepareForkInit(q, p, s)
    BY Zenon DEF PrepareFork, PrepareForkInit, IInv, ReparentTypeOK
  <2>3. \A p \in Pids, t \in BOOLEAN : ~CommitFork(p, t) /\ ~CommitForkInit(p, t)
    BY <2>1, Zenon DEF CommitFork, CommitForkInit, treeVars
  <2>4. \A p \in Pids : ~RollbackFork(p)
    BY <2>1, Zenon DEF RollbackFork
  <2>5. \A p \in Pids, on \in BOOLEAN : ~SetSubreaper(p, on)
    BY ZenonT(30) DEF SetSubreaper
  <2>6. \A p \in Pids : ~PrepareExit(p) /\ ~RollbackExit(p) /\ ~CommitExit(p) /\ ~ReapZombie(p)
    BY Zenon DEF PrepareExit, RollbackExit, CommitExit, ReapZombie, treeVars
  <2>7. \A p \in Pids : ~CaptureBound(p) /\ ~BeginSection(p) /\ ~ScanSkip(p) /\ ~ScanDefer(p)
                        /\ ~ScanFinished(p) /\ ~Handoff(p)
    BY ZenonT(30) DEF CaptureBound, BeginSection, ScanSkip, ScanDefer, ScanFinished, Handoff, treeVars
  <2>8. ReparentNext
    BY Zenon DEF reparentVars
  <2> QED BY <2>2, <2>3, <2>4, <2>5, <2>6, <2>7, <2>8, ZenonT(30) DEF ReparentNext, ForkStep, ExitStep
<1>2. PICK freed \in SUBSET MayBeFreed :
        /\ PublishedFlag(NextChild(p)) /\ parent[NextChild(p)] = p
        /\ parent' = [parent EXCEPT ![NextChild(p)] = SelectReaper(p, NextChild(p), freed)]
  BY <1>1, ZenonT(30) DEF ScanMove
<1>3. c = NextChild(p)
  BY <1>2, Zenon DEF IInv, ReparentTypeOK
<1>4. parent'[c] = SelectReaper(p, c, freed) /\ PublishedFlag(c) /\ parent[c] = p
  BY <1>2, <1>3, Zenon DEF IInv, ReparentTypeOK
<1>5. PICK rank \in [Pids -> Nat] : Ranked(rank)
  BY ZenonT(30) DEF IInv, RankOK
<1>6. /\ parent'[c] \in Pids /\ status[parent'[c]] = "published" /\ rank[parent'[c]] < rank[c]
      /\ \/ scope[parent'[c]] = scope[c]
         \/ c = scopeInit[scope[c]] /\ parent'[c] = scopeInit[outer[scope[c]]]
  BY ONLY IInv, p \in Pids, c \in Pids, <1>4, <1>5, AdoptionResult
<1>7. rank[c] \in Nat
  BY ZenonT(30)
<1> QED BY <1>6, <1>7, NobodyNoPid

(* A moved child lands on a live process of its own scope, and only a scope's
   init lands on the init of the outer scope. *)
THEOREM AdoptionInScopeCorrect == ReparentSpec => AdoptionInScope
BY IInvAlways, StepAdoptsInScope, PTL DEF ReparentSpec, AdoptionInScope
=============================================================================
