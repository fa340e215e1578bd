---------------------------- MODULE SignalProofs ----------------------------
(***************************************************************************)
(* Proofs about the dispositions and the endpoints of the signal crate.    *)
(*                                                                         *)
(* SignalActions: OneShotExact for any managers, deliveries, generation    *)
(* bound and number of owners.  OneShotExact is not inductive: a delivery  *)
(* that finishes could consume a handler it has not claimed, or take the   *)
(* claim of another with it.  The invariant adds that a delivery whose     *)
(* generation is current is the one the table records, that no two         *)
(* deliveries hold one claim, and that a one-shot handler still in the     *)
(* table has not run.                                                      *)
(*                                                                         *)
(* SignalEndpoint: HintNotLost, PendingBelongs and RegistryCoherent for    *)
(* any threads, thread ids, senders, limit and number of registrations.    *)
(* None is inductive.  That the effect of SIGCONT reaches every queue with *)
(* a stop signal in it needs a queue with a record to belong to a          *)
(* registered endpoint, in the state of its entry; that a record put back  *)
(* names the present registration needs a delivery to hold that            *)
(* registration; that a new entry displaces no other needs every live      *)
(* entry to be the one its endpoint names.                                 *)
(***************************************************************************)
EXTENDS SignalActions, SignalEndpoint, FiniteSetTheorems, TLAPS

OwnerStates == [action : Actions, generation : Nat, claim : Int]
Receipts == [owner : Nat, generation : Nat]
All == 1..Len(owners)

Typed ==
  /\ owners \in Seq(OwnerStates) /\ wanted \in Seq(Actions) /\ runs \in Seq(Nat)
  /\ Len(wanted) = Len(owners) /\ Len(runs) = Len(owners)
  /\ manager \in [Managers -> Nat] /\ exec \subseteq Existing
  /\ \A m \in Managers : manager[m] <= Len(owners)
  /\ delivery \in [Deliveries -> Receipts]

(* The table and its ghosts: no claim is ahead of the generation, and a
   one-shot handler that is still there has not run. *)
Unspent ==
  \A o \in All :
    /\ owners[o].claim <= owners[o].generation
    /\ owners[o].action = "resethand" => wanted[o] = "resethand" /\ runs[o] = 0
    /\ ResetClaimIsCurrent(owners[o]) => owners[o].action = "resethand"

(* A receipt is for a generation its owner has reached, and when that is the
   current one the owner records the claim. *)
Recorded ==
  \A d \in Deliveries : delivery[d] # Idle =>
    /\ delivery[d].owner \in All
    /\ delivery[d].generation <= owners[delivery[d].owner].generation
    /\ delivery[d].generation = owners[delivery[d].owner].generation =>
         ResetClaimIsCurrent(owners[delivery[d].owner])

Exclusive ==
  \A d, e \in Deliveries : delivery[d] # Idle /\ delivery[d] = delivery[e] => d = e

IInv == Typed /\ Unspent /\ Recorded /\ Exclusive /\ OneShotExact

-----------------------------------------------------------------------------
(* Replacing one element of a sequence keeps its length and the others. *)
LEMMA Replacing ==
  ASSUME NEW S, NEW s \in Seq(S), NEW o \in 1..Len(s), NEW x \in S
  PROVE  LET r == [s EXCEPT ![o] = x] IN
         /\ r \in Seq(S) /\ Len(r) = Len(s)
         /\ r[o] = x /\ \A i \in 1..Len(s) : i # o => r[i] = s[i]
OBVIOUS

(* Appending to a sequence keeps what it had. *)
LEMMA Appending ==
  ASSUME NEW S, NEW s \in Seq(S), NEW x \in S
  PROVE  LET r == Append(s, x) IN
         /\ r \in Seq(S) /\ Len(r) = Len(s) + 1
         /\ r[Len(s) + 1] = x /\ \A i \in 1..Len(s) : r[i] = s[i]
OBVIOUS

(* The first owner has the default action and no delivery. *)
LEMMA InitInv == Init => IInv
<1> SUFFICES ASSUME Init PROVE IInv
  BY Zenon
<1>1. Typed
  BY DEF Init, Typed, Fresh, OwnerStates, Actions, NoClaim, Receipts, Idle, Existing
<1>2. Len(owners) = 1 /\ owners[1] = Fresh("default") /\ wanted[1] = "default"
  BY Zenon DEF Init
<1>3. All = {1}
  BY <1>2 DEF All
<1>4. Unspent
  BY <1>2, <1>3 DEF Unspent, Fresh, ResetClaimIsCurrent, NoClaim
<1>5. Recorded /\ Exclusive
  BY Zenon DEF Init, Recorded, Exclusive
<1>6. OneShotExact
  BY <1>2 DEF OneShotExact, ResetHandOnce, ClaimHeld, NewerDispositionKept, Fresh,
     ResetClaimIsCurrent, NoClaim
<1> QED
  BY <1>1, <1>4, <1>5, <1>6, Zenon DEF IInv

(* A manager that exists has an owner. *)
LEMMA OwnerOf ==
  ASSUME IInv, NEW m \in Managers, m \in Existing
  PROVE  manager[m] \in All /\ owners[manager[m]] \in OwnerStates
         /\ wanted[manager[m]] \in Actions /\ runs[manager[m]] \in Nat
BY DEF IInv, Typed, Existing, All

(* try_replace_action: the generation moves past every receipt. *)
LEMMA ReplaceInv ==
  ASSUME IInv, NEW m \in Managers, NEW action \in Actions, Replace(m, action)
  PROVE  IInv'
<1> DEFINE o == manager[m]
           x == [owners[o] EXCEPT !.action = action, !.generation = owners[o].generation + 1]
<1>1. o \in All /\ owners[o] \in OwnerStates
  BY OwnerOf, Zenon DEF Replace
<1>2. x \in OwnerStates /\ x.action = action /\ x.claim = owners[o].claim
      /\ x.generation = owners[o].generation + 1
  <2>1. owners[o].generation + 1 \in Nat
    BY <1>1 DEF OwnerStates
  <2> QED BY <1>1, <2>1, Zenon DEF OwnerStates
<1>3. owners' = [owners EXCEPT ![o] = x]
  BY <1>1, ZenonT(30) DEF Replace, IInv, Typed, OwnerStates
<1>4. /\ owners' \in Seq(OwnerStates) /\ Len(owners') = Len(owners)
      /\ owners'[o] = x /\ \A i \in All : i # o => owners'[i] = owners[i]
  <2> HIDE DEF x, o
  <2> QED BY <1>1, <1>2, <1>3, Replacing DEF IInv, Typed, All
<1>5. /\ wanted' \in Seq(Actions) /\ Len(wanted') = Len(owners)
      /\ wanted'[o] = action /\ \A i \in All : i # o => wanted'[i] = wanted[i]
  BY <1>1 DEF Replace, IInv, Typed, All
<1>6. /\ runs' \in Seq(Nat) /\ Len(runs') = Len(owners)
      /\ runs'[o] = 0 /\ \A i \in All : i # o => runs'[i] = runs[i]
  BY <1>1 DEF Replace, IInv, Typed, All
<1>7. manager' = manager /\ exec' = exec /\ delivery' = delivery
  BY Zenon DEF Replace
<1>8. All' = All
  BY <1>4, Zenon DEF All
<1> HIDE DEF x, o
<1>9. Typed'
  BY <1>4, <1>5, <1>6, <1>7, Zenon DEF IInv, Typed, Existing
<1>10. ~ResetClaimIsCurrent(x)
  BY <1>1, <1>2 DEF IInv, Unspent, ResetClaimIsCurrent, OwnerStates
<1>11. Unspent'
  <2> SUFFICES ASSUME NEW i \in All
               PROVE  /\ owners'[i].claim <= owners'[i].generation
                      /\ owners'[i].action = "resethand" => wanted'[i] = "resethand" /\ runs'[i] = 0
                      /\ ResetClaimIsCurrent(owners'[i]) => owners'[i].action = "resethand"
    BY <1>8, Zenon DEF Unspent
  <2>1. CASE i = o
    <3>1. /\ owners[o].claim \in Int /\ owners[o].generation \in Nat
          /\ owners[o].claim <= owners[o].generation
      BY <1>1, Zenon DEF IInv, Unspent, OwnerStates
    <3>2. owners'[i] = x /\ wanted'[i] = action /\ runs'[i] = 0
      BY <2>1, <1>4, <1>5, <1>6, Zenon
    <3> QED BY ONLY <1>2, <1>10, <3>1, <3>2, SMTT(40)
  <2>2. CASE i # o
    BY <2>2, <1>4, <1>5, <1>6, Zenon DEF IInv, Unspent
  <2> QED BY <2>1, <2>2, Zenon
<1>12. Recorded'
  <2> SUFFICES ASSUME NEW d \in Deliveries, delivery[d] # Idle
               PROVE  /\ delivery[d].owner \in All
                      /\ delivery[d].generation <= owners'[delivery[d].owner].generation
                      /\ delivery[d].generation = owners'[delivery[d].owner].generation =>
                           ResetClaimIsCurrent(owners'[delivery[d].owner])
    BY <1>7, <1>8, Zenon DEF Recorded
  <2>0. delivery[d].generation \in Nat /\ owners[o].generation \in Nat
    BY <1>1, Zenon DEF IInv, Typed, Receipts, OwnerStates
  <2>1. CASE delivery[d].owner = o
    <3>1. delivery[d].generation <= owners[o].generation
      BY <2>1, Zenon DEF IInv, Recorded
    <3> QED BY <3>1, <2>0, <2>1, <1>1, <1>2, <1>4
  <2>2. CASE delivery[d].owner # o
    BY <2>2, <1>4, Zenon DEF IInv, Recorded
  <2> QED BY <2>1, <2>2, Zenon
<1>13. Exclusive'
  BY <1>7, Zenon DEF IInv, Exclusive
<1>14. OneShotExact'
  <2> SUFFICES ASSUME NEW i \in All
               PROVE  /\ wanted'[i] = "resethand" => runs'[i] <= 1
                      /\ ResetClaimIsCurrent(owners'[i]) => \E d \in Deliveries :
                           delivery[d].owner = i /\ delivery[d].generation = owners'[i].generation
                      /\ owners'[i].action # wanted'[i] =>
                           owners'[i].action = "default" /\ wanted'[i] = "resethand" /\ runs'[i] = 1
    BY <1>7, <1>8, ZenonT(30) DEF OneShotExact, ResetHandOnce, ClaimHeld, NewerDispositionKept, All
  <2>1. CASE i = o
    BY <2>1, <1>2, <1>4, <1>5, <1>6, <1>10
  <2>2. CASE i # o
    BY <2>2, <1>4, <1>5, <1>6
    DEF IInv, OneShotExact, ResetHandOnce, ClaimHeld, NewerDispositionKept, All
  <2> QED BY <2>1, <2>2, Zenon
<1> QED
  BY <1>9, <1>11, <1>12, <1>13, <1>14, Zenon DEF IInv

(* claim_delivery: the receipt is new, since a receipt for the current
   generation means that the claim is current. *)
LEMMA ClaimInv ==
  ASSUME IInv, NEW d \in Deliveries, NEW m \in Managers, ClaimDelivery(d, m)
  PROVE  IInv'
<1> DEFINE o == manager[m]
           g == owners[o].generation
           x == [owners[o] EXCEPT !.claim = g]
           r == [owner |-> o, generation |-> g]
<1>1. o \in All /\ owners[o] \in OwnerStates /\ g \in Nat /\ o \in Nat /\ o # 0
  BY OwnerOf DEF ClaimDelivery, OwnerStates, All
<1>2. x \in OwnerStates /\ x.action = owners[o].action /\ x.claim = g /\ x.generation = g
  <2>1. g \in Int
    BY <1>1
  <2> QED BY <1>1, <2>1, Zenon DEF OwnerStates
<1>3. owners' = [owners EXCEPT ![o] = x]
  BY <1>1, Zenon DEF ClaimDelivery, IInv, Typed, OwnerStates
<1>0. ~ResetClaimIsCurrent(owners[o]) /\ owners[o].action = "resethand" /\ delivery[d] = Idle
  BY Zenon DEF ClaimDelivery, Claimable
<1>5. delivery' = [delivery EXCEPT ![d] = r]
  BY Zenon DEF ClaimDelivery
<1>6. r \in Receipts /\ r # Idle /\ r.owner = o /\ r.generation = g
  BY <1>1, Zenon DEF Receipts, Idle
<1>7. manager' = manager /\ exec' = exec /\ wanted' = wanted /\ runs' = runs
  BY Zenon DEF ClaimDelivery
<1> HIDE DEF x, r
<1>15. g = owners[o].generation
  BY Zenon
<1> HIDE DEF g, o
<1>4. /\ owners' \in Seq(OwnerStates) /\ Len(owners') = Len(owners)
      /\ owners'[o] = x /\ \A i \in All : i # o => owners'[i] = owners[i]
  BY <1>1, <1>2, <1>3, Replacing DEF IInv, Typed, All
<1>8. All' = All
  BY <1>4, Zenon DEF All
<1>16. /\ delivery' \in [Deliveries -> Receipts] /\ delivery'[d] = r
       /\ \A e \in Deliveries : e # d => delivery'[e] = delivery[e]
  BY <1>5, <1>6, Zenon DEF IInv, Typed
<1>9. Typed'
  BY <1>4, <1>7, <1>16, Zenon DEF IInv, Typed, Existing
<1>10. ResetClaimIsCurrent(x)
  BY <1>2, Zenon DEF ResetClaimIsCurrent
<1>11. Unspent'
  <2> SUFFICES ASSUME NEW i \in All
               PROVE  /\ owners'[i].claim <= owners'[i].generation
                      /\ owners'[i].action = "resethand" => wanted[i] = "resethand" /\ runs[i] = 0
                      /\ ResetClaimIsCurrent(owners'[i]) => owners'[i].action = "resethand"
    BY <1>7, <1>8, Zenon DEF Unspent
  <2>1. CASE i = o
    BY <2>1, <1>0, <1>1, <1>2, <1>4 DEF IInv, Unspent
  <2>2. CASE i # o
    BY <2>2, <1>4, Zenon DEF IInv, Unspent
  <2> QED BY <2>1, <2>2, Zenon
<1>12. Recorded'
  <2> SUFFICES ASSUME NEW e \in Deliveries, delivery'[e] # Idle
               PROVE  /\ delivery'[e].owner \in All
                      /\ delivery'[e].generation <= owners'[delivery'[e].owner].generation
                      /\ delivery'[e].generation = owners'[delivery'[e].owner].generation =>
                           ResetClaimIsCurrent(owners'[delivery'[e].owner])
    BY <1>8, Zenon DEF Recorded
  <2>1. CASE e = d
    BY <2>1, <1>1, <1>2, <1>4, <1>6, <1>10, <1>16
  <2>2. CASE e # d
    BY <2>2, <1>2, <1>4, <1>10, <1>15, <1>16 DEF IInv, Recorded
  <2> QED BY <2>1, <2>2, Zenon
<1>13. Exclusive'
  <2>1. \A e \in Deliveries : delivery[e] # r
    BY <1>0, <1>6, <1>15, Zenon DEF IInv, Recorded
  <2> QED BY <2>1, <1>16, Zenon DEF IInv, Exclusive
<1>14. OneShotExact'
  <2> SUFFICES ASSUME NEW i \in All
               PROVE  /\ wanted[i] = "resethand" => runs[i] <= 1
                      /\ ResetClaimIsCurrent(owners'[i]) => \E e \in Deliveries :
                           delivery'[e].owner = i /\ delivery'[e].generation = owners'[i].generation
                      /\ owners'[i].action # wanted[i] =>
                           owners'[i].action = "default" /\ wanted[i] = "resethand" /\ runs[i] = 1
    BY <1>7, <1>8, Zenon DEF OneShotExact, ResetHandOnce, ClaimHeld, NewerDispositionKept, All
  <2>1. CASE i = o
    BY <2>1, <1>2, <1>4, <1>6, <1>16, Zenon
    DEF IInv, OneShotExact, ResetHandOnce, NewerDispositionKept, All
  <2>2. CASE i # o
    <3>1. \A e \in Deliveries : delivery[e].owner = i => e # d
      BY <1>0 DEF Idle, All
    <3> QED BY <3>1, <2>2, <1>4, <1>16
        DEF IInv, OneShotExact, ResetHandOnce, ClaimHeld, NewerDispositionKept, All
  <2> QED BY <2>1, <2>2, Zenon
<1> QED
  BY <1>9, <1>11, <1>12, <1>13, <1>14, Zenon DEF IInv

(* finish_delivery: a current receipt is the claim the owner records, so the
   handler it consumes is there and has not run; a late one changes nothing
   but a claim of its own. *)
LEMMA FinishInv ==
  ASSUME IInv, NEW d \in Deliveries, NEW commit \in BOOLEAN, FinishDelivery(d, commit)
  PROVE  IInv'
<1> DEFINE r == delivery[d]
           o == r.owner
           t == owners[o]
           x == Finished(t, r.generation, commit)
           spent == commit /\ t.generation = r.generation
<1>1. /\ r # Idle /\ r \in Receipts /\ o \in All /\ t \in OwnerStates
      /\ t.generation \in Nat /\ t.claim \in Int /\ r.generation \in Nat
      /\ t.claim <= t.generation
      /\ t.generation = r.generation => t.claim = t.generation /\ t.action = "resethand"
                                        /\ wanted[o] = "resethand" /\ runs[o] = 0
  <2>1. r # Idle /\ r \in Receipts /\ o \in All
    BY Zenon DEF FinishDelivery, IInv, Typed, Recorded
  <2>2. t \in OwnerStates
    BY <2>1 DEF IInv, Typed, All
  <2>3. t.generation \in Nat /\ t.claim \in Int /\ r.generation \in Nat
    BY <2>1, <2>2, Zenon DEF OwnerStates, Receipts
  <2> QED BY <2>1, <2>2, <2>3, Zenon DEF IInv, Recorded, Unspent, ResetClaimIsCurrent
<1>2. /\ x \in OwnerStates /\ x.generation = t.generation
      /\ x.claim = IF t.claim = r.generation THEN NoClaim ELSE t.claim
      /\ x.action = IF spent THEN "default" ELSE t.action
  <2>1. NoClaim \in Int /\ "default" \in Actions /\ t.action \in Actions
    BY <1>1 DEF NoClaim, Actions, OwnerStates
  <2>2. CASE t.claim # r.generation
    BY <2>2, <1>1, Zenon DEF Finished
  <2>3. CASE t.claim = r.generation
    <3> DEFINE a == IF commit /\ t.generation = r.generation THEN "default" ELSE t.action
    <3>1. x = [t EXCEPT !.claim = NoClaim, !.action = a]
      BY <2>3, Zenon DEF Finished
    <3>2. a \in Actions
      BY <2>1, Zenon
    <3> HIDE DEF a, x, t
    <3>3. x \in OwnerStates /\ x.generation = t.generation /\ x.claim = NoClaim /\ x.action = a
      BY <3>1, <3>2, <2>1, <1>1, Zenon DEF OwnerStates
    <3> QED BY <3>3, <2>3, Zenon DEF a
  <2> QED BY <2>2, <2>3, Zenon
<1>3. owners' = [owners EXCEPT ![o] = x]
  BY Zenon DEF FinishDelivery
<1>4. runs' = IF spent THEN [runs EXCEPT ![o] = runs[o] + 1] ELSE runs
  BY Zenon DEF FinishDelivery
<1>5. delivery' = [delivery EXCEPT ![d] = Idle]
  BY Zenon DEF FinishDelivery
<1>6. Idle \in Receipts
  BY Zenon DEF Receipts, Idle
<1>7. manager' = manager /\ exec' = exec /\ wanted' = wanted
  BY Zenon DEF FinishDelivery
<1>8. r = delivery[d] /\ o = r.owner /\ t = owners[o] /\ spent \in BOOLEAN
      /\ (spent => t.generation = r.generation)
  BY Zenon
<1> HIDE DEF x, t, o, r, spent
<1>9. /\ owners' \in Seq(OwnerStates) /\ Len(owners') = Len(owners)
      /\ owners'[o] = x /\ \A i \in All : i # o => owners'[i] = owners[i]
  BY <1>1, <1>2, <1>3, Replacing DEF IInv, Typed, All
<1>10. /\ runs' \in Seq(Nat) /\ Len(runs') = Len(owners)
       /\ runs'[o] = (IF spent THEN 1 ELSE runs[o])
       /\ \A i \in All : i # o => runs'[i] = runs[i]
  BY <1>1, <1>4, <1>8 DEF IInv, Typed, All
<1>11. All' = All
  BY <1>9, Zenon DEF All
<1>12. /\ delivery' \in [Deliveries -> Receipts] /\ delivery'[d] = Idle
       /\ \A e \in Deliveries : e # d => delivery'[e] = delivery[e]
  BY <1>5, <1>6, Zenon DEF IInv, Typed
<1>13. Typed'
  BY <1>7, <1>9, <1>10, <1>12, Zenon DEF IInv, Typed, Existing
<1>14. ResetClaimIsCurrent(x) => ResetClaimIsCurrent(t) /\ t.claim # r.generation
  BY <1>1, <1>2 DEF ResetClaimIsCurrent, NoClaim
<1>15. Unspent'
  <2> SUFFICES ASSUME NEW i \in All
               PROVE  /\ owners'[i].claim <= owners'[i].generation
                      /\ owners'[i].action = "resethand" => wanted[i] = "resethand" /\ runs'[i] = 0
                      /\ ResetClaimIsCurrent(owners'[i]) => owners'[i].action = "resethand"
    BY <1>7, <1>11, Zenon DEF Unspent
  <2>1. CASE i = o
    <3>1. x.claim <= x.generation
      BY <1>1, <1>2 DEF NoClaim
    <3>2. x.action = "resethand" => wanted[o] = "resethand" /\ runs'[o] = 0
      BY <1>1, <1>2, <1>8, <1>10, Zenon DEF IInv, Unspent
    <3>3. ResetClaimIsCurrent(x) => x.action = "resethand"
      BY <1>1, <1>2, <1>8, <1>14, Zenon DEF IInv, Unspent, ResetClaimIsCurrent
    <3> QED BY <2>1, <3>1, <3>2, <3>3, <1>9, Zenon
  <2>2. CASE i # o
    BY <2>2, <1>9, <1>10, Zenon DEF IInv, Unspent
  <2> QED BY <2>1, <2>2, Zenon
<1>16. Recorded'
  <2> SUFFICES ASSUME NEW e \in Deliveries, delivery'[e] # Idle
               PROVE  /\ delivery'[e].owner \in All
                      /\ delivery'[e].generation <= owners'[delivery'[e].owner].generation
                      /\ delivery'[e].generation = owners'[delivery'[e].owner].generation =>
                           ResetClaimIsCurrent(owners'[delivery'[e].owner])
    BY <1>11, Zenon DEF Recorded
  <2>1. e # d /\ delivery'[e] = delivery[e] /\ delivery[e] # Idle /\ delivery[e] \in Receipts
    BY <1>12, Zenon DEF IInv, Typed
  <2>2. CASE delivery[e].owner = o
    <3>1. delivery[e] # r
      BY <2>1, <1>8, Zenon DEF IInv, Exclusive
    <3>2. delivery[e].generation # r.generation
      BY <3>1, <2>1, <2>2, <1>1, <1>8 DEF Receipts
    <3>3. /\ delivery[e].generation <= t.generation
          /\ delivery[e].generation = t.generation => t.claim = t.generation
      BY <2>1, <2>2, <1>8, Zenon DEF IInv, Recorded, ResetClaimIsCurrent
    <3>4. delivery[e].generation = x.generation => x.claim = x.generation
      BY <3>2, <3>3, <1>2, Zenon
    <3> QED BY <3>3, <3>4, <2>1, <2>2, <1>1, <1>2, <1>9, Zenon DEF ResetClaimIsCurrent
  <2>3. CASE delivery[e].owner # o
    BY <2>1, <2>3, <1>9, Zenon DEF IInv, Recorded
  <2> QED BY <2>2, <2>3, Zenon
<1>17. Exclusive'
  BY <1>12, Zenon DEF IInv, Exclusive
<1>18. OneShotExact'
  <2> SUFFICES ASSUME NEW i \in All
               PROVE  /\ wanted[i] = "resethand" => runs'[i] <= 1
                      /\ ResetClaimIsCurrent(owners'[i]) => \E e \in Deliveries :
                           delivery'[e].owner = i /\ delivery'[e].generation = owners'[i].generation
                      /\ owners'[i].action # wanted[i] =>
                           owners'[i].action = "default" /\ wanted[i] = "resethand" /\ runs'[i] = 1
    BY <1>7, <1>11, Zenon DEF OneShotExact, ResetHandOnce, ClaimHeld, NewerDispositionKept, All
  <2>1. CASE i = o
    <3>1. wanted[o] = "resethand" => runs'[o] <= 1
      BY <1>1, <1>10 DEF IInv, OneShotExact, ResetHandOnce, All
    <3>2. ResetClaimIsCurrent(x) => \E e \in Deliveries :
            delivery'[e].owner = o /\ delivery'[e].generation = x.generation
      <4> HAVE ResetClaimIsCurrent(x)
      <4>1. PICK e \in Deliveries : delivery[e].owner = o /\ delivery[e].generation = t.generation
        BY <1>1, <1>8, <1>14, Zenon DEF IInv, OneShotExact, ClaimHeld, All
      <4>2. e # d
        BY <4>1, <1>8, <1>14, Zenon DEF ResetClaimIsCurrent
      <4> QED BY <4>1, <4>2, <1>2, <1>12, Zenon
    <3>3. x.action # wanted[o] => x.action = "default" /\ wanted[o] = "resethand" /\ runs'[o] = 1
      BY <1>1, <1>2, <1>8, <1>10, SMTT(30) DEF IInv, OneShotExact, NewerDispositionKept, All
    <3> QED BY <2>1, <3>1, <3>2, <3>3, <1>9, Zenon
  <2>2. CASE i # o
    <3>1. \A e \in Deliveries : delivery[e].owner = i => e # d
      BY <2>2, <1>8, Zenon
    <3>2. owners'[i] = owners[i] /\ runs'[i] = runs[i]
      BY <2>2, <1>9, <1>10, Zenon
    <3>3. ResetClaimIsCurrent(owners[i]) => \E e \in Deliveries :
            delivery'[e].owner = i /\ delivery'[e].generation = owners[i].generation
      BY <3>1, <1>12 DEF IInv, OneShotExact, ClaimHeld, All
    <3>4. /\ wanted[i] = "resethand" => runs[i] <= 1
          /\ owners[i].action # wanted[i] =>
               owners[i].action = "default" /\ wanted[i] = "resethand" /\ runs[i] = 1
      BY Zenon DEF IInv, OneShotExact, ResetHandOnce, NewerDispositionKept, All
    <3> QED BY <3>2, <3>3, <3>4, Zenon
  <2> QED BY <2>1, <2>2, Zenon
<1> QED
  BY <1>13, <1>15, <1>16, <1>17, <1>18, Zenon DEF IInv

(* A new owner starts unclaimed, and every old one stays as it is. *)
LEMMA CopiedInv ==
  ASSUME IInv, NEW action \in Actions, NEW m \in Managers, Copied(action),
         manager' = [manager EXCEPT ![m] = Len(owners) + 1],
         exec' \subseteq exec, delivery' = delivery
  PROVE  IInv'
<1> DEFINE n == Len(owners) + 1
<1>1. n \in Nat /\ n # 0 /\ All' = All \cup {n} /\ n \notin All /\ Len(owners') = n
  BY DEF Copied, IInv, Typed, All
<1>2. Fresh(action) \in OwnerStates /\ Fresh(action).action = action
      /\ Fresh(action).generation = 0 /\ Fresh(action).claim = -1
  BY DEF Fresh, OwnerStates, NoClaim
<1>3. /\ owners' \in Seq(OwnerStates) /\ owners'[n] = Fresh(action)
      /\ \A i \in All : owners'[i] = owners[i]
  BY <1>2, Appending DEF Copied, IInv, Typed, All
<1>4. /\ wanted' \in Seq(Actions) /\ Len(wanted') = n /\ wanted'[n] = action
      /\ \A i \in All : wanted'[i] = wanted[i]
  BY Appending DEF Copied, IInv, Typed, All
<1>5. /\ runs' \in Seq(Nat) /\ Len(runs') = n /\ runs'[n] = 0
      /\ \A i \in All : runs'[i] = runs[i]
  BY SMTT(30) DEF Copied, IInv, Typed, All
<1>6. n = Len(owners) + 1 /\ Len(owners) \in Nat
  BY DEF IInv, Typed
<1> HIDE DEF n
<1>7. Typed'
  <2>1. manager' \in [Managers -> Nat] /\ \A k \in Managers : manager'[k] <= n
    BY <1>1, <1>6 DEF IInv, Typed
  <2>2. Existing \subseteq Existing'
    BY <1>1, <1>6, Zenon DEF Existing, IInv, Typed
  <2> QED BY <2>1, <2>2, <1>1, <1>3, <1>4, <1>5, Zenon DEF IInv, Typed
<1>8. Unspent'
  BY <1>1, <1>2, <1>3, <1>4, <1>5 DEF IInv, Unspent, ResetClaimIsCurrent
<1>9. Recorded'
  BY <1>1, <1>3, Zenon DEF IInv, Recorded
<1>10. Exclusive'
  BY Zenon DEF IInv, Exclusive
<1>11. OneShotExact'
  <2>1. \A i \in All : OneShotExact => 
          /\ wanted[i] = "resethand" => runs[i] <= 1
          /\ ResetClaimIsCurrent(owners[i]) => \E e \in Deliveries :
               delivery[e].owner = i /\ delivery[e].generation = owners[i].generation
          /\ owners[i].action # wanted[i] =>
               owners[i].action = "default" /\ wanted[i] = "resethand" /\ runs[i] = 1
    BY Zenon DEF OneShotExact, ResetHandOnce, ClaimHeld, NewerDispositionKept, All
  <2>2. \A i \in All' :
          /\ wanted'[i] = "resethand" => runs'[i] <= 1
          /\ ResetClaimIsCurrent(owners'[i]) => \E e \in Deliveries :
               delivery[e].owner = i /\ delivery[e].generation = owners'[i].generation
          /\ owners'[i].action # wanted'[i] =>
               owners'[i].action = "default" /\ wanted'[i] = "resethand" /\ runs'[i] = 1
    BY <2>1, <1>1, <1>2, <1>3, <1>4, <1>5, SMTT(30) DEF IInv, ResetClaimIsCurrent
  <2> QED BY <2>2, ZenonT(30) DEF OneShotExact, ResetHandOnce, ClaimHeld, NewerDispositionKept, All
<1> QED
  BY <1>7, <1>8, <1>9, <1>10, <1>11, Zenon DEF IInv

(* Steps that leave the owners and the deliveries alone. *)
LEMMA ManagersInv ==
  ASSUME IInv, NEW m \in Managers, NEW n \in Managers,
         Share(m, n) \/ PrepareExec(m) \/ DropExec(m)
  PROVE  IInv'
<1>1. owners' = owners /\ delivery' = delivery /\ wanted' = wanted /\ runs' = runs
  BY Zenon DEF Share, PrepareExec, DropExec
<1>2. Typed'
  BY <1>1, SMTT(30) DEF IInv, Typed, Existing, Share, PrepareExec, DropExec
<1> QED
  BY <1>1, <1>2 DEF IInv, Unspent, Recorded, Exclusive, OneShotExact, ResetHandOnce, ClaimHeld,
     NewerDispositionKept, All

(* Every step preserves the invariant. *)
LEMMA NextInv == IInv /\ [Next]_vars => IInv'
<1> SUFFICES ASSUME IInv, [Next]_vars PROVE IInv'
  BY Zenon
<1>1. ASSUME NEW m \in Managers, NEW action \in Actions, Replace(m, action) PROVE IInv'
  BY <1>1, ReplaceInv, Zenon
<1>2. ASSUME NEW d \in Deliveries, NEW m \in Managers, ClaimDelivery(d, m) PROVE IInv'
  BY <1>2, ClaimInv, Zenon
<1>3. ASSUME NEW d \in Deliveries, NEW commit \in BOOLEAN, FinishDelivery(d, commit) PROVE IInv'
  BY <1>3, FinishInv, Zenon
<1>4. ASSUME NEW m \in Managers, NEW n \in Managers, Share(m, n) PROVE IInv'
  BY <1>4, ManagersInv, Zenon
<1>5. ASSUME NEW m \in Managers, NEW n \in Managers, Fork(m, n) PROVE IInv'
  <2>1. EffectiveAction(owners[manager[m]]) \in Actions
    BY <1>5, OwnerOf, Zenon DEF Fork, EffectiveAction, Actions, OwnerStates
  <2> QED BY <1>5, <2>1, CopiedInv, ZenonT(30) DEF Fork
<1>6. ASSUME NEW m \in Managers, CommitExec(m) PROVE IInv'
  <2>1. ExecSnapshot(owners[manager[m]]) \in Actions
    BY Zenon DEF ExecSnapshot, Actions
  <2> QED BY <1>6, <2>1, CopiedInv, ZenonT(30) DEF CommitExec
<1>7. ASSUME NEW m \in Managers, PrepareExec(m) \/ DropExec(m) PROVE IInv'
  BY <1>7, ManagersInv, Zenon
<1>8. CASE UNCHANGED vars
  BY <1>8, ZenonT(30) DEF vars, IInv, Typed, Existing, Unspent, Recorded, Exclusive, OneShotExact,
     ResetHandOnce, ClaimHeld, NewerDispositionKept, All
<1> QED
  BY <1>1, <1>2, <1>3, <1>4, <1>5, <1>6, <1>7, <1>8, Zenon DEF Next

(* An SA_RESETHAND handler runs at most once per installation, no claim is left
   without a delivery that will finish it, and a late delivery never resets a
   newer disposition (claim_delivery, finish_delivery), for any number of
   processes sharing tables, deliveries in flight, forks and execs. *)
THEOREM OneShotExactCorrect == Spec => []OneShotExact
<1>1. Init => IInv
  BY InitInv, Zenon
<1>2. IInv /\ [Next]_vars => IInv'
  BY NextInv, Zenon
<1>3. IInv => OneShotExact
  BY Zenon DEF IInv
<1> QED
  BY <1>1, <1>2, <1>3, PTL DEF Spec

-----------------------------------------------------------------------------
(* The endpoints *)

Records == [owner : -1..MaxEntry, requeued : BOOLEAN]
Entries == [tid : Tids, thread : Threads, state : {"pending", "active", "retained", "cancelled"}]
Selections == [pc : {"selected"}, mask : SUBSET Signos, from : Targets, signo : Signos, record : Records,
               action : Dispositions \union {"unclaimed"}]
Scans == [pc : {"thread", "process"}, mask : SUBSET Signos]

(* What a sender carries between its sections. *)
SenderOK ==
  /\ DOMAIN sender = Senders
  /\ \A c \in Senders :
       /\ sender[c].pc \in {"idle", "preparing", "hint", "armed"}
       /\ sender[c].pc # "idle" => sender[c].to \in Targets
       /\ sender[c].pc = "preparing" =>
            sender[c].mode \in {"active", "retained"} /\ sender[c].signo \in Signos
       /\ sender[c].pc = "armed" /\ sender[c].to # Process => sender[c].owner \in 1..Len(entry)

TypesOK ==
  /\ EndpointTypeOK
  /\ entry \in Seq(Entries) /\ Len(entry) <= MaxEntry
  /\ blocked \in [Threads -> SUBSET Signos]
  /\ delivering \in [Threads -> {NoWork} \union Scans \union Selections]

(* An endpoint that is or was admitted is registered, under an entry in the
   same state, and an outstanding token is for an endpoint not yet admitted. *)
RegisteredOK ==
  /\ \A t \in Threads :
       /\ registration[t] # 0 =>
            /\ registration[t] \in children /\ entry[registration[t]].thread = t
            /\ entry[registration[t]].state = tlife[t] /\ tlife[t] # "cancelled"
       /\ tlife[t] \in {"active", "retained"} => registration[t] # 0
  /\ \A e \in tokens : registration[entry[e].thread] = e => tlife[entry[e].thread] # "active"

(* The live entries are the registered ones. *)
LiveOK ==
  /\ \A e \in Live : registration[entry[e].thread] = e
  /\ \A e, f \in Live : entry[e].tid = entry[f].tid => e = f
  /\ Cardinality(Live) <= ThreadLimit

(* A delivery holds its endpoint's registration, and what it has selected from
   the private queue was sent to that registration. *)
DeliveringOK ==
  \A t \in Threads :
    /\ delivering[t] # NoWork => tlife[t] = "active"
    /\ delivering[t] \in Selections =>
         /\ delivering[t].record # None
         /\ delivering[t].from # Process =>
              delivering[t].from = t /\ delivering[t].record.owner = registration[t]

(* A private queue that holds a record belongs to an admitted endpoint. *)
HoldersAdmitted ==
  \A t \in Threads : ~IsEmpty(pending[t]) => tlife[t] \in {"active", "retained"}

EIInv ==
  /\ TypesOK /\ SenderOK /\ RegisteredOK /\ DeliveringOK /\ HoldersAdmitted
  /\ PendingBelongs /\ HintNotLost

-----------------------------------------------------------------------------
(* A nonempty set of natural numbers has a least element, and Min names it. *)
LEMMA MinInSet ==
  ASSUME NEW S, S \subseteq Nat, S # {}
  PROVE  Min(S) \in S
<1>1. IsWellFoundedOn(OpToRel(<, Nat), Nat)
  BY NatLessThanWellFounded, ZenonT(30)
<1>2. PICK x \in S : \A y \in S : ~ (<<y, x>> \in OpToRel(<, Nat))
  BY <1>1, WFMin, ZenonT(30)
<1>3. \A y \in S : ~ (y < x)
  BY <1>2, ZenonT(30) DEF OpToRel
<1>4. \A y \in S : x <= y
  BY <1>3
<1> QED BY <1>4, Zenon DEF Min

(* The two signals, and each other's opposite (Opposed). *)
LEMMA SignosFacts == CONT \in Signos /\ TSTP \in Signos /\ CONT # TSTP /\ Signos \subseteq Nat
                     /\ Process \in Targets /\ Threads \subseteq Targets
                     /\ Opposed(CONT) = {TSTP} /\ Opposed(TSTP) = {CONT}
                     /\ \A s \in Signos : s = CONT \/ s = TSTP
BY DEF CONT, TSTP, Signos, Targets, Opposed

(* None is no record that was ever sent or put back. *)
LEMMA RecordFacts ==
  /\ None \in Records
  /\ \A o \in 0..MaxEntry : Record(o) \in Records /\ Record(o) # None /\ Record(o).owner = o
  /\ \A r \in Records : [r EXCEPT !.requeued = TRUE] \in Records
  /\ \A r \in Records : [r EXCEPT !.requeued = TRUE] # None
  /\ \A r \in Records : [r EXCEPT !.requeued = TRUE].owner = r.owner /\ [r EXCEPT !.requeued = TRUE].requeued
<1>1. None \in Records
  BY EndpointAssumption DEF Records, None
<1>2. ASSUME NEW o \in 0..MaxEntry PROVE Record(o) \in Records /\ Record(o).owner = o
  BY EndpointAssumption DEF Records, Record
<1>3. ASSUME NEW o \in 0..MaxEntry PROVE Record(o) # None
  <2>1. None.owner = -1 /\ Record(o).owner = o
    BY Zenon DEF None, Record
  <2> QED BY <2>1, EndpointAssumption
<1>4. ASSUME NEW r \in Records
      PROVE  /\ [r EXCEPT !.requeued = TRUE] \in Records
             /\ [r EXCEPT !.requeued = TRUE].owner = r.owner /\ [r EXCEPT !.requeued = TRUE].requeued = TRUE
  BY Zenon DEF Records
<1>5. ASSUME NEW r \in Records PROVE [r EXCEPT !.requeued = TRUE] # None
  <2>1. None.requeued = FALSE
    BY Zenon DEF None
  <2> QED BY <1>4, <2>1, Zenon
<1> QED BY <1>1, <1>2, <1>3, <1>4, <1>5, Zenon

(* An endpoint whose queue holds a record is reached by every generation. *)
LEMMA HoldersReached ==
  ASSUME EIInv, NEW x \in Targets, ~IsEmpty(pending[x])
  PROVE  x \in Reached
<1>1. CASE x = Process
  BY <1>1, Zenon DEF Reached
<1>2. CASE x \in Threads
  <2>1. registration[x] # 0 /\ tlife[x] \in {"active", "retained"}
    BY <1>2, Zenon DEF EIInv, HoldersAdmitted, RegisteredOK
  <2>2. registration[x] \in Visible /\ entry[registration[x]].thread = x
    BY <1>2, <2>1, Zenon DEF EIInv, RegisteredOK, Visible
  <2> QED BY <2>2, Zenon DEF Reached, ThreadsOf
<1> QED BY <1>1, <1>2, Zenon DEF Targets

-----------------------------------------------------------------------------
(* A step that takes records from queues and leaves the registry alone. *)
Shrinks == \A x \in Targets, s \in Signos : pending'[x][s] \in {None, pending[x][s]}

(* Taking records from queues brings none into a queue it does not belong to. *)
LEMMA ShrinkKeeps ==
  ASSUME EIInv, Shrinks, UNCHANGED registry
  PROVE  HoldersAdmitted' /\ PendingBelongs'
<1> USE DEF EIInv, registry
<1>1. ASSUME NEW x \in Targets, NEW s \in Signos, pending'[x][s] # None
      PROVE  pending[x][s] # None /\ pending'[x][s] = pending[x][s]
  BY <1>1, Zenon DEF Shrinks
<1>2. HoldersAdmitted'
  BY <1>1, SignosFacts, Zenon DEF HoldersAdmitted, IsEmpty
<1>3. RecordsOfThisRegistration'
  BY <1>1, SignosFacts DEF PendingBelongs, RecordsOfThisRegistration
<1>4. RetiredStaysEmpty'
  BY <1>1, SignosFacts, Zenon DEF PendingBelongs, RetiredStaysEmpty, IsEmpty
<1>5. JobControlExclusive'
  BY <1>1, SignosFacts, Zenon DEF PendingBelongs, JobControlExclusive
<1> QED BY <1>2, <1>3, <1>4, <1>5, Zenon DEF PendingBelongs

(* Without and Cleared: types, and what they take. *)
LEMMA WithoutFacts ==
  ASSUME TypesOK, NEW X, NEW S, NEW q, q = Without(X, S)
  PROVE  /\ q \in [Targets -> [Signos -> Records]]
         /\ \A x \in Targets, s \in Signos : q[x][s] = IF x \in X /\ s \in S THEN None ELSE pending[x][s]
<1>1. q = [x \in Targets |-> [s \in Signos |-> IF x \in X /\ s \in S THEN None ELSE pending[x][s]]]
  BY Zenon DEF Without
<1>2. pending \in [Targets -> [Signos -> Records]]
  BY Zenon DEF TypesOK, EndpointTypeOK, Records
<1>3. ASSUME NEW x \in Targets, NEW s \in Signos
      PROVE  q[x][s] = (IF x \in X /\ s \in S THEN None ELSE pending[x][s]) /\ q[x][s] \in Records
  BY <1>1, <1>2, RecordFacts
<1>4. \A x \in Targets : q[x] = [s \in Signos |-> q[x][s]]
  BY <1>1, Zenon
<1>5. q = [x \in Targets |-> q[x]]
  BY <1>1, Zenon
<1>6. \A x \in Targets : q[x] \in [Signos -> Records]
  BY <1>3, <1>4, Zenon
<1> QED BY <1>3, <1>5, <1>6, Zenon

(* A hint is cleared only on an empty queue (Cleared). *)
LEMMA ClearedFacts ==
  ASSUME NEW X, NEW q, NEW h, h = Cleared(X, q), hint \in [Targets -> BOOLEAN]
  PROVE  /\ h \in [Targets -> BOOLEAN]
         /\ \A x \in Targets : hint[x] /\ ~IsEmpty(q[x]) => h[x]
BY Zenon DEF Cleared

(* Records are taken from queues, hints are cleared on empty ones, and the
   senders about to store a hint are still about to. *)
LEMMA HintKept ==
  ASSUME EIInv, Shrinks,
         \A x \in Targets : hint[x] /\ ~IsEmpty(pending'[x]) => hint'[x],
         \A c \in Senders : sender[c].pc = "hint" => sender'[c] = sender[c]
  PROVE  HintNotLost'
<1> SUFFICES ASSUME NEW x \in Targets, ~IsEmpty(pending'[x])
             PROVE  hint'[x] \/ \E c \in Senders : sender'[c].pc = "hint" /\ sender'[c].to = x
  BY Zenon DEF HintNotLost, IsEmpty
<1>1. ~IsEmpty(pending[x])
  BY Zenon DEF IsEmpty, Shrinks
<1> QED BY <1>1 DEF EIInv, HintNotLost

(* One queue-lock section: records S of target x are taken. *)
LEMMA TakenKeeps ==
  ASSUME EIInv, NEW x \in Targets, NEW S, Taken(x, S)
  PROVE  /\ pending' \in [Targets -> [Signos -> Records]] /\ hint' \in [Targets -> BOOLEAN] /\ Shrinks
         /\ \A y \in Targets : hint[y] /\ ~IsEmpty(pending'[y]) => hint'[y]
<1>1. pending' = Without({x}, S) /\ hint' = Cleared({x}, pending')
  BY Zenon DEF Taken
<1>2. TypesOK /\ hint \in [Targets -> BOOLEAN]
  BY Zenon DEF EIInv, TypesOK, EndpointTypeOK
<1>3. /\ pending' \in [Targets -> [Signos -> Records]]
      /\ \A y \in Targets, s \in Signos :
           pending'[y][s] = IF y \in {x} /\ s \in S THEN None ELSE pending[y][s]
  BY <1>1, <1>2, WithoutFacts
<1>4. hint' \in [Targets -> BOOLEAN] /\ \A y \in Targets : hint[y] /\ ~IsEmpty(pending'[y]) => hint'[y]
  BY <1>1, <1>2, ClearedFacts, Zenon
<1> QED BY <1>3, <1>4, Zenon DEF Shrinks

(* Records leave one queue and nothing else changes. *)
LEMMA TakeOnly ==
  ASSUME EIInv, NEW x \in Targets, NEW S, Taken(x, S), UNCHANGED <<registry, disposition, blocked, sender, delivering>>
  PROVE  EIInv'
<1>1. /\ pending' \in [Targets -> [Signos -> Records]] /\ hint' \in [Targets -> BOOLEAN] /\ Shrinks
      /\ \A y \in Targets : hint[y] /\ ~IsEmpty(pending'[y]) => hint'[y]
  BY TakenKeeps, Zenon
<1>2. TypesOK'
  BY <1>1, Zenon DEF EIInv, TypesOK, EndpointTypeOK, registry, Records
<1>3. SenderOK' /\ RegisteredOK' /\ DeliveringOK'
  BY Zenon DEF EIInv, SenderOK, RegisteredOK, DeliveringOK, registry
<1>4. HoldersAdmitted' /\ PendingBelongs'
  BY <1>1, ShrinkKeeps, Zenon
<1>5. HintNotLost'
  BY <1>1, HintKept, Zenon
<1> QED BY <1>2, <1>3, <1>4, <1>5, Zenon DEF EIInv

-----------------------------------------------------------------------------
(* The registry *)

(* An entry names a thread. *)
LEMMA EntryTypes ==
  ASSUME TypesOK, NEW i \in 1..Len(entry)
  PROVE  entry[i] \in Entries /\ entry[i].thread \in Threads /\ Len(entry) \in Nat
<1>1. entry \in Seq(Entries)
  BY Zenon DEF TypesOK
<1>2. entry[i] \in Entries /\ Len(entry) \in Nat
  BY ONLY <1>1, i \in 1..Len(entry)
<1>3. entry[i].thread \in Threads
  BY <1>2, Zenon DEF Entries
<1> QED BY <1>2, <1>3, Zenon

(* A step under the registry that leaves the queues, the senders and the
   deliveries alone, and takes no endpoint with a record out of service. *)
LEMMA QueuesStay ==
  ASSUME EIInv, UNCHANGED <<pending, hint, sender>>,
         \A t \in Threads : ~IsEmpty(pending[t]) =>
           tlife'[t] \in {"active", "retained"} /\ registration'[t] = registration[t],
         plife' = plife
  PROVE  HoldersAdmitted' /\ PendingBelongs' /\ HintNotLost'
<1> USE DEF EIInv
<1>1. HoldersAdmitted'
  BY Zenon DEF HoldersAdmitted, IsEmpty
<1>2. RecordsOfThisRegistration'
  BY SignosFacts, Zenon DEF PendingBelongs, RecordsOfThisRegistration, IsEmpty
<1>3. RetiredStaysEmpty' /\ JobControlExclusive'
  BY Zenon DEF PendingBelongs, RetiredStaysEmpty, JobControlExclusive, IsEmpty
<1>4. HintNotLost'
  BY Zenon DEF HintNotLost, IsEmpty
<1> QED BY <1>1, <1>2, <1>3, <1>4, Zenon DEF PendingBelongs

(* A new entry is registered and nothing is pending for it. *)
LEMMA TryRegisterInv ==
  ASSUME EIInv, NEW t \in Threads, NEW tid \in Tids, TryRegister(t, tid)
  PROVE  EIInv'
<1> USE DEF EIInv
<1> DEFINE e == Len(entry) + 1
           r == [tid |-> tid, thread |-> t, state |-> "pending"]
<1>1. /\ registration[t] = 0 /\ Len(entry) < MaxEntry /\ entry' = Append(entry, r)
      /\ children' = Live \union {e} /\ tokens' = tokens \union {e}
      /\ registration' = [registration EXCEPT ![t] = e]
      /\ tlife' = [tlife EXCEPT ![t] = "pending"]
      /\ UNCHANGED <<plife, pending, hint, disposition, blocked, sender, delivering>>
  BY Zenon DEF TryRegister, queues
<1>2. r \in Entries /\ entry \in Seq(Entries) /\ Len(entry) \in Nat
  BY DEF Entries, TypesOK
<1>3. /\ entry' \in Seq(Entries) /\ Len(entry') = e /\ entry'[e] = r
      /\ \A i \in 1..Len(entry) : entry'[i] = entry[i]
  <2> HIDE DEF r
  <2> QED BY <1>1, <1>2
<1>4. e \in 1..MaxEntry /\ e \in 1..e /\ e \notin 1..Len(entry) /\ e # 0 /\ \A i \in 1..Len(entry) : i \in 1..e
  BY <1>1, <1>2, EndpointAssumption
<1> HIDE DEF e, r
<1>5. children \subseteq 1..Len(entry) /\ tokens \subseteq 1..Len(entry) /\ Live \subseteq children
  BY Zenon DEF TypesOK, EndpointTypeOK, Live
<1>6. TypesOK'
  <2>1. registration' \in [Threads -> 0..MaxEntry] /\ tlife' \in [Threads -> {"pending", "active", "retained", "cancelled"}]
    BY <1>1, <1>4 DEF TypesOK, EndpointTypeOK
  <2>2. children' \subseteq 1..Len(entry') /\ tokens' \subseteq 1..Len(entry')
    BY <1>1, <1>3, <1>4, <1>5, Zenon
  <2>3. Len(entry') <= MaxEntry
    BY <1>3, <1>4
  <2> QED BY <1>1, <1>3, <2>1, <2>2, <2>3, Zenon DEF TypesOK, EndpointTypeOK
<1>7. SenderOK'
  BY <1>1, <1>3, <1>4, Zenon DEF SenderOK
<1>8. tlife[t] \notin {"active", "retained"} /\ IsEmpty(pending[t])
  BY <1>1, Zenon DEF RegisteredOK, HoldersAdmitted
<1>9. RegisteredOK'
  <2>1. ASSUME NEW u \in Threads, u # t
        PROVE  registration'[u] = registration[u] /\ tlife'[u] = tlife[u]
    BY <1>1, <2>1, Zenon DEF TypesOK, EndpointTypeOK
  <2>2. registration'[t] = e /\ tlife'[t] = "pending" /\ e \in children' /\ entry'[e].thread = t
        /\ entry'[e].state = "pending"
    BY <1>1, <1>3 DEF TypesOK, EndpointTypeOK, r
  <2>3. ASSUME NEW u \in Threads, u # t, registration[u] # 0
        PROVE  /\ registration[u] \in children' /\ entry'[registration[u]] = entry[registration[u]]
    <3>1. registration[u] \in Live
      BY <2>3, Zenon DEF RegisteredOK, Live
    <3> QED BY <1>1, <1>3, <1>5, <3>1, Zenon
  <2>4. ASSUME NEW u \in Threads
        PROVE  /\ registration'[u] # 0 =>
                    /\ registration'[u] \in children' /\ entry'[registration'[u]].thread = u
                    /\ entry'[registration'[u]].state = tlife'[u] /\ tlife'[u] # "cancelled"
               /\ tlife'[u] \in {"active", "retained"} => registration'[u] # 0
    BY <2>1, <2>2, <2>3 DEF RegisteredOK
  <2>5. ASSUME NEW f \in tokens', registration'[entry'[f].thread] = f
        PROVE  tlife'[entry'[f].thread] # "active"
    <3>1. CASE f = e
      BY <2>2, <3>1, Zenon
    <3>2. CASE f # e
      <4>1. f \in tokens /\ f \in 1..Len(entry) /\ entry'[f] = entry[f]
        BY <1>1, <1>3, <1>5, <3>2, Zenon
      <4>2. entry[f].thread \in Threads
        BY <4>1, EntryTypes, Zenon
      <4> QED BY <2>1, <2>2, <2>5, <3>2, <4>1, <4>2, ZenonT(30) DEF RegisteredOK
    <3> QED BY <3>1, <3>2, Zenon
  <2> QED BY <2>4, <2>5, Zenon DEF RegisteredOK
<1>10. DeliveringOK'
  BY <1>1, <1>8 DEF DeliveringOK, TypesOK, EndpointTypeOK, Selections, NoWork
<1>11. HoldersAdmitted' /\ PendingBelongs' /\ HintNotLost'
  <2>1. \A u \in Threads : ~IsEmpty(pending[u]) =>
          tlife'[u] \in {"active", "retained"} /\ registration'[u] = registration[u]
    BY <1>1, <1>8, Zenon DEF TypesOK, EndpointTypeOK, HoldersAdmitted
  <2> QED BY <1>1, <2>1, QueuesStay, Zenon
<1> QED BY <1>6, <1>7, <1>9, <1>10, <1>11, Zenon

(* Entry e changes its state: the entries keep their type and the others stay. *)
LEMMA StateChange ==
  ASSUME TypesOK, NEW e \in 1..Len(entry), NEW s \in {"pending", "active", "retained", "cancelled"},
         entry' = [entry EXCEPT ![e].state = s]
  PROVE  /\ entry' \in Seq(Entries) /\ Len(entry') = Len(entry)
         /\ entry'[e].state = s /\ entry'[e].thread = entry[e].thread /\ entry'[e].tid = entry[e].tid
         /\ entry[e].thread \in Threads
         /\ \A i \in 1..Len(entry) : i # e => entry'[i] = entry[i]
         /\ \A i \in 1..Len(entry) : entry'[i].thread = entry[i].thread /\ entry'[i].tid = entry[i].tid
<1>1. entry \in Seq(Entries) /\ entry[e] \in Entries /\ Len(entry) \in Nat
  BY DEF TypesOK
<1> DEFINE r == [entry[e] EXCEPT !.state = s]
<1>2. r \in Entries /\ r.state = s /\ r.thread = entry[e].thread /\ r.tid = entry[e].tid /\ entry[e].thread \in Threads
  BY <1>1, Zenon DEF Entries
<1>3. entry' = [entry EXCEPT ![e] = r]
  BY <1>1, Zenon
<1> HIDE DEF r
<1> QED BY <1>1, <1>2, <1>3

(* commit: the endpoint and its entry become active together. *)
LEMMA CommitRegistrationInv ==
  ASSUME EIInv, NEW e \in tokens, CommitRegistration(e)
  PROVE  EIInv'
<1> USE DEF EIInv
<1> DEFINE t == entry[e].thread
<1>1. /\ registration[t] = e /\ tlife[t] = "pending" /\ tlife' = [tlife EXCEPT ![t] = "active"]
      /\ entry' = [entry EXCEPT ![e].state = "active"] /\ tokens' = tokens \ {e}
      /\ UNCHANGED <<plife, pending, hint, registration, children, disposition, blocked, sender, delivering>>
  BY Zenon DEF CommitRegistration, Admitted, queues
<1>2. e \in 1..Len(entry)
  BY Zenon DEF TypesOK, EndpointTypeOK
<1>3. /\ entry' \in Seq(Entries) /\ Len(entry') = Len(entry)
      /\ entry'[e].state = "active" /\ entry'[e].thread = t /\ t \in Threads
      /\ \A i \in 1..Len(entry) : i # e => entry'[i] = entry[i]
      /\ \A i \in 1..Len(entry) : entry'[i].thread = entry[i].thread
  BY <1>1, <1>2, StateChange, Zenon
<1> HIDE DEF t
<1>4. TypesOK'
  BY <1>1, <1>3, Zenon DEF TypesOK, EndpointTypeOK
<1>5. SenderOK'
  BY <1>1, <1>3, Zenon DEF SenderOK
<1>6. /\ tlife'[t] = "active" /\ \A u \in Threads : u # t => tlife'[u] = tlife[u]
      /\ delivering[t] = NoWork /\ children \subseteq 1..Len(entry) /\ tokens \subseteq 1..Len(entry)
      /\ \A u \in Threads : u # t => registration[u] # e
  <2>1. \A u \in Threads : u # t => registration[u] # e
    BY <1>2, EndpointAssumption DEF RegisteredOK, t
  <2> QED BY <1>1, <1>3, <2>1, ZenonT(30) DEF TypesOK, EndpointTypeOK, DeliveringOK
<1>7. RegisteredOK'
  <2>1. ASSUME NEW u \in Threads
        PROVE  /\ registration'[u] # 0 =>
                    /\ registration'[u] \in children' /\ entry'[registration'[u]].thread = u
                    /\ entry'[registration'[u]].state = tlife'[u] /\ tlife'[u] # "cancelled"
               /\ tlife'[u] \in {"active", "retained"} => registration'[u] # 0
    <3>1. CASE u = t
      BY <1>1, <1>2, <1>3, <1>6, <3>1 DEF RegisteredOK
    <3>2. CASE u # t
      BY <1>1, <1>3, <1>6, <3>2 DEF RegisteredOK
    <3> QED BY <3>1, <3>2, Zenon
  <2>2. ASSUME NEW f \in tokens', registration'[entry'[f].thread] = f
        PROVE  tlife'[entry'[f].thread] # "active"
    <3>1. f \in tokens /\ f # e /\ f \in 1..Len(entry) /\ entry'[f].thread = entry[f].thread
      BY <1>1, <1>3, <1>6, Zenon
    <3>2. entry[f].thread # t
      BY <1>1, <2>2, <3>1, Zenon
    <3>3. entry[f].thread \in Threads
      BY <3>1, EntryTypes, Zenon
    <3> QED BY <1>1, <1>6, <2>2, <3>1, <3>2, <3>3 DEF RegisteredOK
  <2> QED BY <2>1, <2>2, Zenon DEF RegisteredOK
<1>8. DeliveringOK'
  BY <1>1, <1>6, Zenon DEF DeliveringOK
<1>9. HoldersAdmitted' /\ PendingBelongs' /\ HintNotLost'
  <2>1. \A u \in Threads : ~IsEmpty(pending[u]) =>
          tlife'[u] \in {"active", "retained"} /\ registration'[u] = registration[u]
    BY <1>1, <1>6, Zenon DEF HoldersAdmitted
  <2> QED BY <1>1, <2>1, QueuesStay, Zenon
<1> QED BY <1>4, <1>5, <1>7, <1>8, <1>9, Zenon

(* An endpoint is torn down: its entry is cancelled and its queue drained. *)
LEMMA TornDown ==
  ASSUME EIInv, NEW t \in Threads, delivering[t] = NoWork,
         IF registration[t] = 0 THEN entry' = entry
         ELSE entry' = [entry EXCEPT ![registration[t]].state = "cancelled"],
         tlife' = [tlife EXCEPT ![t] = "cancelled"],
         registration' = [registration EXCEPT ![t] = 0], Drained(t),
         tokens' \subseteq tokens, UNCHANGED <<plife, children, disposition, blocked, sender, delivering>>
  PROVE  EIInv'
<1> USE DEF EIInv
<1>1. /\ entry' \in Seq(Entries) /\ Len(entry') = Len(entry)
      /\ \A i \in 1..Len(entry) : entry'[i].thread = entry[i].thread
      /\ \A i \in 1..Len(entry) : i # registration[t] => entry'[i] = entry[i]
  <2>1. CASE registration[t] = 0
    BY <2>1, Zenon DEF TypesOK
  <2>2. CASE registration[t] # 0
    <3>1. registration[t] \in 1..Len(entry)
      BY <2>2, Zenon DEF RegisteredOK, TypesOK, EndpointTypeOK
    <3> QED BY <2>2, <3>1, StateChange, Zenon
  <2> QED BY <2>1, <2>2, Zenon
<1>2. /\ tlife'[t] = "cancelled" /\ registration'[t] = 0
      /\ \A u \in Threads : u # t => tlife'[u] = tlife[u] /\ registration'[u] = registration[u]
  BY Zenon DEF TypesOK, EndpointTypeOK
<1>3. /\ pending' \in [Targets -> [Signos -> Records]] /\ hint' \in [Targets -> BOOLEAN]
      /\ pending'[t] = Empty /\ IsEmpty(pending'[t])
      /\ \A x \in Targets : x # t => pending'[x] = pending[x] /\ hint'[x] = hint[x]
  <2>1. Empty \in [Signos -> Records]
    BY RecordFacts, Zenon DEF Empty
  <2>2. pending' = [pending EXCEPT ![t] = Empty] /\ hint' = [hint EXCEPT ![t] = FALSE]
    BY Zenon DEF Drained
  <2>3. IsEmpty(Empty)
    BY Zenon DEF IsEmpty, Empty
  <2> HIDE DEF Empty
  <2> QED BY <2>1, <2>2, <2>3, SignosFacts, Zenon DEF TypesOK, EndpointTypeOK, Records
<1>4. TypesOK'
  BY <1>1, <1>3, EndpointAssumption DEF TypesOK, EndpointTypeOK, Records
<1>5. SenderOK'
  BY <1>1, Zenon DEF SenderOK
<1>6. RegisteredOK'
  <2>1. ASSUME NEW u \in Threads
        PROVE  /\ registration'[u] # 0 =>
                    /\ registration'[u] \in children' /\ entry'[registration'[u]].thread = u
                    /\ entry'[registration'[u]].state = tlife'[u] /\ tlife'[u] # "cancelled"
               /\ tlife'[u] \in {"active", "retained"} => registration'[u] # 0
    <3>1. CASE u = t
      BY <1>2, <3>1, Zenon
    <3>2. CASE u # t /\ registration[u] # 0
      <4>1. registration[u] \in 1..Len(entry) /\ registration[u] # registration[t]
        BY <3>2, ZenonT(30) DEF RegisteredOK, TypesOK, EndpointTypeOK
      <4> QED BY <1>1, <1>2, <3>2, <4>1 DEF RegisteredOK
    <3>3. CASE u # t /\ registration[u] = 0
      BY <1>2, <3>3, Zenon DEF RegisteredOK
    <3> QED BY <3>1, <3>2, <3>3, Zenon
  <2>2. ASSUME NEW f \in tokens', registration'[entry'[f].thread] = f
        PROVE  tlife'[entry'[f].thread] # "active"
    <3>1. f \in tokens /\ f \in 1..Len(entry) /\ entry[f].thread \in Threads /\ entry'[f].thread = entry[f].thread
      <4>1. f \in tokens /\ f \in 1..Len(entry)
        BY Zenon DEF TypesOK, EndpointTypeOK
      <4> QED BY <1>1, <4>1, EntryTypes, Zenon
    <3> QED BY <1>2, <2>2, <3>1, ZenonT(30) DEF RegisteredOK
  <2> QED BY <2>1, <2>2, Zenon DEF RegisteredOK
<1>7. DeliveringOK'
  BY <1>2 DEF DeliveringOK, Selections, NoWork
<1>8. HoldersAdmitted'
  BY <1>2, <1>3, SignosFacts DEF HoldersAdmitted, IsEmpty
<1>9. PendingBelongs'
  <2>1. RecordsOfThisRegistration'
    BY <1>2, <1>3, SignosFacts DEF PendingBelongs, RecordsOfThisRegistration, IsEmpty
  <2>2. RetiredStaysEmpty'
    BY <1>3, SignosFacts, EndpointAssumption, Zenon DEF PendingBelongs, RetiredStaysEmpty, IsEmpty
  <2>3. JobControlExclusive'
    BY <1>3, SignosFacts DEF PendingBelongs, JobControlExclusive, IsEmpty
  <2> QED BY <2>1, <2>2, <2>3, Zenon DEF PendingBelongs
<1>10. HintNotLost'
  BY <1>3 DEF HintNotLost, IsEmpty
<1> QED BY <1>4, <1>5, <1>6, <1>7, <1>8, <1>9, <1>10, Zenon

(* A token is dropped: its endpoint, if it is still registered under it, has
   no delivery, and is torn down. *)
LEMMA DropRegistrationInv ==
  ASSUME EIInv, NEW e \in tokens, DropRegistration(e)
  PROVE  EIInv'
<1> DEFINE t == entry[e].thread
<1>1. /\ tokens' = tokens \ {e} /\ entry' = [entry EXCEPT ![e].state = "cancelled"]
      /\ UNCHANGED <<plife, children, disposition, blocked, sender, delivering>>
  BY Zenon DEF DropRegistration
<1>2. e \in 1..Len(entry) /\ TypesOK
  BY Zenon DEF EIInv, TypesOK, EndpointTypeOK
<1>3. /\ entry' \in Seq(Entries) /\ Len(entry') = Len(entry) /\ t \in Threads
      /\ \A i \in 1..Len(entry) : i # e => entry'[i] = entry[i]
      /\ \A i \in 1..Len(entry) : entry'[i].thread = entry[i].thread
  BY <1>1, <1>2, StateChange, Zenon
<1>4. CASE registration[t] = e
  <2>1. /\ tlife' = [tlife EXCEPT ![t] = "cancelled"] /\ registration' = [registration EXCEPT ![t] = 0]
        /\ Drained(t)
    BY <1>4, Zenon DEF DropRegistration
  <2>2. delivering[t] = NoWork
    BY <1>3, <1>4, Zenon DEF EIInv, RegisteredOK, DeliveringOK
  <2>3. registration[t] # 0 /\ entry' = [entry EXCEPT ![registration[t]].state = "cancelled"]
    BY <1>1, <1>2, <1>4
  <2> HIDE DEF t
  <2> QED BY <1>1, <1>3, <2>1, <2>2, <2>3, TornDown, Zenon
<1>5. CASE registration[t] # e
  <2> USE DEF EIInv
  <2>1. UNCHANGED <<tlife, registration, pending, hint>>
    BY <1>5, Zenon DEF DropRegistration, queues
  <2>2. \A u \in Threads : registration[u] # e
    BY <1>2, <1>5 DEF RegisteredOK
  <2>3. children \subseteq 1..Len(entry) /\ tokens \subseteq 1..Len(entry)
    BY Zenon DEF TypesOK, EndpointTypeOK
  <2> HIDE DEF t
  <2>4. TypesOK'
    BY <1>1, <1>3, <2>1, Zenon DEF TypesOK, EndpointTypeOK
  <2>5. SenderOK'
    BY <1>1, <1>3, Zenon DEF SenderOK
  <2>6. RegisteredOK'
    BY <1>1, <1>3, <2>1, <2>2, <2>3 DEF RegisteredOK
  <2>7. DeliveringOK'
    BY <1>1, <2>1, Zenon DEF DeliveringOK
  <2>8. HoldersAdmitted' /\ PendingBelongs' /\ HintNotLost'
    BY <1>1, <2>1, QueuesStay, Zenon DEF HoldersAdmitted
  <2> QED BY <2>4, <2>5, <2>6, <2>7, <2>8, Zenon
<1> QED BY <1>4, <1>5, Zenon

(* cancel_registration *)
LEMMA CancelRegistrationInv ==
  ASSUME EIInv, NEW t \in Threads, CancelRegistration(t)
  PROVE  EIInv'
BY TornDown, Zenon DEF CancelRegistration, Cancelled, Quiesced

(* retire_registration: retained with its records, or torn down. *)
LEMMA RetireRegistrationInv ==
  ASSUME EIInv, NEW t \in Threads, NEW tid \in Tids, NEW retain \in BOOLEAN, RetireRegistration(t, tid, retain)
  PROVE  EIInv'
<1>1. CASE ~retain
  BY <1>1, TornDown, Zenon DEF RetireRegistration, Cancelled, Quiesced
<1>2. CASE retain
  <2> USE DEF EIInv
  <2> DEFINE e == registration[t]
  <2>1. /\ delivering[t] = NoWork /\ entry' = [entry EXCEPT ![e].state = "retained"]
        /\ tlife' = [tlife EXCEPT ![t] = "retained"]
        /\ UNCHANGED <<registration, pending, hint, plife, children, tokens, disposition, blocked, sender, delivering>>
    BY <1>2, Zenon DEF RetireRegistration, Quiesced, queues
  <2>2. e # 0
    <3> DEFINE matching == {f \in children : entry[f].tid = tid /\ entry[f].thread = t}
    <3>1. matching \subseteq Nat /\ matching # {} /\ e = Min(matching) /\ matching \subseteq 1..Len(entry)
      BY DEF RetireRegistration, TypesOK, EndpointTypeOK
    <3> HIDE DEF matching
    <3>2. Min(matching) \in matching
      BY <3>1, MinInSet, Zenon
    <3> QED BY <3>1, <3>2
  <2>3. e \in 1..Len(entry) /\ entry[e].thread = t
    BY <2>2, Zenon DEF RegisteredOK, TypesOK, EndpointTypeOK
  <2>4. /\ entry' \in Seq(Entries) /\ Len(entry') = Len(entry) /\ entry'[e].state = "retained"
        /\ \A i \in 1..Len(entry) : i # e => entry'[i] = entry[i]
        /\ \A i \in 1..Len(entry) : entry'[i].thread = entry[i].thread
    BY <2>1, <2>3, StateChange, Zenon
  <2>5. /\ tlife'[t] = "retained" /\ \A u \in Threads : u # t => tlife'[u] = tlife[u]
        /\ children \subseteq 1..Len(entry) /\ tokens \subseteq 1..Len(entry)
        /\ \A u \in Threads : u # t => registration[u] # e
    <3>1. \A u \in Threads : u # t => registration[u] # e
      BY <2>2, <2>3, Zenon DEF RegisteredOK
    <3> QED BY <2>1, <3>1, Zenon DEF TypesOK, EndpointTypeOK
  <2>6. TypesOK'
    BY <2>1, <2>4, Zenon DEF TypesOK, EndpointTypeOK
  <2>7. SenderOK'
    BY <2>1, <2>4, Zenon DEF SenderOK
  <2>8. RegisteredOK'
    <3>1. ASSUME NEW u \in Threads
          PROVE  /\ registration'[u] # 0 =>
                      /\ registration'[u] \in children' /\ entry'[registration'[u]].thread = u
                      /\ entry'[registration'[u]].state = tlife'[u] /\ tlife'[u] # "cancelled"
                 /\ tlife'[u] \in {"active", "retained"} => registration'[u] # 0
      <4> HIDE DEF e
      <4>1. CASE u = t
        BY <2>1, <2>2, <2>3, <2>4, <2>5, <4>1 DEF RegisteredOK, e
      <4>2. CASE u # t
        BY <2>1, <2>4, <2>5, <4>2 DEF RegisteredOK
      <4> QED BY <4>1, <4>2, Zenon
    <3>2. ASSUME NEW f \in tokens', registration'[entry'[f].thread] = f
          PROVE  tlife'[entry'[f].thread] # "active"
      <4>1. f \in tokens /\ f \in 1..Len(entry) /\ entry[f].thread \in Threads /\ entry'[f].thread = entry[f].thread
        BY <2>1, <2>4, <2>5, EntryTypes, Zenon
      <4> QED BY <2>1, <2>5, <3>2, <4>1, ZenonT(30) DEF RegisteredOK
    <3> QED BY <3>1, <3>2, Zenon DEF RegisteredOK
  <2>9. DeliveringOK'
    BY <2>1, <2>5, ZenonT(30) DEF DeliveringOK, Selections, NoWork
  <2>10. HoldersAdmitted' /\ PendingBelongs' /\ HintNotLost'
    BY <2>1, <2>5, QueuesStay, Zenon DEF HoldersAdmitted
  <2> QED BY <2>6, <2>7, <2>8, <2>9, <2>10, Zenon
<1> QED BY <1>1, <1>2, Zenon

(* retain_pending_only and retire_pending of the process endpoint *)
LEMMA RetainProcessInv ==
  ASSUME EIInv, RetainProcess
  PROVE  EIInv'
<1> USE DEF EIInv, RetainProcess, queues
<1>1. TypesOK' /\ SenderOK'
  BY Zenon DEF TypesOK, EndpointTypeOK, SenderOK
<1>2. RegisteredOK' /\ DeliveringOK' /\ HoldersAdmitted'
  BY Zenon DEF RegisteredOK, DeliveringOK, HoldersAdmitted, IsEmpty
<1>3. PendingBelongs'
  BY Zenon DEF PendingBelongs, RecordsOfThisRegistration, RetiredStaysEmpty, JobControlExclusive
<1>4. HintNotLost'
  BY Zenon DEF HintNotLost, IsEmpty
<1> QED BY <1>1, <1>2, <1>3, <1>4, Zenon

(* retire_pending: the process queue is drained in the same section. *)
LEMMA RetireProcessInv ==
  ASSUME EIInv, RetireProcess
  PROVE  EIInv'
<1> USE DEF EIInv
<1>1. /\ plife' = "cancelled"
      /\ UNCHANGED <<tlife, registration, entry, children, tokens, disposition, blocked, sender, delivering>>
  BY Zenon DEF RetireProcess
<1>2. /\ pending' \in [Targets -> [Signos -> Records]] /\ hint' \in [Targets -> BOOLEAN]
      /\ IsEmpty(pending'[Process])
      /\ \A x \in Targets : x # Process => pending'[x] = pending[x] /\ hint'[x] = hint[x]
  <2>1. Empty \in [Signos -> Records]
    BY RecordFacts, Zenon DEF Empty
  <2>2. pending' = [pending EXCEPT ![Process] = Empty] /\ hint' = [hint EXCEPT ![Process] = FALSE]
    BY Zenon DEF RetireProcess, Drained
  <2>3. IsEmpty(Empty)
    BY Zenon DEF IsEmpty, Empty
  <2> HIDE DEF Empty
  <2> QED BY <2>1, <2>2, <2>3, SignosFacts, Zenon DEF TypesOK, EndpointTypeOK, Records
<1>3. TypesOK'
  BY <1>1, <1>2, Zenon DEF TypesOK, EndpointTypeOK, Records
<1>4. SenderOK' /\ RegisteredOK' /\ DeliveringOK'
  BY <1>1, Zenon DEF SenderOK, RegisteredOK, DeliveringOK
<1>5. HoldersAdmitted'
  BY <1>1, <1>2, SignosFacts, EndpointAssumption DEF HoldersAdmitted, IsEmpty
<1>6. PendingBelongs'
  <2>1. RecordsOfThisRegistration'
    BY <1>1, <1>2, SignosFacts, EndpointAssumption DEF PendingBelongs, RecordsOfThisRegistration
  <2>2. RetiredStaysEmpty'
    BY <1>2, Zenon DEF RetiredStaysEmpty, IsEmpty
  <2>3. JobControlExclusive'
    BY <1>2, SignosFacts, ZenonT(30) DEF PendingBelongs, JobControlExclusive, IsEmpty
  <2> QED BY <2>1, <2>2, <2>3, Zenon DEF PendingBelongs
<1>7. HintNotLost'
  BY <1>1, <1>2 DEF HintNotLost, IsEmpty
<1> QED BY <1>3, <1>4, <1>5, <1>6, <1>7, Zenon

-----------------------------------------------------------------------------
(* Sending *)

(* The generation effect: records of the opposed signal leave every endpoint
   that is reached, and no other record does. *)
LEMMA EffectFacts ==
  ASSUME EIInv, NEW s \in Signos, NEW q, q = AfterEffect(s), NEW h, h = Cleared(Reached, q)
  PROVE  /\ q \in [Targets -> [Signos -> Records]] /\ h \in [Targets -> BOOLEAN]
         /\ \A x \in Targets, n \in Signos : q[x][n] \in {None, pending[x][n]}
         /\ \A x \in Targets : hint[x] /\ ~IsEmpty(q[x]) => h[x]
         /\ \A x \in Targets, n \in Opposed(s) : q[x][n] = None
<1>1. TypesOK /\ hint \in [Targets -> BOOLEAN]
  BY Zenon DEF EIInv, TypesOK, EndpointTypeOK
<1>2. /\ q \in [Targets -> [Signos -> Records]]
      /\ \A x \in Targets, n \in Signos :
           q[x][n] = IF x \in Reached /\ n \in Opposed(s) THEN None ELSE pending[x][n]
  BY <1>1, WithoutFacts DEF AfterEffect
<1>3. h \in [Targets -> BOOLEAN] /\ \A x \in Targets : hint[x] /\ ~IsEmpty(q[x]) => h[x]
  BY <1>1, ClearedFacts, Zenon
<1>4. ASSUME NEW x \in Targets, NEW n \in Opposed(s) PROVE q[x][n] = None
  <2>1. n \in Signos
    BY Zenon DEF Opposed
  <2>2. CASE x \in Reached
    BY <1>2, <2>1, <2>2, Zenon
  <2>3. CASE x \notin Reached
    <3>1. IsEmpty(pending[x])
      BY <2>3, HoldersReached, Zenon
    <3> QED BY <1>2, <2>1, <3>1, Zenon DEF IsEmpty
  <2> QED BY <2>2, <2>3, Zenon
<1> QED BY <1>2, <1>3, <1>4, Zenon

(* A sender changes what it carries; nobody's announced hint is forgotten. *)
LEMMA SenderStep ==
  ASSUME EIInv, NEW c \in Senders, sender[c].pc # "hint", NEW v, sender' = [sender EXCEPT ![c] = v],
         v.pc \in {"idle", "preparing", "hint", "armed"},
         v.pc # "idle" => v.to \in Targets,
         v.pc = "preparing" => v.mode \in {"active", "retained"} /\ v.signo \in Signos,
         v.pc = "armed" /\ v.to # Process => v.owner \in 1..Len(entry),
         UNCHANGED entry
  PROVE  SenderOK' /\ (\A d \in Senders : sender[d].pc = "hint" => sender'[d] = sender[d]) /\ sender'[c] = v
BY ZenonT(30) DEF EIInv, SenderOK

(* preflight_send under the gate *)
LEMMA PreflightInv ==
  ASSUME EIInv, NEW c \in Senders, NEW x \in Targets, NEW mode \in {"active", "retained"}, NEW s \in Signos,
         Preflight(c, x, mode, s)
  PROVE  EIInv'
<1> DEFINE q == AfterEffect(s)
           h == Cleared(Reached, q)
           there == q[x][s] # None
           ignored == ActionIgnored(s, BlockedAt(x, s))
           v == IF ignored THEN NoWork
                ELSE IF ~there THEN [pc |-> "preparing", to |-> x, mode |-> mode, signo |-> s]
                ELSE IF x = Process /\ \E t \in ThreadsOf(Active) : s \notin blocked[t]
                     THEN [pc |-> "hint", to |-> x]
                ELSE NoWork
<1>1. /\ sender[c] = NoWork /\ pending' = q
      /\ hint' = IF ~ignored /\ there /\ x # Process THEN [h EXCEPT ![x] = TRUE] ELSE h
      /\ sender' = [sender EXCEPT ![c] = v]
      /\ UNCHANGED <<registry, disposition, blocked, delivering>>
  BY Zenon DEF Preflight
<1>2. /\ q \in [Targets -> [Signos -> Records]] /\ h \in [Targets -> BOOLEAN]
      /\ \A y \in Targets, n \in Signos : q[y][n] \in {None, pending[y][n]}
      /\ \A y \in Targets : hint[y] /\ ~IsEmpty(q[y]) => h[y]
  BY EffectFacts, Zenon
<1>3. /\ v.pc \in {"idle", "preparing", "hint"} /\ (v.pc # "idle" => v.to \in Targets)
      /\ v.pc = "preparing" => v.mode \in {"active", "retained"} /\ v.signo \in Signos
  <2> HIDE DEF ignored, there
  <2> QED BY Zenon DEF NoWork
<1> HIDE DEF q, h, v, there, ignored
<1>4. hint' \in [Targets -> BOOLEAN] /\ \A y \in Targets : hint[y] /\ ~IsEmpty(pending'[y]) => hint'[y]
  <2>1. CASE hint' = h
    BY <1>1, <1>2, <2>1, Zenon
  <2>2. CASE hint' = [h EXCEPT ![x] = TRUE]
    BY <1>1, <1>2, <2>2, Zenon
  <2> QED BY <1>1, <2>1, <2>2, Zenon
<1>5. Shrinks
  BY <1>1, <1>2, Zenon DEF Shrinks
<1>6. TypesOK'
  BY <1>1, <1>2, <1>4, Zenon DEF EIInv, TypesOK, EndpointTypeOK, registry, Records
<1>7. SenderOK' /\ \A d \in Senders : sender[d].pc = "hint" => sender'[d] = sender[d]
  <2>1. sender[c].pc # "hint" /\ UNCHANGED entry
    BY <1>1 DEF NoWork, registry
  <2> QED BY <1>1, <1>3, <2>1, SenderStep, Zenon
<1>8. RegisteredOK' /\ DeliveringOK'
  BY <1>1, Zenon DEF EIInv, RegisteredOK, DeliveringOK, registry
<1>9. HoldersAdmitted' /\ PendingBelongs'
  BY <1>1, <1>5, ShrinkKeeps, ZenonT(30)
<1>10. HintNotLost'
  BY <1>4, <1>5, <1>7, HintKept, ZenonT(30)
<1> QED BY <1>6, <1>7, <1>8, <1>9, <1>10, Zenon DEF EIInv

(* A sender that only changes what it carries. *)
LEMMA SenderOnly ==
  ASSUME EIInv, SenderOK', \A d \in Senders : sender[d].pc = "hint" => sender'[d] = sender[d],
         UNCHANGED <<registry, queues, disposition, blocked, delivering>>
  PROVE  EIInv'
<1> USE DEF registry, queues
<1>1. TypesOK'
  BY Zenon DEF EIInv, TypesOK, EndpointTypeOK
<1>2. RegisteredOK' /\ DeliveringOK'
  BY Zenon DEF EIInv, RegisteredOK, DeliveringOK
<1>3. Shrinks
  BY Zenon DEF Shrinks
<1>4. HoldersAdmitted' /\ PendingBelongs'
  BY <1>3, ShrinkKeeps, Zenon
<1>5. HintNotLost'
  BY <1>3, HintKept, Zenon
<1> QED BY <1>1, <1>2, <1>4, <1>5, ZenonT(30) DEF EIInv

(* The allocation between the two passes of a send fails. *)
LEMMA PrepareFailsInv ==
  ASSUME EIInv, NEW c \in Senders, PrepareFails(c)
  PROVE  EIInv'
<1>1. NoWork.pc = "idle"
  BY Zenon DEF NoWork
<1>2. SenderOK' /\ \A d \in Senders : sender[d].pc = "hint" => sender'[d] = sender[d]
  BY <1>1, SenderStep, Zenon DEF PrepareFails, registry
<1> QED BY <1>2, SenderOnly, Zenon DEF PrepareFails

(* try_prepare_signal_send of a thread remembers the active registration. *)
LEMMA PrepareThreadSendInv ==
  ASSUME EIInv, NEW c \in Senders, NEW t \in Threads, PrepareThreadSend(c, t)
  PROVE  EIInv'
<1>1. PICK e \in Active : sender' = [sender EXCEPT ![c] = [pc |-> "armed", to |-> t, owner |-> e]]
  BY Zenon DEF PrepareThreadSend
<1>2. e \in 1..Len(entry) /\ sender[c].pc # "hint" /\ UNCHANGED entry /\ t \in Targets
  BY SignosFacts DEF Active, EIInv, TypesOK, EndpointTypeOK, PrepareThreadSend, NoWork, registry
<1> DEFINE v == [pc |-> "armed", to |-> t, owner |-> e]
<1>3. v.pc = "armed" /\ v.to = t /\ v.owner = e
  BY Zenon
<1> HIDE DEF v
<1>4. sender' = [sender EXCEPT ![c] = v]
  BY <1>1, Zenon DEF v
<1>5. SenderOK' /\ \A d \in Senders : sender[d].pc = "hint" => sender'[d] = sender[d]
  BY <1>2, <1>3, <1>4, SenderStep, Zenon
<1> QED BY <1>5, SenderOnly, Zenon DEF PrepareThreadSend

(* try_prepare_signal_send of the process remembers the active endpoints. *)
LEMMA PrepareProcessSendInv ==
  ASSUME EIInv, NEW c \in Senders, PrepareProcessSend(c)
  PROVE  EIInv'
<1> DEFINE v == [pc |-> "armed", to |-> Process, endpoints |-> Active]
<1>1. v.pc = "armed" /\ v.to = Process
  BY Zenon
<1>2. sender' = [sender EXCEPT ![c] = v] /\ sender[c].pc # "hint" /\ UNCHANGED entry
  BY DEF PrepareProcessSend, NoWork, registry
<1> HIDE DEF v
<1>3. SenderOK' /\ \A d \in Senders : sender[d].pc = "hint" => sender'[d] = sender[d]
  BY <1>1, <1>2, SignosFacts, SenderStep, Zenon
<1> QED BY <1>3, SenderOnly, Zenon DEF PrepareProcessSend

(* The section that publishes a record: it goes to an admitted endpoint, and
   names its present registration. *)
LEMMA PublishedKeeps ==
  ASSUME EIInv, NEW c \in Senders, sender[c].pc # "hint", NEW x \in Targets, NEW s \in Signos,
         NEW owner \in 0..MaxEntry, NEW blocking, Published(c, x, s, owner, blocking),
         x = Process => plife = "active",
         x # Process => tlife[x] \in {"active", "retained"} /\ owner = registration[x] /\ owner # 0,
         UNCHANGED <<registry, disposition, blocked, delivering>>
  PROVE  EIInv'
<1> DEFINE q == AfterEffect(s)
           ignored == ActionIgnored(s, blocking)
           v == IF ignored THEN NoWork ELSE [pc |-> "hint", to |-> x]
<1>1. /\ hint' = Cleared(Reached, q) /\ sender' = [sender EXCEPT ![c] = v]
      /\ pending' = IF ignored \/ q[x][s] # None THEN q ELSE [q EXCEPT ![x][s] = Record(owner)]
  BY Zenon DEF Published
<1>2. /\ q \in [Targets -> [Signos -> Records]] /\ hint' \in [Targets -> BOOLEAN]
      /\ \A y \in Targets, n \in Signos : q[y][n] \in {None, pending[y][n]}
      /\ \A y \in Targets : hint[y] /\ ~IsEmpty(q[y]) => hint'[y]
      /\ \A y \in Targets, n \in Opposed(s) : q[y][n] = None
  BY <1>1, EffectFacts
<1>3. v.pc \in {"idle", "hint"} /\ (v.pc # "idle" => v.to \in Targets)
      /\ (~ignored => v.pc = "hint" /\ v.to = x)
  <2> HIDE DEF ignored
  <2> QED BY Zenon DEF NoWork
<1> HIDE DEF q, v, ignored
<1>4. SenderOK' /\ (\A d \in Senders : sender[d].pc = "hint" => sender'[d] = sender[d]) /\ sender'[c] = v
  <2>1. UNCHANGED entry
    BY Zenon DEF registry
  <2> QED BY <1>1, <1>3, <2>1, SenderStep, Zenon
<1>5. RegisteredOK' /\ DeliveringOK'
  BY Zenon DEF EIInv, RegisteredOK, DeliveringOK, registry
<1>6. CASE pending' = q
  <2>1. TypesOK'
    BY <1>2, <1>6, Zenon DEF EIInv, TypesOK, EndpointTypeOK, registry, Records
  <2>2. Shrinks
    BY <1>2, <1>6, Zenon DEF Shrinks
  <2>3. HoldersAdmitted' /\ PendingBelongs'
    BY <2>2, ShrinkKeeps, Zenon
  <2>4. HintNotLost'
    BY <1>2, <1>4, <1>6, <2>2, HintKept, Zenon
  <2> QED BY <1>4, <1>5, <2>1, <2>3, <2>4, Zenon DEF EIInv
<1>7. CASE pending' = [q EXCEPT ![x][s] = Record(owner)] /\ ~ignored
  <2>1. /\ pending' \in [Targets -> [Signos -> Records]] /\ pending'[x][s] = Record(owner)
        /\ \A y \in Targets, n \in Signos : (y # x \/ n # s) => pending'[y][n] = q[y][n]
    <3>1. Record(owner) \in Records
      BY RecordFacts, Zenon
    <3> QED BY <1>2, <1>7, <3>1, Zenon
  <2>2. TypesOK'
    BY <1>2, <2>1, Zenon DEF EIInv, TypesOK, EndpointTypeOK, registry, Records
  <2>3. ASSUME NEW y \in Targets, NEW n \in Signos, pending'[y][n] # None, y # x \/ n # s
        PROVE  pending[y][n] # None /\ pending'[y][n] = pending[y][n]
    <3>1. pending'[y][n] = q[y][n] /\ q[y][n] \in {None, pending[y][n]}
      BY <1>2, <2>1, <2>3, Zenon
    <3> QED BY <2>3, <3>1, Zenon
  <2>4. UNCHANGED <<tlife, registration, plife>>
    BY Zenon DEF registry
  <2>5. HoldersAdmitted'
    <3>1. ASSUME NEW t \in Threads, NEW n \in Signos, pending'[t][n] # None
          PROVE  tlife[t] \in {"active", "retained"}
      <4>1. CASE t = x
        BY <4>1, EndpointAssumption, Zenon
      <4>2. CASE t # x
        BY <2>3, <3>1, <4>2, SignosFacts, ZenonT(30) DEF EIInv, HoldersAdmitted, IsEmpty
      <4> QED BY <4>1, <4>2, Zenon
    <3> QED BY <2>4, <3>1, Zenon DEF HoldersAdmitted, IsEmpty
  <2>6. RecordsOfThisRegistration'
    <3>1. ASSUME NEW t \in Threads, NEW n \in Signos, pending'[t][n] # None
          PROVE  registration[t] # 0 /\ pending'[t][n].owner = registration[t]
      <4>1. CASE t = x /\ n = s
        BY <2>1, <4>1, RecordFacts, EndpointAssumption, Zenon
      <4>2. CASE t # x \/ n # s
        BY <2>3, <3>1, <4>2, SignosFacts DEF EIInv, PendingBelongs, RecordsOfThisRegistration
      <4> QED BY <4>1, <4>2, Zenon
    <3> QED BY <2>4, <3>1, Zenon DEF RecordsOfThisRegistration
  <2>7. RetiredStaysEmpty'
    <3>1. ASSUME plife = "cancelled", NEW n \in Signos PROVE pending'[Process][n] = None
      BY <2>3, <3>1, SignosFacts, Zenon DEF EIInv, PendingBelongs, RetiredStaysEmpty, IsEmpty
    <3> QED BY <2>4, <3>1, Zenon DEF RetiredStaysEmpty, IsEmpty
  <2>8. JobControlExclusive'
    <3>1. \A y \in Targets, n \in Opposed(s) : pending'[y][n] = None
      BY <1>2, <2>1, SignosFacts DEF Opposed
    <3> QED BY <3>1, SignosFacts, Zenon DEF JobControlExclusive
  <2>9. HintNotLost'
    <3>1. ASSUME NEW y \in Targets, NEW n \in Signos, pending'[y][n] # None, y # x
          PROVE  hint'[y] \/ \E d \in Senders : sender'[d].pc = "hint" /\ sender'[d].to = y
      <4>1. pending[y][n] # None /\ q[y][n] # None
        BY <2>1, <2>3, <3>1, Zenon
      <4>2. ~IsEmpty(pending[y]) /\ ~IsEmpty(q[y])
        BY <4>1, Zenon DEF IsEmpty
      <4>3. hint[y] \/ \E d \in Senders : sender[d].pc = "hint" /\ sender[d].to = y
        BY <4>2, Zenon DEF EIInv, HintNotLost
      <4> QED BY <1>2, <1>4, <4>2, <4>3, Zenon
    <3>2. \E d \in Senders : sender'[d].pc = "hint" /\ sender'[d].to = x
      BY <1>3, <1>4, <1>7, Zenon
    <3> QED BY <3>1, <3>2, Zenon DEF HintNotLost, IsEmpty
  <2> QED BY <1>4, <1>5, <2>2, <2>5, <2>6, <2>7, <2>8, <2>9, ZenonT(30) DEF EIInv, PendingBelongs
<1> QED BY <1>1, <1>6, <1>7, Zenon

(* A refused publication *)
LEMMA RefusedKeeps ==
  ASSUME EIInv, NEW c \in Senders, sender[c].pc # "hint", Refused(c),
         UNCHANGED <<registry, disposition, blocked, delivering>>
  PROVE  EIInv'
<1>1. NoWork.pc = "idle"
  BY Zenon DEF NoWork
<1>2. SenderOK' /\ \A d \in Senders : sender[d].pc = "hint" => sender'[d] = sender[d]
  BY <1>1, SenderStep, Zenon DEF Refused, registry
<1> QED BY <1>2, SenderOnly, Zenon DEF Refused

(* commit of a two-pass send *)
LEMMA CommitInv ==
  ASSUME EIInv, NEW c \in Senders, Commit(c)
  PROVE  EIInv'
<1> DEFINE x == sender[c].to
           s == sender[c].signo
           mode == sender[c].mode
<1>1. sender[c].pc = "preparing" /\ UNCHANGED <<registry, disposition, blocked, delivering>>
  BY Zenon DEF Commit
<1>2. x \in Targets /\ s \in Signos /\ mode \in {"active", "retained"}
  BY <1>1, Zenon DEF EIInv, SenderOK
<1>3. CASE ~Accepts(mode, x)
  BY <1>1, <1>3, RefusedKeeps, Zenon DEF Commit
<1>4. CASE Accepts(mode, x)
  <2>1. Published(c, x, s, OwnerNow(x), BlockedAt(x, s))
    BY <1>4, Zenon DEF Commit
  <2>2. x = Process => plife = "active"
    BY <1>4, Zenon DEF Accepts
  <2>3. x # Process => x \in Threads /\ tlife[x] \in {"active", "retained"}
    BY <1>2, <1>4, Zenon DEF Accepts, Targets
  <2>4. x # Process => OwnerNow(x) = registration[x] /\ OwnerNow(x) # 0
    BY <2>3, Zenon DEF OwnerNow, EIInv, RegisteredOK
  <2>5. OwnerNow(x) \in 0..MaxEntry
    BY <2>3, EndpointAssumption DEF OwnerNow, EIInv, TypesOK, EndpointTypeOK
  <2> HIDE DEF x, s, mode
  <2> QED BY <1>1, <1>2, <2>1, <2>2, <2>3, <2>4, <2>5, PublishedKeeps, ZenonT(30)
<1> QED BY <1>3, <1>4, Zenon

(* publish of a prepared send: refused unless the registration it was prepared
   for is still the active one. *)
LEMMA PublishPreparedInv ==
  ASSUME EIInv, NEW c \in Senders, NEW s \in Signos, PublishPrepared(c, s)
  PROVE  EIInv'
<1> DEFINE x == sender[c].to
           e == sender[c].owner
<1>1. sender[c].pc = "armed" /\ UNCHANGED <<registry, disposition, blocked, delivering>>
  BY Zenon DEF PublishPrepared
<1>2. x \in Targets /\ (x # Process => e \in 1..Len(entry) /\ x \in Threads)
  BY <1>1, Zenon DEF EIInv, SenderOK, Targets
<1>3. CASE Refused(c)
  BY <1>1, <1>3, RefusedKeeps, Zenon
<1>4. CASE x # Process /\ ExactActive(x, e) /\ Published(c, x, s, e, s \in blocked[x])
  <2>1. tlife[x] = "active" /\ registration[x] = e /\ e # 0 /\ e \in 0..MaxEntry
    BY <1>2, <1>4 DEF ExactActive, EIInv, TypesOK, EndpointTypeOK
  <2> HIDE DEF x, e
  <2> QED BY <1>1, <1>2, <1>4, <2>1, PublishedKeeps, Zenon
<1>5. ASSUME NEW blocking, x = Process, plife = "active", Published(c, x, s, 0, blocking)
      PROVE  EIInv'
  <2>1. 0 \in 0..MaxEntry
    BY EndpointAssumption
  <2> HIDE DEF x
  <2> QED BY <1>1, <1>2, <1>5, <2>1, PublishedKeeps, Zenon
<1> QED BY <1>3, <1>4, <1>5, Zenon DEF PublishPrepared

(* The store to possibly_has_signal after the gate. *)
LEMMA StoreHintInv ==
  ASSUME EIInv, NEW c \in Senders, StoreHint(c)
  PROVE  EIInv'
<1>1. /\ sender[c].pc = "hint" /\ hint' = [hint EXCEPT ![sender[c].to] = TRUE]
      /\ sender' = [sender EXCEPT ![c] = NoWork]
      /\ UNCHANGED <<registry, pending, disposition, blocked, delivering>>
  BY Zenon DEF StoreHint
<1>2. /\ sender[c].to \in Targets /\ NoWork.pc = "idle"
      /\ sender'[c] = NoWork /\ DOMAIN sender' = Senders /\ \A d \in Senders : d # c => sender'[d] = sender[d]
      /\ hint' \in [Targets -> BOOLEAN] /\ hint'[sender[c].to] = TRUE
      /\ \A y \in Targets : hint[y] => hint'[y]
  BY <1>1, Zenon DEF EIInv, SenderOK, NoWork, TypesOK, EndpointTypeOK
<1>3. TypesOK'
  BY <1>1, <1>2, Zenon DEF EIInv, TypesOK, EndpointTypeOK, registry
<1>4. SenderOK'
  BY <1>1, <1>2, Zenon DEF EIInv, SenderOK, registry
<1>5. RegisteredOK' /\ DeliveringOK'
  BY <1>1, Zenon DEF EIInv, RegisteredOK, DeliveringOK, registry
<1>6. HoldersAdmitted' /\ PendingBelongs'
  BY <1>1, ShrinkKeeps, Zenon DEF Shrinks
<1>7. HintNotLost'
  BY <1>1, <1>2 DEF EIInv, HintNotLost, IsEmpty
<1> QED BY <1>3, <1>4, <1>5, <1>6, <1>7, Zenon DEF EIInv

-----------------------------------------------------------------------------
(* Receiving *)

(* A signal that becomes ignored leaves every queue that is reached. *)
LEMMA TryReplaceActionInv ==
  ASSUME EIInv, NEW s, NEW d, TryReplaceAction(s, d)
  PROVE  EIInv'
<1>1. TypesOK /\ hint \in [Targets -> BOOLEAN] /\ pending \in [Targets -> [Signos -> Records]]
  BY Zenon DEF EIInv, TypesOK, EndpointTypeOK, Records
<1>2. UNCHANGED <<registry, blocked, sender, delivering>>
  BY Zenon DEF TryReplaceAction
<1>3. /\ pending' \in [Targets -> [Signos -> Records]] /\ hint' \in [Targets -> BOOLEAN] /\ Shrinks
      /\ \A y \in Targets : hint[y] /\ ~IsEmpty(pending'[y]) => hint'[y]
  <2>1. CASE UNCHANGED queues
    BY <1>1, <2>1, Zenon DEF queues, Shrinks
  <2>2. CASE pending' = Without(Reached, {s}) /\ hint' = Cleared(Reached, pending')
    <3>1. /\ pending' \in [Targets -> [Signos -> Records]]
          /\ \A x \in Targets, n \in Signos :
               pending'[x][n] = IF x \in Reached /\ n \in {s} THEN None ELSE pending[x][n]
      BY <1>1, <2>2, WithoutFacts
    <3>2. hint' \in [Targets -> BOOLEAN] /\ \A x \in Targets : hint[x] /\ ~IsEmpty(pending'[x]) => hint'[x]
      BY <1>1, <2>2, ClearedFacts, Zenon
    <3> QED BY <3>1, <3>2, Zenon DEF Shrinks
  <2> QED BY <2>1, <2>2, Zenon DEF TryReplaceAction
<1>4. TypesOK'
  BY <1>2, <1>3, Zenon DEF EIInv, TypesOK, EndpointTypeOK, registry, Records
<1>5. SenderOK' /\ RegisteredOK' /\ DeliveringOK'
  BY <1>2, Zenon DEF EIInv, SenderOK, RegisteredOK, DeliveringOK, registry
<1>6. HoldersAdmitted' /\ PendingBelongs'
  BY <1>2, <1>3, ShrinkKeeps, Zenon
<1>7. HintNotLost'
  BY <1>2, <1>3, HintKept, Zenon
<1> QED BY <1>4, <1>5, <1>6, <1>7, Zenon DEF EIInv

(* A new mask sets the thread's hint. *)
LEMMA SetBlockedInv ==
  ASSUME EIInv, NEW t \in Threads, NEW set \in SUBSET Varied, SetBlocked(t, set)
  PROVE  EIInv'
<1>1. /\ blocked' = [blocked EXCEPT ![t] = set] /\ hint' = [hint EXCEPT ![t] = TRUE]
      /\ UNCHANGED <<registry, pending, disposition, sender, delivering>>
  BY Zenon DEF SetBlocked
<1>2. set \subseteq Signos /\ t \in Targets
  BY EndpointAssumption, SignosFacts, Zenon DEF Signos, CONT, TSTP
<1>3. TypesOK'
  BY <1>1, <1>2, Zenon DEF EIInv, TypesOK, EndpointTypeOK, registry
<1>4. SenderOK' /\ RegisteredOK' /\ DeliveringOK'
  BY <1>1, Zenon DEF EIInv, SenderOK, RegisteredOK, DeliveringOK, registry
<1>5. Shrinks
  BY <1>1, Zenon DEF Shrinks
<1>6. HoldersAdmitted' /\ PendingBelongs'
  BY <1>1, <1>5, ShrinkKeeps, Zenon
<1>7. \A y \in Targets : hint[y] => hint'[y]
  BY <1>1, Zenon DEF EIInv, TypesOK, EndpointTypeOK
<1>8. HintNotLost'
  BY <1>1, <1>5, <1>7, HintKept, Zenon
<1> QED BY <1>3, <1>4, <1>6, <1>8, Zenon DEF EIInv

(* The forms a delivery takes are told apart by their pc. *)
LEMMA WorkFacts ==
  /\ NoWork.pc = "idle" /\ NoWork \notin Selections
  /\ \A d \in Scans : d \notin Selections /\ d # NoWork /\ d.mask \subseteq Signos
                      /\ [d EXCEPT !.pc = "process"] \in Scans
  /\ \A m \in SUBSET Signos : [pc |-> "thread", mask |-> m] \in Scans
  /\ \A d \in Selections : /\ d # NoWork /\ d.mask \subseteq Signos /\ d.from \in Targets
                           /\ d.signo \in Signos /\ d.record \in Records /\ d.pc = "selected"
<1>1. NoWork.pc = "idle"
  BY Zenon DEF NoWork
<1>2. \A d \in Selections : d.pc = "selected" /\ d.mask \subseteq Signos /\ d.from \in Targets
                            /\ d.signo \in Signos /\ d.record \in Records
  BY Zenon DEF Selections
<1>3. \A d \in Scans : d.pc \in {"thread", "process"} /\ d.mask \subseteq Signos
                       /\ [d EXCEPT !.pc = "process"] \in Scans
  BY Zenon DEF Scans
<1>4. \A m \in SUBSET Signos : [pc |-> "thread", mask |-> m] \in Scans
  BY Zenon DEF Scans
<1> QED BY <1>1, <1>2, <1>3, <1>4, Zenon

(* A delivery moves on: what it now holds is of its own endpoint. *)
LEMMA DeliveryStep ==
  ASSUME EIInv, NEW t \in Threads, NEW v \in {NoWork} \union Scans \union Selections,
         delivering' = [delivering EXCEPT ![t] = v], tlife[t] = "active",
         v \in Selections => /\ v.record # None
                             /\ v.from # Process => v.from = t /\ v.record.owner = registration[t],
         UNCHANGED registry
  PROVE  delivering' \in [Threads -> {NoWork} \union Scans \union Selections] /\ DeliveringOK'
<1>1. delivering \in [Threads -> {NoWork} \union Scans \union Selections] /\ DeliveringOK
  BY Zenon DEF EIInv, TypesOK
<1>2. /\ delivering' \in [Threads -> {NoWork} \union Scans \union Selections] /\ delivering'[t] = v
      /\ \A u \in Threads : u # t => delivering'[u] = delivering[u]
  BY <1>1, Zenon
<1>3. UNCHANGED <<tlife, registration>>
  BY Zenon DEF registry
<1> QED BY <1>1, <1>2, <1>3, Zenon DEF DeliveringOK

(* A delivery under way is of an active endpoint. *)
LEMMA DeliveryForm ==
  ASSUME EIInv, NEW t \in Threads
  PROVE  /\ delivering[t].pc \in {"thread", "process"} => delivering[t] \in Scans /\ tlife[t] = "active"
         /\ delivering[t].pc = "selected" => delivering[t] \in Selections /\ tlife[t] = "active"
<1>1. delivering[t] \in {NoWork} \union Scans \union Selections
  BY Zenon DEF EIInv, TypesOK
<1>2. \A d \in Scans : d.pc \in {"thread", "process"}
  BY Zenon DEF Scans
<1>3. delivering[t] # NoWork => tlife[t] = "active"
  BY Zenon DEF EIInv, DeliveringOK
<1> QED BY <1>1, <1>2, <1>3, WorkFacts, Zenon

(* Only the deliveries change. *)
LEMMA DeliveryOnly ==
  ASSUME EIInv, delivering' \in [Threads -> {NoWork} \union Scans \union Selections], DeliveringOK',
         blocked' \in [Threads -> SUBSET Signos], UNCHANGED <<registry, queues, disposition, sender>>
  PROVE  EIInv'
<1>1. TypesOK'
  BY Zenon DEF EIInv, TypesOK, EndpointTypeOK, registry, queues
<1>2. SenderOK' /\ RegisteredOK'
  BY Zenon DEF EIInv, SenderOK, RegisteredOK, registry
<1>3. Shrinks
  BY Zenon DEF Shrinks, queues
<1>4. HoldersAdmitted' /\ PendingBelongs'
  BY <1>3, ShrinkKeeps, Zenon
<1>5. HintNotLost'
  BY <1>3, HintKept, Zenon DEF queues
<1> QED BY <1>1, <1>2, <1>4, <1>5, Zenon DEF EIInv

(* The mask is read once, when the delivery begins. *)
LEMMA DeliverStartInv ==
  ASSUME EIInv, NEW t \in Threads, DeliverStart(t)
  PROVE  EIInv'
<1> DEFINE v == [pc |-> "thread", mask |-> Signos \ blocked[t]]
<1>1. v \in Scans /\ v \notin Selections
  BY WorkFacts, Zenon
<1> HIDE DEF v
<1>2. /\ delivering' = [delivering EXCEPT ![t] = v] /\ tlife[t] = "active"
      /\ UNCHANGED <<registry, queues, disposition, blocked, sender>>
  BY Zenon DEF DeliverStart, v
<1>3. delivering' \in [Threads -> {NoWork} \union Scans \union Selections] /\ DeliveringOK'
  BY <1>1, <1>2, DeliveryStep, Zenon
<1>4. blocked' \in [Threads -> SUBSET Signos]
  BY <1>2, Zenon DEF EIInv, TypesOK
<1> QED BY <1>2, <1>3, <1>4, DeliveryOnly, Zenon

(* The scan of one queue takes the record it selects. *)
LEMMA ScanKeeps ==
  ASSUME EIInv, NEW t \in Threads, NEW x \in {t, Process}, delivering[t] \in Scans, tlife[t] = "active",
         NEW otherwise \in {NoWork} \union Scans, Scan(t, x, otherwise),
         UNCHANGED <<registry, disposition, blocked, sender>>
  PROVE  EIInv'
<1> DEFINE d == delivering[t]
           found == {s \in d.mask : pending[x][s] # None}
           v == [pc |-> "selected", mask |-> d.mask, from |-> x, signo |-> Min(found),
                 record |-> pending[x][Min(found)], action |-> "unclaimed"]
<1>1. x \in Targets /\ d.mask \subseteq Signos
  BY SignosFacts, WorkFacts, Zenon
<1>2. pending \in [Targets -> [Signos -> Records]]
  BY Zenon DEF EIInv, TypesOK, EndpointTypeOK, Records
<1>3. ASSUME NEW S, NEW w \in {NoWork} \union Scans \union Selections, Taken(x, S),
             delivering' = [delivering EXCEPT ![t] = w],
             w \in Selections => /\ w.record # None
                                 /\ w.from # Process => w.from = t /\ w.record.owner = registration[t]
      PROVE  EIInv'
  <2> HIDE DEF d, found, v
  <2>1. delivering' \in [Threads -> {NoWork} \union Scans \union Selections] /\ DeliveringOK'
    BY <1>3, DeliveryStep, Zenon
  <2>2. /\ pending' \in [Targets -> [Signos -> Records]] /\ hint' \in [Targets -> BOOLEAN] /\ Shrinks
        /\ \A y \in Targets : hint[y] /\ ~IsEmpty(pending'[y]) => hint'[y]
    BY <1>1, <1>3, TakenKeeps, Zenon
  <2>3. TypesOK'
    BY <2>1, <2>2, Zenon DEF EIInv, TypesOK, EndpointTypeOK, registry, Records
  <2>4. SenderOK' /\ RegisteredOK'
    BY Zenon DEF EIInv, SenderOK, RegisteredOK, registry
  <2>5. HoldersAdmitted' /\ PendingBelongs'
    BY <2>2, ShrinkKeeps, Zenon
  <2>6. HintNotLost'
    BY <2>2, HintKept, Zenon
  <2> QED BY <2>1, <2>3, <2>4, <2>5, <2>6, Zenon DEF EIInv
<1>4. CASE found = {}
  <2>1. Taken(x, {}) /\ delivering' = [delivering EXCEPT ![t] = otherwise] /\ otherwise \notin Selections
    BY <1>4, WorkFacts, Zenon DEF Scan
  <2> QED BY <1>3, <2>1, Zenon
<1>5. CASE found # {}
  <2>1. Taken(x, {Min(found)}) /\ delivering' = [delivering EXCEPT ![t] = v]
    BY <1>5, Zenon DEF Scan
  <2>2. Min(found) \in found
    BY <1>1, <1>5, SignosFacts, MinInSet, Zenon
  <2>3. Min(found) \in Signos /\ pending[x][Min(found)] # None /\ pending[x][Min(found)] \in Records
    BY <1>1, <1>2, <2>2, Zenon
  <2>4. x # Process => x = t /\ pending[x][Min(found)].owner = registration[t]
    BY <2>3, Zenon DEF EIInv, PendingBelongs, RecordsOfThisRegistration
  <2>5. v \in Selections /\ v.record = pending[x][Min(found)] /\ v.from = x
    BY <1>1, <2>3, Zenon DEF Selections
  <2> HIDE DEF v, found
  <2> QED BY <1>3, <2>1, <2>3, <2>4, <2>5, Zenon
<1> QED BY <1>4, <1>5, Zenon

(* The thread queue is scanned first. *)
LEMMA ScanThreadInv ==
  ASSUME EIInv, NEW t \in Threads, ScanThread(t)
  PROVE  EIInv'
<1>1. /\ Scan(t, t, [delivering[t] EXCEPT !.pc = "process"]) /\ delivering[t].pc = "thread"
      /\ UNCHANGED <<registry, disposition, blocked, sender>>
  BY Zenon DEF ScanThread
<1>2. delivering[t] \in Scans /\ tlife[t] = "active"
  BY <1>1, DeliveryForm, Zenon
<1>3. [delivering[t] EXCEPT !.pc = "process"] \in Scans
  BY <1>2, WorkFacts, Zenon
<1> QED BY <1>1, <1>2, <1>3, ScanKeeps, Zenon

(* Then the process queue. *)
LEMMA ScanProcessInv ==
  ASSUME EIInv, NEW t \in Threads, ScanProcess(t)
  PROVE  EIInv'
<1>1. /\ Scan(t, Process, NoWork) /\ delivering[t].pc = "process"
      /\ UNCHANGED <<registry, disposition, blocked, sender>>
  BY Zenon DEF ScanProcess
<1>2. delivering[t] \in Scans /\ tlife[t] = "active"
  BY <1>1, DeliveryForm, Zenon
<1> QED BY <1>1, <1>2, ScanKeeps, Zenon

(* The action is claimed for the record that was selected. *)
LEMMA ClaimActionInv ==
  ASSUME EIInv, NEW t \in Threads, ClaimAction(t)
  PROVE  EIInv'
<1>1. delivering[t] \in Selections /\ tlife[t] = "active"
  BY DeliveryForm, Zenon DEF ClaimAction
<1>2. UNCHANGED <<registry, queues, disposition, blocked, sender>>
  BY Zenon DEF ClaimAction
<1>3. PICK a \in Dispositions : delivering' = [delivering EXCEPT ![t] = [delivering[t] EXCEPT !.action = a]]
  BY Zenon DEF ClaimAction
<1>4. PICK v : v = [delivering[t] EXCEPT !.action = a]
  BY Zenon
<1>5. v \in Selections /\ v.record = delivering[t].record /\ v.from = delivering[t].from
  BY <1>1, <1>4, Zenon DEF Selections
<1>6. /\ v.record # None
      /\ v.from # Process => v.from = t /\ v.record.owner = registration[t]
  BY <1>1, <1>5, Zenon DEF EIInv, DeliveringOK
<1>7. delivering' \in [Threads -> {NoWork} \union Scans \union Selections] /\ DeliveringOK'
  BY <1>1, <1>2, <1>3, <1>4, <1>5, <1>6, DeliveryStep, Zenon
<1>8. blocked' \in [Threads -> SUBSET Signos]
  BY <1>2, Zenon DEF EIInv, TypesOK
<1> QED BY <1>2, <1>7, <1>8, DeliveryOnly, Zenon

(* The selected record is consumed; a handler blocks its signal. *)
LEMMA DeliverInv ==
  ASSUME EIInv, NEW t \in Threads, Deliver(t)
  PROVE  EIInv'
<1>1. delivering[t] \in Selections /\ tlife[t] = "active"
  BY DeliveryForm, Zenon DEF Deliver
<1>2. UNCHANGED <<registry, queues, disposition, sender>>
  BY Zenon DEF Deliver
<1> DEFINE again == [pc |-> "thread", mask |-> delivering[t].mask]
<1>3. again \in Scans /\ again \notin Selections /\ NoWork \notin Selections
  BY <1>1, WorkFacts, Zenon
<1>4. \/ delivering' = [delivering EXCEPT ![t] = again]
      \/ delivering' = [delivering EXCEPT ![t] = NoWork]
  BY Zenon DEF Deliver
<1>5. blocked' \in [Threads -> SUBSET Signos]
  <2>1. blocked \in [Threads -> SUBSET Signos] /\ delivering[t].signo \in Signos
    BY <1>1, WorkFacts, Zenon DEF EIInv, TypesOK
  <2>2. blocked' = blocked \/ blocked' = [blocked EXCEPT ![t] = @ \union {delivering[t].signo}]
    BY Zenon DEF Deliver
  <2> QED BY <2>1, <2>2, Zenon
<1> HIDE DEF again
<1>6. delivering' \in [Threads -> {NoWork} \union Scans \union Selections] /\ DeliveringOK'
  BY <1>1, <1>2, <1>3, <1>4, DeliveryStep, Zenon
<1> QED BY <1>2, <1>5, <1>6, DeliveryOnly, Zenon

(* A record that is put back still names the registration it was sent to, and
   never enters a retired process endpoint. *)
LEMMA RequeueInv ==
  ASSUME EIInv, NEW t \in Threads, Requeue(t)
  PROVE  EIInv'
<1> DEFINE x == delivering[t].from
           s == delivering[t].signo
           r == [delivering[t].record EXCEPT !.requeued = TRUE]
<1>1. delivering[t] \in Selections /\ tlife[t] = "active"
  BY DeliveryForm, Zenon DEF Requeue
<1>2. delivering' = [delivering EXCEPT ![t] = NoWork] /\ UNCHANGED <<registry, disposition, blocked, sender>>
  BY Zenon DEF Requeue
<1>3. delivering' \in [Threads -> {NoWork} \union Scans \union Selections] /\ DeliveringOK'
  BY <1>1, <1>2, DeliveryStep, WorkFacts, Zenon
<1>4. /\ x \in Targets /\ s \in Signos /\ r \in Records /\ r # None /\ r.requeued
      /\ x # Process => x = t /\ r.owner = registration[t] /\ registration[t] # 0
  <2>1. x \in Targets /\ s \in Signos /\ delivering[t].record \in Records
    BY <1>1, WorkFacts, Zenon
  <2>2. r \in Records /\ r # None /\ r.requeued /\ r.owner = delivering[t].record.owner
    BY <2>1, RecordFacts, Zenon
  <2>3. x # Process => x = t /\ delivering[t].record.owner = registration[t]
    BY <1>1, Zenon DEF EIInv, DeliveringOK
  <2>4. registration[t] # 0
    BY <1>1, Zenon DEF EIInv, RegisteredOK
  <2> QED BY <2>1, <2>2, <2>3, <2>4, Zenon
<1>5. blocked' \in [Threads -> SUBSET Signos]
  BY <1>2, Zenon DEF EIInv, TypesOK
<1>6. CASE UNCHANGED queues
  BY <1>2, <1>3, <1>5, <1>6, DeliveryOnly, Zenon
<1>7. CASE /\ NotCancelled(x) /\ pending' = [pending EXCEPT ![x][s] = r]
           /\ hint' = [hint EXCEPT ![x] = TRUE]
  <2>1. x = Process => plife # "cancelled"
    BY <1>7, Zenon DEF NotCancelled
  <2> HIDE DEF x, s, r
  <2>2. /\ pending' \in [Targets -> [Signos -> Records]] /\ pending'[x][s] = r
        /\ \A y \in Targets, n \in Signos : (y # x \/ n # s) => pending'[y][n] = pending[y][n]
        /\ hint' \in [Targets -> BOOLEAN] /\ hint'[x] = TRUE /\ \A y \in Targets : hint[y] => hint'[y]
    BY <1>4, <1>7, Zenon DEF EIInv, TypesOK, EndpointTypeOK, Records
  <2>3. TypesOK'
    BY <1>2, <1>3, <2>2, ZenonT(30) DEF EIInv, TypesOK, EndpointTypeOK, registry, Records
  <2>4. SenderOK' /\ RegisteredOK'
    BY <1>2, Zenon DEF EIInv, SenderOK, RegisteredOK, registry
  <2>5. UNCHANGED <<tlife, registration, plife, sender>>
    BY <1>2, Zenon DEF registry
  <2>6. HoldersAdmitted'
    <3>1. ASSUME NEW u \in Threads, NEW n \in Signos, pending'[u][n] # None
          PROVE  tlife[u] \in {"active", "retained"}
      <4>1. CASE u = x
        BY <1>1, <1>4, <4>1, EndpointAssumption, Zenon
      <4>2. CASE u # x
        BY <2>2, <3>1, <4>2, SignosFacts, ZenonT(30) DEF EIInv, HoldersAdmitted, IsEmpty
      <4> QED BY <4>1, <4>2, Zenon
    <3> QED BY <2>5, <3>1, Zenon DEF HoldersAdmitted, IsEmpty
  <2>7. RecordsOfThisRegistration'
    <3>1. ASSUME NEW u \in Threads, NEW n \in Signos, pending'[u][n] # None
          PROVE  registration[u] # 0 /\ pending'[u][n].owner = registration[u]
      <4>1. CASE u = x /\ n = s
        BY <1>4, <2>2, <4>1, EndpointAssumption, Zenon
      <4>2. CASE u # x \/ n # s
        BY <2>2, <3>1, <4>2, SignosFacts DEF EIInv, PendingBelongs, RecordsOfThisRegistration
      <4> QED BY <4>1, <4>2, Zenon
    <3> QED BY <2>5, <3>1, Zenon DEF RecordsOfThisRegistration
  <2>8. RetiredStaysEmpty'
    <3>1. ASSUME plife = "cancelled", NEW n \in Signos PROVE pending'[Process][n] = None
      BY <2>1, <2>2, <3>1, SignosFacts, Zenon DEF EIInv, PendingBelongs, RetiredStaysEmpty, IsEmpty
    <3> QED BY <2>5, <3>1, Zenon DEF RetiredStaysEmpty, IsEmpty
  <2>9. JobControlExclusive'
    <3> SUFFICES ASSUME NEW y \in Targets, NEW z \in Targets, pending'[y][CONT] # None, pending'[z][TSTP] # None
                 PROVE  pending'[y][CONT].requeued \/ pending'[z][TSTP].requeued
      BY Zenon DEF JobControlExclusive
    <3>1. CASE x = y /\ s = CONT
      BY <1>4, <2>2, <3>1, Zenon
    <3>2. CASE x = z /\ s = TSTP
      BY <1>4, <2>2, <3>2, Zenon
    <3>3. CASE ~(x = y /\ s = CONT) /\ ~(x = z /\ s = TSTP)
      <4>1. pending'[y][CONT] = pending[y][CONT] /\ pending'[z][TSTP] = pending[z][TSTP]
        BY <2>2, <3>3, SignosFacts, Zenon
      <4> QED BY <4>1, Zenon DEF EIInv, PendingBelongs, JobControlExclusive
    <3> QED BY <3>1, <3>2, <3>3, Zenon
  <2>10. HintNotLost'
    <3>1. ASSUME NEW y \in Targets, NEW n \in Signos, pending'[y][n] # None
          PROVE  hint'[y] \/ \E c \in Senders : sender[c].pc = "hint" /\ sender[c].to = y
      <4>1. CASE y = x
        BY <2>2, <4>1, Zenon
      <4>2. CASE y # x
        BY <2>2, <3>1, <4>2, ZenonT(30) DEF EIInv, HintNotLost, IsEmpty
      <4> QED BY <4>1, <4>2, Zenon
    <3> QED BY <2>5, <3>1, Zenon DEF HintNotLost, IsEmpty
  <2> QED BY <1>3, <2>3, <2>4, <2>6, <2>7, <2>8, <2>9, <2>10, ZenonT(30) DEF EIInv, PendingBelongs
<1> QED BY <1>6, <1>7, Zenon DEF Requeue

-----------------------------------------------------------------------------
(* A process starts with no endpoint registered and nothing pending. *)
LEMMA EndpointInitInv == EndpointInit => EIInv
<1> SUFFICES ASSUME EndpointInit PROVE EIInv
  BY Zenon
<1>1. entry = <<>> /\ Len(entry) = 0 /\ entry \in Seq(Entries)
  BY DEF EndpointInit
<1>2. pending \in [Targets -> [Signos -> Records]] /\ \A x \in Targets, s \in Signos : pending[x][s] = None
  BY RecordFacts, Zenon DEF EndpointInit, Empty
<1>3. EndpointTypeOK
  BY <1>1, <1>2, EndpointAssumption DEF EndpointInit, EndpointTypeOK, Records
<1>4. TypesOK
  BY <1>1, <1>3, EndpointAssumption DEF EndpointInit, TypesOK
<1>5. SenderOK /\ RegisteredOK /\ DeliveringOK
  BY WorkFacts, Zenon DEF EndpointInit, SenderOK, RegisteredOK, DeliveringOK
<1>6. \A x \in Targets : IsEmpty(pending[x])
  BY <1>2, Zenon DEF IsEmpty
<1>7. HoldersAdmitted /\ HintNotLost
  BY <1>6, SignosFacts, Zenon DEF HoldersAdmitted, HintNotLost
<1>8. PendingBelongs
  BY <1>2, <1>6, SignosFacts, Zenon DEF PendingBelongs, RecordsOfThisRegistration, RetiredStaysEmpty, JobControlExclusive
<1> QED BY <1>4, <1>5, <1>7, <1>8, Zenon DEF EIInv

(* Every section of every operation keeps the invariant. *)
LEMMA EndpointNextInv == EIInv /\ [EndpointNext]_endpointVars => EIInv'
<1> SUFFICES ASSUME EIInv, [EndpointNext]_endpointVars PROVE EIInv'
  BY Zenon
<1>1. CASE Register
  <2>1. ASSUME NEW t \in Threads, NEW tid \in Tids, TryRegister(t, tid) PROVE EIInv'
    BY <2>1, TryRegisterInv, Zenon
  <2>2. ASSUME NEW t \in Threads, NEW tid \in Tids, NEW retain \in BOOLEAN, RetireRegistration(t, tid, retain)
        PROVE  EIInv'
    BY <2>2, RetireRegistrationInv, Zenon
  <2>3. ASSUME NEW e \in tokens, CommitRegistration(e) PROVE EIInv'
    BY <2>3, CommitRegistrationInv, Zenon
  <2>4. ASSUME NEW e \in tokens, DropRegistration(e) PROVE EIInv'
    BY <2>4, DropRegistrationInv, Zenon
  <2>5. ASSUME NEW t \in Threads, CancelRegistration(t) PROVE EIInv'
    BY <2>5, CancelRegistrationInv, Zenon
  <2> QED BY <1>1, <2>1, <2>2, <2>3, <2>4, <2>5, RetainProcessInv, RetireProcessInv, ZenonT(30) DEF Register
<1>2. CASE Send
  <2>1. PICK c \in Senders :
          \/ \E x \in Targets, mode \in {"active", "retained"}, s \in Signos : Preflight(c, x, mode, s)
          \/ PrepareFails(c) \/ Commit(c) \/ StoreHint(c)
          \/ \E t \in Threads : PrepareThreadSend(c, t)
          \/ PrepareProcessSend(c) \/ \E s \in Signos : PublishPrepared(c, s)
    BY <1>2, Zenon DEF Send
  <2> QED BY <2>1, PreflightInv, PrepareFailsInv, CommitInv, StoreHintInv, PrepareThreadSendInv,
             PrepareProcessSendInv, PublishPreparedInv, ZenonT(30)
<1>3. CASE Receive
  <2>1. ASSUME NEW x \in Targets, NEW s \in Signos, DequeueSignal(x, s) PROVE EIInv'
    BY <2>1, TakeOnly, Zenon DEF DequeueSignal
  <2>2. ASSUME NEW x \in Targets, NEW S \in SUBSET Signos, FlushSignal(x, S) PROVE EIInv'
    BY <2>2, TakeOnly, Zenon DEF FlushSignal
  <2>3. ASSUME NEW t \in Threads, NEW set \in SUBSET Varied, SetBlocked(t, set) PROVE EIInv'
    BY <2>3, SetBlockedInv, Zenon
  <2>4. ASSUME NEW t \in Threads,
               DeliverStart(t) \/ ScanThread(t) \/ ScanProcess(t) \/ ClaimAction(t)
                 \/ Deliver(t) \/ Requeue(t)
        PROVE  EIInv'
    BY <2>4, DeliverStartInv, ScanThreadInv, ScanProcessInv, ClaimActionInv, DeliverInv, RequeueInv,
       ZenonT(30)
  <2> QED BY <1>3, <2>1, <2>2, <2>3, <2>4, TryReplaceActionInv, ZenonT(30) DEF Receive
<1>4. CASE UNCHANGED endpointVars
  <2>1. UNCHANGED <<registry, queues, disposition, blocked, sender, delivering>>
    BY <1>4, Zenon DEF endpointVars, registry, queues
  <2>2. blocked' \in [Threads -> SUBSET Signos] /\ DeliveringOK'
        /\ delivering' \in [Threads -> {NoWork} \union Scans \union Selections]
    BY <2>1, Zenon DEF EIInv, TypesOK, DeliveringOK, registry
  <2> QED BY <2>1, <2>2, DeliveryOnly, Zenon
<1> QED BY <1>1, <1>2, <1>3, <1>4, Zenon DEF EndpointNext

(* The inductive invariant holds throughout. *)
LEMMA EIInvAlways == EndpointSpec => []EIInv
BY EndpointInitInv, EndpointNextInv, PTL DEF EndpointSpec

(* Whatever is pending is announced: for any number of threads and senders, a
   queue that holds a record has its hint set or a sender about to set it. *)
THEOREM HintNotLostCorrect == EndpointSpec => []HintNotLost
<1>1. EIInv => HintNotLost
  BY Zenon DEF EIInv
<1> QED BY <1>1, EIInvAlways, PTL

(* Only what belongs is pending, for any number of threads, thread ids and
   senders, and any number of registrations of one endpoint. *)
THEOREM PendingBelongsCorrect == EndpointSpec => []PendingBelongs
<1>1. EIInv => PendingBelongs
  BY Zenon DEF EIInv
<1> QED BY <1>1, EIInvAlways, PTL

-----------------------------------------------------------------------------
(* The registry and the endpoints *)

(* There are finitely many live entries, and no more of them when some are
   cancelled. *)
LEMMA LiveShrinks ==
  ASSUME TypesOK, TypesOK', LiveOK, Live' \subseteq Live,
         \A e \in Live' : /\ entry'[e].thread = entry[e].thread /\ entry'[e].tid = entry[e].tid
                          /\ registration'[entry[e].thread] = e
  PROVE  LiveOK'
<1>1. Live \subseteq 1..Len(entry) /\ Len(entry) \in Nat
  <2>1. children \subseteq 1..Len(entry) /\ entry \in Seq(Entries)
    BY Zenon DEF TypesOK, EndpointTypeOK
  <2>2. Len(entry) \in Nat
    BY <2>1
  <2> QED BY <2>1, <2>2, Zenon DEF Live
<1>2. IsFiniteSet(1..Len(entry))
  BY <1>1, FS_Interval
<1>3. IsFiniteSet(Live)
  BY <1>1, <1>2, FS_Subset, Zenon
<1>4. Cardinality(Live') <= Cardinality(Live) /\ Cardinality(Live) \in Nat /\ Cardinality(Live') \in Nat
  BY <1>3, FS_Subset, FS_CardinalityType, Zenon
<1>5. Cardinality(Live') <= ThreadLimit
  BY <1>4, EndpointAssumption DEF LiveOK
<1>6. \A e \in Live' : registration'[entry'[e].thread] = e
  BY Zenon
<1>7. \A e, f \in Live' : entry'[e].tid = entry'[f].tid => e = f
  BY DEF LiveOK
<1> QED BY <1>5, <1>6, <1>7, Zenon DEF LiveOK

(* A new entry takes a free thread id and a place within the limit. *)
LEMMA RegisterLive ==
  ASSUME EIInv, LiveOK, NEW t \in Threads, NEW tid \in Tids, TryRegister(t, tid)
  PROVE  LiveOK'
<1> DEFINE e == Len(entry) + 1
           r == [tid |-> tid, thread |-> t, state |-> "pending"]
<1>1. /\ registration[t] = 0 /\ entry' = Append(entry, r) /\ children' = Live \union {e}
      /\ registration' = [registration EXCEPT ![t] = e]
      /\ TidFree(tid) /\ Cardinality(Live) < ThreadLimit
  BY Zenon DEF TryRegister
<1>2. r \in Entries /\ entry \in Seq(Entries) /\ Len(entry) \in Nat /\ registration \in [Threads -> 0..MaxEntry]
  BY DEF EIInv, TypesOK, EndpointTypeOK, Entries
<1>3. entry'[e] = r /\ \A i \in 1..Len(entry) : entry'[i] = entry[i]
  <2> HIDE DEF r
  <2> QED BY <1>1, <1>2
<1>4. Live \subseteq 1..Len(entry) /\ e \notin Live /\ 0 \notin Live
  <2>1. Live \subseteq children /\ children \subseteq 1..Len(entry)
    BY Zenon DEF EIInv, TypesOK, EndpointTypeOK, Live
  <2>2. e \notin 1..Len(entry) /\ 0 \notin 1..Len(entry)
    BY <1>2
  <2> QED BY <2>1, <2>2, Zenon
<1>5. r.tid = tid /\ r.thread = t /\ r.state = "pending"
  BY Zenon
<1> HIDE DEF e, r
<1>6. Live' = Live \union {e}
  BY <1>1, <1>3, <1>4, <1>5, ZenonT(30) DEF Live
<1>7. Cardinality(Live') = Cardinality(Live) + 1 /\ Cardinality(Live) \in Nat
  <2>1. IsFiniteSet(1..Len(entry))
    BY <1>2, FS_Interval
  <2>2. IsFiniteSet(Live)
    BY <1>4, <2>1, FS_Subset, Zenon
  <2> QED BY <1>4, <1>6, <2>2, FS_AddElement, FS_CardinalityType, ZenonT(30)
<1>8. ASSUME NEW f \in Live
      PROVE  entry'[f] = entry[f] /\ entry[f].thread # t /\ entry[f].tid # tid /\ entry[f].thread \in Threads
  <2>1. f \in 1..Len(entry) /\ registration[entry[f].thread] = f /\ entry[f].tid # tid
    BY <1>1, <1>4, Zenon DEF LiveOK, TidFree
  <2>2. entry[f].thread \in Threads
    BY <2>1, EntryTypes, Zenon DEF EIInv
  <2> QED BY <1>1, <1>3, <1>4, <2>1, <2>2, Zenon
<1>9. \A f \in Live' : registration'[entry'[f].thread] = f
  <2>1. registration'[entry'[e].thread] = e
    BY <1>1, <1>2, <1>3, <1>5, Zenon
  <2>2. ASSUME NEW f \in Live PROVE registration'[entry'[f].thread] = f
    BY <1>1, <1>2, <1>8, Zenon DEF LiveOK
  <2> QED BY <1>6, <2>1, <2>2, Zenon
<1>10. \A f, g \in Live' : entry'[f].tid = entry'[g].tid => f = g
  BY <1>3, <1>5, <1>6, <1>8 DEF LiveOK
<1>11. Cardinality(Live') <= ThreadLimit
  BY <1>1, <1>7, EndpointAssumption
<1> QED BY <1>9, <1>10, <1>11, Zenon DEF LiveOK

(* A registered endpoint's entry changes its state and stays live. *)
LEMMA StateLive ==
  ASSUME EIInv, EIInv', LiveOK, NEW t \in Threads, registration[t] # 0, NEW s \in {"active", "retained"},
         entry' = [entry EXCEPT ![registration[t]].state = s], UNCHANGED <<registration, children>>
  PROVE  LiveOK'
<1> DEFINE e == registration[t]
<1>1. e \in Live /\ e \in 1..Len(entry)
  BY Zenon DEF EIInv, RegisteredOK, Live, TypesOK, EndpointTypeOK
<1>2. /\ \A i \in 1..Len(entry) : i # e => entry'[i] = entry[i]
      /\ \A i \in 1..Len(entry) : entry'[i].thread = entry[i].thread /\ entry'[i].tid = entry[i].tid
  BY <1>1, StateChange, Zenon DEF EIInv
<1>3. Live' \subseteq Live /\ Live \subseteq 1..Len(entry)
  BY <1>1, <1>2, Zenon DEF Live, EIInv, TypesOK, EndpointTypeOK
<1>4. \A f \in Live' : /\ entry'[f].thread = entry[f].thread /\ entry'[f].tid = entry[f].tid
                       /\ registration'[entry[f].thread] = f
  BY <1>2, <1>3, Zenon DEF LiveOK
<1> QED BY <1>3, <1>4, LiveShrinks, Zenon DEF EIInv

(* An entry is cancelled together with the registration that names it. *)
LEMMA CancelLive ==
  ASSUME EIInv, EIInv', LiveOK, NEW t \in Threads, NEW e,
         \/ e \in 1..Len(entry) /\ entry' = [entry EXCEPT ![e].state = "cancelled"]
         \/ e = 0 /\ entry' = entry,
         \/ registration[t] = e /\ registration' = [registration EXCEPT ![t] = 0]
         \/ registration' = registration,
         UNCHANGED children
  PROVE  LiveOK'
<1>1. /\ \A i \in 1..Len(entry) : i # e => entry'[i] = entry[i]
      /\ \A i \in 1..Len(entry) : entry'[i].thread = entry[i].thread /\ entry'[i].tid = entry[i].tid
      /\ e \in 1..Len(entry) => entry'[e].state = "cancelled"
  <2>1. CASE e \in 1..Len(entry) /\ entry' = [entry EXCEPT ![e].state = "cancelled"]
    BY <2>1, StateChange, Zenon DEF EIInv
  <2>2. CASE e = 0 /\ entry' = entry
    BY <2>2 DEF EIInv, TypesOK
  <2> QED BY <2>1, <2>2, Zenon
<1>2. Live \subseteq 1..Len(entry) /\ children \subseteq 1..Len(entry)
  BY Zenon DEF Live, EIInv, TypesOK, EndpointTypeOK
<1>3. Live' \subseteq Live /\ e \notin Live'
  BY <1>1, <1>2, Zenon DEF Live
<1>4. ASSUME NEW f \in Live'
      PROVE  /\ entry'[f].thread = entry[f].thread /\ entry'[f].tid = entry[f].tid
             /\ registration'[entry[f].thread] = f
  <2>1. f \in Live /\ f # e /\ registration[entry[f].thread] = f /\ f \in 1..Len(entry)
    BY <1>2, <1>3, Zenon DEF LiveOK
  <2>2. entry[f].thread \in Threads /\ registration \in [Threads -> 0..MaxEntry]
    BY <2>1, EntryTypes, Zenon DEF EIInv, TypesOK, EndpointTypeOK
  <2> QED BY <1>1, <2>1, <2>2, Zenon
<1> QED BY <1>3, <1>4, LiveShrinks, Zenon DEF EIInv

(* Every step keeps the live entries registered, distinct and within bounds. *)
LEMMA NextLive == EIInv /\ EIInv' /\ LiveOK /\ [EndpointNext]_endpointVars => LiveOK'
<1> SUFFICES ASSUME EIInv, EIInv', LiveOK, [EndpointNext]_endpointVars PROVE LiveOK'
  BY Zenon
<1>1. CASE UNCHANGED <<registration, entry, children>>
  BY <1>1, ZenonT(30) DEF LiveOK, Live
<1>2. ASSUME NEW t \in Threads, NEW tid \in Tids, TryRegister(t, tid) PROVE LiveOK'
  BY <1>2, RegisterLive, Zenon
<1>3. ASSUME NEW t \in Threads, Cancelled(t), UNCHANGED children PROVE LiveOK'
  <2>1. registration[t] \in 0..Len(entry)
    BY DEF EIInv, RegisteredOK, TypesOK, EndpointTypeOK
  <2>2. \/ registration[t] \in 1..Len(entry) /\ entry' = [entry EXCEPT ![registration[t]].state = "cancelled"]
        \/ registration[t] = 0 /\ entry' = entry
    BY <1>3, <2>1 DEF Cancelled, EIInv, TypesOK
  <2>3. registration' = [registration EXCEPT ![t] = 0]
    BY <1>3, Zenon DEF Cancelled
  <2> QED BY <1>3, <2>2, <2>3, CancelLive, Zenon
<1>4. ASSUME NEW t \in Threads, NEW tid \in Tids, NEW retain \in BOOLEAN, RetireRegistration(t, tid, retain)
      PROVE  LiveOK'
  <2>1. CASE /\ tlife[t] \in {"pending", "active"} /\ UNCHANGED <<registration, children>>
             /\ entry' = [entry EXCEPT ![registration[t]].state = "retained"]
    <3>1. registration[t] # 0
      <4>1. PICK e \in children : registration[t] = Min({f \in children : entry[f].tid = tid /\ entry[f].thread = t})
                                  /\ e \in {f \in children : entry[f].tid = tid /\ entry[f].thread = t}
        BY <1>4, Zenon DEF RetireRegistration
      <4>2. {f \in children : entry[f].tid = tid /\ entry[f].thread = t} \subseteq Nat
        <5>1. children \subseteq 1..Len(entry)
          BY Zenon DEF EIInv, TypesOK, EndpointTypeOK
        <5>2. 1..Len(entry) \subseteq Nat
          BY DEF EIInv, TypesOK
        <5> QED BY <5>1, <5>2, Zenon
      <4>3. registration[t] \in children
        BY <4>1, <4>2, MinInSet, Zenon
      <4> QED BY <4>3 DEF EIInv, TypesOK, EndpointTypeOK
    <3> QED BY <2>1, <3>1, StateLive, Zenon
  <2>2. CASE Cancelled(t) /\ UNCHANGED children
    BY <1>3, <2>2, Zenon
  <2> QED BY <1>4, <2>1, <2>2, Zenon DEF RetireRegistration
<1>5. ASSUME NEW e \in tokens, CommitRegistration(e) PROVE LiveOK'
  <2>1. e \in 1..Len(entry)
    BY Zenon DEF EIInv, TypesOK, EndpointTypeOK
  <2>2. entry[e].thread \in Threads
    BY <2>1, EntryTypes, Zenon DEF EIInv
  <2>3. registration[entry[e].thread] = e /\ e # 0
    BY <1>5, <2>1 DEF CommitRegistration, Admitted
  <2>4. entry' = [entry EXCEPT ![e].state = "active"] /\ UNCHANGED <<registration, children>>
    BY <1>5, Zenon DEF CommitRegistration
  <2> QED BY <2>2, <2>3, <2>4, StateLive, Zenon
<1>6. ASSUME NEW e \in tokens, DropRegistration(e) PROVE LiveOK'
  <2>1. e \in 1..Len(entry)
    BY Zenon DEF EIInv, TypesOK, EndpointTypeOK
  <2>2. entry[e].thread \in Threads
    BY <2>1, EntryTypes, Zenon DEF EIInv
  <2>3. /\ entry' = [entry EXCEPT ![e].state = "cancelled"] /\ UNCHANGED children
        /\ \/ registration[entry[e].thread] = e /\ registration' = [registration EXCEPT ![entry[e].thread] = 0]
           \/ registration' = registration
    BY <1>6, Zenon DEF DropRegistration
  <2> QED BY <2>1, <2>2, <2>3, CancelLive, ZenonT(30)
<1>7. ASSUME NEW t \in Threads, CancelRegistration(t) PROVE LiveOK'
  BY <1>3, <1>7, Zenon DEF CancelRegistration
<1>8. ASSUME Send PROVE UNCHANGED registry
  <2>1. PICK c \in Senders :
          \/ \E x \in Targets, mode \in {"active", "retained"}, s \in Signos : Preflight(c, x, mode, s)
          \/ PrepareFails(c) \/ Commit(c) \/ StoreHint(c)
          \/ \E t \in Threads : PrepareThreadSend(c, t)
          \/ PrepareProcessSend(c) \/ \E s \in Signos : PublishPrepared(c, s)
    BY <1>8, Zenon DEF Send
  <2>2. ASSUME NEW x, NEW mode, NEW s, Preflight(c, x, mode, s) PROVE UNCHANGED registry
    BY <2>2, Zenon DEF Preflight
  <2>3. PrepareFails(c) \/ Commit(c) \/ StoreHint(c) \/ PrepareProcessSend(c) => UNCHANGED registry
    BY Zenon DEF PrepareFails, Commit, StoreHint, PrepareProcessSend
  <2>4. ASSUME NEW t, PrepareThreadSend(c, t) PROVE UNCHANGED registry
    BY <2>4, Zenon DEF PrepareThreadSend
  <2>5. ASSUME NEW s, PublishPrepared(c, s) PROVE UNCHANGED registry
    BY <2>5, Zenon DEF PublishPrepared
  <2> QED BY <2>1, <2>2, <2>3, <2>4, <2>5, Zenon
<1>9. ASSUME Receive PROVE UNCHANGED registry
  BY <1>9, Zenon DEF Receive, DequeueSignal, FlushSignal, TryReplaceAction, SetBlocked, DeliverStart, ScanThread,
              ScanProcess, ClaimAction, Deliver, Requeue
<1>10. UNCHANGED registry => UNCHANGED <<registration, entry, children>>
  BY Zenon DEF registry
<1>11. UNCHANGED endpointVars \/ RetainProcess \/ RetireProcess => UNCHANGED <<registration, entry, children>>
  BY Zenon DEF endpointVars, registry, RetainProcess, RetireProcess
<1>12. CASE Register
  BY <1>1, <1>2, <1>4, <1>5, <1>6, <1>7, <1>11, <1>12, ZenonT(30) DEF Register
<1> QED BY <1>1, <1>8, <1>9, <1>10, <1>11, <1>12, ZenonT(30) DEF EndpointNext

(* The registry and the endpoints agree, and the live entries have different
   thread ids and stay within the limit, whatever is torn down, retained or
   registered again meanwhile. *)
THEOREM RegistryCoherentCorrect == EndpointSpec => []RegistryCoherent
<1>1. EndpointInit => LiveOK
  <2> SUFFICES ASSUME EndpointInit PROVE LiveOK
    BY Zenon
  <2>1. Live = {}
    BY Zenon DEF EndpointInit, Live
  <2> QED BY <2>1, EndpointAssumption, FS_EmptySet DEF LiveOK
<1>2. EIInv /\ LiveOK => RegistryCoherent
  BY Zenon DEF EIInv, RegisteredOK, LiveOK, RegistryCoherent
<1> QED BY <1>1, <1>2, NextLive, EIInvAlways, PTL DEF EndpointSpec
=============================================================================
