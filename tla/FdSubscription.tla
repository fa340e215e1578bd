--------------------------- MODULE FdSubscription ---------------------------
(***************************************************************************)
(* Watch accounting and aggregate subscriptions of                         *)
(* crates/fd/src/subscription.rs.  Owners on several CPUs charge one       *)
(* lock-free account (a load and a compare-exchange are two steps), arm    *)
(* their sources, publish or give up, and cancel source by source before   *)
(* the charge is dropped.                                                  *)
(***************************************************************************)
EXTENDS Integers, FiniteSets, FiniteSetsExt

CONSTANTS
  Owners,       \* callers, each with at most one subscription
  Limit,        \* the account's limit
  MaxSources    \* largest declared topology

VARIABLES
  used,     \* WatchAccount::used
  owner,    \* per owner: what it is doing
  amount,   \* per owner: the amount of its WatchCharge, 0 without one
  live      \* per owner: its source registrations that are armed

vars == <<used, owner, amount, live>>

Idle == [step |-> "idle"]

Init ==
  /\ used = 0
  /\ owner = [o \in Owners |-> Idle]
  /\ amount = [o \in Owners |-> 0]
  /\ live = [o \in Owners |-> 0]

Become(o, record) == owner' = [owner EXCEPT ![o] = record]

(* PreparedSubscription::try_new; try_atomic_update loads the counter *)
TryNew(o, n) ==
  /\ owner[o] = Idle
  /\ Become(o, [step |-> "charging", maximum |-> n, seen |-> used])
  /\ UNCHANGED <<used, amount, live>>

Fits(next) == next <= Limit

(* compare_exchange succeeds *)
Exchange(seen) == used = seen

(* try_charge: the update refuses, or the exchange succeeds, or the loop goes
   round with the value it found *)
TryCharge(o) ==
  LET c == owner[o] IN
  /\ c.step = "charging"
  /\ \/ /\ ~Fits(c.seen + c.maximum)
        /\ Become(o, Idle) /\ UNCHANGED <<used, amount>>
     \/ /\ Fits(c.seen + c.maximum) /\ Exchange(c.seen)
        /\ used' = c.seen + c.maximum
        /\ amount' = [amount EXCEPT ![o] = c.maximum]
        /\ Become(o, [step |-> "charged", maximum |-> c.maximum])
     \/ /\ Fits(c.seen + c.maximum) /\ ~Exchange(c.seen)
        /\ Become(o, [c EXCEPT !.seen = used]) /\ UNCHANGED <<used, amount>>
  /\ UNCHANGED live

(* try_reserve_exact: storage for the registrations, or the charge is dropped *)
Reserve(o) ==
  /\ owner[o].step = "charged"
  /\ Become(o, [step |-> "prepared", maximum |-> owner[o].maximum])
  /\ UNCHANGED <<used, amount, live>>

Refund(o) ==
  /\ used' = used - amount[o]
  /\ amount' = [amount EXCEPT ![o] = 0]

NoMemory(o) ==
  /\ owner[o].step = "charged"
  /\ Refund(o) /\ Become(o, Idle)
  /\ UNCHANGED live

(* arm_with, when the source accepts; when it refuses nothing changes *)
ArmWith(o) ==
  /\ owner[o].step = "prepared" /\ live[o] < owner[o].maximum
  /\ live' = [live EXCEPT ![o] = @ + 1]
  /\ UNCHANGED <<used, owner, amount>>

(* reduce_to *)
AfterReduce(o) == used - (amount[o] - live[o])

(* PreparedSubscription::commit *)
Commit(o) ==
  /\ owner[o].step = "prepared"
  /\ used' = AfterReduce(o)
  /\ amount' = [amount EXCEPT ![o] = live[o]]
  /\ Become(o, [step |-> "published"])
  /\ UNCHANGED live

(* Drop of either owner, or Subscription::cancel, begins *)
BeginCancel(o) ==
  /\ owner[o].step \in {"prepared", "published"}
  /\ Become(o, [step |-> "cancelling"])
  /\ UNCHANGED <<used, amount, live>>

(* cancel_all, cancel_all_result: every registration is cancelled, also after
   one of them reported an error *)
CancelOne(o) ==
  /\ owner[o].step = "cancelling" /\ live[o] > 0
  /\ live' = [live EXCEPT ![o] = @ - 1]
  /\ UNCHANGED <<used, owner, amount>>

DropsCharge(o) == owner[o].step = "cancelling" /\ live[o] = 0

(* The charge is dropped after the registrations. *)
DropCharge(o) ==
  /\ DropsCharge(o)
  /\ Refund(o) /\ Become(o, Idle)
  /\ UNCHANGED live

OwnerStep(o) ==
  \/ TryCharge(o) \/ Reserve(o) \/ NoMemory(o) \/ ArmWith(o) \/ Commit(o)
  \/ BeginCancel(o) \/ CancelOne(o) \/ DropCharge(o)

Next == \E o \in Owners : OwnerStep(o) \/ \E n \in 0..MaxSources : TryNew(o, n)

Spec == Init /\ [][Next]_vars

-----------------------------------------------------------------------------
TypeOK ==
  /\ used \in 0..Limit
  /\ amount \in [Owners -> 0..MaxSources]
  /\ live \in [Owners -> 0..MaxSources]

(* The account equals the charges outstanding, whatever loads and exchanges of
   other owners fall between: no credit is lost or refunded twice. *)
CreditsExact == used = MapThenSumSet(LAMBDA o : amount[o], Owners)

(* A live source is always paid for, also while a publication shrinks its
   charge or a dropped owner is part way through its cancellations. *)
SourcesPaid == \A o \in Owners : live[o] <= amount[o]
=============================================================================
