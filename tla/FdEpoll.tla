------------------------------ MODULE FdEpoll ------------------------------
(***************************************************************************)
(* The interest and ready core of crates/fd/src/epoll.rs.  Each EpollCore  *)
(* method runs under the adapter's short lock and is one action.  Between  *)
(* them the lock is released: source callbacks, EPOLL_CTL calls and        *)
(* several waiters, each with one event in userspace copyout, interleave.  *)
(* The sources and the adapter's polling are external: a source's level    *)
(* rises and falls, and every rise sends a callback that may arrive late.  *)
(***************************************************************************)
EXTENDS Integers, Sequences, FiniteSets

CONSTANTS
  Capacity,      \* admitted interests, and slots of the ready queue
  Keys,          \* (OFD, fd) pairs
  Bits, Unconditional, \* readiness bits; ERROR and HANGUP are unconditional
  Masks,         \* interest masks callers choose
  Modes,         \* [edge, one_shot] combinations callers choose
  Waiters,       \* one outstanding delivery each; the name stands for the serial
  NoWaiter,
  MaxGeneration  \* stands for u64::MAX

VARIABLES
  entries,         \* slot -> Vacant or the published Entry
  ready,           \* the ready queue, a sequence of tokens
  next_generation,
  rescan,          \* a push found the queue full
  waiters,         \* per waiter: idle, or where it is with which event
  level,           \* per key: what polling the source would report
  callbacks,       \* source callbacks in flight: [token, bits]
  unseen,          \* per key: bits risen and neither drained nor copied out since
  reported         \* tokens of one-shot interests whose event was copied out

history == <<unseen, reported>>
vars == <<entries, ready, next_generation, rescan, waiters, level, callbacks, history>>
core == <<entries, ready, next_generation, rescan>>

Slots == 0..(Capacity - 1)
Vacant == [generation |-> 0]
Token(s) == [slot |-> s, generation |-> entries[s].generation]
Idle == [step |-> "idle"]

(* entry, entry_mut *)
Current(t) == entries[t.slot].generation = t.generation

(* ReadyMask::deliverable *)
Deliverable(bits, mask) == bits \intersect (mask \union Unconditional)

Init ==
  /\ entries = [s \in Slots |-> Vacant]
  /\ ready = <<>> /\ next_generation = 1 /\ rescan = FALSE
  /\ waiters = [w \in Waiters |-> Idle]
  /\ level = [k \in Keys |-> {}]
  /\ callbacks = {}
  /\ unseen = [k \in Keys |-> {}] /\ reported = {}

Fresh(k, mask, mode) ==
  [generation |-> next_generation, key |-> k, mask |-> mask, mode |-> mode,
   enabled |-> TRUE, queued |-> FALSE, in_delivery |-> NoWaiter,
   ready |-> {}, during |-> {}]

(* allocate_generation *)
AllocateGeneration ==
  next_generation < MaxGeneration /\ next_generation' = next_generation + 1

(* The adapter polls the source once it is armed and reports what it finds. *)
ReportArmed(s, k) ==
  callbacks' = callbacks \union
    {[token |-> [slot |-> s, generation |-> next_generation], bits |-> {bit}] : bit \in level[k]}

(* add: one interest per key *)
Unkeyed(k) == \A s \in Slots : entries[s] # Vacant => entries[s].key # k

Add(k, mask, mode) ==
  /\ Unkeyed(k) /\ AllocateGeneration
  /\ \E s \in Slots :
       /\ entries[s] = Vacant /\ \A r \in 0..(s - 1) : entries[r] # Vacant
       /\ entries' = [entries EXCEPT ![s] = Fresh(k, mask, mode)]
       /\ ReportArmed(s, k)
  /\ UNCHANGED <<ready, rescan, waiters, level, history>>

(* ReadyQueue::remove *)
Without(t) == SelectSeq(ready, LAMBDA item : item # t)

(* modify *)
Modify(s, mask, mode) ==
  /\ entries[s] # Vacant /\ AllocateGeneration
  /\ ready' = Without(Token(s))
  /\ entries' = [entries EXCEPT ![s] = Fresh(entries[s].key, mask, mode)]
  /\ ReportArmed(s, entries[s].key)
  /\ UNCHANGED <<rescan, waiters, level, history>>

(* remove *)
Remove(s) ==
  /\ entries[s] # Vacant
  /\ ready' = Without(Token(s))
  /\ entries' = [entries EXCEPT ![s] = Vacant]
  /\ UNCHANGED <<next_generation, rescan, waiters, level, callbacks, history>>

PushFront(e, s) ==
  /\ entries' = [entries EXCEPT ![s] = [e EXCEPT !.queued = TRUE]]
  /\ ready' = <<Token(s)>> \o ready
  /\ UNCHANGED rescan

(* ReadyQueue::push and the queued flag; a full queue asks for a rescan *)
Enqueue(e, s) ==
  IF Len(ready) < Capacity
  THEN /\ entries' = [entries EXCEPT ![s] = [e EXCEPT !.queued = TRUE]]
       /\ ready' = Append(ready, Token(s))
       /\ UNCHANGED rescan
  ELSE entries' = [entries EXCEPT ![s] = e] /\ UNCHANGED ready /\ rescan' = TRUE

Settle(e, s) == entries' = [entries EXCEPT ![s] = e] /\ UNCHANGED <<ready, rescan>>

(* notify puts the bits aside while an event of this interest is in copyout *)
CoalesceInFlight(e) == e.in_delivery # NoWaiter

(* notify is not Ignored and the token is not stale *)
Heard(c) ==
  /\ Current(c.token) /\ entries[c.token.slot].enabled
  /\ Deliverable(c.bits, entries[c.token.slot].mask) # {}

(* notify *)
Notify(c) ==
  LET s == c.token.slot
      e == entries[s]
      bits == Deliverable(c.bits, e.mask) IN
  /\ c \in callbacks /\ callbacks' = callbacks \ {c}
  /\ \/ ~Heard(c) /\ UNCHANGED <<entries, ready, rescan>>
     \/ /\ Heard(c)
        /\ \/ CoalesceInFlight(e) /\ Settle([e EXCEPT !.during = @ \union bits], s)
           \/ ~CoalesceInFlight(e) /\ e.queued /\ Settle([e EXCEPT !.ready = @ \union bits], s)
           \/ ~CoalesceInFlight(e) /\ ~e.queued /\ Enqueue([e EXCEPT !.ready = @ \union bits], s)
  /\ UNCHANGED <<next_generation, waiters, level, history>>

(* prepare_delivery: QueueExact makes the stale-record loop empty *)
PrepareDelivery(w) ==
  /\ waiters[w] = Idle /\ ready # <<>>
  /\ waiters' = [waiters EXCEPT ![w] = [step |-> "prepared", token |-> Head(ready)]]
  /\ UNCHANGED <<core, level, callbacks, history>>

StillCandidateToken(t) == ready # <<>> /\ Current(t)

StillCandidate(t) == ready # <<>> /\ Head(ready) = t /\ Current(t) /\ entries[t.slot].queued

(* commit_delivery: the candidate may have been delivered or replaced meanwhile *)
CommitDelivery(w) ==
  LET t == waiters[w].token IN
  /\ waiters[w].step = "prepared"
  /\ \/ /\ StillCandidate(t)
        /\ ready' = Tail(ready)
        /\ entries' = [entries EXCEPT ![t.slot] =
             [@ EXCEPT !.queued = FALSE, !.in_delivery = w, !.ready = {}]]
        /\ waiters' = [waiters EXCEPT ![w] =
             [step |-> "copying", token |-> t, events |-> entries[t.slot].ready]]
     \/ /\ ~StillCandidate(t)
        /\ waiters' = [waiters EXCEPT ![w] = Idle]
        /\ UNCHANGED <<entries, ready>>
  /\ UNCHANGED <<next_generation, rescan, level, callbacks, history>>

(* The adapter polls the source, before copyout (nothing left: Suppressed) or
   after it (Copied with the level it saw).  The poll and finish_delivery are
   two steps: the source may change in between. *)
Poll(w) ==
  LET e == entries[waiters[w].token.slot]
      seen == IF Current(waiters[w].token) THEN Deliverable(level[e.key], e.mask) ELSE {} IN
  /\ waiters[w].step = "copying"
  /\ \/ /\ seen = {} /\ waiters' = [waiters EXCEPT ![w].step = "suppressed"]
        /\ UNCHANGED history
     \/ /\ waiters' = [waiters EXCEPT ![w] =
             [step |-> "copied", token |-> @.token, events |-> @.events, still |-> seen]]
        /\ unseen' = IF Current(waiters[w].token)
                     THEN [unseen EXCEPT ![e.key] = @ \ waiters[w].events] ELSE unseen
        /\ reported' = IF Current(waiters[w].token) /\ e.mode.one_shot
                       THEN reported \union {waiters[w].token} ELSE reported
  /\ UNCHANGED <<core, level, callbacks>>

(* Copyout faults. *)
CopyFault(w) ==
  /\ waiters[w].step = "copying"
  /\ waiters' = [waiters EXCEPT ![w].step = "fault"]
  /\ UNCHANGED <<core, level, callbacks, history>>

FaultForgets(e, d) == e.during

(* finish_delivery: what the entry is ready for afterwards *)
ReadyAfter(e, d) ==
  e.during \union (IF d.step = "fault" THEN d.events ELSE {})
           \union (IF d.step = "copied" /\ ~e.mode.edge THEN Deliverable(d.still, e.mask) ELSE {})

EnabledAfter(e, d) == e.enabled /\ ~(d.step = "copied" /\ e.mode.one_shot)

OwnsDelivery(e, w) == e.in_delivery = w

(* finish_delivery *)
FinishDelivery(w) ==
  LET d == waiters[w]
      s == d.token.slot
      e == entries[s]
      after == [e EXCEPT !.in_delivery = NoWaiter, !.during = {},
                         !.ready = @ \union ReadyAfter(e, d), !.enabled = EnabledAfter(e, d)] IN
  /\ d.step \in {"suppressed", "copied", "fault"}
  /\ waiters' = [waiters EXCEPT ![w] = Idle]
  /\ \/ ~Current(d.token) /\ UNCHANGED <<entries, ready, rescan>>
     \/ /\ Current(d.token) /\ OwnsDelivery(e, w)
        /\ \/ after.enabled /\ after.ready # {} /\ ~after.queued /\ Enqueue(after, s)
           \/ ~(after.enabled /\ after.ready # {} /\ ~after.queued) /\ Settle(after, s)
  /\ UNCHANGED <<next_generation, level, callbacks, history>>

(* A source becomes ready (or ready again) and calls its registrations back. *)
SourceRises(k, bit) ==
  /\ level' = [level EXCEPT ![k] = @ \union {bit}]
  /\ callbacks' = callbacks \union
       {[token |-> Token(s), bits |-> {bit}] : s \in
          {r \in Slots : entries[r] # Vacant /\ entries[r].key = k}}
  /\ unseen' = [unseen EXCEPT ![k] = @ \union {bit}]
  /\ UNCHANGED <<core, waiters, reported>>

(* A reader drains the source. *)
SourceDrains(k, bit) ==
  /\ bit \in level[k]
  /\ level' = [level EXCEPT ![k] = @ \ {bit}]
  /\ unseen' = [unseen EXCEPT ![k] = @ \ {bit}]
  /\ UNCHANGED <<core, waiters, callbacks, reported>>

WaiterStep(w) ==
  PrepareDelivery(w) \/ CommitDelivery(w) \/ Poll(w) \/ CopyFault(w) \/ FinishDelivery(w)

Next ==
  \/ \E k \in Keys, mask \in Masks, mode \in Modes : Add(k, mask, mode)
  \/ \E s \in Slots, mask \in Masks, mode \in Modes : Modify(s, mask, mode)
  \/ \E s \in Slots : Remove(s)
  \/ \E c \in callbacks : Notify(c)
  \/ \E w \in Waiters : WaiterStep(w)
  \/ \E k \in Keys, bit \in Bits : SourceRises(k, bit) \/ SourceDrains(k, bit)

Spec == Init /\ [][Next]_vars

-----------------------------------------------------------------------------
Tokens == [slot : Slots, generation : 1..(MaxGeneration - 1)]

TypeOK ==
  /\ \A s \in Slots : entries[s] # Vacant =>
       /\ entries[s].generation \in 1..(next_generation - 1) /\ entries[s].key \in Keys
       /\ entries[s].ready \union entries[s].during \subseteq Bits
       /\ entries[s].in_delivery \in Waiters \union {NoWaiter}
  /\ next_generation \in 1..MaxGeneration
  /\ \A i \in 1..Len(ready) : ready[i] \in Tokens
  /\ \A w \in Waiters : waiters[w] # Idle => waiters[w].token \in Tokens
  /\ \A k, l \in Slots : k # l /\ entries[k] # Vacant /\ entries[l] # Vacant =>
       entries[k].key # entries[l].key

(* The ready queue holds each queued interest once and nothing else: no record
   of an interest that EPOLL_CTL_MOD or DEL replaced, none that a one-shot
   delivery disabled, none with nothing to report, none already in copyout. *)
QueueExact ==
  /\ \A i, j \in 1..Len(ready) : i # j => ready[i] # ready[j]
  /\ \A i \in 1..Len(ready) : Current(ready[i]) /\ entries[ready[i].slot].queued
  /\ \A s \in Slots : entries[s] # Vacant /\ entries[s].queued =>
       /\ \E i \in 1..Len(ready) : ready[i] = Token(s)
       /\ entries[s].enabled /\ entries[s].ready # {} /\ entries[s].in_delivery = NoWaiter

(* "Normal operation admits one ready item per interest": the queue never
   overflows, so no wakeup has to be recovered by a rescan. *)
RescanNeverNeeded == ~rescan

(* An event in copyout belongs to exactly one waiter, and only that waiter can
   finish it; a delivery outlived by its interest is refused. *)
DeliveryOwned ==
  /\ \A w \in Waiters :
       waiters[w].step \in {"copying", "copied", "suppressed", "fault"}
         /\ Current(waiters[w].token) =>
           entries[waiters[w].token.slot].in_delivery = w /\ waiters[w].events # {}
  /\ \A s \in Slots : entries[s] # Vacant /\ entries[s].in_delivery # NoWaiter =>
       LET d == waiters[entries[s].in_delivery] IN
       d.step \in {"copying", "copied", "suppressed", "fault"} /\ d.token = Token(s)

CallbackDue(s) ==
  \E c \in callbacks : c.token = Token(s) /\ Deliverable(c.bits, entries[s].mask) # {}

(* The waiter that owns the delivery will put the interest back in the queue,
   or will look at the source before it decides. *)
WaiterWillRequeue(s) ==
  LET d == waiters[entries[s].in_delivery] IN
  \/ entries[s].during # {}
  \/ d.step \in {"copying", "fault"}
  \/ d.step = "copied" /\ (Deliverable(d.still, entries[s].mask) # {} \/ entries[s].mode.one_shot)

(* No lost wakeup: while a level-triggered interest is enabled and its source is
   ready, the interest is queued, or a callback for it is on its way, or the
   waiter holding its event will requeue it, whatever drains, callbacks, faults
   and suppressed deliveries race with the copyout. *)
LevelNotLost ==
  \A s \in Slots :
    LET e == entries[s] IN
    (e # Vacant /\ e.enabled /\ ~e.mode.edge /\ Deliverable(level[e.key], e.mask) # {}) =>
      e.queued \/ CallbackDue(s) \/ (e.in_delivery # NoWaiter /\ WaiterWillRequeue(s))

(* Readiness recorded for an enabled interest is always on its way out: nothing
   sits in an entry that is neither queued nor in copyout. *)
ReadinessScheduled ==
  \A s \in Slots : entries[s] # Vacant /\ entries[s].enabled =>
    /\ entries[s].ready # {} => entries[s].queued
    /\ entries[s].during # {} => entries[s].in_delivery # NoWaiter

(* A rise of the source reaches userspace: until the bit is copied out or the
   source drained, an enabled interest holds it in its ready bits, in the bits
   put aside during a copyout, in the event being copied, or in a callback on
   its way.  A faulted copyout gives its bits back. *)
RiseNotLost ==
  \A s \in Slots :
    LET e == entries[s]
        copying == IF e.in_delivery = NoWaiter THEN {} ELSE waiters[e.in_delivery].events
        coming == UNION {c.bits : c \in {d \in callbacks : d.token = Token(s)}} IN
    e # Vacant /\ e.enabled =>
      Deliverable(unseen[e.key], e.mask) \subseteq e.ready \union e.during \union copying \union coming

(* A one-shot interest is reported once: after its event was copied out no
   event of that generation is taken for copyout again, although callbacks keep
   arriving; only EPOLL_CTL_MOD rearms it. *)
OneShotOnce ==
  \A w \in Waiters :
    waiters[w].step = "copying" /\ Current(waiters[w].token) => waiters[w].token \notin reported

(* The interest of token t waits in the ready queue. *)
Queued(t) == Current(t) /\ entries[t.slot] # Vacant /\ entries[t.slot].queued
=============================================================================
