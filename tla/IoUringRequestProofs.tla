------------------------ MODULE IoUringRequestProofs ------------------------
(***************************************************************************)
(* OneTerminalOwner, RingInv, UnreadIntact and CancelTakesOldest of        *)
(* IoUringRequest, for any table, any completion queue whose length divides*)
(* the counter modulus, any user data and bounds on generations and        *)
(* sequence numbers.                                                       *)
(*                                                                         *)
(* OneTerminalOwner counts the tokens of an occupied slot.  Inductively,   *)
(* that is three facts: every linear token meets the state it was handed   *)
(* out in (so its generation is current), no two are for the same request, *)
(* and a request past Issued, or only reserved, has one.                   *)
(*                                                                         *)
(* The books add the wrap-around arithmetic: a head that moves towards the *)
(* tail shortens the unread completions by what it passes (Distance), and  *)
(* the slot at the tail is none of an unread completion's (AheadSlot).     *)
(*                                                                         *)
(* CancelTakesOldest adds that admission numbers tell the requests of the  *)
(* table apart (Sequenced), and what the loop of claim_cancel returns      *)
(* (ScanBest).                                                             *)
(***************************************************************************)
EXTENDS IoUringRequest, FiniteSetTheorems, SequenceTheorems, TLAPS

Kinds == Linear \cup {"prepared"}
IdSpace == [slot : Slots, generation : Nat]
Unowned == {"empty", "Prepared", "Issued"}

(* A RequestEntry has a state, and a completion from finish_terminal on. *)
Shaped(e) ==
  /\ "state" \in DOMAIN e
  /\ e.state \in {"CompletionPending", "Publishing"} => "completion" \in DOMAIN e

Typed ==
  /\ DOMAIN entries = Slots /\ \A s \in Slots : Shaped(entries[s])
  /\ generation \in [Slots -> Nat]
  /\ free_slots \in Seq(Slots)
  /\ \A t \in tokens : {"kind", "id"} \subseteq DOMAIN t /\ t.kind \in Kinds /\ t.id \in IdSpace

AllBacked == \A t \in tokens : Backed(t)

Exclusive ==
  \A t, u \in tokens : t.kind \in Linear /\ u.kind \in Linear /\ t.id = u.id => t = u

Owned ==
  \A s \in Slots : entries[s].state \notin Unowned =>
    \E t \in tokens : t.kind \in Linear /\ t.id = Current(s)

IInv == Typed /\ AllBacked /\ Exclusive /\ Owned

(* The state a linear token is handed out in *)
Mark(kind) ==
  CASE kind = "reservation" -> "Reserved"
    [] kind = "permit" -> "TerminalClaimed"
    [] kind = "completion" -> "CompletionPending"
    [] kind = "publication" -> "Publishing"

-----------------------------------------------------------------------------
(* A linear token names the current generation of its slot, in its state. *)
LEMMA LinearCurrent ==
  ASSUME IInv, NEW t \in tokens, t.kind \in Linear
  PROVE  /\ t.id.slot \in Slots /\ t.id = Current(t.id.slot)
         /\ entries[t.id.slot].state = Mark(t.kind)
<1>1. t.id \in IdSpace /\ Backed(t)
  BY Zenon DEF IInv, Typed, AllBacked
<1>2. State(t.id) = Mark(t.kind)
  BY <1>1, Zenon DEF Backed, Mark, Linear, PublicationCurrent
<1>3. Mark(t.kind) # "empty"
  BY Zenon DEF Mark, Linear
<1>4. generation[t.id.slot] = t.id.generation /\ State(t.id) = entries[t.id.slot].state
  BY <1>2, <1>3, Zenon DEF State, Entry, NoEntry
<1> QED
  BY <1>1, <1>2, <1>4, Zenon DEF IdSpace, Current

(* A request in a state that is not empty is the current one of its slot. *)
LEMMA StateCurrent ==
  ASSUME IInv, NEW id \in IdSpace, State(id) # "empty"
  PROVE  id.slot \in Slots /\ id = Current(id.slot) /\ Entry(id) = entries[id.slot]
BY Zenon DEF State, Entry, NoEntry, IdSpace, Current

(* A step that changes one slot, its generation perhaps, and leaves it with
   the token t or with none. *)
HandsTo(s, e, t) ==
  /\ entries' = [entries EXCEPT ![s] = e] /\ Shaped(e)
  /\ generation' \in [Slots -> Nat]
  /\ \A u \in Slots : u # s => generation'[u] = generation[u]
  /\ free_slots' \in Seq(Slots)
  /\ \A u \in tokens' : u \in tokens \/ u = t
  /\ t \in tokens' => /\ {"kind", "id"} \subseteq DOMAIN t /\ t.kind \in Kinds
                       /\ t.id \in IdSpace /\ t.id.slot = s /\ Backed(t)'
  /\ \A u \in tokens : u.kind \in Linear /\ u.id.slot # s => u \in tokens'
  /\ \A u \in tokens' : u.kind \in Linear /\ u.id.slot = s => u = t
  /\ e.state \in Unowned \/ (t \in tokens' /\ t.kind \in Linear /\ t.id = Current(s)')
  /\ \A u \in tokens' : u # t /\ u.kind = "publication" =>
       publication_in_flight' = publication_in_flight /\ cq_tail' = cq_tail

(* Such a step preserves the invariant. *)
LEMMA Hands ==
  ASSUME IInv, NEW s \in Slots, NEW e, NEW t, HandsTo(s, e, t)
  PROVE  IInv'
<1> USE DEF HandsTo
<1>2. entries'[s] = e /\ \A u \in Slots : u # s => entries'[u] = entries[u]
  BY Zenon DEF IInv, Typed
<1>1. Typed'
  <2>1. DOMAIN entries' = Slots /\ \A u \in Slots : Shaped(entries'[u])
    BY <1>2, Zenon DEF IInv, Typed
  <2> QED BY <2>1, Zenon DEF IInv, Typed
<1>3. AllBacked'
  <2> SUFFICES ASSUME NEW u \in tokens' PROVE Backed(u)'
    BY Zenon DEF AllBacked
  <2>1. CASE u = t
    BY <2>1, Zenon
  <2>2. CASE u # t /\ u.kind \notin Linear
    BY <2>2, Zenon DEF Backed, Linear
  <2>3. CASE u # t /\ u.kind \in Linear
    <3>1. u \in tokens /\ u.id.slot # s /\ u.id.slot \in Slots
      BY <2>3, LinearCurrent, Zenon
    <3>2. Entry(u.id)' = Entry(u.id)
      BY <3>1, <1>2, ZenonT(30) DEF Entry
    <3>3. Backed(u)
      BY <3>1, Zenon DEF IInv, AllBacked
    <3>4. CASE u.kind = "publication"
      <4>1. publication_in_flight' = publication_in_flight /\ cq_tail' = cq_tail
        BY <2>3, <3>4, Zenon
      <4> QED BY <4>1, <3>2, <3>3, <3>4, Zenon DEF Backed, PublicationCurrent, State
    <3>5. CASE u.kind # "publication"
      BY <3>2, <3>3, <3>5, Zenon DEF Backed, State
    <3> QED BY <3>4, <3>5, Zenon
  <2> QED BY <2>1, <2>2, <2>3, Zenon
<1>4. Exclusive'
  <2> SUFFICES ASSUME NEW u \in tokens', NEW v \in tokens', u.kind \in Linear, v.kind \in Linear,
                      u.id = v.id
               PROVE  u = v
    BY Zenon DEF Exclusive
  <2>1. CASE u.id.slot = s
    BY <2>1, Zenon
  <2>2. CASE u.id.slot # s
    <3>1. u \in tokens /\ v \in tokens
      BY <2>2, Zenon
    <3> QED BY <3>1, Zenon DEF IInv, Exclusive
  <2> QED BY <2>1, <2>2, Zenon
<1>5. Owned'
  <2> SUFFICES ASSUME NEW u \in Slots, entries'[u].state \notin Unowned
               PROVE  \E v \in tokens' : v.kind \in Linear /\ v.id = Current(u)'
    BY Zenon DEF Owned
  <2>1. CASE u = s
    BY <2>1, <1>2, Zenon
  <2>2. CASE u # s
    <3>1. PICK v \in tokens : v.kind \in Linear /\ v.id = Current(u)
      BY <2>2, <1>2, Zenon DEF IInv, Owned
    <3>2. v.id.slot = u /\ Current(u)' = Current(u)
      BY <3>1, <2>2 DEF Current
    <3> QED BY <3>1, <3>2, <2>2, Zenon
  <2> QED BY <2>1, <2>2, Zenon
<1> QED
  BY <1>1, <1>3, <1>4, <1>5, Zenon DEF IInv

(* A step that leaves slots and linear tokens alone. *)
LEMMA Quiet ==
  ASSUME IInv, entries' = entries, generation' = generation, free_slots' = free_slots,
         publication_in_flight' = publication_in_flight, cq_tail' = cq_tail,
         tokens' \subseteq tokens, \A t \in tokens : t.kind \in Linear => t \in tokens'
  PROVE  IInv'
<1>1. Typed' /\ Exclusive'
  BY Zenon DEF IInv, Typed, Exclusive
<1>2. AllBacked'
  BY ZenonT(30) DEF IInv, AllBacked, Backed, PublicationCurrent, State, Entry
<1>3. Owned'
  BY Zenon DEF IInv, Owned, Current
<1> QED
  BY <1>1, <1>2, <1>3, Zenon DEF IInv

(* The holder of a linear token is the only one for its request. *)
LEMMA OnlyToken ==
  ASSUME IInv, NEW t \in tokens, t.kind \in Linear, NEW u \in tokens, u.kind \in Linear,
         u.id.slot = t.id.slot
  PROVE  u = t
BY LinearCurrent, Zenon DEF IInv, Exclusive

(* A request that is prepared or issued has no linear token. *)
LEMMA NoToken ==
  ASSUME IInv, NEW s \in Slots, entries[s].state \in Unowned, NEW u \in tokens, u.kind \in Linear
  PROVE  u.id.slot # s
BY LinearCurrent, Zenon DEF Mark, Linear, Unowned

-----------------------------------------------------------------------------
(* reserve: the slot is free, so nobody holds a token for it. *)
LEMMA ReserveStep ==
  ASSUME IInv, NEW d \in Descriptors, Reserve(d) PROVE IInv'
<1>1. free_slots \in Seq(Slots) /\ free_slots # <<>>
  BY Zenon DEF Reserve, Reservable, IInv, Typed
<1>2. free_slots[Len(free_slots)] \in Slots /\ free_slots' \in Seq(Slots)
  <2>1. Len(free_slots) \in Nat /\ Len(free_slots) # 0
    BY <1>1
  <2>2. \A i \in 1..Len(free_slots) - 1 : free_slots[i] \in Slots
    BY <1>1, <2>1
  <2>3. SubSeq(free_slots, 1, Len(free_slots) - 1) \in Seq(Slots)
    BY <2>1, <2>2, SubSeqProperties
  <2> QED BY <1>1, <2>1, <2>3 DEF Reserve
<1>a. PICK s \in Slots : s = free_slots[Len(free_slots)]
  BY <1>2, Zenon
<1>b. PICK e : e = [state |-> "Reserved", descriptor |-> d, sequence |-> next_sequence]
  BY ZenonT(30)
<1>c. PICK t : t = [kind |-> "reservation", id |-> [slot |-> s, generation |-> generation[s]]]
  BY ZenonT(30)
<1>3. /\ s = free_slots[Len(free_slots)]
      /\ e = [state |-> "Reserved", descriptor |-> d, sequence |-> next_sequence]
      /\ t = [kind |-> "reservation", id |-> [slot |-> s, generation |-> generation[s]]]
      /\ {"kind", "id"} \subseteq DOMAIN t /\ Shaped(e)
  BY <1>a, <1>b, <1>c, Zenon DEF Shaped
<1>4. /\ entries' = [entries EXCEPT ![s] = e] /\ entries[s].state = "empty"
      /\ generation' = generation /\ tokens' = tokens \cup {t}
      /\ publication_in_flight' = publication_in_flight /\ cq_tail' = cq_tail
  BY <1>3 DEF Reserve, SetState, NoEntry, cqVars
<1>5. /\ t.kind \in Kinds /\ t.kind \in Linear
      /\ t.id \in IdSpace /\ t.id.slot = s /\ t.id = Current(s)'
  BY <1>3, <1>4, Zenon DEF Kinds, Linear, IdSpace, IInv, Typed, Current
<1>6. Backed(t)'
  BY <1>3, <1>4, Zenon DEF Backed, State, Entry, IInv, Typed
<1>7. \A u \in tokens : u.kind \in Linear => u.id.slot # s
  BY <1>4, NoToken, Zenon DEF Unowned
<1>8. generation' \in [Slots -> Nat]
  BY <1>4, Zenon DEF IInv, Typed
<1>9. HandsTo(s, e, t)
  BY <1>2, <1>3, <1>4, <1>5, <1>6, <1>7, <1>8, Zenon DEF HandsTo
<1> QED
  BY <1>9, Hands, Zenon

(* rollback, commit_publication, discard_completion: clear_slot consumes the
   token of the slot with it. *)
LEMMA ClearStep ==
  ASSUME IInv, NEW t \in tokens, t.kind \in Linear, ClearSlot(t.id), tokens' = tokens \ {t},
         \/ t.kind = "publication"
         \/ (publication_in_flight' = publication_in_flight /\ cq_tail' = cq_tail)
  PROVE  IInv'
<1>1. PICK s \in Slots : s = t.id.slot /\ t.id = Current(s) /\ t.id \in IdSpace
  BY LinearCurrent, Zenon DEF IInv, Typed
<1>2. /\ entries' = [entries EXCEPT ![s] = NoEntry]
      /\ generation' = [generation EXCEPT ![s] = t.id.generation + 1]
  BY <1>1, Zenon DEF ClearSlot
<1>3. free_slots' \in Seq(Slots)
  BY <1>1 DEF ClearSlot, IInv, Typed
<1>4. generation' \in [Slots -> Nat] /\ \A u \in Slots : u # s => generation'[u] = generation[u]
  <2>1. t.id.generation + 1 \in Nat
    BY <1>1 DEF IdSpace
  <2> QED BY <2>1, <1>2, Zenon DEF IInv, Typed
<1>5. \A u \in tokens' : u.kind \in Linear => u.id.slot # s
  BY <1>1, OnlyToken, ZenonT(30)
<1>6. \A u \in tokens' : u.kind = "publication" =>
        publication_in_flight' = publication_in_flight /\ cq_tail' = cq_tail
  <2> SUFFICES ASSUME NEW u \in tokens', u.kind = "publication", t.kind = "publication" PROVE FALSE
    BY Zenon
  <2>1. u \in tokens /\ u.id = publication_in_flight /\ t.id = publication_in_flight
    BY Zenon DEF IInv, AllBacked, Backed, PublicationCurrent
  <2> QED BY <2>1, Zenon DEF IInv, Exclusive, Linear
<1>7. NoEntry.state \in Unowned /\ Shaped(NoEntry)
  BY Zenon DEF NoEntry, Unowned, Shaped
<1>8. HandsTo(s, NoEntry, t)
  <2>1. \A u \in tokens : u.kind \in Linear /\ u.id.slot # s => u \in tokens'
    BY <1>1, ZenonT(30)
  <2>2. t \notin tokens' /\ \A u \in tokens' : u \in tokens
    BY Zenon
  <2> QED BY <1>2, <1>3, <1>4, <1>5, <1>6, <1>7, <2>1, <2>2, Zenon DEF HandsTo
<1> QED
  BY <1>8, Hands, Zenon

(* commit, finish_terminal, publish, rollback_publication: the holder of one
   token gets another, for the state the request is then in. *)
LEMMA ExchangeStep ==
  ASSUME IInv, NEW t \in tokens, t.kind \in Linear, NEW e, NEW new,
         entries' = [entries EXCEPT ![t.id.slot] = e], generation' = generation,
         free_slots' = free_slots, tokens' = (tokens \ {t}) \cup {new},
         Shaped(e), {"kind", "id"} \subseteq DOMAIN new, new.kind \in Kinds, new.id = t.id,
         Backed(new)', new.kind \in Linear \/ e.state \in Unowned, cq_tail' = cq_tail,
         \/ publication_in_flight' = publication_in_flight
         \/ publication_in_flight = NoId \/ publication_in_flight = t.id
  PROVE  IInv'
<1>1. PICK s \in Slots : s = t.id.slot /\ t.id = Current(s) /\ t.id \in IdSpace
  BY LinearCurrent, Zenon DEF IInv, Typed
<1>2. t.id = Current(s)' /\ generation' \in [Slots -> Nat] /\ free_slots' \in Seq(Slots)
  BY <1>1, Zenon DEF Current, IInv, Typed
<1>3. \A u \in tokens' : u.kind \in Linear /\ u.id.slot = s => u = new
  BY <1>1, OnlyToken, ZenonT(30)
<1>4. ASSUME NEW u \in tokens', u # new, u.kind = "publication"
      PROVE  publication_in_flight' = publication_in_flight
  <2>1. u \in tokens /\ u # t /\ u.kind \in Linear
    BY <1>4, Zenon DEF Linear
  <2>2. u.id = publication_in_flight /\ u.id \in IdSpace
    BY <2>1, <1>4, Zenon DEF IInv, Typed, AllBacked, Backed, PublicationCurrent
  <2>3. publication_in_flight # NoId
    BY <2>2 DEF IdSpace, NoId, NoSlot, Slots
  <2>4. publication_in_flight # t.id
    BY <2>1, <2>2, Zenon DEF IInv, Exclusive
  <2> QED BY <2>3, <2>4, Zenon
<1>5. HandsTo(s, e, new)
  <2>1. \A u \in tokens : u.kind \in Linear /\ u.id.slot # s => u \in tokens'
    BY <1>1, ZenonT(30)
  <2>2. new \in tokens' /\ \A u \in tokens' : u \in tokens \/ u = new
    BY Zenon
  <2>3. /\ entries' = [entries EXCEPT ![s] = e]
        /\ \A u \in Slots : u # s => generation'[u] = generation[u]
    BY <1>1, Zenon
  <2>4. new.id \in IdSpace /\ new.id.slot = s /\ new.id = Current(s)'
    BY <1>1, <1>2, Zenon
  <2> QED BY <1>2, <1>3, <1>4, <2>1, <2>2, <2>3, <2>4, Zenon DEF HandsTo
<1> QED
  BY <1>5, Hands, Zenon

(* A current request is stored in its slot. *)
LEMMA EntryShaped ==
  ASSUME IInv, NEW id \in IdSpace, State(id) # "empty"
  PROVE  /\ "state" \in DOMAIN Entry(id) /\ Entry(id) = entries[id.slot] /\ id.slot \in Slots
         /\ State(id) \in {"CompletionPending", "Publishing"} => "completion" \in DOMAIN Entry(id)
         /\ \A x : /\ [Entry(id) EXCEPT !.state = x].state = x
                  /\ "state" \in DOMAIN [Entry(id) EXCEPT !.state = x]
BY StateCurrent, Zenon DEF IInv, Typed, Shaped, State

(* What the registry finds after it stored e for the request id. *)
LEMMA Stored ==
  ASSUME IInv, NEW id \in IdSpace, State(id) # "empty", NEW e,
         entries' = [entries EXCEPT ![id.slot] = e], generation' = generation
  PROVE  Entry(id)' = e /\ State(id)' = e.state
BY StateCurrent, Zenon DEF IInv, Typed, Entry, State, Current

(* commit *)
LEMMA CommitStep ==
  ASSUME IInv, NEW t \in tokens, Commit(t) PROVE IInv'
<1>1. PICK e : e = [Entry(t.id) EXCEPT !.state = "Prepared"]
  BY ZenonT(30)
<1>2. PICK new : new = [t EXCEPT !.kind = "prepared"]
  BY ZenonT(30)
<1>3. t.id \in IdSpace /\ {"kind", "id"} \subseteq DOMAIN t
  BY Zenon DEF IInv, Typed
<1>4. e.state = "Prepared" /\ Shaped(e)
  BY <1>1, <1>3, EntryShaped, Zenon DEF Commit, Shaped
<1>5. new.kind = "prepared" /\ new.id = t.id /\ {"kind", "id"} \subseteq DOMAIN new
  BY <1>2, <1>3, Zenon
<1>6. Backed(new)'
  BY <1>5, Zenon DEF Backed
<1>7. t.kind \in Linear /\ new.kind \in Kinds /\ e.state \in Unowned
  BY <1>4, <1>5, Zenon DEF Commit, Linear, Kinds, Unowned
<1>8. /\ entries' = [entries EXCEPT ![t.id.slot] = e] /\ generation' = generation
      /\ free_slots' = free_slots /\ tokens' = (tokens \ {t}) \cup {new}
      /\ cq_tail' = cq_tail /\ publication_in_flight' = publication_in_flight
  BY <1>1, <1>2, Zenon DEF Commit, SetState, cqVars
<1> QED
  BY <1>4, <1>5, <1>6, <1>7, <1>8, ExchangeStep, ZenonT(30)

(* finish_terminal *)
LEMMA FinishStep ==
  ASSUME IInv, NEW t \in tokens, FinishTerminal(t) PROVE IInv'
<1>1. PICK e : e = [state |-> "CompletionPending", descriptor |-> Entry(t.id).descriptor,
                    sequence |-> Entry(t.id).sequence,
                    completion |-> [user_data |-> Entry(t.id).descriptor.user_data,
                                    result |-> t.cause]]
  BY ZenonT(30)
<1>2. PICK new : new = [kind |-> "completion", id |-> t.id]
  BY ZenonT(30)
<1>3. t.id \in IdSpace /\ State(t.id) # "empty"
  BY Zenon DEF IInv, Typed, FinishTerminal
<1>4. e.state = "CompletionPending" /\ Shaped(e)
  BY <1>1, Zenon DEF Shaped
<1>5. new.kind = "completion" /\ new.id = t.id /\ {"kind", "id"} \subseteq DOMAIN new
  BY <1>2, Zenon
<1>7. t.kind \in Linear /\ new.kind \in Kinds /\ new.kind \in Linear
  BY <1>5, Zenon DEF FinishTerminal, Linear, Kinds
<1>8. /\ entries' = [entries EXCEPT ![t.id.slot] = e] /\ generation' = generation
      /\ free_slots' = free_slots /\ tokens' = (tokens \ {t}) \cup {new}
      /\ cq_tail' = cq_tail /\ publication_in_flight' = publication_in_flight
  BY <1>1, <1>2, Zenon DEF FinishTerminal, SetState, cqVars
<1>6. Backed(new)'
  BY <1>3, <1>4, <1>5, <1>8, Stored, ZenonT(30) DEF Backed
<1> QED
  BY <1>4, <1>5, <1>6, <1>7, <1>8, ExchangeStep, ZenonT(30)

(* publish: no other publication is in flight *)
LEMMA PublishStep ==
  ASSUME IInv, NEW t \in tokens, Publish(t) PROVE IInv'
<1>0. PICK c, p, n : /\ c = Entry(t.id).completion
                     /\ p = SlotOf(cq_tail) /\ n = (cq_tail + 1) % Modulus
  BY Zenon
<1>1. PICK e : e = [Entry(t.id) EXCEPT !.state = "Publishing"]
  BY ZenonT(30)
<1>2. PICK new : new = [kind |-> "publication", id |-> t.id, completion |-> c, slot |-> p,
                        new_tail |-> n]
  BY ZenonT(30)
<1>3. t.id \in IdSpace /\ State(t.id) = "CompletionPending"
  BY Zenon DEF IInv, Typed, Publish
<1>4. e.state = "Publishing" /\ "completion" \in DOMAIN e /\ e.completion = c /\ Shaped(e)
  BY <1>0, <1>1, <1>3, EntryShaped, Zenon DEF Shaped
<1>5. /\ new.kind = "publication" /\ new.id = t.id /\ {"kind", "id"} \subseteq DOMAIN new
      /\ new.completion = c /\ new.slot = p /\ new.new_tail = n
  BY <1>2, Zenon
<1>7. t.kind \in Linear /\ new.kind \in Kinds /\ new.kind \in Linear
  BY <1>5, Zenon DEF Publish, Linear, Kinds
<1>8. /\ entries' = [entries EXCEPT ![t.id.slot] = e] /\ generation' = generation
      /\ free_slots' = free_slots /\ tokens' = (tokens \ {t}) \cup {new}
      /\ cq_tail' = cq_tail /\ publication_in_flight = NoId /\ publication_in_flight' = t.id
  BY <1>0, <1>1, <1>2, Zenon DEF Publish, Publishable, SetState
<1>6. Backed(new)'
  <2>1. Entry(t.id)' = e /\ State(t.id)' = "Publishing"
    BY <1>3, <1>4, <1>8, Stored, ZenonT(30)
  <2>2. p = SlotOf(cq_tail') /\ n = (cq_tail' + 1) % Modulus
    BY <1>0, <1>8, Zenon
  <2> QED BY <2>1, <2>2, <1>4, <1>5, <1>8, Zenon DEF Backed, PublicationCurrent, SlotOf
<1> QED
  BY <1>4, <1>5, <1>6, <1>7, <1>8, ExchangeStep, ZenonT(30)

(* rollback_publication *)
LEMMA RollbackPublicationStep ==
  ASSUME IInv, NEW t \in tokens, RollbackPublication(t) PROVE IInv'
<1>1. PICK e : e = [Entry(t.id) EXCEPT !.state = "CompletionPending"]
  BY ZenonT(30)
<1>2. PICK new : new = [kind |-> "completion", id |-> t.id]
  BY ZenonT(30)
<1>3. t.id \in IdSpace /\ State(t.id) = "Publishing" /\ publication_in_flight = t.id
  BY Zenon DEF IInv, Typed, RollbackPublication, PublicationCurrent
<1>4. e.state = "CompletionPending" /\ Shaped(e)
  BY <1>1, <1>3, EntryShaped, Zenon DEF Shaped
<1>5. new.kind = "completion" /\ new.id = t.id /\ {"kind", "id"} \subseteq DOMAIN new
  BY <1>2, Zenon
<1>7. t.kind \in Linear /\ new.kind \in Kinds /\ new.kind \in Linear
  BY <1>5, Zenon DEF RollbackPublication, Linear, Kinds
<1>8. /\ entries' = [entries EXCEPT ![t.id.slot] = e] /\ generation' = generation
      /\ free_slots' = free_slots /\ tokens' = (tokens \ {t}) \cup {new} /\ cq_tail' = cq_tail
  BY <1>1, <1>2, Zenon DEF RollbackPublication, SetState, cqVars
<1>6. Backed(new)'
  BY <1>3, <1>4, <1>5, <1>8, Stored, ZenonT(30) DEF Backed
<1> QED
  BY <1>3, <1>4, <1>5, <1>6, <1>7, <1>8, ExchangeStep, ZenonT(30)

(* issue: the request has no linear token before or after; a refused hand-off
   touches no slot. *)
LEMMA IssueStep ==
  ASSUME IInv, NEW t \in tokens, Issue(t) PROVE IInv'
<1>1. t.kind = "prepared" /\ t.kind \notin Linear /\ t.id \in IdSpace
  BY Zenon DEF Issue, Linear, IInv, Typed
<1>2. /\ tokens' = tokens \ {t} /\ generation' = generation /\ free_slots' = free_slots
      /\ publication_in_flight' = publication_in_flight /\ cq_tail' = cq_tail
  BY Zenon DEF Issue, cqVars
<1>3. CASE entries' = entries
  BY <1>1, <1>2, <1>3, Quiet, Zenon
<1>4. CASE State(t.id) = "Prepared" /\ SetState(t.id, [Entry(t.id) EXCEPT !.state = "Issued"])
  <2>1. PICK e : e = [Entry(t.id) EXCEPT !.state = "Issued"]
    BY ZenonT(30)
  <2>2. PICK s \in Slots : s = t.id.slot /\ entries[s].state = "Prepared"
    BY <1>1, <1>4, StateCurrent, Zenon DEF State
  <2>3. e.state = "Issued" /\ Shaped(e) /\ e.state \in Unowned
    BY <1>1, <1>4, <2>1, EntryShaped, Zenon DEF Shaped, Unowned
  <2>4. entries' = [entries EXCEPT ![s] = e]
    BY <1>4, <2>1, <2>2, Zenon DEF SetState
  <2>5. \A u \in tokens : u.kind \in Linear => u.id.slot # s
    BY <2>2, NoToken, Zenon DEF Unowned
  <2>6. generation' \in [Slots -> Nat] /\ free_slots' \in Seq(Slots)
    BY <1>2, Zenon DEF IInv, Typed
  <2>7. t \notin tokens' /\ (\A u \in tokens' : u \in tokens)
        /\ \A u \in tokens : u.kind \in Linear => u \in tokens'
    BY <1>1, <1>2, Zenon
  <2>8. HandsTo(s, e, t)
    BY <1>2, <2>3, <2>4, <2>5, <2>6, <2>7, Zenon DEF HandsTo
  <2> QED BY <2>8, Hands, Zenon
<1> QED
  BY <1>3, <1>4, Zenon DEF Issue

(* claim_terminal and claim_cancel: whoever wins takes a request that is
   prepared or issued, which no token owns. *)
LEMMA ClaimStep ==
  ASSUME IInv, NEW id \in IdSpace, NEW cause, Claim(id, cause) PROVE IInv'
<1>1. State(id) \in {"Prepared", "Issued"}
  BY Zenon DEF Claim, Claimable
<1>2. PICK s \in Slots : s = id.slot /\ id = Current(s) /\ entries[s].state \in Unowned
  BY <1>1, StateCurrent, Zenon DEF State, Unowned
<1>3. PICK e : e = [Entry(id) EXCEPT !.state = "TerminalClaimed"]
  BY ZenonT(30)
<1>4. PICK t : t = [kind |-> "permit", id |-> id, cause |-> cause]
  BY ZenonT(30)
<1>5. e.state = "TerminalClaimed" /\ Shaped(e)
  BY <1>1, <1>3, EntryShaped, Zenon DEF Shaped
<1>6. /\ entries' = [entries EXCEPT ![s] = e] /\ generation' = generation
      /\ free_slots' = free_slots /\ tokens' = tokens \cup {t}
      /\ publication_in_flight' = publication_in_flight /\ cq_tail' = cq_tail
  BY <1>2, <1>3, <1>4, Zenon DEF Claim, SetState, cqVars
<1>7. /\ t.kind = "permit" /\ t.id = id /\ {"kind", "id"} \subseteq DOMAIN t
      /\ t.kind \in Kinds /\ t.kind \in Linear
  BY <1>4, Zenon DEF Kinds, Linear
<1>8. State(id)' = "TerminalClaimed" /\ id = Current(s)'
  BY <1>1, <1>2, <1>5, <1>6, Stored, ZenonT(30) DEF Current
<1>9. Backed(t)'
  BY <1>7, <1>8, Zenon DEF Backed
<1>10. \A u \in tokens : u.kind \in Linear => u.id.slot # s
  BY <1>2, NoToken, Zenon
<1>11. generation' \in [Slots -> Nat] /\ free_slots' \in Seq(Slots)
  BY <1>6, Zenon DEF IInv, Typed
<1>12. HandsTo(s, e, t)
  BY <1>2, <1>5, <1>6, <1>7, <1>8, <1>9, <1>10, <1>11, ZenonT(30) DEF HandsTo
<1> QED
  BY <1>12, Hands, Zenon

(* The holder of a token uses it. *)
LEMMA HolderStep ==
  ASSUME IInv, NEW t \in tokens, Holder(t) PROVE IInv'
<1>1. CASE Rollback(t)
  <2>1. t.kind \in Linear /\ ClearSlot(t.id) /\ tokens' = tokens \ {t}
        /\ publication_in_flight' = publication_in_flight /\ cq_tail' = cq_tail
    BY <1>1, Zenon DEF Rollback, Linear, cqVars
  <2> QED BY <2>1, ClearStep, Zenon
<1>2. CASE CommitPublication(t)
  <2>1. t.kind = "publication" /\ t.kind \in Linear /\ ClearSlot(t.id) /\ tokens' = tokens \ {t}
    BY <1>2, Zenon DEF CommitPublication, Linear
  <2> QED BY <2>1, ClearStep, Zenon
<1>3. CASE DiscardCompletion(t)
  <2>1. t.kind \in Linear /\ ClearSlot(t.id) /\ tokens' = tokens \ {t}
        /\ publication_in_flight' = publication_in_flight /\ cq_tail' = cq_tail
    BY <1>3, Zenon DEF DiscardCompletion, Linear, cqVars
  <2> QED BY <2>1, ClearStep, Zenon
<1> QED
  BY <1>1, <1>2, <1>3, CommitStep, IssueStep, FinishStep, PublishStep, RollbackPublicationStep, Zenon
     DEF Holder

-----------------------------------------------------------------------------
(* The scan of claim_cancel.  Its loop is a recursive function; that the
   function exists, and what it returns, both follow from there being no least
   number of slots for which they fail. *)

(* A set of naturals that is not empty has a least element. *)
LEMMA LeastOf ==
  ASSUME NEW S, S \subseteq Nat, S # {}
  PROVE  \E x \in S : \A y \in S : x <= y
<1>1. PICK x \in S : \A y \in S : <<y, x>> \notin OpToRel(<, Nat)
  BY NatLessThanWellFounded, WFMin, ZenonT(30)
<1>2. \A y \in S : ~ (y < x)
  BY <1>1, ZenonT(30) DEF OpToRel
<1> QED BY <1>2

(* One round of the loop, from the candidates c of the rounds before. *)
Round(c, n, ud, exclude) ==
  IF n = 0 THEN NoSlot
  ELSE IF Selected(n - 1, ud, exclude) /\ Replaces(n - 1, c[n - 1]) THEN n - 1 ELSE c[n - 1]

IsScan(c, n, ud, exclude) == c = [k \in 0..n |-> Round(c, k, ud, exclude)]

(* The loop computes a candidate for every number of slots. *)
LEMMA ScanExists ==
  ASSUME NEW n \in Nat, NEW ud, NEW exclude
  PROVE  \E c : IsScan(c, n, ud, exclude)
<1> DEFINE Good(k) == \E c : IsScan(c, k, ud, exclude)
           Bad == {k \in Nat : ~ Good(k)}
<1>1. Good(0)
  <2> DEFINE c == [k \in 0..0 |-> NoSlot]
  <2>1. \A k \in 0..0 : Round(c, k, ud, exclude) = NoSlot
    BY DEF Round
  <2>2. IsScan(c, 0, ud, exclude)
    BY <2>1, Zenon DEF IsScan
  <2> QED BY <2>2, Zenon
<1>2. ASSUME NEW k \in Nat \ {0}, Good(k - 1) PROVE Good(k)
  <2>1. PICK v : IsScan(v, k - 1, ud, exclude)
    BY <1>2, Zenon
  <2> DEFINE c == [j \in 0..k |-> Round(v, j, ud, exclude)]
  <2>2. \A j \in 0..(k - 1) : j \in 0..k
    OBVIOUS
  <2>3. \A j \in 0..(k - 1) : v[j] = c[j]
    BY <2>1, <2>2, Zenon DEF IsScan
  <2> HIDE DEF c
  <2>4. ASSUME NEW j \in 0..k PROVE Round(v, j, ud, exclude) = Round(c, j, ud, exclude)
    <3>1. j # 0 => j - 1 \in 0..(k - 1)
      OBVIOUS
    <3> QED BY <2>3, <3>1, Zenon DEF Round
  <2>5. c = [j \in 0..k |-> Round(c, j, ud, exclude)]
    BY <2>4, Zenon DEF c
  <2> QED BY <2>5, Zenon DEF IsScan
<1> HIDE DEF Good
<1>3. Bad = {}
  <2> SUFFICES ASSUME Bad # {} PROVE FALSE
    BY Zenon
  <2>1. Bad \subseteq Nat
    BY Zenon
  <2>2. PICK k \in Bad : \A j \in Bad : k <= j
    <3> HIDE DEF Bad
    <3> QED BY <2>1, LeastOf, ZenonT(30)
  <2>3. k \in Nat \ {0}
    BY <1>1, Zenon
  <2>4. k - 1 \in Nat /\ ~ (k <= k - 1)
    BY <2>3
  <2>5. k - 1 \in Bad
    BY <1>2, <2>3, <2>4, Zenon
  <2> QED BY <2>2, <2>4, <2>5, Zenon
<1> QED BY <1>3, Zenon DEF Good

(* Admission numbers are numbers. *)
Numbers == \A s \in Slots : entries[s] # NoEntry => entries[s].sequence \in Int

(* What the candidate is after the first n slots. *)
Best(c, n, ud, exclude) ==
  /\ c = NoSlot => \A s \in 0..(n - 1) : ~ Selected(s, ud, exclude)
  /\ c # NoSlot => /\ c \in 0..(n - 1) /\ Selected(c, ud, exclude)
                   /\ Numbers => \A s \in 0..(n - 1) : Selected(s, ud, exclude) =>
                                   entries[c].sequence <= entries[s].sequence

(* A round keeps the candidate the best one. *)
LEMMA RoundBest ==
  ASSUME NEW n \in 1..Capacity, Capacity \in Nat, NEW c, NEW ud, NEW exclude,
         Best(c[n - 1], n - 1, ud, exclude)
  PROVE  Best(Round(c, n, ud, exclude), n, ud, exclude)
<1>1. PICK old : old = c[n - 1]
  BY Zenon
<1>2. PICK new : new = Round(c, n, ud, exclude)
  BY Zenon
<1>3. new = IF Selected(n - 1, ud, exclude) /\ Replaces(n - 1, old) THEN n - 1 ELSE old
  BY <1>1, <1>2 DEF Round
<1>4. /\ n - 1 # NoSlot /\ n - 1 \in 0..(n - 1) /\ 0..(n - 1) \subseteq Slots
      /\ \A s \in 0..(n - 1) : s \in 0..(n - 1 - 1) \/ s = n - 1
      /\ \A s \in 0..(n - 1 - 1) : s \in 0..(n - 1)
  BY DEF NoSlot, Slots
<1>5. \A s \in 0..(n - 1) : Numbers /\ Selected(s, ud, exclude) => entries[s].sequence \in Int
  BY <1>4, Zenon DEF Numbers, Selected
<1>6. CASE ~ Selected(n - 1, ud, exclude)
  BY <1>1, <1>2, <1>3, <1>4, <1>6, Zenon DEF Best
<1>7. CASE Selected(n - 1, ud, exclude) /\ old = NoSlot
  <2>1. new = n - 1
    BY <1>3, <1>7, Zenon DEF Replaces
  <2>2. \A s \in 0..(n - 1) : Selected(s, ud, exclude) => s = n - 1
    BY <1>1, <1>4, <1>7, Zenon DEF Best
  <2>3. Numbers => entries[n - 1].sequence <= entries[n - 1].sequence
    BY <1>4, <1>5, <1>7
  <2> QED BY <1>2, <1>4, <1>7, <2>1, <2>2, <2>3, Zenon DEF Best
<1>8. CASE Selected(n - 1, ud, exclude) /\ old # NoSlot
  <2>1. /\ old \in 0..(n - 1) /\ Selected(old, ud, exclude)
        /\ Numbers => \A s \in 0..(n - 1 - 1) : Selected(s, ud, exclude) =>
                        entries[old].sequence <= entries[s].sequence
    BY <1>1, <1>4, <1>8, Zenon DEF Best
  <2>2. new # NoSlot /\ new \in 0..(n - 1) /\ Selected(new, ud, exclude)
    BY <1>3, <1>4, <1>8, <2>1, Zenon
  <2>3. \/ new = n - 1 /\ entries[n - 1].sequence < entries[old].sequence
        \/ new = old /\ ~ (entries[n - 1].sequence < entries[old].sequence)
    BY <1>3, <1>8, Zenon DEF Replaces
  <2>4. ASSUME Numbers, NEW s \in 0..(n - 1), Selected(s, ud, exclude)
        PROVE  entries[new].sequence <= entries[s].sequence
    <3>1. /\ entries[s].sequence \in Int /\ entries[old].sequence \in Int
          /\ entries[n - 1].sequence \in Int
      BY <1>4, <1>5, <1>8, <2>1, <2>4, Zenon
    <3>2. s = n - 1 \/ entries[old].sequence <= entries[s].sequence
      BY <1>4, <2>1, <2>4, Zenon
    <3> QED BY <2>3, <3>1, <3>2
  <2> QED BY <1>2, <2>2, <2>4, Zenon DEF Best
<1> QED BY <1>6, <1>7, <1>8, Zenon

(* The scan returns the oldest request among those it may take, and finds one
   if there is one. *)
LEMMA ScanBest ==
  ASSUME NEW ud, NEW exclude
  PROVE  Best(Scan(ud, exclude), Capacity, ud, exclude)
<1> DEFINE c[n \in 0..Capacity] ==
             IF n = 0 THEN NoSlot
             ELSE IF Selected(n - 1, ud, exclude) /\ Replaces(n - 1, c[n - 1]) THEN n - 1 ELSE c[n - 1]
           Bad == {n \in 0..Capacity : ~ Best(c[n], n, ud, exclude)}
<1>1. Capacity \in Nat
  BY RingAssumption, Zenon
<1>2. Scan(ud, exclude) = c[Capacity]
  BY Zenon DEF Scan
<1>3. IsScan(c, Capacity, ud, exclude)
  <2>1. \E w : IsScan(w, Capacity, ud, exclude)
    BY <1>1, ScanExists, Zenon
  <2> QED BY ONLY <2>1, ZenonT(30) DEF IsScan, Round
<1> HIDE DEF c
<1>4. \A n \in 0..Capacity : c[n] = Round(c, n, ud, exclude)
  BY <1>3, Zenon DEF IsScan
<1>5. Bad = {}
  <2> SUFFICES ASSUME Bad # {} PROVE FALSE
    BY Zenon
  <2>1. Bad \subseteq Nat
    BY <1>1
  <2>2. PICK n \in Bad : \A m \in Bad : n <= m
    <3> HIDE DEF Bad
    <3> QED BY <2>1, LeastOf, ZenonT(30)
  <2>3. n \in 0..Capacity /\ ~ Best(c[n], n, ud, exclude)
    BY Zenon
  <2>4. CASE n = 0
    <3>1. c[n] = NoSlot /\ 0..(n - 1) = {}
      BY <1>4, <2>3, <2>4 DEF Round
    <3> QED BY <2>3, <3>1, Zenon DEF Best
  <2>5. CASE n # 0
    <3>1. n \in 1..Capacity /\ n - 1 \in 0..Capacity /\ ~ (n <= n - 1)
      BY <1>1, <2>3, <2>5
    <3>2. Best(c[n - 1], n - 1, ud, exclude)
      BY <2>2, <3>1, Zenon
    <3>3. Best(Round(c, n, ud, exclude), n, ud, exclude)
      BY <1>1, <3>1, <3>2, RoundBest, Zenon
    <3> QED BY <1>4, <2>3, <3>3, Zenon
  <2> QED BY <2>4, <2>5, Zenon
<1>6. Capacity \in 0..Capacity
  BY <1>1
<1> QED BY <1>2, <1>5, <1>6, Zenon

(* What claim_cancel claims is the current request of an occupied slot. *)
LEMMA CancelClaims ==
  ASSUME NEW ud, NEW exclude, ClaimCancel(ud, exclude)
  PROVE  \E s \in Slots : /\ s = Scan(ud, exclude) /\ Selected(s, ud, exclude)
                          /\ generation[s] <= MaxGeneration /\ Claim(Current(s), "Cancelled")
<1>1. PICK s : s = Scan(ud, exclude)
  BY Zenon
<1>2. s # NoSlot /\ GenerationsKnown /\ Claim(Current(s), "Cancelled")
  BY <1>1, Zenon DEF ClaimCancel
<1>3. s \in Slots /\ Selected(s, ud, exclude)
  BY <1>1, <1>2, ScanBest, Zenon DEF Best, Slots
<1> QED
  BY <1>1, <1>2, <1>3, Zenon DEF GenerationsKnown, Selected

-----------------------------------------------------------------------------
(* RequestRegistry::new: no slot is occupied and nobody holds a token. *)
LEMMA InitInv == ASSUME Init PROVE IInv
<1> USE RingAssumption
<1>1. Typed
  <2>1. free_slots \in Seq(Slots)
    <3>1. \A i \in 1..Capacity : Capacity - i \in Slots
      BY DEF Slots
    <3> QED BY <3>1 DEF Init
  <2>2. generation \in [Slots -> Nat] /\ DOMAIN entries = Slots /\ tokens = {}
    BY Zenon DEF Init
  <2>3. \A s \in Slots : Shaped(entries[s])
    BY Zenon DEF Init, Shaped, NoEntry
  <2> QED BY <2>1, <2>2, <2>3, Zenon DEF Typed
<1>2. AllBacked /\ Exclusive
  BY Zenon DEF Init, AllBacked, Exclusive
<1>3. Owned
  BY Zenon DEF Init, Owned, Unowned, NoEntry
<1> QED
  BY <1>1, <1>2, <1>3, Zenon DEF IInv

(* Every step of the registry and of its callers preserves the invariant. *)
LEMMA NextInv == ASSUME IInv, [Next]_vars PROVE IInv'
<1>0. Ids \subseteq IdSpace
  BY DEF Ids, IdSpace
<1>1. CASE UNCHANGED vars
  BY <1>1, Quiet, Zenon DEF vars
<1>2. CASE \E d \in Descriptors : Reserve(d)
  BY <1>2, ReserveStep, Zenon
<1>3. CASE \E t \in tokens : Holder(t)
  BY <1>3, HolderStep, Zenon
<1>4. CASE \E id \in Ids, cause \in Causes : ClaimTerminal(id, cause)
  BY <1>0, <1>4, ClaimStep, Zenon DEF ClaimTerminal
<1>5. CASE \E ud \in UserData, exclude \in Ids \union {NoId} : ClaimCancel(ud, exclude)
  <2>1. PICK s \in Slots : Claim(Current(s), "Cancelled")
    BY <1>5, CancelClaims, Zenon
  <2>2. Current(s) \in IdSpace
    BY Zenon DEF Current, IdSpace, IInv, Typed
  <2> QED BY <2>1, <2>2, ClaimStep, Zenon
<1>6. CASE \/ \E head \in 0..(Modulus - 1) : ObserveCompletionHead(head)
           \/ BeginClose \/ BeginDraining \/ DiscardPublished \/ FinishClose
  <2>1. /\ entries' = entries /\ generation' = generation /\ free_slots' = free_slots
        /\ publication_in_flight' = publication_in_flight /\ cq_tail' = cq_tail /\ tokens' = tokens
    BY <1>6, Zenon DEF ObserveCompletionHead, BeginClose, BeginDraining, DiscardPublished, FinishClose,
                cqVars
  <2> QED BY <2>1, Quiet, Zenon
<1> QED
  BY <1>1, <1>2, <1>3, <1>4, <1>5, <1>6, Zenon DEF Next

-----------------------------------------------------------------------------
(* The invariant counts the tokens of an occupied slot. *)
LEMMA OwnersCounted == ASSUME IInv PROVE OneTerminalOwner
<1>1. \A t \in tokens : Backed(t)
  BY Zenon DEF IInv, AllBacked
<1>2. ASSUME NEW s \in Occupied
      PROVE  Cardinality({t \in tokens : t.kind \in Linear
                                         /\ t.id = [slot |-> s, generation |-> generation[s]]})
               = IF entries[s].state \in {"Prepared", "Issued"} THEN 0 ELSE 1
  <2> DEFINE Held == {t \in tokens : t.kind \in Linear
                                      /\ t.id = [slot |-> s, generation |-> generation[s]]}
  <2>1. s \in Slots /\ entries[s].state # "empty"
    BY Zenon DEF Occupied
  <2>2. CASE entries[s].state \in {"Prepared", "Issued"}
    <3>1. \A t \in tokens : t.kind \in Linear => t.id.slot # s
      BY <2>1, <2>2, NoToken, Zenon DEF Unowned
    <3>2. Held = {}
      BY <3>1
    <3> QED BY <2>2, <3>2, FS_EmptySet, Zenon
  <2>3. CASE entries[s].state \notin {"Prepared", "Issued"}
    <3>1. PICK u \in tokens : u.kind \in Linear /\ u.id = [slot |-> s, generation |-> generation[s]]
      BY <2>1, <2>3, Zenon DEF IInv, Owned, Unowned, Current
    <3>2. Held = {u}
      BY <3>1, Zenon DEF IInv, Exclusive
    <3>3. Cardinality({u}) = 1
      BY FS_Singleton, ZenonT(30)
    <3> QED BY <2>3, <3>2, <3>3, Zenon
  <2> QED BY <2>2, <2>3, Zenon
<1> QED
  BY <1>1, <1>2, Zenon DEF OneTerminalOwner

(* For any table size, completion queue and set of causes: whatever ids
   callers race with, every linear token is current, and an occupied slot has
   exactly one, or none while its executor holds the id. *)
THEOREM OneTerminalOwnerCorrect == Spec => []OneTerminalOwner
<1>1. Init => IInv
  BY InitInv, Zenon
<1>2. IInv /\ [Next]_vars => IInv'
  BY NextInv, Zenon
<1>3. IInv => OneTerminalOwner
  BY OwnersCounted, Zenon
<1> QED
  BY <1>1, <1>2, <1>3, PTL DEF Spec
-----------------------------------------------------------------------------
(* The books of the ring.  Beside IInv they need two facts: the adapter has
   written the completion of a publication plan to the slot the plan names,
   and a draining table holds completions only. *)
PlansWritten == \A t \in tokens : t.kind = "publication" => cqes[t.slot] = t.completion

Drained ==
  /\ lifecycle \in {"Draining", "Closed"} =>
       \A s \in Slots : entries[s].state \in {"empty", "CompletionPending"}
  /\ lifecycle = "Closed" => terminal_credits = 0

Books == TypeOK /\ CreditsOwned /\ FreeSlotsExact /\ UnreadIntact /\ PlansWritten /\ Drained

Inv == IInv /\ Books

(* Counters modulo n: the remainder is the one number that fits. *)
LEMMA Remainder ==
  ASSUME NEW n \in Nat, n > 0, NEW x \in Int
  PROVE  \E q \in Int, r \in 0..(n - 1) : x = q * n + r /\ x % n = r
<1>1. x % n \in 0..(n - 1) /\ x \div n \in Int
  OBVIOUS
<1>2. PICK q \in Int, r \in 0..(n - 1) : q = x \div n /\ r = x % n
  BY <1>1, Zenon
<1>3. x = q * n + r
  BY <1>2
<1> QED BY <1>2, <1>3, ZenonT(30)

(* And it is the only one. *)
LEMMA RemainderUnique ==
  ASSUME NEW n \in Nat, n > 0, NEW q \in Int, NEW r \in 0..(n - 1), NEW x \in Int, x = q * n + r
  PROVE  x % n = r
OBVIOUS

(* A multiple of n does not change the remainder. *)
LEMMA Shift ==
  ASSUME NEW n \in Nat, n > 0, NEW x \in Int, NEW k \in Int
  PROVE  (x + k * n) % n = x % n
<1>1. PICK q \in Int, r \in 0..(n - 1) : x = q * n + r /\ x % n = r
  BY Remainder, Zenon
<1>2. PICK y \in Int, p \in Int : y = x + k * n /\ p = q + k
  OBVIOUS
<1>3. y = p * n + r
  BY <1>1, <1>2
<1>4. y % n = r
  BY <1>3, RemainderUnique
<1> QED BY <1>1, <1>2, <1>4, Zenon

(* Fewer than n consecutive numbers have different remainders. *)
LEMMA Apart ==
  ASSUME NEW n \in Nat, n > 0, NEW x \in Int, NEW d \in 1..(n - 1)
  PROVE  (x + d) % n # x % n
<1>1. PICK q \in Int, r \in 0..(n - 1) : x = q * n + r /\ x % n = r
  BY Remainder, ZenonT(30)
<1>2. CASE r + d < n
  <2>1. PICK y \in Int, u \in 0..(n - 1) : y = x + d /\ u = r + d
    BY <1>2
  <2>2. y = q * n + u
    BY <1>1, <2>1
  <2>3. y % n = u
    BY <2>2, RemainderUnique, ZenonT(30)
  <2> QED BY <1>1, <2>1, <2>3
<1>3. CASE r + d >= n
  <2>1. PICK y \in Int, u \in 0..(n - 1), p \in Int : y = x + d /\ u = r + d - n /\ p = q + 1
    BY <1>3
  <2>2. y = p * n + u
    BY <1>1, <2>1
  <2>3. y % n = u
    BY <2>2, RemainderUnique
  <2> QED BY <1>1, <2>1, <2>3
<1> QED BY <1>1, <1>2, <1>3

(* A counter ahead of another by less than the modulus, wrapped or not. *)
Ahead(b, a, d) == d \in 0..(Modulus - 1) /\ (b = a + d \/ b = a + d - Modulus)

(* wrapping_sub finds that distance. *)
LEMMA Distance ==
  ASSUME NEW a \in 0..(Modulus - 1), NEW b \in 0..(Modulus - 1)
  PROVE  Ahead(b, a, WrappingSub(b, a)) /\ \A d : Ahead(b, a, d) => WrappingSub(b, a) = d
<1>1. Modulus \in Nat /\ Modulus > 0
  BY RingAssumption
<1>2. PICK x \in Int : x = b - a
  BY <1>1
<1>3. CASE x >= 0
  <2>1. x % Modulus = x
    BY <1>1, <1>2, <1>3
  <2> QED BY <1>1, <1>2, <1>3, <2>1 DEF Ahead, WrappingSub
<1>4. CASE x < 0
  <2>1. x % Modulus = x + Modulus
    BY <1>1, <1>2, <1>4
  <2> QED BY <1>1, <1>2, <1>4, <2>1 DEF Ahead, WrappingSub
<1> QED BY <1>2, <1>3, <1>4

(* Of two counters ahead of a third, the farther is ahead of the nearer. *)
LEMMA AheadOfBoth ==
  ASSUME NEW a \in 0..(Modulus - 1), NEW b \in 0..(Modulus - 1), NEW c \in 0..(Modulus - 1),
         NEW d \in Nat, NEW n \in Nat, Ahead(b, a, n), Ahead(c, a, d), n <= d
  PROVE  Ahead(c, b, d - n)
<1>1. Modulus \in Nat
  BY RingAssumption, Zenon
<1>2. d \in 0..(Modulus - 1) /\ n \in 0..(Modulus - 1) /\ d - n \in 0..(Modulus - 1)
  BY <1>1 DEF Ahead
<1>3. CASE b = a + n
  BY <1>1, <1>2, <1>3 DEF Ahead
<1>4. CASE b = a + n - Modulus
  BY <1>1, <1>2, <1>4 DEF Ahead
<1> QED
  BY <1>3, <1>4, Zenon DEF Ahead

(* A counter and its wrapped value name the same CQ slot. *)
LEMMA SameSlot ==
  ASSUME NEW x \in Int
  PROVE  /\ SlotOf(x) \in 0..(CqEntries - 1)
         /\ SlotOf(x + Modulus) = SlotOf(x) /\ SlotOf(x - Modulus) = SlotOf(x)
<1>1. PICK k \in Nat : Modulus = k * CqEntries
  BY RingAssumption
<1>2. CqEntries \in Nat /\ CqEntries > 0 /\ Modulus \in Nat
  BY RingAssumption
<1>3. (x + k * CqEntries) % CqEntries = x % CqEntries
  BY ONLY <1>2, Shift, x \in Int, k \in Int, Zenon
<1>4. PICK y \in Int : y = x - Modulus
  BY <1>2
<1>5. (y + k * CqEntries) % CqEntries = y % CqEntries
  BY ONLY <1>2, Shift, y \in Int, k \in Int, Zenon
<1>6. y + k * CqEntries = x
  BY <1>1, <1>2, <1>4
<1>7. x % CqEntries \in 0..(CqEntries - 1)
  BY <1>2
<1> QED
  BY <1>1, <1>3, <1>4, <1>5, <1>6, <1>7, Zenon DEF SlotOf

(* The slot at a distance from either is the same. *)
LEMMA AheadSlot ==
  ASSUME NEW a \in 0..(Modulus - 1), NEW b \in 0..(Modulus - 1), NEW n \in Nat, Ahead(b, a, n),
         NEW k \in Int
  PROVE  SlotOf(b + k - 1) = SlotOf(a + (k + n) - 1)
<1>1. Modulus \in Nat
  BY RingAssumption, Zenon
<1>2. PICK x \in Int, y \in Int : x = b + k - 1 /\ y = a + (k + n) - 1
  BY <1>1
<1>3. x = y \/ x = y - Modulus
  BY <1>1, <1>2 DEF Ahead
<1> QED
  BY <1>2, <1>3, SameSlot, Zenon

Early == {"Reserved", "Prepared", "Issued", "TerminalClaimed"}
Late == {"CompletionPending", "Publishing"}

(* A request in the table is the current one of its slot. *)
LEMMA EntryTyped ==
  ASSUME TypeOK, NEW id \in Ids, State(id) # "empty"
  PROVE  /\ id.slot \in Slots /\ id = Current(id.slot) /\ Entry(id) = entries[id.slot]
         /\ Entry(id) \in Entries /\ entries[id.slot].state = State(id) /\ State(id) = Entry(id).state
         /\ entries[id.slot] # NoEntry
<1>1. id.slot \in Slots /\ id = Current(id.slot) /\ Entry(id) = entries[id.slot]
  BY Zenon DEF State, Entry, NoEntry, Ids, Current
<1>2. Entry(id) # NoEntry
  BY DEF State, NoEntry
<1> QED
  BY <1>1, <1>2, Zenon DEF TypeOK, State

(* Storing another state in an entry keeps the rest of it, before and after
   the entry has a completion. *)
LEMMA RestatedEarly ==
  ASSUME NEW e \in Entries, NEW x \in Early, e.state \in Early
  PROVE  [e EXCEPT !.state = x] \in Entries
<1>1. e \in [state : Early, descriptor : Descriptors, sequence : 1..MaxSequence]
  BY Zenon DEF Entries, Early
<1> QED
  BY <1>1, Zenon DEF Entries, Early

(* The same from finish_terminal on. *)
LEMMA RestatedLate ==
  ASSUME NEW e \in Entries, NEW x \in Late, e.state \in Late
  PROVE  /\ [e EXCEPT !.state = x] \in Entries /\ e.completion \in Completions
         /\ [e EXCEPT !.state = x].completion = e.completion
<1>1. e \in [state : Late, descriptor : Descriptors, sequence : 1..MaxSequence,
             completion : Completions]
  BY Zenon DEF Entries, Late
<1> QED
  BY <1>1, Zenon DEF Entries, Late

-----------------------------------------------------------------------------
(* A step that stores another state for a request and frees nothing. *)
Moves(id, e) ==
  /\ id \in Ids /\ State(id) # "empty" /\ e \in Entries
  /\ lifecycle \in {"Open", "Closing"} \/ State(id) # "CompletionPending"
  /\ entries' = [entries EXCEPT ![id.slot] = e]
  /\ generation' = generation /\ free_slots' = free_slots /\ next_sequence' = next_sequence
  /\ lifecycle' = lifecycle /\ terminal_credits' = terminal_credits
  /\ cq_head' = cq_head /\ cq_tail' = cq_tail /\ unread' = unread

(* It leaves the same slots occupied and the same slots free, and is no step
   of a ring that drains. *)
LEMMA MovesBooks ==
  ASSUME Books, NEW id, NEW e, Moves(id, e),
         publication_in_flight' \in Ids \union {NoId}, tokens' \subseteq Tokens,
         cqes' \in [0..(CqEntries - 1) -> Completions \union {NoCqe}],
         UnreadIntact', PlansWritten'
  PROVE  Books'
<1>1. TypeOK
  BY Zenon DEF Books
<1>2. PICK s \in Slots : s = id.slot /\ entries[s] \in Entries /\ entries[s].state = State(id)
  BY <1>1, EntryTyped, Zenon DEF Moves
<1>3. entries' = [entries EXCEPT ![s] = e] /\ e \in Entries
  BY <1>2, Zenon DEF Moves
<1>4. /\ entries' \in [Slots -> Entries \union {NoEntry}]
      /\ entries'[s] = e /\ \A u \in Slots : u # s => entries'[u] = entries[u]
  BY <1>1, <1>3, SMTT(30) DEF TypeOK
<1>5. e.state # "empty" /\ e # NoEntry /\ entries[s].state # "empty" /\ entries[s] # NoEntry
  BY <1>2, <1>3, SMTT(30) DEF Entries, NoEntry
<1>6. TypeOK'
  BY <1>1, <1>4, Zenon DEF TypeOK, Moves
<1>7. Occupied' = Occupied
  BY <1>4, <1>5, Zenon DEF Occupied
<1>8. CreditsOwned'
  BY <1>7, Zenon DEF Books, CreditsOwned, PublishedCount, WrappingSub, Moves
<1>9. FreeSlotsExact'
  <2>1. \A u \in Slots : entries'[u] = NoEntry <=> entries[u] = NoEntry
    BY <1>4, <1>5, Zenon
  <2> QED BY <2>1 DEF Books, FreeSlotsExact, Moves
<1>10. Drained'
  <2>1. lifecycle \notin {"Draining", "Closed"}
    BY <1>2, <1>5, Zenon DEF Books, Drained, Moves
  <2> QED BY <2>1, Zenon DEF Drained, Moves
<1> QED
  BY <1>6, <1>8, <1>9, <1>10, Zenon DEF Books

(* The same with the ring untouched. *)
LEMMA MovesQuietly ==
  ASSUME Books, NEW id, NEW e, Moves(id, e), NEW new, new \in Tokens, new.kind # "publication",
         \A t \in tokens' : t \in tokens \/ t = new,
         publication_in_flight' \in Ids \union {NoId}, cqes' = cqes
  PROVE  Books'
<1>1. tokens' \subseteq Tokens /\ cqes' \in [0..(CqEntries - 1) -> Completions \union {NoCqe}]
  BY Zenon DEF Books, TypeOK
<1>2. UnreadIntact'
  BY Zenon DEF Books, UnreadIntact, PublishedCount, WrappingSub, SlotOf, Moves
<1>3. PlansWritten'
  BY Zenon DEF Books, PlansWritten
<1> QED
  BY <1>1, <1>2, <1>3, MovesBooks, SMTT(30)

(* A token of the table names a request. *)
LEMMA TokenTyped ==
  ASSUME Books, NEW t \in tokens
  PROVE  t \in Tokens /\ t.id \in Ids
BY Zenon DEF Books, TypeOK, Tokens

(* The stored request of a step that changes its state, before and after it
   has a completion. *)
LEMMA MovedEarly ==
  ASSUME Books, NEW id \in Ids, NEW x \in Early, State(id) \in Early
  PROVE  [Entry(id) EXCEPT !.state = x] \in Entries
<1>1. State(id) # "empty"
  BY Zenon DEF Early
<1>2. Entry(id) \in Entries /\ State(id) = Entry(id).state
  BY <1>1, EntryTyped, Zenon DEF Books
<1> QED
  BY <1>2, RestatedEarly, Zenon

(* The same from finish_terminal on. *)
LEMMA MovedLate ==
  ASSUME Books, NEW id \in Ids, NEW x \in Late, State(id) \in Late
  PROVE  /\ [Entry(id) EXCEPT !.state = x] \in Entries
         /\ Entry(id).completion \in Completions
<1>1. State(id) # "empty"
  BY SMTT(30) DEF Late
<1>2. Entry(id) \in Entries /\ State(id) = Entry(id).state
  BY <1>1, EntryTyped, Zenon DEF Books
<1> QED
  BY <1>2, RestatedLate, Zenon

(* commit *)
LEMMA CommitBooks ==
  ASSUME Books, NEW t \in tokens, Commit(t) PROVE Books'
<1>1. t.id \in Ids /\ State(t.id) = "Reserved" /\ t \in Tokens /\ t.kind = "reservation"
  BY TokenTyped, Zenon DEF Commit
<1>a. State(t.id) \in Early /\ "Prepared" \in Early
  BY <1>1, Zenon DEF Early
<1>2. PICK e : e = [Entry(t.id) EXCEPT !.state = "Prepared"]
  BY ZenonT(30)
<1>3. e \in Entries
  BY <1>1, <1>a, <1>2, MovedEarly, Zenon
<1>4. PICK new : new = [t EXCEPT !.kind = "prepared"]
  BY ZenonT(30)
<1>5. new \in Tokens /\ new.kind # "publication"
  BY <1>1, <1>4, Zenon DEF Tokens
<1>6. Moves(t.id, e) /\ cqes' = cqes /\ publication_in_flight' = publication_in_flight
  BY <1>1, <1>2, <1>3, Zenon DEF Commit, Moves, SetState, cqVars
<1>7. \A u \in tokens' : u \in tokens \/ u = new
  BY <1>4, Zenon DEF Commit
<1> QED
  BY <1>5, <1>6, <1>7, MovesQuietly, Zenon DEF Books, TypeOK

(* issue *)
LEMMA IssueBooks ==
  ASSUME Books, NEW t \in tokens, Issue(t) PROVE Books'
<1>1. t.id \in Ids /\ t \in Tokens /\ t.kind = "prepared" /\ tokens' = tokens \ {t}
  BY TokenTyped, SMTT(30) DEF Issue
<1>2. CASE State(t.id) = "Prepared" /\ SetState(t.id, [Entry(t.id) EXCEPT !.state = "Issued"])
  <2>1. PICK e : e = [Entry(t.id) EXCEPT !.state = "Issued"]
    BY ZenonT(30)
  <2>a. State(t.id) \in Early /\ "Issued" \in Early
    BY <1>2, Zenon DEF Early
  <2>2. e \in Entries
    BY <1>1, <2>a, <2>1, MovedEarly, Zenon
  <2>3. Moves(t.id, e) /\ cqes' = cqes /\ publication_in_flight' = publication_in_flight
    BY <1>1, <1>2, <2>1, <2>2, Zenon DEF Issue, Moves, SetState, cqVars
  <2> QED
    BY <1>1, <2>3, MovesQuietly, Zenon DEF Books, TypeOK
<1>3. CASE UNCHANGED entries
  BY <1>1, <1>3 DEF Issue, cqVars, Books, TypeOK, CreditsOwned, PublishedCount, WrappingSub,
       Occupied, FreeSlotsExact, UnreadIntact, SlotOf, PlansWritten, Drained
<1> QED
  BY <1>2, <1>3, Zenon DEF Issue

(* claim_terminal, claim_cancel *)
LEMMA ClaimBooks ==
  ASSUME Books, NEW id \in Ids, NEW cause \in Causes \union {"Cancelled"}, Claim(id, cause)
  PROVE  Books'
<1>1. State(id) \in {"Prepared", "Issued"}
  BY Zenon DEF Claim, Claimable
<1>a. State(id) \in Early /\ "TerminalClaimed" \in Early
  BY <1>1, Zenon DEF Early
<1>2. PICK e : e = [Entry(id) EXCEPT !.state = "TerminalClaimed"]
  BY ZenonT(30)
<1>3. e \in Entries
  BY <1>1, <1>a, <1>2, MovedEarly, Zenon
<1>4. PICK new : new = [kind |-> "permit", id |-> id, cause |-> cause]
  BY ZenonT(30)
<1>5. new \in Tokens /\ new.kind # "publication"
  BY <1>4, Zenon DEF Tokens
<1>6. Moves(id, e) /\ cqes' = cqes /\ publication_in_flight' = publication_in_flight
  BY <1>1, <1>2, <1>3, Zenon DEF Claim, Moves, SetState, cqVars
<1>7. \A u \in tokens' : u \in tokens \/ u = new
  BY <1>4, SMTT(30) DEF Claim
<1> QED
  BY <1>5, <1>6, <1>7, MovesQuietly, Zenon DEF Books, TypeOK

(* finish_terminal *)
LEMMA FinishBooks ==
  ASSUME Books, NEW t \in tokens, FinishTerminal(t) PROVE Books'
<1>1. t.id \in Ids /\ State(t.id) = "TerminalClaimed" /\ t \in Tokens /\ t.kind = "permit"
  BY TokenTyped, Zenon DEF FinishTerminal
<1>2. PICK old \in Entries : old = Entry(t.id) /\ old.state = "TerminalClaimed"
  BY <1>1, EntryTyped, Zenon DEF Books
<1>3. /\ old.descriptor \in Descriptors /\ old.sequence \in 1..MaxSequence
      /\ old.descriptor.user_data \in UserData
  BY <1>2, Zenon DEF Entries, Descriptors
<1>4. t.cause \in Causes \union {"Cancelled"}
  BY <1>1, Zenon DEF Tokens
<1>5. PICK e : e = [state |-> "CompletionPending", descriptor |-> old.descriptor,
                    sequence |-> old.sequence,
                    completion |-> [user_data |-> old.descriptor.user_data, result |-> t.cause]]
  BY ZenonT(30)
<1>6. e \in Entries
  BY <1>3, <1>4, <1>5, Zenon DEF Entries, Completions
<1>7. PICK new : new = [kind |-> "completion", id |-> t.id]
  BY ZenonT(30)
<1>8. new \in Tokens /\ new.kind # "publication"
  BY <1>1, <1>7, Zenon DEF Tokens
<1>9. Moves(t.id, e) /\ cqes' = cqes /\ publication_in_flight' = publication_in_flight
  BY <1>1, <1>2, <1>5, <1>6, Zenon DEF FinishTerminal, Moves, SetState, cqVars
<1>10. \A u \in tokens' : u \in tokens \/ u = new
  BY <1>7, Zenon DEF FinishTerminal
<1> QED
  BY <1>8, <1>9, <1>10, MovesQuietly, Zenon DEF Books, TypeOK

(* rollback_publication *)
LEMMA RollbackPublicationBooks ==
  ASSUME Books, NEW t \in tokens, RollbackPublication(t) PROVE Books'
<1>1. t.id \in Ids /\ State(t.id) = "Publishing" /\ t \in Tokens
  BY TokenTyped, Zenon DEF RollbackPublication, PublicationCurrent
<1>2. PICK e : e = [Entry(t.id) EXCEPT !.state = "CompletionPending"]
  BY ZenonT(30)
<1>3. e \in Entries
  BY <1>1, <1>2, MovedLate, ZenonT(30) DEF Late
<1>4. PICK new : new = [kind |-> "completion", id |-> t.id]
  BY ZenonT(30)
<1>5. new \in Tokens /\ new.kind # "publication"
  BY <1>1, <1>4, Zenon DEF Tokens
<1>6. Moves(t.id, e) /\ cqes' = cqes /\ publication_in_flight' = NoId
  BY <1>1, <1>2, <1>3, Zenon DEF RollbackPublication, Moves, SetState, cqVars
<1>7. \A u \in tokens' : u \in tokens \/ u = new
  BY <1>4, Zenon DEF RollbackPublication
<1> QED
  BY <1>5, <1>6, <1>7, MovesQuietly, Zenon DEF Books, TypeOK

(* The tail is as far ahead of the head as completions are unread. *)
LEMMA TailSlot ==
  ASSUME TypeOK
  PROVE  /\ PublishedCount \in 0..(Modulus - 1) /\ Ahead(cq_tail, cq_head, PublishedCount)
         /\ SlotOf(cq_head + PublishedCount) = SlotOf(cq_tail)
<1>1. cq_head \in 0..(Modulus - 1) /\ cq_tail \in 0..(Modulus - 1) /\ Modulus \in Nat
  BY RingAssumption, Zenon DEF TypeOK
<1>2. PublishedCount \in 0..(Modulus - 1) /\ Ahead(cq_tail, cq_head, PublishedCount)
  BY <1>1, Distance, Zenon DEF PublishedCount, Ahead
<1>3. PICK x \in Int : x = cq_head + PublishedCount
  BY <1>1, <1>2
<1>4. cq_tail = x \/ cq_tail = x - Modulus
  BY <1>1, <1>2, <1>3 DEF Ahead
<1> QED
  BY <1>2, <1>3, <1>4, SameSlot, ZenonT(30)

(* While the CQ is not full, the slot at the tail holds no unread completion. *)
LEMMA TailFree ==
  ASSUME TypeOK, PublishedCount < CqEntries, NEW k \in 1..PublishedCount
  PROVE  SlotOf(cq_head + k - 1) # SlotOf(cq_tail)
<1>1. /\ PublishedCount \in 0..(Modulus - 1) /\ SlotOf(cq_head + PublishedCount) = SlotOf(cq_tail)
      /\ cq_head \in 0..(Modulus - 1) /\ Modulus \in Nat /\ CqEntries \in Nat /\ CqEntries > 0
  BY TailSlot, RingAssumption DEF TypeOK
<1>2. PICK x \in Int, d \in 1..(CqEntries - 1) : x = cq_head + k - 1 /\ d = PublishedCount - k + 1
  BY <1>1
<1>3. x + d = cq_head + PublishedCount
  BY <1>1, <1>2
<1>4. (x + d) % CqEntries # x % CqEntries
  BY ONLY <1>1, <1>2, Apart, Zenon
<1> QED
  BY <1>1, <1>2, <1>3, <1>4, SMTT(30) DEF SlotOf

(* publish: the completion goes to the slot at the tail, and no other plan is
   in flight. *)
LEMMA PublishBooks ==
  ASSUME IInv, Books, NEW t \in tokens, Publish(t) PROVE Books'
<1>1. /\ t.id \in Ids /\ State(t.id) = "CompletionPending" /\ t \in Tokens
      /\ publication_in_flight = NoId /\ PublishedCount < CqEntries
  BY TokenTyped, Zenon DEF Publish, Publishable
<1>2. PICK e : e = [Entry(t.id) EXCEPT !.state = "Publishing"]
  BY ZenonT(30)
<1>3. PICK c : c = Entry(t.id).completion
  BY Zenon
<1>4. e \in Entries /\ c \in Completions
  BY <1>1, <1>2, <1>3, MovedLate, ZenonT(30) DEF Late
<1>5. cq_tail \in 0..(Modulus - 1) /\ Modulus \in Nat /\ TypeOK
  BY RingAssumption, Zenon DEF Books, TypeOK
<1>6. PICK p \in 0..(CqEntries - 1), n \in 0..(Modulus - 1) :
        p = SlotOf(cq_tail) /\ n = (cq_tail + 1) % Modulus
  <2>1. SlotOf(cq_tail) \in 0..(CqEntries - 1)
    BY <1>5, SameSlot
  <2>2. (cq_tail + 1) % Modulus \in 0..(Modulus - 1)
    BY <1>5
  <2> QED BY <2>1, <2>2, Zenon
<1>7. PICK new : new = [kind |-> "publication", id |-> t.id, completion |-> c, slot |-> p,
                        new_tail |-> n]
  BY ZenonT(30)
<1>8. new \in Tokens
  BY <1>1, <1>4, <1>6, <1>7, ZenonT(30) DEF Tokens
<1>9. /\ Moves(t.id, e) /\ publication_in_flight' = t.id /\ cqes' = [cqes EXCEPT ![p] = c]
      /\ tokens' = (tokens \ {t}) \union {new}
  BY <1>1, <1>2, <1>3, <1>4, <1>6, <1>7, SMTT(30) DEF Publish, Publishable, Moves, SetState
<1>10. /\ cqes' \in [0..(CqEntries - 1) -> Completions \union {NoCqe}] /\ cqes'[p] = c
       /\ \A q \in 0..(CqEntries - 1) : q # p => cqes'[q] = cqes[q]
  BY <1>4, <1>9, Zenon DEF Books, TypeOK
<1>11. UnreadIntact'
  <2>1. Len(unread) = PublishedCount /\ Len(unread)' = PublishedCount'
    BY <1>9, Zenon DEF Books, UnreadIntact, Moves, PublishedCount, WrappingSub
  <2>2. ASSUME NEW k \in 1..Len(unread) PROVE cqes'[SlotOf(cq_head + k - 1)] = unread[k]
    <3>1. SlotOf(cq_head + k - 1) # p
      BY <1>1, <1>5, <1>6, <2>1, TailFree, SMTT(30)
    <3>2. cq_head + k - 1 \in Int
      BY <1>5, <2>1, TailSlot DEF TypeOK
    <3>3. SlotOf(cq_head + k - 1) \in 0..(CqEntries - 1)
      BY <3>2, SameSlot, Zenon
    <3> QED BY <1>10, <3>1, <3>3, Zenon DEF Books, UnreadIntact
  <2> QED BY <1>9, <2>1, <2>2, Zenon DEF UnreadIntact, Moves, SlotOf
<1>12. PlansWritten'
  <2>1. \A u \in tokens : u.kind # "publication"
    BY <1>1 DEF IInv, Typed, AllBacked, Backed, PublicationCurrent, IdSpace, NoId, NoSlot, Slots
  <2>2. new.slot = p /\ new.completion = c
    BY <1>7, Zenon
  <2> QED BY <1>9, <1>10, <2>1, <2>2, Zenon DEF PlansWritten
<1>13. tokens' \subseteq Tokens
  BY <1>8, <1>9, Zenon DEF Books, TypeOK
<1> QED
  BY <1>1, <1>9, <1>10, <1>11, <1>12, <1>13, MovesBooks, SMTT(30)

-----------------------------------------------------------------------------
(* The occupied slots can be counted. *)
LEMMA OccupiedFinite == IsFiniteSet(Slots) /\ IsFiniteSet(Occupied)
<1>1. IsFiniteSet(Slots)
  BY RingAssumption, FS_Interval DEF Slots
<1> QED
  BY <1>1, FS_Subset, Zenon DEF Occupied

(* A stack of distinct slots, and a slot that is not in it pushed. *)
LEMMA Pushed ==
  ASSUME NEW q \in Seq(Slots), NEW s \in Slots,
         \A i \in 1..Len(q) : q[i] # s, \A i, j \in 1..Len(q) : i # j => q[i] # q[j],
         NEW r, r = Append(q, s)
  PROVE  /\ r \in Seq(Slots) /\ {r[i] : i \in 1..Len(r)} = {q[i] : i \in 1..Len(q)} \union {s}
         /\ \A i, j \in 1..Len(r) : i # j => r[i] # r[j]
<1>1. /\ r \in Seq(Slots) /\ Len(r) = Len(q) + 1 /\ Len(q) \in Nat /\ r[Len(q) + 1] = s
      /\ \A i \in 1..Len(q) : r[i] = q[i]
  OBVIOUS
<1>2. \A i \in 1..Len(r) : i \in 1..Len(q) \/ i = Len(q) + 1
  BY <1>1
<1>3. {r[i] : i \in 1..Len(r)} = {q[i] : i \in 1..Len(q)} \union {s}
  BY <1>1, <1>2
<1>4. \A i, j \in 1..Len(r) : i # j => r[i] # r[j]
  BY <1>1, <1>2, SMTT(30)
<1> QED
  BY <1>1, <1>3, <1>4, Zenon

(* clear_slot: one slot less is occupied, and it is free again unless its
   generations are exhausted. *)
LEMMA Cleared ==
  ASSUME Books, NEW id \in Ids, State(id) # "empty", ClearSlot(id)
  PROVE  /\ entries' \in [Slots -> Entries \union {NoEntry}]
         /\ generation' \in [Slots -> 1..(MaxGeneration + 1)]
         /\ free_slots' \in Seq(Slots) /\ FreeSlotsExact'
         /\ \A s \in Slots : entries'[s] = entries[s] \/ entries'[s].state = "empty"
         /\ Cardinality(Occupied) \in Nat \ {0}
         /\ Cardinality(Occupied') = Cardinality(Occupied) - 1
<1>1. TypeOK
  BY Zenon DEF Books
<1>2. PICK s \in Slots : /\ s = id.slot /\ entries[s] \in Entries /\ entries[s].state # "empty"
                         /\ id.generation = generation[s] /\ id.generation \in 1..MaxGeneration
  BY <1>1, EntryTyped DEF Ids, Current
<1>3. PICK g : g = id.generation + 1
  BY Zenon
<1>4. /\ entries' = [entries EXCEPT ![s] = NoEntry] /\ generation' = [generation EXCEPT ![s] = g]
      /\ free_slots' = IF g <= MaxGeneration THEN Append(free_slots, s) ELSE free_slots
  BY <1>2, <1>3, Zenon DEF ClearSlot, FreeAgain
<1>5. g \in 1..(MaxGeneration + 1) /\ MaxGeneration \in Nat
  BY <1>2, <1>3, RingAssumption
<1>6. /\ entries' \in [Slots -> Entries \union {NoEntry}] /\ entries'[s] = NoEntry
      /\ \A u \in Slots : u # s => entries'[u] = entries[u]
  BY <1>1, <1>4, Zenon DEF TypeOK
<1>7. /\ generation' \in [Slots -> 1..(MaxGeneration + 1)] /\ generation'[s] = g
      /\ \A u \in Slots : u # s => generation'[u] = generation[u]
  BY <1>1, <1>4, <1>5, Zenon DEF TypeOK
<1>8. entries[s] # NoEntry /\ NoEntry.state = "empty"
  BY <1>2 DEF NoEntry
<1>9. /\ \A i \in 1..Len(free_slots) : free_slots[i] # s
      /\ \A i, j \in 1..Len(free_slots) : i # j => free_slots[i] # free_slots[j]
      /\ {free_slots[i] : i \in 1..Len(free_slots)}
           = {u \in Slots : entries[u] = NoEntry /\ generation[u] <= MaxGeneration}
      /\ free_slots \in Seq(Slots)
  BY <1>1, <1>8, ZenonT(30) DEF Books, FreeSlotsExact, TypeOK
<1>10. free_slots' \in Seq(Slots) /\ FreeSlotsExact'
  <2>1. CASE g <= MaxGeneration
    <3>1. free_slots' = Append(free_slots, s)
      BY <1>4, <2>1, Zenon
    <3>2. /\ free_slots' \in Seq(Slots)
          /\ {free_slots'[i] : i \in 1..Len(free_slots')}
               = {free_slots[i] : i \in 1..Len(free_slots)} \union {s}
          /\ \A i, j \in 1..Len(free_slots') : i # j => free_slots'[i] # free_slots'[j]
      BY <1>9, <3>1, Pushed
    <3>3. {u \in Slots : entries'[u] = NoEntry /\ generation'[u] <= MaxGeneration}
            = {u \in Slots : entries[u] = NoEntry /\ generation[u] <= MaxGeneration} \union {s}
      BY <1>6, <1>7, <2>1, SMTT(30)
    <3> QED BY <1>9, <3>2, <3>3, ZenonT(30) DEF FreeSlotsExact
  <2>2. CASE ~(g <= MaxGeneration)
    <3>1. free_slots' = free_slots
      BY <1>4, <2>2, Zenon
    <3>2. {u \in Slots : entries'[u] = NoEntry /\ generation'[u] <= MaxGeneration}
            = {u \in Slots : entries[u] = NoEntry /\ generation[u] <= MaxGeneration}
      BY <1>6, <1>7, <1>8, <2>2, SMTT(30)
    <3> QED BY <1>9, <3>1, <3>2 DEF FreeSlotsExact
  <2> QED BY <2>1, <2>2, Zenon
<1>11. s \in Occupied /\ Occupied' = Occupied \ {s}
  BY <1>2, <1>6, <1>8, Zenon DEF Occupied
<1>12. Cardinality(Occupied) \in Nat \ {0} /\ Cardinality(Occupied') = Cardinality(Occupied) - 1
  <2>1. PICK O : O = Occupied /\ IsFiniteSet(O) /\ s \in O
    BY <1>11, OccupiedFinite, Zenon
  <2>2. Cardinality(O) \in Nat /\ Cardinality(O) # 0 /\ Cardinality(O \ {s}) = Cardinality(O) - 1
    BY <2>1, FS_RemoveElement, FS_CardinalityType, FS_EmptySet, SMTT(30)
  <2> QED BY <1>11, <2>1, <2>2, Zenon
<1> QED
  BY <1>6, <1>7, <1>8, <1>10, <1>12, SMTT(30)

(* The stack without its top. *)
LEMMA Popped ==
  ASSUME NEW q \in Seq(Slots), q # <<>>, \A i, j \in 1..Len(q) : i # j => q[i] # q[j],
         NEW r, r = SubSeq(q, 1, Len(q) - 1)
  PROVE  /\ r \in Seq(Slots) /\ q[Len(q)] \in Slots
         /\ {r[i] : i \in 1..Len(r)} = {q[i] : i \in 1..Len(q)} \ {q[Len(q)]}
         /\ \A i, j \in 1..Len(r) : i # j => r[i] # r[j]
<1>1. Len(q) \in Nat /\ Len(q) # 0 /\ \A i \in 1..Len(q) : q[i] \in Slots
  OBVIOUS
<1>2. r \in Seq(Slots) /\ Len(r) = Len(q) - 1 /\ \A i \in 1..(Len(q) - 1) : r[i] = q[i]
  <2>1. \A i \in 1..(Len(q) - 1) : q[i] \in Slots
    BY <1>1
  <2>2. r \in Seq(Slots)
    BY <1>1, <2>1, SubSeqProperties
  <2>a. PICK m \in Nat : m = Len(q) - 1
    BY <1>1
  <2>b. Len(SubSeq(q, 1, m)) = IF 1 <= m THEN m - 1 + 1 ELSE 0
    BY <2>1, <2>a, SubSeqProperties
  <2>3. Len(r) = Len(q) - 1
    BY <2>a, <2>b
  <2>4. \A i \in 1..(Len(q) - 1) : r[i] = q[i]
    BY <1>1
  <2> QED BY <2>2, <2>3, <2>4, Zenon
<1>3. \A i \in 1..Len(q) : i \in 1..Len(r) \/ i = Len(q)
  BY <1>1, <1>2
<1>4. {r[i] : i \in 1..Len(r)} = {q[i] : i \in 1..Len(q)} \ {q[Len(q)]}
  BY <1>1, <1>2, <1>3
<1>5. \A i, j \in 1..Len(r) : i # j => r[i] # r[j]
  BY <1>1, <1>2
<1> QED
  BY <1>1, <1>2, <1>4, <1>5

(* reserve: the slot and the credit are taken together. *)
LEMMA ReserveBooks ==
  ASSUME Books, NEW d \in Descriptors, Reserve(d) PROVE Books'
<1>1. TypeOK /\ FreeSlotsExact /\ lifecycle = "Open" /\ free_slots # <<>> /\ free_slots \in Seq(Slots)
  BY SMTT(30) DEF Books, TypeOK, Reserve, Reservable
<1>2. PICK s : s = free_slots[Len(free_slots)]
  BY Zenon
<1>3. /\ s \in Slots /\ free_slots' \in Seq(Slots)
      /\ {free_slots'[i] : i \in 1..Len(free_slots')}
           = {free_slots[i] : i \in 1..Len(free_slots)} \ {s}
      /\ \A i, j \in 1..Len(free_slots') : i # j => free_slots'[i] # free_slots'[j]
  <2>1. free_slots' = SubSeq(free_slots, 1, Len(free_slots) - 1)
    BY Zenon DEF Reserve
  <2>2. \A i, j \in 1..Len(free_slots) : i # j => free_slots[i] # free_slots[j]
    BY <1>1, Zenon DEF FreeSlotsExact
  <2>3. PICK r : r = free_slots' /\ r = SubSeq(free_slots, 1, Len(free_slots) - 1)
    BY <2>1, Zenon
  <2>4. /\ r \in Seq(Slots) /\ s \in Slots
        /\ {r[i] : i \in 1..Len(r)} = {free_slots[i] : i \in 1..Len(free_slots)} \ {s}
        /\ \A i, j \in 1..Len(r) : i # j => r[i] # r[j]
    <3>1. free_slots \in Seq(Slots) /\ free_slots # <<>>
      BY <1>1, Zenon
    <3> QED BY ONLY <3>1, <1>2, <2>2, <2>3, Popped, ZenonT(30)
  <2> QED BY <2>3, <2>4, ZenonT(30)
<1>4. next_sequence \in 1..MaxSequence /\ next_sequence' = next_sequence + 1 /\ MaxSequence \in Nat
  BY <1>1, RingAssumption DEF TypeOK, Reserve, Reservable
<1>5. PICK e : e = [state |-> "Reserved", descriptor |-> d, sequence |-> next_sequence]
  BY ZenonT(30)
<1>6. e \in Entries /\ e.state = "Reserved" /\ e # NoEntry
  BY <1>4, <1>5, Zenon DEF Entries, NoEntry
<1>7. /\ entries' = [entries EXCEPT ![s] = e] /\ entries[s] = NoEntry
      /\ generation[s] <= MaxGeneration /\ generation' = generation
  BY <1>2, <1>5, ZenonT(30) DEF Reserve, SetState
<1>8. /\ entries' \in [Slots -> Entries \union {NoEntry}] /\ entries'[s] = e
      /\ \A u \in Slots : u # s => entries'[u] = entries[u]
  BY <1>1, <1>3, <1>6, <1>7, Zenon DEF TypeOK
<1>9. PICK t : t = [kind |-> "reservation", id |-> [slot |-> s, generation |-> generation[s]]]
  BY ZenonT(30)
<1>10. t \in Tokens /\ t.kind # "publication" /\ tokens' = tokens \union {t}
  <2>1. generation[s] \in 1..MaxGeneration
    BY <1>1, <1>3, <1>7, RingAssumption, SMTT(30) DEF TypeOK
  <2> QED BY <1>2, <1>3, <1>9, <2>1, ZenonT(30) DEF Tokens, Ids, Reserve
<1>11. terminal_credits' = terminal_credits + 1 /\ terminal_credits' \in 0..CqEntries
  BY <1>1, RingAssumption DEF TypeOK, Reserve, Reservable
<1>12. /\ lifecycle' = lifecycle /\ publication_in_flight' = publication_in_flight
       /\ cq_head' = cq_head /\ cq_tail' = cq_tail /\ cqes' = cqes /\ unread' = unread
  BY ZenonT(30) DEF Reserve, cqVars
<1>13. TypeOK'
  <2>1. next_sequence' \in 1..(MaxSequence + 1)
    BY <1>4
  <2> QED BY ONLY <1>1, <1>3, <1>7, <1>8, <1>10, <1>11, <1>12, <2>1, ZenonT(30) DEF TypeOK
<1>14. CreditsOwned'
  <2>1. s \notin Occupied /\ Occupied' = Occupied \union {s}
    BY <1>3, <1>6, <1>7, <1>8 DEF Occupied, NoEntry
  <2>2. PICK O : O = Occupied /\ IsFiniteSet(O) /\ s \notin O
    BY <2>1, OccupiedFinite, Zenon
  <2>3. Cardinality(O) \in Nat /\ Cardinality(O \union {s}) = Cardinality(O) + 1
    BY <2>2, FS_AddElement, FS_CardinalityType, Zenon
  <2>4. PublishedCount' = PublishedCount /\ PublishedCount \in Nat
    BY <1>1, <1>12, TailSlot DEF PublishedCount, WrappingSub
  <2> QED BY <1>11, <2>1, <2>2, <2>3, <2>4, SMTT(30) DEF Books, CreditsOwned
<1>15. FreeSlotsExact'
  <2>1. {u \in Slots : entries'[u] = NoEntry /\ generation'[u] <= MaxGeneration}
          = {u \in Slots : entries[u] = NoEntry /\ generation[u] <= MaxGeneration} \ {s}
    BY <1>6, <1>7, <1>8, Zenon
  <2> QED BY <1>1, <1>3, <2>1, ZenonT(30) DEF FreeSlotsExact
<1>16. UnreadIntact'
  BY <1>12, Zenon DEF Books, UnreadIntact, PublishedCount, WrappingSub, SlotOf
<1>17. PlansWritten' /\ Drained'
  BY <1>1, <1>10, <1>12, ZenonT(30) DEF Books, PlansWritten, Drained
<1> QED
  BY <1>13, <1>14, <1>15, <1>16, <1>17, SMTT(30) DEF Books

(* rollback and discard_completion: slot and credit are given back together. *)
LEMMA ClearBooks ==
  ASSUME Books, NEW t \in tokens, State(t.id) # "empty", ClearSlot(t.id), RefundCredits(1),
         tokens' = tokens \ {t}, UNCHANGED <<next_sequence, lifecycle, publication_in_flight, cqVars>>
  PROVE  Books'
<1>1. t.id \in Ids
  BY TokenTyped, Zenon
<1>2. /\ entries' \in [Slots -> Entries \union {NoEntry}]
      /\ generation' \in [Slots -> 1..(MaxGeneration + 1)]
      /\ free_slots' \in Seq(Slots) /\ FreeSlotsExact'
      /\ \A s \in Slots : entries'[s] = entries[s] \/ entries'[s].state = "empty"
      /\ Cardinality(Occupied) \in Nat \ {0}
      /\ Cardinality(Occupied') = Cardinality(Occupied) - 1
  BY <1>1, Cleared, Zenon
<1>3. terminal_credits' = terminal_credits - 1 /\ terminal_credits' \in 0..CqEntries
  BY RingAssumption DEF RefundCredits, Books, TypeOK
<1>4. cq_head' = cq_head /\ cq_tail' = cq_tail /\ cqes' = cqes /\ unread' = unread
  BY Zenon DEF cqVars
<1>5. TypeOK'
  BY <1>2, <1>3, <1>4, SMTT(30) DEF Books, TypeOK
<1>6. CreditsOwned'
  <2>1. PublishedCount' = PublishedCount /\ PublishedCount \in Nat
    BY <1>4, TailSlot, SMTT(30) DEF PublishedCount, WrappingSub, Books
  <2> QED BY <1>2, <1>3, <2>1 DEF Books, CreditsOwned
<1>7. UnreadIntact'
  BY <1>4, Zenon DEF Books, UnreadIntact, PublishedCount, WrappingSub, SlotOf
<1>8. PlansWritten'
  BY <1>4, ZenonT(30) DEF Books, PlansWritten
<1>9. Drained'
  <2>1. lifecycle # "Closed"
    BY <1>2, TailSlot, SMTT(30) DEF Books, Drained, CreditsOwned
  <2> QED BY <1>2, <2>1, SMTT(30) DEF Books, Drained
<1> QED
  BY <1>2, <1>5, <1>6, <1>7, <1>8, <1>9, ZenonT(30) DEF Books

(* commit_publication: the credit passes from the request to the completion,
   which is found where the adapter wrote it. *)
LEMMA CommitPublicationBooks ==
  ASSUME IInv, Books, NEW t \in tokens, CommitPublication(t) PROVE Books'
<1>1. t.id \in Ids /\ State(t.id) = "Publishing" /\ t \in Tokens /\ TypeOK /\ t.kind = "publication"
  BY TokenTyped, SMTT(30) DEF CommitPublication, PublicationCurrent, Books
<1>2. /\ entries' \in [Slots -> Entries \union {NoEntry}]
      /\ generation' \in [Slots -> 1..(MaxGeneration + 1)]
      /\ free_slots' \in Seq(Slots) /\ FreeSlotsExact'
      /\ \A s \in Slots : entries'[s] = entries[s] \/ entries'[s].state = "empty"
      /\ Cardinality(Occupied) \in Nat \ {0}
      /\ Cardinality(Occupied') = Cardinality(Occupied) - 1
  BY <1>1, Cleared, SMTT(30) DEF CommitPublication
<1>3. PICK c \in Completions, p \in 0..(CqEntries - 1), n \in 0..(Modulus - 1) :
        /\ t.completion = c /\ t.slot = p /\ t.new_tail = n
        /\ p = SlotOf(cq_tail) /\ n = (cq_tail + 1) % Modulus
  BY <1>1, Zenon DEF Tokens, CommitPublication
<1>4. /\ cq_tail' = n /\ cq_head' = cq_head /\ cqes' = cqes /\ unread' = Append(unread, c)
      /\ tokens' = tokens \ {t} /\ publication_in_flight' = NoId
      /\ next_sequence' = next_sequence /\ lifecycle' = lifecycle
      /\ terminal_credits' = terminal_credits
  BY <1>3, SMTT(30) DEF CommitPublication
<1>5. /\ CqEntries \in Nat /\ CqEntries > 0 /\ Modulus \in Nat /\ CqEntries < Modulus
      /\ cq_head \in 0..(Modulus - 1) /\ cq_tail \in 0..(Modulus - 1)
      /\ PublishedCount \in 0..(Modulus - 1) /\ Ahead(cq_tail, cq_head, PublishedCount)
  BY <1>1, RingAssumption, TailSlot, SMTT(30) DEF TypeOK
<1>6. PublishedCount < CqEntries
  BY <1>1, <1>2, <1>5 DEF Books, CreditsOwned, TypeOK
<1>7. PublishedCount' = PublishedCount + 1
  <2>1. n = cq_tail + 1 \/ n = cq_tail + 1 - Modulus
    <3>1. CASE cq_tail + 1 < Modulus
      <4>1. (cq_tail + 1) % Modulus = cq_tail + 1
        BY <1>5, <3>1
      <4> QED BY <1>3, <4>1, Zenon
    <3>2. CASE cq_tail + 1 = Modulus
      <4>1. (cq_tail + 1) % Modulus = 0
        BY <1>5, <3>2
      <4> QED BY <1>3, <1>5, <3>2, <4>1, SMTT(30)
    <3> QED BY <1>5, <3>1, <3>2
  <2>2. Ahead(n, cq_head, PublishedCount + 1)
    <3>1. PublishedCount + 1 \in 0..(Modulus - 1)
      BY <1>5, <1>6
    <3>2. n = cq_head + (PublishedCount + 1) \/ n = cq_head + (PublishedCount + 1) - Modulus
      BY <1>5, <2>1, n \in 0..(Modulus - 1) DEF Ahead
    <3> QED BY <3>1, <3>2, ZenonT(30) DEF Ahead
  <2>3. WrappingSub(n, cq_head) = PublishedCount + 1
    BY <1>5, <2>2, Distance, SMTT(30)
  <2> QED BY <1>4, <2>3, Zenon DEF PublishedCount, WrappingSub
<1>8. TypeOK'
  <2>1. unread' \in Seq(Completions)
    BY <1>1, <1>4, SMTT(30) DEF TypeOK
  <2> QED BY <1>1, <1>2, <1>4, <2>1, SMTT(30) DEF TypeOK
<1>9. CreditsOwned'
  BY <1>2, <1>4, <1>5, <1>7, SMTT(30) DEF Books, CreditsOwned
<1>10. UnreadIntact'
  <2>1. /\ unread \in Seq(Completions) /\ Len(unread) = PublishedCount
        /\ \A k \in 1..Len(unread) : cqes[SlotOf(cq_head + k - 1)] = unread[k]
    BY <1>1, SMTT(30) DEF Books, TypeOK, UnreadIntact
  <2>2. /\ Len(unread') = PublishedCount + 1 /\ unread'[PublishedCount + 1] = c
        /\ \A k \in 1..PublishedCount : unread'[k] = unread[k]
    BY <1>4, <1>5, <2>1, SMTT(30)
  <2>3. cqes[p] = c /\ p = SlotOf(cq_head + PublishedCount)
    BY <1>1, <1>3, TailSlot, SMTT(30) DEF Books, PlansWritten
  <2>4. ASSUME NEW k \in 1..Len(unread') PROVE cqes[SlotOf(cq_head + k - 1)] = unread'[k]
    <3>1. CASE k \in 1..PublishedCount
      BY <2>1, <2>2, <3>1, SMTT(30)
    <3>2. CASE k = PublishedCount + 1
      <4>1. cq_head + k - 1 = cq_head + PublishedCount
        BY <1>5, <3>2, SMTT(30)
      <4> QED BY <2>2, <2>3, <3>2, <4>1, ZenonT(30)
    <3> QED BY <1>5, <2>2, <3>1, <3>2, SMTT(30)
  <2> QED BY <1>4, <1>7, <2>2, <2>4, SMTT(30) DEF UnreadIntact, SlotOf
<1>11. PlansWritten'
  BY <1>4, Zenon DEF Books, PlansWritten
<1>12. Drained'
  <2>1. lifecycle \notin {"Draining", "Closed"}
    BY <1>1, EntryTyped, SMTT(30) DEF Books, Drained
  <2> QED BY <1>4, <2>1, SMTT(30) DEF Drained
<1> QED
  BY <1>2, <1>8, <1>9, <1>10, <1>11, <1>12, SMTT(30) DEF Books

(* observe_completion_head and discard_published: the head moves over unread
   completions only, and their credits come back. *)
LEMMA ConsumeBooks ==
  ASSUME Books, NEW head \in 0..(Modulus - 1), NEW n, n = WrappingSub(head, cq_head),
         n <= PublishedCount, cq_head' = head, RefundCredits(n),
         unread' = SubSeq(unread, n + 1, Len(unread)),
         UNCHANGED <<entries, generation, free_slots, next_sequence, lifecycle, cq_tail,
                     publication_in_flight, cqes, tokens>>
  PROVE  Books'
<1>1. /\ TypeOK /\ CqEntries \in Nat /\ Modulus \in Nat
      /\ cq_head \in 0..(Modulus - 1) /\ cq_tail \in 0..(Modulus - 1)
      /\ unread \in Seq(Completions) /\ Len(unread) = PublishedCount
  BY RingAssumption, Zenon DEF Books, TypeOK, UnreadIntact
<1>2. n \in 0..(Modulus - 1) /\ Ahead(head, cq_head, n)
  BY <1>1, Distance, ZenonT(30) DEF Ahead
<1>3. PublishedCount \in 0..(Modulus - 1) /\ Ahead(cq_tail, cq_head, PublishedCount)
  BY <1>1, TailSlot, SMTT(30)
<1>a. ASSUME NEW k \in Int PROVE SlotOf(head + k - 1) = SlotOf(cq_head + (k + n) - 1)
  <2>1. n \in Nat
    BY <1>1, <1>2
  <2> QED BY ONLY <1>1, <1>2, <2>1, k \in Int, head \in 0..(Modulus - 1), AheadSlot, ZenonT(30)
<1>4. PublishedCount' = PublishedCount - n
  <2>1. Ahead(cq_tail, head, PublishedCount - n)
    BY <1>1, <1>2, <1>3, AheadOfBoth
  <2>2. WrappingSub(cq_tail, head) = PublishedCount - n
    BY <1>1, <2>1, Distance, ZenonT(30)
  <2> QED BY <2>1, <2>2, Zenon DEF PublishedCount, WrappingSub
<1>5. /\ unread' \in Seq(Completions) /\ Len(unread') = PublishedCount - n
      /\ \A k \in 1..(PublishedCount - n) : unread'[k] = unread[k + n]
  <2>1. \A i \in (n + 1)..Len(unread) : unread[i] \in Completions
    BY <1>1, <1>2
  <2>2. n + 1 \in Int /\ Len(unread) \in Int
    BY <1>1, <1>2
  <2>3. PICK u : u = unread' /\ u = SubSeq(unread, n + 1, Len(unread))
    BY ZenonT(30)
  <2>4. /\ u \in Seq(Completions)
        /\ Len(u) = IF n + 1 <= Len(unread) THEN Len(unread) - (n + 1) + 1 ELSE 0
        /\ \A i \in 1..(Len(unread) - (n + 1) + 1) : u[i] = unread[(n + 1) + i - 1]
    BY <2>1, <2>2, <2>3, SubSeqProperties
  <2>5. Len(u) = PublishedCount - n
    BY <1>1, <1>2, <1>3, <2>4
  <2>6. ASSUME NEW k \in 1..(PublishedCount - n) PROVE u[k] = unread[k + n]
    <3>1. k \in 1..(Len(unread) - (n + 1) + 1) /\ (n + 1) + k - 1 = k + n
      BY <1>1, <1>2, <1>3, SMTT(30)
    <3> QED BY <2>4, <3>1, SMTT(30)
  <2> QED BY <2>3, <2>4, <2>5, <2>6, SMTT(30)
<1>6. terminal_credits' = terminal_credits - n /\ terminal_credits' \in 0..CqEntries
  BY <1>1, <1>2, SMTT(30) DEF RefundCredits, TypeOK
<1>7. TypeOK'
  BY <1>1, <1>5, <1>6, SMTT(30) DEF TypeOK
<1>8. CreditsOwned'
  <2>1. Occupied' = Occupied
    <3>1. entries' = entries
      BY ZenonT(30)
    <3> QED BY ONLY <3>1, ZenonT(30) DEF Occupied
  <2>2. Cardinality(Occupied) \in Nat
    BY ONLY OccupiedFinite, FS_CardinalityType, Zenon
  <2>3. terminal_credits = Cardinality(Occupied) + PublishedCount
    BY ZenonT(30) DEF Books, CreditsOwned
  <2> QED BY ONLY <1>2, <1>3, <1>4, <1>6, <2>1, <2>2, <2>3 DEF CreditsOwned
<1>9. FreeSlotsExact' /\ PlansWritten'
  BY SMTT(30) DEF Books, FreeSlotsExact, PlansWritten
<1>10. UnreadIntact'
  <2>1. ASSUME NEW k \in 1..(PublishedCount - n)
        PROVE  cqes[SlotOf(head + k - 1)] = unread'[k]
    <3>1. k + n \in 1..Len(unread) /\ unread'[k] = unread[k + n]
      BY <1>1, <1>2, <1>3, <1>5, SMTT(30)
    <3>2. cqes[SlotOf(cq_head + (k + n) - 1)] = unread[k + n]
      BY <3>1, Zenon DEF Books, UnreadIntact
    <3>3. SlotOf(head + k - 1) = SlotOf(cq_head + (k + n) - 1)
      <4>1. k \in Int
        BY <1>1, <1>2, <1>3, SMTT(30)
      <4> QED BY <1>a, <4>1, Zenon
    <3> QED BY <3>1, <3>2, <3>3, ZenonT(30)
  <2> QED BY <1>4, <1>5, <2>1, SMTT(30) DEF UnreadIntact, SlotOf
<1>11. Drained'
  BY <1>1, <1>2, <1>6, SMTT(30) DEF Books, Drained, RefundCredits, TypeOK
<1> QED
  BY <1>7, <1>8, <1>9, <1>10, <1>11, SMTT(30) DEF Books

(* observe_completion_head *)
LEMMA ObserveBooks ==
  ASSUME Books, NEW head \in 0..(Modulus - 1), ObserveCompletionHead(head) PROVE Books'
<1>1. PICK n : n = WrappingSub(head, cq_head)
  BY Zenon
<1>2. /\ n <= PublishedCount /\ cq_head' = head /\ RefundCredits(n)
      /\ unread' = SubSeq(unread, n + 1, Len(unread))
      /\ UNCHANGED <<entries, generation, free_slots, next_sequence, lifecycle, cq_tail,
                     publication_in_flight, cqes, tokens>>
  BY <1>1, Zenon DEF ObserveCompletionHead, ConsumptionValid
<1> QED
  BY <1>1, <1>2, ConsumeBooks, ZenonT(30)

(* discard_published *)
LEMMA DiscardPublishedBooks ==
  ASSUME Books, DiscardPublished PROVE Books'
<1>1. cq_tail \in 0..(Modulus - 1) /\ Len(unread) = PublishedCount /\ PublishedCount \in Nat
  BY TailSlot DEF Books, TypeOK, UnreadIntact
<1>2. PICK n \in Nat : n = PublishedCount /\ n = WrappingSub(cq_tail, cq_head)
  BY <1>1, Zenon DEF PublishedCount
<1>3. SubSeq(unread, n + 1, Len(unread)) = <<>>
  BY <1>1, <1>2, SubSeqEmpty
<1>4. n <= PublishedCount
  BY <1>2
<1>5. RefundCredits(n)
  BY <1>2, Zenon DEF DiscardPublished, RefundCredits
<1>6. /\ cq_head' = cq_tail /\ unread' = <<>>
      /\ UNCHANGED <<entries, generation, free_slots, next_sequence, lifecycle, cq_tail,
                     publication_in_flight, cqes, tokens>>
  BY Zenon DEF DiscardPublished
<1>7. unread' = SubSeq(unread, n + 1, Len(unread))
  BY <1>3, <1>6, ZenonT(30)
<1> QED
  BY <1>1, <1>2, <1>4, <1>5, <1>6, <1>7, ConsumeBooks, ZenonT(30)

(* begin_close, begin_draining, finish_close: the lifecycle moves on when what
   it announces is true. *)
LEMMA LifecycleBooks ==
  ASSUME Books, BeginClose \/ BeginDraining \/ FinishClose PROVE Books'
<1>1. /\ UNCHANGED <<entries, generation, free_slots, next_sequence, terminal_credits,
                     publication_in_flight, tokens>>
      /\ cq_head' = cq_head /\ cq_tail' = cq_tail /\ cqes' = cqes /\ unread' = unread
      /\ lifecycle' \in {"Closing", "Draining", "Closed"}
  BY Zenon DEF BeginClose, BeginDraining, FinishClose, cqVars
<1>2. TypeOK'
  BY <1>1, Zenon DEF Books, TypeOK
<1>3. CreditsOwned' /\ FreeSlotsExact' /\ UnreadIntact' /\ PlansWritten'
  BY <1>1 DEF Books, CreditsOwned, PublishedCount, WrappingSub, Occupied, FreeSlotsExact,
       UnreadIntact, SlotOf, PlansWritten
<1>4. Drained'
  <2>1. CASE BeginClose
    BY <2>1, SMTT(30) DEF BeginClose, Drained
  <2>2. CASE BeginDraining
    BY <2>2, SMTT(30) DEF BeginDraining, Drainable, Occupied, Drained
  <2>3. CASE FinishClose
    BY <2>3, Zenon DEF FinishClose, Occupied, Drained
  <2> QED BY <2>1, <2>2, <2>3, SMTT(30)
<1> QED
  BY <1>2, <1>3, <1>4, ZenonT(30) DEF Books

(* RequestRegistry::new: every slot is free, the top of the stack is slot 0. *)
LEMMA InitBooks == ASSUME Init PROVE Books
<1> USE RingAssumption
<1>1. free_slots \in Seq(Slots) /\ Len(free_slots) = Capacity
      /\ \A i \in 1..Capacity : free_slots[i] = Capacity - i /\ Capacity - i \in Slots
  <2>1. \A i \in 1..Capacity : Capacity - i \in Slots
    BY DEF Slots
  <2> QED BY <2>1, SMTT(30) DEF Init
<1>2. TypeOK
  <2>1. entries \in [Slots -> Entries \union {NoEntry}]
    BY Zenon DEF Init
  <2>2. generation \in [Slots -> 1..(MaxGeneration + 1)] /\ next_sequence \in 1..(MaxSequence + 1)
    BY DEF Init
  <2>3. /\ cq_head \in 0..(Modulus - 1) /\ cq_tail \in 0..(Modulus - 1)
        /\ terminal_credits \in 0..CqEntries
    BY DEF Init
  <2>4. cqes \in [0..(CqEntries - 1) -> Completions \union {NoCqe}] /\ unread \in Seq(Completions)
    BY DEF Init
  <2> QED BY <1>1, <2>1, <2>2, <2>3, <2>4, ZenonT(30) DEF Init, TypeOK
<1>3. PublishedCount = 0
  <2>1. cq_head = 0 /\ cq_tail = 0 /\ 0 % Modulus = 0
    BY SMTT(30) DEF Init
  <2> QED BY <2>1 DEF PublishedCount, WrappingSub
<1>4. CreditsOwned
  <2>1. Occupied = {}
    BY Zenon DEF Init, Occupied, NoEntry
  <2>2. Cardinality({}) = 0
    BY FS_EmptySet, Zenon
  <2> QED BY <1>3, <2>1, <2>2 DEF Init, CreditsOwned
<1>5. FreeSlotsExact
  <2>1. \A s \in Slots : Capacity - s \in 1..Capacity /\ Capacity - (Capacity - s) = s
    BY DEF Slots
  <2>2. {free_slots[i] : i \in 1..Len(free_slots)} = Slots
    BY <1>1, <2>1
  <2>3. {s \in Slots : entries[s] = NoEntry /\ generation[s] <= MaxGeneration} = Slots
    BY DEF Init
  <2>4. \A i, j \in 1..Len(free_slots) : i # j => free_slots[i] # free_slots[j]
    BY <1>1
  <2> QED BY <2>2, <2>3, <2>4, Zenon DEF FreeSlotsExact
<1>6. UnreadIntact
  BY <1>3 DEF Init, UnreadIntact
<1>7. PlansWritten /\ Drained
  BY Zenon DEF Init, PlansWritten, Drained, NoEntry
<1> QED
  BY ONLY <1>2, <1>4, <1>5, <1>6, <1>7, ZenonT(30) DEF Books

(* An id with a generation that is not exhausted is one of Ids. *)
LEMMA CurrentId ==
  ASSUME Books, NEW s \in Slots, generation[s] <= MaxGeneration
  PROVE  Current(s) \in Ids
<1>1. generation[s] \in 1..MaxGeneration
  BY RingAssumption DEF Books, TypeOK
<1> QED BY <1>1, Zenon DEF Current, Ids

(* Every step of the registry and of its callers keeps the books. *)
LEMMA NextBooks == ASSUME IInv, Books, [Next]_vars PROVE Books'
<1>1. CASE UNCHANGED vars
  BY <1>1, SMTT(30) DEF vars, Books, TypeOK, CreditsOwned, PublishedCount, WrappingSub, Occupied,
       FreeSlotsExact, UnreadIntact, SlotOf, PlansWritten, Drained
<1>2. CASE \E d \in Descriptors : Reserve(d)
  BY <1>2, ReserveBooks, Zenon
<1>3. ASSUME NEW t \in tokens, Holder(t) PROVE Books'
  <2>1. CASE Rollback(t)
    BY <2>1, ClearBooks, Zenon DEF Rollback
  <2>2. CASE DiscardCompletion(t)
    BY <2>2, ClearBooks, Zenon DEF DiscardCompletion
  <2> QED
    BY SMTT(30), <1>3, <2>1, <2>2, CommitBooks, IssueBooks, FinishBooks, PublishBooks,
       CommitPublicationBooks, RollbackPublicationBooks DEF Holder
<1>4. CASE \E id \in Ids, cause \in Causes : ClaimTerminal(id, cause)
  BY <1>4, ClaimBooks, Zenon DEF ClaimTerminal
<1>5. CASE \E ud \in UserData, exclude \in Ids \union {NoId} : ClaimCancel(ud, exclude)
  <2>1. PICK s \in Slots : generation[s] <= MaxGeneration /\ Claim(Current(s), "Cancelled")
    BY <1>5, CancelClaims, Zenon
  <2>2. Current(s) \in Ids
    BY <2>1, CurrentId, Zenon
  <2> QED BY <2>1, <2>2, ClaimBooks, Zenon
<1>6. CASE \E head \in 0..(Modulus - 1) : ObserveCompletionHead(head)
  BY <1>6, ObserveBooks, Zenon
<1> QED
  BY <1>1, <1>2, <1>3, <1>4, <1>5, <1>6, DiscardPublishedBooks, LifecycleBooks, SMTT(30) DEF Next

(* The credit of a request that is still to be published leaves it a place in
   the completion queue. *)
LEMMA RoomLeft == ASSUME Books PROVE PublishNeverFull
<1> SUFFICES ASSUME NEW s \in Slots, entries[s].state = "CompletionPending"
             PROVE  PublishedCount < CqEntries
  BY Zenon DEF PublishNeverFull
<1>1. s \in Occupied /\ IsFiniteSet(Occupied)
  BY OccupiedFinite, SMTT(30) DEF Occupied
<1>2. Cardinality(Occupied) \in Nat /\ Cardinality(Occupied) # 0
  BY <1>1, FS_CardinalityType, FS_EmptySet, SMTT(30)
<1>3. PublishedCount \in Nat /\ terminal_credits \in 0..CqEntries /\ CqEntries \in Nat
  BY TailSlot, RingAssumption DEF Books, TypeOK
<1>4. terminal_credits = Cardinality(Occupied) + PublishedCount
  BY Zenon DEF Books, CreditsOwned
<1> QED
  BY <1>2, <1>3, <1>4, SMTT(30)

(* begin_draining and finish_close leave no owner behind: a linear token would
   hold its request in a state that Drained excludes. *)
LEMMA Quiescent == ASSUME IInv, Books PROVE TeardownQuiescent
<1>1. \A t \in tokens : t.kind \in Kinds
  BY Zenon DEF IInv, Typed
<1>2. \A t \in tokens : t.kind \in Linear =>
        t.id.slot \in Slots /\ entries[t.id.slot].state = Mark(t.kind)
  BY LinearCurrent, Zenon
<1>3. lifecycle = "Draining" => \A t \in tokens : t.kind \in {"prepared", "completion"}
  BY <1>1, <1>2, Zenon DEF Books, Drained, Mark, Linear, Kinds
<1>4. ASSUME lifecycle = "Closed" PROVE Occupied = {} /\ cq_head = cq_tail
  <2>1. PublishedCount \in Nat /\ Cardinality(Occupied) \in Nat
    BY TailSlot, OccupiedFinite, FS_CardinalityType, SMTT(30) DEF Books
  <2>2. Cardinality(Occupied) + PublishedCount = 0
    BY <1>4, Zenon DEF Books, Drained, CreditsOwned
  <2>3. Occupied = {} /\ PublishedCount = 0
    BY <2>1, <2>2, OccupiedFinite, FS_EmptySet, SMTT(30)
  <2>4. /\ Modulus \in Nat /\ Modulus > 0
        /\ cq_head \in 0..(Modulus - 1) /\ cq_tail \in 0..(Modulus - 1)
    BY RingAssumption DEF Books, TypeOK
  <2>5. (cq_tail - cq_head) % Modulus = 0
    BY <2>3, Zenon DEF PublishedCount, WrappingSub
  <2>6. cq_head = cq_tail
    BY ONLY <2>4, <2>5
  <2> QED BY <2>3, <2>6, ZenonT(30)
<1>5. ASSUME lifecycle = "Closed" PROVE \A t \in tokens : t.kind = "prepared"
  <2>1. \A s \in Slots : entries[s].state = "empty"
    BY <1>4, <1>5, Zenon DEF Occupied
  <2>2. \A t \in tokens : t.kind \notin Linear
    BY <1>2, <2>1, Zenon DEF Mark, Linear
  <2> QED BY <1>1, <2>2, Zenon DEF Kinds
<1> QED
  BY <1>3, <1>4, <1>5, SMTT(30) DEF TeardownQuiescent

(* Inv is inductive. *)
LEMMA InvHolds == Spec => []Inv
<1>1. Init => Inv
  BY InitInv, InitBooks, Zenon DEF Inv
<1>2. Inv /\ [Next]_vars => Inv'
  BY NextInv, NextBooks, Zenon DEF Inv
<1> QED
  BY <1>1, <1>2, PTL DEF Spec

(* The books of the ring stay right over every run of the registry: the credit
   counter equals the credits of the admitted requests and of the unread
   completions, so publish_completion never finds the queue full; the free
   stack holds each reusable slot once; and Draining and Closed are reached
   with no owner left behind. *)
THEOREM RingInvCorrect == Spec => []RingInv
<1>1. Inv => RingInv
  BY RoomLeft, Quiescent, SMTT(30) DEF Inv, Books, RingInv
<1> QED
  BY <1>1, InvHolds, PTL

(* No completion is overwritten before userspace has consumed it, also when the
   32-bit counters wrap around: what lies between head and tail is what
   commit_publication wrote, in order. *)
THEOREM UnreadIntactCorrect == Spec => []UnreadIntact
<1>1. Inv => UnreadIntact
  BY Zenon DEF Inv, Books
<1> QED
  BY <1>1, InvHolds, PTL

-----------------------------------------------------------------------------
(* Admission numbers tell the requests of the table apart, and an occupied slot
   has a generation. *)
Sequenced ==
  /\ \A s \in Slots : entries[s] # NoEntry =>
       generation[s] <= MaxGeneration /\ entries[s].sequence < next_sequence
  /\ \A s, u \in Slots : s # u /\ entries[s] # NoEntry /\ entries[u] # NoEntry =>
       entries[s].sequence # entries[u].sequence

(* A step that admits nothing *)
KeepsSequence ==
  /\ next_sequence' = next_sequence
  /\ \A s \in Slots : entries'[s] # NoEntry =>
       /\ entries[s] # NoEntry /\ generation'[s] = generation[s]
       /\ entries'[s].sequence = entries[s].sequence

(* leaves the numbers that remain as they are. *)
LEMMA KeptSequenced ==
  ASSUME Sequenced, KeepsSequence PROVE Sequenced'
BY Zenon DEF Sequenced, KeepsSequence

(* Storing a request again under its number, or clearing its slot, admits
   nothing. *)
LEMMA StoresKeep ==
  ASSUME Books, NEW s \in Slots, NEW e, entries' = [entries EXCEPT ![s] = e],
         next_sequence' = next_sequence,
         \A u \in Slots : u # s => generation'[u] = generation[u],
         e # NoEntry => /\ entries[s] # NoEntry /\ generation'[s] = generation[s]
                        /\ e.sequence = entries[s].sequence
  PROVE  KeepsSequence
<1>1. entries'[s] = e /\ \A u \in Slots : u # s => entries'[u] = entries[u]
  BY Zenon DEF Books, TypeOK
<1> QED BY <1>1, Zenon DEF KeepsSequence

(* Another state in an entry leaves its number. *)
LEMMA RestatedSequence ==
  ASSUME Books, NEW id \in Ids, State(id) # "empty", NEW x
  PROVE  [Entry(id) EXCEPT !.state = x].sequence = entries[id.slot].sequence
<1>1. Entry(id) = entries[id.slot] /\ Entry(id) \in Entries
  BY EntryTyped, Zenon DEF Books
<1> QED BY <1>1, Zenon DEF Entries

(* Every step but reserve admits nothing. *)
LEMMA OthersKeep ==
  ASSUME Books, [Next]_vars, ~ \E d \in Descriptors : Reserve(d)
  PROVE  KeepsSequence
<1>1. ASSUME NEW id \in Ids, NEW x, State(id) # "empty",
             SetState(id, [Entry(id) EXCEPT !.state = x]),
             generation' = generation, next_sequence' = next_sequence
      PROVE  KeepsSequence
  <2>1. id.slot \in Slots /\ entries[id.slot] # NoEntry
    BY <1>1, EntryTyped, Zenon DEF Books
  <2>2. PICK e : e = [Entry(id) EXCEPT !.state = x]
    BY Zenon
  <2>3. e.sequence = entries[id.slot].sequence
    BY <1>1, <2>2, RestatedSequence, Zenon
  <2> QED BY <1>1, <2>1, <2>2, <2>3, StoresKeep, Zenon DEF SetState
<1>2. ASSUME NEW id \in Ids, ClearSlot(id), next_sequence' = next_sequence
      PROVE  KeepsSequence
  <2>1. id.slot \in Slots
    BY Zenon DEF Ids
  <2>2. \A u \in Slots : u # id.slot => generation'[u] = generation[u]
    BY <1>2, Zenon DEF ClearSlot, Books, TypeOK
  <2> QED BY <1>2, <2>1, <2>2, StoresKeep, Zenon DEF ClearSlot
<1>3. ASSUME NEW id \in Ids, NEW cause, Claim(id, cause) PROVE KeepsSequence
  <2>1. State(id) # "empty"
    BY <1>3, Zenon DEF Claim, Claimable
  <2> QED BY <1>1, <1>3, <2>1, Zenon DEF Claim
<1>4. ASSUME entries' = entries, generation' = generation, next_sequence' = next_sequence
      PROVE  KeepsSequence
  BY <1>4, Zenon DEF KeepsSequence
<1>5. ASSUME NEW t \in tokens, Holder(t) PROVE KeepsSequence
  <2>1. t.id \in Ids
    BY TokenTyped, Zenon
  <2>2. CASE Rollback(t) \/ CommitPublication(t) \/ DiscardCompletion(t)
    BY <1>2, <2>1, <2>2, Zenon DEF Rollback, CommitPublication, DiscardCompletion
  <2>3. CASE Commit(t)
    <3>1. State(t.id) # "empty"
      BY <2>3, Zenon DEF Commit
    <3> QED BY <1>1, <2>1, <2>3, <3>1, Zenon DEF Commit
  <2>4. CASE Issue(t)
    <3>1. CASE State(t.id) = "Prepared" /\ SetState(t.id, [Entry(t.id) EXCEPT !.state = "Issued"])
      <4>1. State(t.id) # "empty"
        BY <3>1, Zenon
      <4> QED BY <1>1, <2>1, <2>4, <3>1, <4>1, Zenon DEF Issue
    <3>2. CASE UNCHANGED entries
      BY <1>4, <2>4, <3>2, Zenon DEF Issue
    <3> QED BY <2>4, <3>1, <3>2, Zenon DEF Issue
  <2>5. CASE FinishTerminal(t)
    <3>1. t.id.slot \in Slots /\ Entry(t.id) = entries[t.id.slot] /\ entries[t.id.slot] # NoEntry
      <4>1. State(t.id) # "empty"
        BY <2>5, Zenon DEF FinishTerminal
      <4> QED BY <2>1, <4>1, EntryTyped, Zenon DEF Books
    <3>2. PICK e : /\ e = [state |-> "CompletionPending", descriptor |-> Entry(t.id).descriptor,
                           sequence |-> Entry(t.id).sequence,
                           completion |-> [user_data |-> Entry(t.id).descriptor.user_data,
                                           result |-> t.cause]]
                   /\ entries' = [entries EXCEPT ![t.id.slot] = e]
      BY <2>5, Zenon DEF FinishTerminal, SetState
    <3>3. e.sequence = entries[t.id.slot].sequence
      BY <3>1, <3>2, Zenon
    <3> QED BY <2>5, <3>1, <3>2, <3>3, StoresKeep, Zenon DEF FinishTerminal
  <2>6. CASE Publish(t)
    <3>1. State(t.id) # "empty"
      BY <2>6, Zenon DEF Publish
    <3> QED BY <1>1, <2>1, <2>6, <3>1, Zenon DEF Publish
  <2>7. CASE RollbackPublication(t)
    <3>1. State(t.id) # "empty"
      BY <2>7, Zenon DEF RollbackPublication, PublicationCurrent
    <3> QED BY <1>1, <2>1, <2>7, <3>1, Zenon DEF RollbackPublication
  <2> QED BY <1>5, <2>2, <2>3, <2>4, <2>5, <2>6, <2>7, Zenon DEF Holder
<1>6. CASE \E id \in Ids, cause \in Causes : ClaimTerminal(id, cause)
  BY <1>3, <1>6, Zenon DEF ClaimTerminal
<1>7. CASE \E ud \in UserData, exclude \in Ids \union {NoId} : ClaimCancel(ud, exclude)
  <2>1. PICK s \in Slots : generation[s] <= MaxGeneration /\ Claim(Current(s), "Cancelled")
    BY <1>7, CancelClaims, Zenon
  <2>2. Current(s) \in Ids
    BY <2>1, CurrentId, Zenon
  <2> QED BY <1>3, <2>1, <2>2, Zenon
<1>8. CASE \/ \E head \in 0..(Modulus - 1) : ObserveCompletionHead(head)
           \/ BeginClose \/ BeginDraining \/ DiscardPublished \/ FinishClose \/ UNCHANGED vars
  BY <1>4, <1>8, Zenon DEF ObserveCompletionHead, BeginClose, BeginDraining, DiscardPublished,
       FinishClose, vars
<1> QED BY <1>5, <1>6, <1>7, <1>8, Zenon DEF Next

(* reserve hands out a number above all that are in the table. *)
LEMMA ReserveSequenced ==
  ASSUME Books, Sequenced, NEW d \in Descriptors, Reserve(d) PROVE Sequenced'
<1>1. PICK s \in Slots : /\ s = free_slots[Len(free_slots)]
                         /\ generation[s] <= MaxGeneration
  <2>1. free_slots # <<>> /\ free_slots \in Seq(Slots)
    BY Zenon DEF Reserve, Reservable, Books, TypeOK
  <2>2. free_slots[Len(free_slots)] \in Slots
    BY <2>1
  <2> QED BY <2>2, Zenon DEF Reserve
<1>2. PICK e : e = [state |-> "Reserved", descriptor |-> d, sequence |-> next_sequence]
  BY Zenon
<1>3. /\ entries' = [entries EXCEPT ![s] = e] /\ generation' = generation
      /\ next_sequence' = next_sequence + 1
  BY <1>1, <1>2, Zenon DEF Reserve, SetState
<1>4. /\ entries'[s].sequence = next_sequence
      /\ \A u \in Slots : u # s => entries'[u] = entries[u]
  BY <1>2, <1>3, Zenon DEF Books, TypeOK
<1>5. next_sequence \in Nat
  BY RingAssumption DEF Books, TypeOK
<1>6. \A u \in Slots : entries[u] # NoEntry => entries[u].sequence \in Nat
  BY DEF Books, TypeOK, Entries
<1>7. \A u \in Slots : u # s /\ entries[u] # NoEntry =>
        entries[u].sequence < next_sequence + 1 /\ entries[u].sequence # next_sequence
  BY <1>5, <1>6 DEF Sequenced
<1>8. next_sequence < next_sequence + 1
  BY <1>5
<1>9. ASSUME NEW u \in Slots, entries'[u] # NoEntry
      PROVE  /\ generation'[u] <= MaxGeneration /\ entries'[u].sequence < next_sequence'
             /\ u = s \/ (u # s /\ entries[u] # NoEntry /\ entries'[u] = entries[u])
  BY <1>1, <1>3, <1>4, <1>7, <1>8, <1>9, Zenon DEF Sequenced
<1>10. ASSUME NEW u \in Slots, NEW v \in Slots, u # v, entries'[u] # NoEntry, entries'[v] # NoEntry
       PROVE  entries'[u].sequence # entries'[v].sequence
  <2>1. CASE u = s
    BY <1>4, <1>7, <1>9, <1>10, <2>1, Zenon
  <2>2. CASE v = s
    BY <1>4, <1>7, <1>9, <1>10, <2>2, Zenon
  <2>3. CASE u # s /\ v # s
    BY <1>9, <1>10, <2>3, Zenon DEF Sequenced
  <2> QED BY <2>1, <2>2, <2>3, Zenon
<1> QED
  BY <1>9, <1>10, Zenon DEF Sequenced

(* So the numbers stay apart. *)
LEMMA SequencedHolds == Spec => []Sequenced
<1>1. Init => Sequenced
  BY Zenon DEF Init, Sequenced
<1>2. Inv /\ Sequenced /\ [Next]_vars => Sequenced'
  BY ReserveSequenced, OthersKeep, KeptSequenced, Zenon DEF Inv
<1> QED
  BY <1>1, <1>2, InvHolds, PTL DEF Spec

(* claim_cancel by user_data finds a request if there is one it may take, and
   claims the one that was admitted before all others. *)
LEMMA CancelStep == ASSUME Books, Sequenced PROVE CancelsOldest
<1> SUFFICES ASSUME NEW ud \in UserData, NEW exclude \in Ids \union {NoId}
             PROVE  /\ CancelTargets(ud, exclude) # {} =>
                         GenerationsKnown /\ Scan(ud, exclude) # NoSlot
                    /\ ClaimCancel(ud, exclude) =>
                         \A i \in Ids : State(i) # "TerminalClaimed" /\ State(i)' = "TerminalClaimed" =>
                           /\ i \in CancelTargets(ud, exclude)
                           /\ \A j \in CancelTargets(ud, exclude) :
                                j # i => Entry(i).sequence < Entry(j).sequence
  BY Zenon DEF CancelsOldest
<1>0. GenerationsKnown
  BY Zenon DEF Sequenced, GenerationsKnown
<1>1. Numbers
  BY DEF Books, TypeOK, Entries, Numbers
<1>2. ASSUME NEW j \in CancelTargets(ud, exclude)
      PROVE  /\ j.slot \in Slots /\ j = Current(j.slot) /\ Entry(j) = entries[j.slot]
             /\ entries[j.slot] # NoEntry /\ Selected(j.slot, ud, exclude)
  <2>1. j \in Ids /\ State(j) \in {"Prepared", "Issued"} /\ j # exclude
    BY Zenon DEF CancelTargets
  <2>2. State(j) # "empty"
    BY <2>1, Zenon
  <2>3. /\ j.slot \in Slots /\ j = Current(j.slot) /\ Entry(j) = entries[j.slot]
        /\ entries[j.slot].state = State(j) /\ entries[j.slot] # NoEntry
    BY <2>1, <2>2, EntryTyped, Zenon DEF Books
  <2>4. Selected(j.slot, ud, exclude)
    BY <2>1, <2>3, Zenon DEF CancelTargets, Claimable, Selected
  <2> QED BY <2>3, <2>4, Zenon
<1>3. CancelTargets(ud, exclude) # {} => Scan(ud, exclude) # NoSlot
  BY <1>2, ScanBest, Zenon DEF Best, Slots
<1>4. ASSUME ClaimCancel(ud, exclude), NEW i \in Ids,
             State(i) # "TerminalClaimed", State(i)' = "TerminalClaimed"
      PROVE  /\ i \in CancelTargets(ud, exclude)
             /\ \A j \in CancelTargets(ud, exclude) : j # i => Entry(i).sequence < Entry(j).sequence
  <2>1. PICK s \in Slots : /\ s = Scan(ud, exclude) /\ Selected(s, ud, exclude)
                           /\ generation[s] <= MaxGeneration /\ Claim(Current(s), "Cancelled")
    BY <1>4, CancelClaims, Zenon
  <2>2. /\ generation' = generation /\ i.slot \in Slots
        /\ \A u \in Slots : u # s => entries'[u] = entries[u]
    BY <2>1, Zenon DEF Claim, SetState, Current, Ids, Books, TypeOK
  <2>3. i.slot = s
    <3> SUFFICES ASSUME i.slot # s PROVE FALSE
      BY Zenon
    <3>1. State(i)' = State(i)
      BY <2>2, Zenon DEF State, Entry
    <3> QED BY <1>4, <3>1, Zenon
  <2>4. generation'[i.slot] = i.generation
    BY <1>4, Zenon DEF State, Entry, NoEntry
  <2>5. i = Current(s)
    BY <2>2, <2>3, <2>4, Zenon DEF Ids, Current
  <2>6. Entry(i) = entries[s] /\ Claimable(i, "Cancelled")
    BY <2>1, <2>2, <2>3, <2>4, <2>5, Zenon DEF Entry, Claim
  <2>7. i \in CancelTargets(ud, exclude)
    BY <2>1, <2>5, <2>6, Zenon DEF CancelTargets, Selected, State
  <2>8. ASSUME NEW j \in CancelTargets(ud, exclude), j # i
        PROVE  Entry(i).sequence < Entry(j).sequence
    <3>1. /\ j.slot \in Slots /\ j = Current(j.slot) /\ Entry(j) = entries[j.slot]
          /\ entries[j.slot] # NoEntry /\ Selected(j.slot, ud, exclude)
      BY <1>2, Zenon
    <3>2. j.slot # s
      BY <2>5, <2>8, <3>1, Zenon
    <3>3. entries[s] # NoEntry /\ s # NoSlot
      BY <1>4, <2>1, Zenon DEF Selected, ClaimCancel
    <3>4. entries[s].sequence <= entries[j.slot].sequence
      BY <1>1, <2>1, <3>1, <3>3, ScanBest, Zenon DEF Best, Slots
    <3>5. entries[s].sequence # entries[j.slot].sequence
      BY <2>1, <3>1, <3>2, <3>3, Zenon DEF Sequenced
    <3>6. entries[s].sequence \in Int /\ entries[j.slot].sequence \in Int
      BY <1>1, <2>1, <3>1, <3>3, Zenon DEF Numbers
    <3>7. entries[s].sequence < entries[j.slot].sequence
      BY <3>4, <3>5, <3>6
    <3> QED BY <2>6, <3>1, <3>7, Zenon
  <2> QED BY <2>7, <2>8, Zenon
<1> QED BY <1>0, <1>3, <1>4, Zenon

(* Every claim_cancel finds a request it may take, if there is one, and takes
   the one admitted first. *)
THEOREM CancelTakesOldestCorrect == Spec => CancelTakesOldest
<1>1. Inv /\ Sequenced => CancelsOldest
  BY CancelStep, Zenon DEF Inv
<1> QED
  BY <1>1, InvHolds, SequencedHolds, PTL DEF CancelTakesOldest
=============================================================================
