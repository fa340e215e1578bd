--------------------------- MODULE IoUringRequest ---------------------------
(***************************************************************************)
(* The request table and terminal-CQ accounting of                         *)
(* crates/io-uring/src/request.rs.  RequestRegistry is called under one    *)
(* lock of the embedding kernel, so a method is one action; what races is  *)
(* the holders of the linear tokens it hands out (reservation, prepared    *)
(* request, terminal permit, completion token, publication plan) and the   *)
(* callers that use a copied RequestId, stale ones included.               *)
(*                                                                         *)
(* Generations and sequence numbers stop at MaxGeneration and MaxSequence  *)
(* as the u64 ones stop at their maximum; CQ indices wrap modulo Modulus   *)
(* as the u32 ones wrap modulo 2^32.                                       *)
(***************************************************************************)
EXTENDS Integers, FiniteSets, Sequences

CONSTANTS
  Capacity,       \* request-table slots
  CqEntries,      \* completion-queue slots
  Modulus,        \* 2^32, the modulus of the CQ counters
  MaxGeneration,  \* u64::MAX, per-slot generations
  MaxSequence,    \* u64::MAX, admission sequence numbers
  UserData,       \* opaque user_data values
  Causes          \* the TerminalCause values callers claim with

(* RequestRegistry::new refuses a CQ that is not a power of two or larger than
   IORING_MAX_CQ_ENTRIES: it divides 2^32. *)
ASSUME RingAssumption ==
  /\ Capacity \in Nat /\ CqEntries \in Nat \ {0} /\ MaxGeneration \in Nat \ {0}
  /\ MaxSequence \in Nat
  /\ Modulus \in Nat /\ CqEntries < Modulus /\ \E n \in 1..Modulus : Modulus = n * CqEntries

VARIABLES
  entries,      \* slot -> the RequestEntry, or NoEntry
  generation,   \* slot -> generation; MaxGeneration + 1 stands for None
  free_slots,   \* stack of free slots, the top last
  next_sequence,\* MaxSequence + 1 stands for None
  lifecycle, cq_head, cq_tail, terminal_credits,
  publication_in_flight,
  cqes,         \* the shared CQ array, written by the adapter
  tokens,       \* linear tokens the adapter holds
  unread        \* ghost: completions published and not yet consumed

vars == <<entries, generation, free_slots, next_sequence, lifecycle, cq_head, cq_tail,
          terminal_credits, publication_in_flight, cqes, tokens, unread>>
cqVars == <<cq_head, cq_tail, cqes, unread>>

Slots == 0..(Capacity - 1)
Ids == [slot : Slots, generation : 1..MaxGeneration]
NoEntry == [state |-> "empty"]
NoSlot == -1
NoId == [slot |-> NoSlot, generation |-> 0]
NoCqe == [user_data |-> 0, result |-> "none"]
Descriptors == [user_data : UserData, cancellable : BOOLEAN]

Entry(id) == IF generation[id.slot] = id.generation THEN entries[id.slot] ELSE NoEntry
State(id) == Entry(id).state
Current(s) == [slot |-> s, generation |-> generation[s]]
Occupied == {s \in Slots : entries[s].state # "empty"}

WrappingSub(a, b) == (a - b) % Modulus
PublishedCount == WrappingSub(cq_tail, cq_head)
SlotOf(index) == index % CqEntries
SetState(id, e) == entries' = [entries EXCEPT ![id.slot] = e]
-----------------------------------------------------------------------------
(* RequestRegistry::new *)
Init ==
  /\ entries = [s \in Slots |-> NoEntry]
  /\ generation = [s \in Slots |-> 1]
  /\ free_slots = [i \in 1..Capacity |-> Capacity - i]
  /\ next_sequence = 1
  /\ lifecycle = "Open"
  /\ cq_head = 0 /\ cq_tail = 0 /\ terminal_credits = 0
  /\ publication_in_flight = NoId
  /\ cqes = [i \in 0..(CqEntries - 1) |-> NoCqe]
  /\ tokens = {} /\ unread = <<>>

Reservable ==
  /\ lifecycle = "Open"
  /\ terminal_credits < CqEntries
  /\ next_sequence <= MaxSequence
  /\ free_slots # <<>>

(* reserve *)
Reserve(d) ==
  LET slot == free_slots[Len(free_slots)]
      id == [slot |-> slot, generation |-> generation[slot]]
  IN
  /\ Reservable
  /\ entries[slot] = NoEntry /\ generation[slot] <= MaxGeneration
  /\ terminal_credits' = terminal_credits + 1
  /\ next_sequence' = next_sequence + 1
  /\ free_slots' = SubSeq(free_slots, 1, Len(free_slots) - 1)
  /\ SetState(id, [state |-> "Reserved", descriptor |-> d, sequence |-> next_sequence])
  /\ tokens' = tokens \union {[kind |-> "reservation", id |-> id]}
  /\ UNCHANGED <<generation, lifecycle, publication_in_flight, cqVars>>

FreeAgain(g) == g <= MaxGeneration

(* clear_slot: a slot whose generation is exhausted is never free again *)
ClearSlot(id) ==
  LET next == id.generation + 1 IN
  /\ entries' = [entries EXCEPT ![id.slot] = NoEntry]
  /\ generation' = [generation EXCEPT ![id.slot] = next]
  /\ free_slots' = IF FreeAgain(next) THEN Append(free_slots, id.slot) ELSE free_slots

KeepCredits(n) == terminal_credits' = terminal_credits

(* refund_credits: checked_sub *)
RefundCredits(n) == terminal_credits >= n /\ terminal_credits' = terminal_credits - n

(* rollback *)
Rollback(t) ==
  /\ t \in tokens /\ t.kind = "reservation" /\ State(t.id) = "Reserved"
  /\ ClearSlot(t.id) /\ RefundCredits(1)
  /\ tokens' = tokens \ {t}
  /\ UNCHANGED <<next_sequence, lifecycle, publication_in_flight, cqVars>>

(* commit *)
Commit(t) ==
  /\ t \in tokens /\ t.kind = "reservation" /\ State(t.id) = "Reserved"
  /\ SetState(t.id, [Entry(t.id) EXCEPT !.state = "Prepared"])
  /\ tokens' = (tokens \ {t}) \union {[t EXCEPT !.kind = "prepared"]}
  /\ UNCHANGED <<generation, free_slots, next_sequence, lifecycle, terminal_credits,
                 publication_in_flight, cqVars>>

(* issue: the executor is identified by the id from here on.  A refused
   hand-off returns the prepared proof, which the adapter drops. *)
Issue(t) ==
  /\ t \in tokens /\ t.kind = "prepared"
  /\ tokens' = tokens \ {t}
  /\ \/ State(t.id) = "Prepared" /\ SetState(t.id, [Entry(t.id) EXCEPT !.state = "Issued"])
     \/ State(t.id) # "Prepared" /\ UNCHANGED entries
  /\ UNCHANGED <<generation, free_slots, next_sequence, lifecycle, terminal_credits,
                 publication_in_flight, cqVars>>

ClaimableTwice(id, cause) == State(id) \in {"Prepared", "Issued", "TerminalClaimed"}

(* claim_terminal's match *)
Claimable(id, cause) ==
  \/ State(id) = "Prepared"
  \/ State(id) = "Issued" /\ (Entry(id).descriptor.cancellable \/ cause = "Completed")

Claim(id, cause) ==
  /\ Claimable(id, cause)
  /\ SetState(id, [Entry(id) EXCEPT !.state = "TerminalClaimed"])
  /\ tokens' = tokens \union {[kind |-> "permit", id |-> id, cause |-> cause]}
  /\ UNCHANGED <<generation, free_slots, next_sequence, lifecycle, terminal_credits,
                 publication_in_flight, cqVars>>

(* claim_terminal, with any id ever handed out *)
ClaimTerminal(id, cause) == Claim(id, cause)

(* What claim_cancel's scan skips: an empty slot, the excluded request, another
   user_data, and a state that has no cancellable owner. *)
Selected(s, ud, exclude) ==
  /\ entries[s] # NoEntry
  /\ Current(s) # exclude
  /\ entries[s].descriptor.user_data = ud
  /\ \/ entries[s].state = "Prepared"
     \/ entries[s].state = "Issued" /\ entries[s].descriptor.cancellable

ReplacesNone(s, candidate) == candidate = NoSlot

(* The candidate of the slots scanned so far gives way to an older request. *)
Replaces(s, candidate) ==
  candidate = NoSlot \/ entries[s].sequence < entries[candidate].sequence

(* The loop of claim_cancel over the slots, in slot order: candidate[n] is what
   it holds after n of them. *)
Scan(ud, exclude) ==
  LET candidate[n \in 0..Capacity] ==
        IF n = 0 THEN NoSlot
        ELSE IF Selected(n - 1, ud, exclude) /\ Replaces(n - 1, candidate[n - 1])
             THEN n - 1
             ELSE candidate[n - 1]
  IN  candidate[Capacity]

(* An occupied slot without a generation ends the loop with GenerationExhausted. *)
GenerationsKnown == \A s \in Slots : entries[s] # NoEntry => generation[s] <= MaxGeneration

(* claim_cancel with CancelSelector::UserData; CancelSelector::Request is
   claim_terminal with cause Cancelled *)
ClaimCancel(ud, exclude) ==
  LET s == Scan(ud, exclude) IN
  /\ GenerationsKnown /\ s # NoSlot
  /\ Claim(Current(s), "Cancelled")

(* finish_terminal *)
FinishTerminal(t) ==
  /\ t \in tokens /\ t.kind = "permit" /\ State(t.id) = "TerminalClaimed"
  /\ SetState(t.id, [state |-> "CompletionPending", descriptor |-> Entry(t.id).descriptor,
                     sequence |-> Entry(t.id).sequence,
                     completion |-> [user_data |-> Entry(t.id).descriptor.user_data,
                                     result |-> t.cause]])
  /\ tokens' = (tokens \ {t}) \union {[kind |-> "completion", id |-> t.id]}
  /\ UNCHANGED <<generation, free_slots, next_sequence, lifecycle, terminal_credits,
                 publication_in_flight, cqVars>>

Publishable == lifecycle \in {"Open", "Closing"} /\ publication_in_flight = NoId

(* publish, and the adapter's write of the CQE before the tail is stored *)
Publish(t) ==
  LET c == Entry(t.id).completion IN
  /\ t \in tokens /\ t.kind = "completion" /\ State(t.id) = "CompletionPending"
  /\ Publishable /\ PublishedCount < CqEntries
  /\ SetState(t.id, [Entry(t.id) EXCEPT !.state = "Publishing"])
  /\ publication_in_flight' = t.id
  /\ cqes' = [cqes EXCEPT ![SlotOf(cq_tail)] = c]
  /\ tokens' = (tokens \ {t}) \union
       {[kind |-> "publication", id |-> t.id, completion |-> c, slot |-> SlotOf(cq_tail),
         new_tail |-> (cq_tail + 1) % Modulus]}
  /\ UNCHANGED <<generation, free_slots, next_sequence, lifecycle, terminal_credits,
                 cq_head, cq_tail, unread>>

PublicationCurrent(t) ==
  /\ publication_in_flight = t.id
  /\ State(t.id) = "Publishing" /\ Entry(t.id).completion = t.completion

(* commit_publication *)
CommitPublication(t) ==
  /\ t \in tokens /\ t.kind = "publication" /\ PublicationCurrent(t)
  /\ t.slot = SlotOf(cq_tail) /\ t.new_tail = (cq_tail + 1) % Modulus
  /\ ClearSlot(t.id)
  /\ cq_tail' = t.new_tail
  /\ publication_in_flight' = NoId
  /\ tokens' = tokens \ {t}
  /\ unread' = Append(unread, t.completion)
  /\ UNCHANGED <<next_sequence, lifecycle, terminal_credits, cq_head, cqes>>

(* rollback_publication *)
RollbackPublication(t) ==
  /\ t \in tokens /\ t.kind = "publication" /\ PublicationCurrent(t)
  /\ SetState(t.id, [Entry(t.id) EXCEPT !.state = "CompletionPending"])
  /\ publication_in_flight' = NoId
  /\ tokens' = (tokens \ {t}) \union {[kind |-> "completion", id |-> t.id]}
  /\ UNCHANGED <<generation, free_slots, next_sequence, lifecycle, terminal_credits, cqVars>>

ConsumptionAnyForward(head) == publication_in_flight = NoId

ConsumptionValid(head) ==
  publication_in_flight = NoId /\ WrappingSub(head, cq_head) <= PublishedCount

(* observe_completion_head, with any value userspace stored *)
ObserveCompletionHead(head) ==
  LET consumed == WrappingSub(head, cq_head) IN
  /\ ConsumptionValid(head)
  /\ cq_head' = head
  /\ RefundCredits(consumed)
  /\ unread' = SubSeq(unread, consumed + 1, Len(unread))
  /\ UNCHANGED <<entries, generation, free_slots, next_sequence, lifecycle, cq_tail,
                 publication_in_flight, cqes, tokens>>

-----------------------------------------------------------------------------
BeginClose ==
  /\ lifecycle = "Open"
  /\ lifecycle' = "Closing"
  /\ UNCHANGED <<entries, generation, free_slots, next_sequence, cqVars, terminal_credits,
                 publication_in_flight, tokens>>

Drainable == \A s \in Occupied : entries[s].state = "CompletionPending"

BeginDraining ==
  /\ lifecycle = "Closing" /\ Drainable
  /\ lifecycle' = "Draining"
  /\ UNCHANGED <<entries, generation, free_slots, next_sequence, cqVars, terminal_credits,
                 publication_in_flight, tokens>>

(* discard_completion *)
DiscardCompletion(t) ==
  /\ t \in tokens /\ t.kind = "completion" /\ State(t.id) = "CompletionPending"
  /\ lifecycle = "Draining"
  /\ ClearSlot(t.id) /\ RefundCredits(1)
  /\ tokens' = tokens \ {t}
  /\ UNCHANGED <<next_sequence, lifecycle, publication_in_flight, cqVars>>

(* discard_published *)
DiscardPublished ==
  /\ lifecycle = "Draining" /\ publication_in_flight = NoId
  /\ cq_head' = cq_tail
  /\ RefundCredits(PublishedCount)
  /\ unread' = <<>>
  /\ UNCHANGED <<entries, generation, free_slots, next_sequence, lifecycle, cq_tail,
                 publication_in_flight, cqes, tokens>>

FinishClose ==
  /\ lifecycle \in {"Closing", "Draining"}
  /\ publication_in_flight = NoId /\ Occupied = {} /\ terminal_credits = 0
  /\ lifecycle' = "Closed"
  /\ UNCHANGED <<entries, generation, free_slots, next_sequence, cqVars, terminal_credits,
                 publication_in_flight, tokens>>

-----------------------------------------------------------------------------
Holder(t) ==
  \/ Rollback(t) \/ Commit(t) \/ Issue(t) \/ FinishTerminal(t) \/ Publish(t)
  \/ CommitPublication(t) \/ RollbackPublication(t) \/ DiscardCompletion(t)

Next ==
  \/ \E d \in Descriptors : Reserve(d)
  \/ \E t \in tokens : Holder(t)
  \/ \E id \in Ids, cause \in Causes : ClaimTerminal(id, cause)
  \/ \E ud \in UserData, exclude \in Ids \union {NoId} : ClaimCancel(ud, exclude)
  \/ \E head \in 0..(Modulus - 1) : ObserveCompletionHead(head)
  \/ BeginClose \/ BeginDraining \/ DiscardPublished \/ FinishClose

Spec == Init /\ [][Next]_vars

(* What brings a request to its completion, and a completion out of the table. *)
Advance(t) == Commit(t) \/ Rollback(t) \/ Issue(t)
Settle(t) == FinishTerminal(t) \/ DiscardCompletion(t)

-----------------------------------------------------------------------------
Completions == [user_data : UserData, result : Causes \union {"Cancelled"}]
Entries ==
  [state : {"Reserved", "Prepared", "Issued", "TerminalClaimed"},
   descriptor : Descriptors, sequence : 1..MaxSequence]
  \union [state : {"CompletionPending", "Publishing"},
          descriptor : Descriptors, sequence : 1..MaxSequence, completion : Completions]
Tokens ==
  [kind : {"reservation", "prepared", "completion"}, id : Ids]
  \union [kind : {"permit"}, id : Ids, cause : Causes \union {"Cancelled"}]
  \union [kind : {"publication"}, id : Ids, completion : Completions,
          slot : 0..(CqEntries - 1), new_tail : 0..(Modulus - 1)]

TypeOK ==
  /\ entries \in [Slots -> Entries \union {NoEntry}]
  /\ generation \in [Slots -> 1..(MaxGeneration + 1)]
  /\ free_slots \in Seq(Slots)
  /\ next_sequence \in 1..(MaxSequence + 1)
  /\ lifecycle \in {"Open", "Closing", "Draining", "Closed"}
  /\ cq_head \in 0..(Modulus - 1) /\ cq_tail \in 0..(Modulus - 1)
  /\ terminal_credits \in 0..CqEntries
  /\ publication_in_flight \in Ids \union {NoId}
  /\ cqes \in [0..(CqEntries - 1) -> Completions \union {NoCqe}]
  /\ tokens \subseteq Tokens
  /\ unread \in Seq(Completions)

(* Every terminal credit is owned by a request in the table or by a published
   CQE that userspace has not consumed. *)
CreditsOwned == terminal_credits = Cardinality(Occupied) + PublishedCount

(* An admitted request always finds CQ space: publish never returns
   CompletionQueueFull to the holder of a completion token, because the credit
   was reserved before SQ admission. *)
PublishNeverFull ==
  \A s \in Slots : entries[s].state = "CompletionPending" => PublishedCount < CqEntries

Linear == {"reservation", "permit", "completion", "publication"}

Backed(t) ==
  CASE t.kind = "reservation" -> State(t.id) = "Reserved"
    [] t.kind = "permit" -> State(t.id) = "TerminalClaimed"
    [] t.kind = "completion" -> State(t.id) = "CompletionPending"
    [] t.kind = "publication" -> /\ PublicationCurrent(t)
                                 /\ t.slot = SlotOf(cq_tail)
                                 /\ t.new_tail = (cq_tail + 1) % Modulus
    [] OTHER -> TRUE

(* Whatever ids callers race with, a reservation, permit, completion token or
   publication plan is never stale, a request has at most one of them, and
   outside Prepared and Issued, where an executor holds the id, it has one:
   exactly one path owns its terminal transition. *)
OneTerminalOwner ==
  /\ \A t \in tokens : Backed(t)
  /\ \A s \in Occupied :
       Cardinality({t \in tokens : t.kind \in Linear
                                  /\ t.id = [slot |-> s, generation |-> generation[s]]})
         = IF entries[s].state \in {"Prepared", "Issued"} THEN 0 ELSE 1

(* A CQE between the validated head and the tail is the one published there:
   no publication overwrites an unconsumed completion, across wraparound. *)
UnreadIntact ==
  /\ Len(unread) = PublishedCount
  /\ \A k \in 1..Len(unread) : cqes[SlotOf(cq_head + k - 1)] = unread[k]

(* The free stack holds exactly the empty slots whose generation is not
   exhausted, each once. *)
FreeSlotsExact ==
  /\ {free_slots[i] : i \in 1..Len(free_slots)}
       = {s \in Slots : entries[s] = NoEntry /\ generation[s] <= MaxGeneration}
  /\ \A i, j \in 1..Len(free_slots) : i # j => free_slots[i] # free_slots[j]

(* Draining and Closed mean what the kernel relies on to free the ring: no
   executor owns work while draining, and nothing at all is owned after close. *)
TeardownQuiescent ==
  /\ lifecycle = "Draining" => \A t \in tokens : t.kind \in {"prepared", "completion"}
  /\ lifecycle = "Closed" => /\ \A t \in tokens : t.kind = "prepared"
                             /\ cq_head = cq_tail

(* The books of the ring: the credit counter equals the credits that requests
   and unread completions own, so a terminal completion always finds room; the
   free stack holds each reusable slot once; and Draining and Closed mean that
   nobody owns what the kernel is to free. *)
RingInv ==
  TypeOK /\ CreditsOwned /\ PublishNeverFull /\ FreeSlotsExact /\ TeardownQuiescent

(* The requests a cancellation by user_data may take *)
CancelTargets(ud, exclude) ==
  {i \in Ids : /\ i # exclude /\ State(i) \in {"Prepared", "Issued"}
              /\ Entry(i).descriptor.user_data = ud /\ Claimable(i, "Cancelled")}

(* claim_cancel by user_data finds a request whenever there is one it may take,
   and the one it claims was admitted strictly before every other it might have
   taken: slots are reused in any order, so the scan meets them in an order that
   has nothing to do with their age. *)
CancelsOldest ==
  \A ud \in UserData, exclude \in Ids \union {NoId} :
    LET targets == CancelTargets(ud, exclude) IN
    /\ targets # {} => GenerationsKnown /\ Scan(ud, exclude) # NoSlot
    /\ ClaimCancel(ud, exclude) =>
         \A i \in Ids : State(i) # "TerminalClaimed" /\ State(i)' = "TerminalClaimed" =>
           /\ i \in targets
           /\ \A j \in targets : j # i => Entry(i).sequence < Entry(j).sequence

(* So does every claim_cancel, whatever was admitted, claimed and freed before. *)
CancelTakesOldest == [][CancelsOldest]_vars
=============================================================================
