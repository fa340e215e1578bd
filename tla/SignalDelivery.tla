--------------------------- MODULE SignalDelivery ---------------------------
(***************************************************************************)
(* One delivery pass of a thread of crates/signal (api/thread.rs): the     *)
(* choice of the record, the pre-delivery callback and the one-shot bypass *)
(* that the rseq fault path arms for the exact record of a forced signal.  *)
(*                                                                         *)
(* Signals are standard ones.  The thread's own steps are sequential (it   *)
(* holds the delivery mutex); senders, flushes and sigaction by other      *)
(* threads come between any two lock sections.  The mask of a pass is read *)
(* once, so it is any set.  Registration, hints and SA_RESETHAND claims    *)
(* are the business of SignalEndpoint and SignalActions.                   *)
(***************************************************************************)
EXTENDS Integers, FiniteSetsExt, TLC

CONSTANTS
  Signos,         \* signal numbers
  MaxGeneration,  \* u64::MAX
  MaxRecords      \* bound on thread-directed publications

VARIABLES
  pending,      \* thread: signal -> record; process: the pending signals
  next,         \* next_generation, and the ghost number of the next record
  bypass,       \* delivery_bypass_signo, delivery_bypass, ghost: the record meant
  delivery,     \* the thread between its lock sections
  disposition   \* signal -> its action

dvars == <<pending, next, bypass, delivery, disposition>>

NoRecord == [generation |-> 0, id |-> 0]
NotArmed == [signo |-> 0, generation |-> 0, of |-> 0]
Idle == [pc |-> "idle"]
Handlers == {"handler", "default", "ignore"}

Init ==
  /\ pending = [thread |-> [s \in Signos |-> NoRecord], process |-> {}]
  /\ next = [generation |-> 1, id |-> 1] /\ bypass = NotArmed /\ delivery = Idle
  /\ disposition \in [Signos -> Handlers]

-----------------------------------------------------------------------------
(* Records.  Generation 0 marks exhaustion for good. *)
NextGeneration(g) == IF g = MaxGeneration THEN 0 ELSE g + 1
Publishes(s) ==
  /\ pending.thread[s] = NoRecord /\ disposition[s] # "ignore"
  /\ next.generation # 0 /\ next.id <= MaxRecords
Published(s) ==
  /\ pending' = [pending EXCEPT !.thread[s] = next]
  /\ next' = [generation |-> NextGeneration(next.generation), id |-> next.id + 1]

(* assign_generation and publish by another thread; a coalesced, ignored or
   exhausted send changes nothing *)
Send(s) == Publishes(s) /\ Published(s) /\ UNCHANGED <<bypass, delivery, disposition>>
SendProcess(s) ==
  /\ disposition[s] # "ignore" /\ pending' = [pending EXCEPT !.process = @ \union {s}]
  /\ UNCHANGED <<next, bypass, delivery, disposition>>
Without(s) == [thread |-> [pending.thread EXCEPT ![s] = NoRecord], process |-> pending.process \ {s}]
FlushSignal(s) ==       \* flush_signal, generation effects
  /\ pending' = Without(s) /\ UNCHANGED <<next, bypass, delivery, disposition>>
ReplaceAction(s, d) ==
  /\ disposition' = [disposition EXCEPT ![s] = d]
  /\ pending' = IF d = "ignore" THEN Without(s) ELSE pending
  /\ UNCHANGED <<next, bypass, delivery>>

-----------------------------------------------------------------------------
(* A forced signal: the fault path publishes it and arms the bypass with the
   generation of the outcome, from inside the callback or after it. *)
Forcing(s, back) ==
  /\ IF Publishes(s) THEN Published(s) ELSE UNCHANGED <<pending, next>>
  /\ delivery' = IF Publishes(s) THEN [pc |-> "arm", signo |-> s, record |-> next] ELSE back
  /\ UNCHANGED <<bypass, disposition>>
ForceSignal(s) == delivery.pc = "idle" /\ Forcing(s, Idle)
ArmSignalDeliveryBypass ==
  /\ delivery.pc = "arm"
  /\ bypass' = [signo |-> delivery.signo, generation |-> delivery.record.generation, of |-> delivery.record.id]
  /\ delivery' = Idle /\ UNCHANGED <<pending, next, disposition>>

-----------------------------------------------------------------------------
(* dequeue_signal_with_source over a mask: the thread queue, then the process
   queue, each under its own lock *)
FoundIn(source, mask) ==
  IF source = "thread" THEN {s \in mask : pending.thread[s] # NoRecord} ELSE pending.process \intersect mask
RecordOf(source, s) == IF source = "thread" THEN pending.thread[s] ELSE NoRecord
Removed(source, s) ==
  IF source = "thread" THEN [pending EXCEPT !.thread[s] = NoRecord] ELSE [pending EXCEPT !.process = @ \ {s}]
Requeued(d) ==
  IF d.source = "thread" THEN [pending EXCEPT !.thread[d.signo] = d.record]
  ELSE [pending EXCEPT !.process = @ \union {d.signo}]
Holding(pc, source, s) ==
  [pc |-> pc, mask |-> delivery.mask, excluded |-> delivery.excluded, gate |-> delivery.gate,
   source |-> source, signo |-> s, record |-> RecordOf(source, s)]

Rescan ==
  [pc |-> IF delivery.gate THEN "armed" ELSE "thread", mask |-> delivery.mask,
   excluded |-> delivery.excluded, gate |-> delivery.gate]

(* The passes differ in where they start and whether the pre-delivery callback,
   the gate, may reject the choice: check_signals, the variant with a
   pre-handler hook, which knows no bypass, and observe_signal_wait, which
   accepts a waited signal synchronously or leaves the waited ones out. *)
Pass(pc, mask, waited, gate) ==
  /\ delivery = Idle
  /\ delivery' = [pc |-> pc, mask |-> mask \ waited, excluded |-> waited, gate |-> gate]
  /\ UNCHANGED <<pending, next, bypass, disposition>>
CheckSignals(mask) == Pass("armed", mask, {}, TRUE)
CheckSignalsWithPreHandler(mask) == Pass("thread", mask, {}, FALSE)
ObserveSignalWait(mask, waited) == Pass("armed", mask, waited, TRUE)
Accept(source, waited) ==
  /\ delivery = Idle /\ FoundIn(source, waited) # {}
  /\ pending' = Removed(source, Min(FoundIn(source, waited)))
  /\ UNCHANGED <<next, bypass, delivery, disposition>>

(* dequeue_signal_for_delivery: the armed signal first, if it is that record *)
Priority == IF bypass.generation = 0 THEN {} ELSE {bypass.signo} \intersect delivery.mask
IsArmed(record) == record.generation # 0 /\ record.generation = bypass.generation
SelectArmed(source) ==
  /\ delivery.pc = (IF source = "thread" THEN "armed" ELSE "armed_process")
  /\ IF FoundIn(source, Priority) = {}
     THEN /\ delivery' = [delivery EXCEPT !.pc = IF source = "thread" /\ Priority # {} THEN "armed_process" ELSE "thread"]
          /\ UNCHANGED pending
     ELSE LET s == bypass.signo IN
          /\ pending' = Removed(source, s)
          /\ delivery' = Holding(IF IsArmed(RecordOf(source, s)) THEN "selected" ELSE "stale", source, s)
  /\ UNCHANGED <<next, bypass, disposition>>
RetireStale ==
  /\ delivery.pc = "stale" /\ pending' = Requeued(delivery) /\ bypass' = NotArmed
  /\ delivery' = [Rescan EXCEPT !.pc = "thread"]
  /\ UNCHANGED <<next, disposition>>
Select(source) ==
  /\ delivery.pc = source
  /\ LET found == FoundIn(source, delivery.mask) IN
       IF found = {}
       THEN /\ delivery' = IF source = "thread" THEN [delivery EXCEPT !.pc = "process"] ELSE Idle
            /\ UNCHANGED pending
       ELSE pending' = Removed(source, Min(found)) /\ delivery' = Holding("selected", source, Min(found))
  /\ UNCHANGED <<next, bypass, disposition>>

-----------------------------------------------------------------------------
(* take_signal_delivery_bypass for the record a gated pass has selected *)
TakesBypass == delivery.gate /\ IsArmed(delivery.record) /\ bypass.signo = delivery.signo
AfterTake == IF TakesBypass THEN NotArmed ELSE bypass

(* claim_delivery reads the disposition: without a handler the record is
   consumed, and an ignored one lets the scan go on; a pre-handler hook that
   fails consumes it too *)
Claim ==
  /\ delivery.pc = "selected"
  /\ \/ /\ disposition[delivery.signo] = "handler" /\ UNCHANGED bypass
        /\ delivery' = IF delivery.gate THEN [delivery EXCEPT !.pc = "callback"] ELSE Idle
     \/ /\ disposition[delivery.signo] = "default" /\ bypass' = AfterTake /\ delivery' = Idle
     \/ /\ disposition[delivery.signo] = "ignore" /\ bypass' = AfterTake /\ delivery' = Rescan
  /\ UNCHANGED <<pending, next, disposition>>

(* The pre-delivery callback asks for the bypass: `bypassed` is the record the
   arm that it got was meant for.  Then it proceeds to the frame or fails. *)
Take ==
  /\ delivery.pc = "callback" /\ bypass' = AfterTake
  /\ delivery' = [delivery EXCEPT !.pc = "asked"] @@ [bypassed |-> IF TakesBypass THEN bypass.of ELSE 0]
  /\ UNCHANGED <<pending, next, disposition>>
Proceed ==     \* Proceed, Fatal
  /\ delivery.pc = "asked" /\ delivery' = Idle /\ UNCHANGED <<pending, next, bypass, disposition>>
Retry ==       \* Retry, Fault
  /\ delivery.pc = "asked" /\ pending' = Requeued(delivery) /\ delivery' = Idle
  /\ UNCHANGED <<next, bypass, disposition>>
Replace(s) ==  \* Replaced
  /\ delivery.pc = "asked" /\ Forcing(s, Idle)

Next ==
  \/ \E s \in Signos : Send(s) \/ SendProcess(s) \/ FlushSignal(s) \/ ForceSignal(s) \/ Replace(s)
  \/ \E s \in Signos, d \in Handlers : ReplaceAction(s, d)
  \/ \E mask \in SUBSET Signos : \/ CheckSignals(mask) \/ CheckSignalsWithPreHandler(mask)
                                  \/ \E waited \in SUBSET Signos : ObserveSignalWait(mask, waited)
  \/ \E source \in {"thread", "process"} :
       SelectArmed(source) \/ Select(source) \/ \E waited \in SUBSET Signos : Accept(source, waited)
  \/ ArmSignalDeliveryBypass \/ RetireStale \/ Claim \/ Take \/ Proceed \/ Retry
Spec == Init /\ [][Next]_dvars

-----------------------------------------------------------------------------
(* The callback is told to bypass only for the very record that was armed, not
   for another signal of that number, however the armed one was lost, coalesced
   or overtaken (take_signal_delivery_bypass). *)
BypassExact == delivery.pc = "asked" => delivery.bypassed \in {0, delivery.record.id}

(* While another record is being chosen the armed one is not waiting in the
   thread's queue: a forced signal goes before lower-numbered ones that the
   callback keeps rejecting (dequeue_signal_for_delivery). *)
ArmedFirst ==
  delivery.pc = "selected" /\ delivery.gate /\ bypass.signo \in delivery.mask =>
    pending.thread[bypass.signo].id # bypass.of

(* A signal that observe_signal_wait waits for is never delivered in that pass,
   armed or not. *)
WaitedNotDelivered == delivery.pc \in {"selected", "callback", "asked"} => delivery.signo \notin delivery.excluded

DeliverySound == BypassExact /\ ArmedFirst /\ WaitedNotDelivered
=============================================================================
