--------------------------- MODULE SignalEndpoint ---------------------------
(***************************************************************************)
(* The endpoints of crates/signal (api/process.rs, api/thread.rs): one     *)
(* ProcessSignalManager with its registry of thread endpoints, senders to  *)
(* both kinds of endpoint, delivery, and teardown.                         *)
(*                                                                         *)
(* A step is one section under the action-update gate (with_action_update) *)
(* or one of the short queue-lock sections outside it.  A send is three    *)
(* steps: preflight, commit (both under the gate) and the store to         *)
(* possibly_has_signal after the gate is released.  Delivery holds the     *)
(* endpoint's delivery mutex from DeliverStart to its end, and so excludes *)
(* cancel_registration and retire_registration, but nothing else.          *)
(*                                                                         *)
(* Queue contents are the business of SignalRecords: here every signal is  *)
(* a standard one, and a pending record says which registration it was     *)
(* sent to.                                                                *)
(***************************************************************************)
EXTENDS Integers, Sequences, FiniteSets, FiniteSetsExt

CONSTANTS
  Threads, Tids, Senders,
  Process,        \* the name of the process endpoint as a target
  ThreadLimit,    \* thread_limit
  Varied,         \* the signals whose disposition and mask bit change
  MaxEntry        \* bound on registrations

ASSUME EndpointAssumption ==
  Process \notin Threads /\ ThreadLimit \in Nat /\ MaxEntry \in Nat /\ Varied \subseteq {18, 20}

CONT == 18
TSTP == 20        \* stands for JOB_CONTROL_STOP_SIGNALS
Signos == {CONT, TSTP}
Targets == Threads \union {Process}
Dispositions == {"default", "ignore", "handler"}

VARIABLES
  plife,      \* lifecycle of the process endpoint
  tlife,      \* lifecycle of each thread endpoint
  pending,    \* target -> signal -> record
  hint,       \* target -> possibly_has_signal
  registration,  \* thread -> its entry, or 0
  entry,      \* RegisteredThread objects, by number
  children,   \* the registry: entry numbers
  tokens,     \* outstanding ThreadSignalRegistration tokens, by entry
  disposition, blocked,
  sender,     \* sender -> what it carries between its sections
  delivering    \* thread -> the delivery holding its mutex

endpointVars == <<plife, tlife, pending, hint, registration, entry, children, tokens,
          disposition, blocked, sender, delivering>>
registry == <<plife, tlife, registration, entry, children, tokens>>
queues == <<pending, hint>>

None == [owner |-> -1, requeued |-> FALSE]
Record(owner) == [owner |-> owner, requeued |-> FALSE]
NoWork == [pc |-> "idle"]
Empty == [s \in Signos |-> None]
IsEmpty(q) == \A s \in Signos : q[s] = None

EndpointInit ==
  /\ plife = "active" /\ tlife = [t \in Threads |-> "pending"]
  /\ pending = [x \in Targets |-> Empty] /\ hint = [x \in Targets |-> FALSE]
  /\ registration = [t \in Threads |-> 0] /\ entry = <<>> /\ children = {} /\ tokens = {}
  /\ disposition = [s \in Signos |-> "default"] /\ blocked = [t \in Threads |-> {}]
  /\ sender = [c \in Senders |-> NoWork] /\ delivering = [t \in Threads |-> NoWork]

-----------------------------------------------------------------------------
(* Registration *)
Live == {e \in children : entry[e].state # "cancelled"}
Active == {e \in children : entry[e].state = "active"}
Visible == {e \in children : entry[e].state \in {"active", "retained"}}
ThreadsOf(E) == {entry[e].thread : e \in E}

Drained(x) == /\ pending' = [pending EXCEPT ![x] = Empty]
              /\ hint' = [hint EXCEPT ![x] = FALSE]

TidFree(tid) == \A e \in Live : entry[e].tid # tid
TryRegister(t, tid) ==
  /\ registration[t] = 0 /\ Len(entry) < MaxEntry
  /\ TidFree(tid) /\ Cardinality(Live) < ThreadLimit
  /\ LET e == Len(entry) + 1 IN
       /\ entry' = Append(entry, [tid |-> tid, thread |-> t, state |-> "pending"])
       /\ children' = Live \union {e} /\ tokens' = tokens \union {e}
       /\ registration' = [registration EXCEPT ![t] = e]
  /\ tlife' = [tlife EXCEPT ![t] = "pending"]
  /\ UNCHANGED <<plife, queues, disposition, blocked, sender, delivering>>

(* ThreadSignalRegistration::commit, which drops the token when it fails *)
Admitted(e) == registration[entry[e].thread] = e /\ tlife[entry[e].thread] = "pending"
CommitRegistration(e) ==
  /\ e \in tokens /\ Admitted(e)
  /\ tlife' = [tlife EXCEPT ![entry[e].thread] = "active"]
  /\ entry' = [entry EXCEPT ![e].state = "active"] /\ tokens' = tokens \ {e}
  /\ UNCHANGED <<plife, queues, registration, children, disposition, blocked, sender, delivering>>

DropRegistration(e) ==
  LET t == entry[e].thread IN
  /\ e \in tokens /\ tokens' = tokens \ {e}
  /\ entry' = [entry EXCEPT ![e].state = "cancelled"]
  /\ IF registration[t] = e
     THEN /\ tlife' = [tlife EXCEPT ![t] = "cancelled"]
          /\ registration' = [registration EXCEPT ![t] = 0]
          /\ Drained(t)
     ELSE UNCHANGED <<tlife, registration, queues>>
  /\ UNCHANGED <<plife, children, disposition, blocked, sender, delivering>>

Cancelled(t) ==
  /\ entry' = IF registration[t] = 0 THEN entry
              ELSE [entry EXCEPT ![registration[t]].state = "cancelled"]
  /\ tlife' = [tlife EXCEPT ![t] = "cancelled"]
  /\ registration' = [registration EXCEPT ![t] = 0]
  /\ Drained(t)

Quiesced(t) == delivering[t] = NoWork
CancelRegistration(t) ==
  /\ Quiesced(t) /\ Cancelled(t)
  /\ UNCHANGED <<plife, children, tokens, disposition, blocked, sender, delivering>>

RetireRegistration(t, tid, retain) ==
  LET matching == {e \in children : entry[e].tid = tid /\ entry[e].thread = t} IN
  /\ Quiesced(t) /\ matching # {} /\ registration[t] = Min(matching)
  /\ \/ /\ retain /\ tlife[t] \in {"pending", "active"}
        /\ entry' = [entry EXCEPT ![registration[t]].state = "retained"]
        /\ tlife' = [tlife EXCEPT ![t] = "retained"]
        /\ UNCHANGED <<registration, queues>>
     \/ ~retain /\ Cancelled(t)
  /\ UNCHANGED <<plife, children, tokens, disposition, blocked, sender, delivering>>

(* ProcessSignalManager::retain_pending_only, retire_pending *)
RetainProcess ==
  /\ plife = "active" /\ plife' = "retained"
  /\ UNCHANGED <<tlife, registration, entry, children, tokens, queues, disposition, blocked, sender, delivering>>
RetireProcess ==
  /\ plife # "cancelled" /\ plife' = "cancelled" /\ Drained(Process)
  /\ UNCHANGED <<tlife, registration, entry, children, tokens, disposition, blocked, sender, delivering>>

-----------------------------------------------------------------------------
(* Queue sections.  Detaching or dequeuing the last record clears the hint. *)
Without(X, S) == [x \in Targets |-> [s \in Signos |->
                    IF x \in X /\ s \in S THEN None ELSE pending[x][s]]]
ClearedAlways(X, q) == [x \in Targets |-> hint[x] /\ x \notin X]
Cleared(X, q) == [x \in Targets |-> hint[x] /\ ~(x \in X /\ IsEmpty(q[x]))]

Taken(x, S) == /\ pending' = Without({x}, S)
               /\ hint' = Cleared({x}, pending')

FlushSignal(x, S) ==     \* flush_signal, flush_pending
  /\ Taken(x, S)
  /\ UNCHANGED <<registry, disposition, blocked, sender, delivering>>

DequeueSignal(x, s) ==   \* dequeue_signal, dequeue_signal_for_signalfd
  /\ pending[x][s] # None /\ Taken(x, {s})
  /\ UNCHANGED <<registry, disposition, blocked, sender, delivering>>

-----------------------------------------------------------------------------
(* Sending *)
Opposed(s) == Signos \ {s}
Reached == ThreadsOf(Visible) \union {Process}
AfterEffect(s) == Without(Reached, Opposed(s))

(* action_ignored: the default action of both signals is not Ignore *)
ActionIgnored(s, blocking) == disposition[s] = "ignore" /\ ~blocking
BlockedAt(x, s) == IF x = Process THEN \E t \in ThreadsOf(Active) : s \in blocked[t]
                   ELSE s \in blocked[x]

Accepts(mode, x) == IF x = Process THEN plife = "active" ELSE tlife[x] = mode

(* Both passes of try_send_signal_with run the generation effect first. *)
Preflight(c, x, mode, s) ==
  /\ sender[c] = NoWork /\ Accepts(mode, x) /\ (x = Process => mode = "active")
  /\ LET q == AfterEffect(s)  h == Cleared(Reached, q)  there == q[x][s] # None
         ignored == ActionIgnored(s, BlockedAt(x, s))
     IN /\ pending' = q
        /\ hint' = IF ~ignored /\ there /\ x # Process THEN [h EXCEPT ![x] = TRUE] ELSE h
        /\ sender' = [sender EXCEPT ![c] =
             IF ignored THEN NoWork
             ELSE IF ~there THEN [pc |-> "preparing", to |-> x, mode |-> mode, signo |-> s]
             ELSE IF x = Process /\ \E t \in ThreadsOf(Active) : s \notin blocked[t]
                  THEN [pc |-> "hint", to |-> x]
             ELSE NoWork]
  /\ UNCHANGED <<registry, disposition, blocked, delivering>>

PrepareFails(c) ==
  /\ sender[c].pc = "preparing" /\ sender' = [sender EXCEPT ![c] = NoWork]
  /\ UNCHANGED <<registry, queues, disposition, blocked, delivering>>

(* Publication of signal s by sender c in the section that runs the effect. *)
Published(c, x, s, owner, blocking) ==
  LET q == AfterEffect(s)  ignored == ActionIgnored(s, blocking) IN
  /\ hint' = Cleared(Reached, q)
  /\ pending' = IF ignored \/ q[x][s] # None THEN q ELSE [q EXCEPT ![x][s] = Record(owner)]
  /\ sender' = [sender EXCEPT ![c] = IF ignored THEN NoWork ELSE [pc |-> "hint", to |-> x]]
Refused(c) == sender' = [sender EXCEPT ![c] = NoWork] /\ UNCHANGED queues
OwnerNow(x) == IF x = Process THEN 0 ELSE registration[x]

Commit(c) ==
  /\ sender[c].pc = "preparing"
  /\ LET x == sender[c].to  s == sender[c].signo IN
       IF Accepts(sender[c].mode, x)
       THEN Published(c, x, s, OwnerNow(x), BlockedAt(x, s))
       ELSE Refused(c)
  /\ UNCHANGED <<registry, disposition, blocked, delivering>>

(* try_prepare_signal_send of a thread and of the process *)
PrepareThreadSend(c, t) ==
  /\ sender[c] = NoWork
  /\ \E e \in Active : entry[e].thread = t
       /\ sender' = [sender EXCEPT ![c] = [pc |-> "armed", to |-> t, owner |-> e]]
  /\ UNCHANGED <<registry, queues, disposition, blocked, delivering>>
PrepareProcessSend(c) ==
  /\ sender[c] = NoWork
  /\ sender' = [sender EXCEPT ![c] = [pc |-> "armed", to |-> Process, endpoints |-> Active]]
  /\ UNCHANGED <<registry, queues, disposition, blocked, delivering>>

(* PreparedThreadSignalSend::publish, PreparedProcessSignalSend::publish *)
AnyActive(t, e) == tlife[t] = "active"
ExactActive(t, e) == tlife[t] = "active" /\ entry[e].state = "active" /\ registration[t] = e
PublishPrepared(c, s) ==
  /\ sender[c].pc = "armed"
  /\ LET x == sender[c].to IN
       \/ /\ x # Process
          /\ IF ExactActive(x, sender[c].owner)
             THEN Published(c, x, s, sender[c].owner, s \in blocked[x])
             ELSE Refused(c)
       \/ /\ x = Process
          /\ IF plife = "active"
             THEN Published(c, x, s, 0, \E e \in sender[c].endpoints :
                                          entry[e].state = "active" /\ s \in blocked[entry[e].thread])
             ELSE Refused(c)
  /\ UNCHANGED <<registry, disposition, blocked, delivering>>

StoreHint(c) ==
  /\ sender[c].pc = "hint" /\ hint' = [hint EXCEPT ![sender[c].to] = TRUE]
  /\ sender' = [sender EXCEPT ![c] = NoWork]
  /\ UNCHANGED <<registry, pending, disposition, blocked, delivering>>

-----------------------------------------------------------------------------
(* try_replace_action: an ignored signal leaves every queue under the gate.
   The process hint follows its queue, a child's hint its own. *)
TryReplaceAction(s, d) ==
  /\ disposition' = [disposition EXCEPT ![s] = d]
  /\ IF d = "ignore"
     THEN /\ pending' = Without(Reached, {s}) /\ hint' = Cleared(Reached, pending')
     ELSE UNCHANGED queues
  /\ UNCHANGED <<registry, blocked, sender, delivering>>

SetBlocked(t, set) ==    \* set_blocked, commit_restore
  /\ blocked' = [blocked EXCEPT ![t] = set] /\ hint' = [hint EXCEPT ![t] = TRUE]
  /\ UNCHANGED <<registry, pending, disposition, sender, delivering>>

-----------------------------------------------------------------------------
(* check_signals_with_pre_delivery: the mask is read once, then the scan goes
   over the thread queue and the process queue until a record is delivered. *)
DeliverStart(t) ==
  /\ delivering[t] = NoWork /\ tlife[t] = "active" /\ (hint[t] \/ hint[Process])
  /\ delivering' = [delivering EXCEPT ![t] = [pc |-> "thread", mask |-> Signos \ blocked[t]]]
  /\ UNCHANGED <<registry, queues, disposition, blocked, sender>>

Scan(t, x, otherwise) ==
  LET d == delivering[t]  found == {s \in d.mask : pending[x][s] # None} IN
  IF found = {} THEN delivering' = [delivering EXCEPT ![t] = otherwise] /\ Taken(x, {})
  ELSE LET s == Min(found) IN
       /\ Taken(x, {s})
       /\ delivering' = [delivering EXCEPT ![t] = [pc |-> "selected", mask |-> d.mask,
                                 from |-> x, signo |-> s, record |-> pending[x][s],
                                 action |-> "unclaimed"]]
ScanThread(t) ==
  /\ delivering[t].pc = "thread" /\ Scan(t, t, [delivering[t] EXCEPT !.pc = "process"])
  /\ UNCHANGED <<registry, disposition, blocked, sender>>
ScanProcess(t) ==
  /\ delivering[t].pc = "process" /\ Scan(t, Process, NoWork)
  /\ UNCHANGED <<registry, disposition, blocked, sender>>

(* claim_delivery: the action is read once, after the record was selected, and
   the delivery goes by it whatever replaces the action later. *)
ClaimAction(t) ==
  LET d == delivering[t] IN
  /\ d.pc = "selected" /\ d.action = "unclaimed"
  /\ \E a \in Dispositions :
       disposition[d.signo] = a /\ delivering' = [delivering EXCEPT ![t] = [d EXCEPT !.action = a]]
  /\ UNCHANGED <<registry, queues, disposition, blocked, sender>>

(* An ignored record is consumed and the scan goes on; a default action or a
   rejected-and-consumed delivery ends it; a handler blocks its signal. *)
Deliver(t) ==
  LET d == delivering[t] IN
  /\ d.pc = "selected"
  /\ \/ /\ d.action = "ignore" /\ UNCHANGED blocked
        /\ delivering' = [delivering EXCEPT ![t] = [pc |-> "thread", mask |-> d.mask]]
     \/ /\ d.action \in {"default", "handler"} /\ UNCHANGED blocked
        /\ delivering' = [delivering EXCEPT ![t] = NoWork]
     \/ /\ d.action = "handler"
        /\ blocked' = [blocked EXCEPT ![t] = @ \union {d.signo}]
        /\ delivering' = [delivering EXCEPT ![t] = NoWork]
  /\ UNCHANGED <<registry, queues, disposition, sender>>

(* Retry/Fault: requeue_thread_signal, requeue_signal *)
NotCancelled(x) == x = Process => plife # "cancelled"
Requeue(t) ==
  LET d == delivering[t] IN
  /\ d.pc = "selected" /\ d.action = "handler"
  /\ IF NotCancelled(d.from)
     THEN /\ pending' = [pending EXCEPT ![d.from][d.signo] = [d.record EXCEPT !.requeued = TRUE]]
          /\ hint' = [hint EXCEPT ![d.from] = TRUE]
     ELSE UNCHANGED queues
  /\ delivering' = [delivering EXCEPT ![t] = NoWork]
  /\ UNCHANGED <<registry, disposition, blocked, sender>>

Register ==
  \/ \E t \in Threads, tid \in Tids :
       TryRegister(t, tid) \/ \E retain \in BOOLEAN : RetireRegistration(t, tid, retain)
  \/ \E e \in tokens : CommitRegistration(e) \/ DropRegistration(e)
  \/ \E t \in Threads : CancelRegistration(t)
  \/ RetainProcess \/ RetireProcess
Send ==
  \E c \in Senders :
    \/ \E x \in Targets, mode \in {"active", "retained"}, s \in Signos : Preflight(c, x, mode, s)
    \/ PrepareFails(c) \/ Commit(c) \/ StoreHint(c)
    \/ \E t \in Threads : PrepareThreadSend(c, t)
    \/ PrepareProcessSend(c) \/ \E s \in Signos : PublishPrepared(c, s)
Receive ==
  \/ \E x \in Targets, s \in Signos : DequeueSignal(x, s)
  \/ \E x \in Targets, S \in (SUBSET Signos) \ {{}} : FlushSignal(x, S)
  \/ \E s \in Varied, d \in Dispositions : TryReplaceAction(s, d)
  \/ \E t \in Threads : \/ \E set \in SUBSET Varied : SetBlocked(t, set)
                        \/ DeliverStart(t) \/ ScanThread(t) \/ ScanProcess(t)
                        \/ ClaimAction(t) \/ Deliver(t) \/ Requeue(t)
EndpointNext == Register \/ Send \/ Receive
EndpointSpec == EndpointInit /\ [][EndpointNext]_endpointVars

-----------------------------------------------------------------------------
EndpointTypeOK ==
  /\ plife \in {"active", "retained", "cancelled"}
  /\ tlife \in [Threads -> {"pending", "active", "retained", "cancelled"}]
  /\ pending \in [Targets -> [Signos -> [owner : -1..MaxEntry, requeued : BOOLEAN]]]
  /\ hint \in [Targets -> BOOLEAN] /\ registration \in [Threads -> 0..MaxEntry]
  /\ children \subseteq 1..Len(entry) /\ tokens \subseteq 1..Len(entry)

(* The registry and the endpoints agree: an endpoint and its entry are in the
   same state, live entries have different tids and are within the limit. *)
RegistryCoherent ==
  /\ \A t \in Threads : registration[t] # 0 =>
       /\ registration[t] \in children /\ entry[registration[t]].thread = t
       /\ entry[registration[t]].state = tlife[t]
  /\ \A e \in Live : registration[entry[e].thread] = e
  /\ \A e, f \in Live : entry[e].tid = entry[f].tid => e = f
  /\ Cardinality(Live) <= ThreadLimit

(* A queue that holds a record is announced: its hint is set or the sender that
   published last is about to set it, so no delivery skips it for good. *)
HintNotLost ==
  \A x \in Targets : ~IsEmpty(pending[x]) =>
    hint[x] \/ \E c \in Senders : sender[c].pc = "hint" /\ sender[c].to = x

(* A thread's private queue holds only records sent to its present registration:
   a send prepared for an earlier one is refused, and teardown leaves nothing
   behind, nor does a delivery that was under way put anything back. *)
RecordsOfThisRegistration ==
  \A t \in Threads, s \in Signos :
    pending[t][s] # None => registration[t] # 0 /\ pending[t][s].owner = registration[t]

(* A retired process endpoint stays empty, whatever was selected or prepared
   before it was retired. *)
RetiredStaysEmpty == plife = "cancelled" => IsEmpty(pending[Process])

(* Generating SIGCONT cancels every pending stop signal of the process and the
   reverse, so the two are pending together only if a delivery put one back. *)
JobControlExclusive ==
  \A x, y \in Targets :
    pending[x][CONT] # None /\ pending[y][TSTP] # None =>
      pending[x][CONT].requeued \/ pending[y][TSTP].requeued

(* Only what belongs is pending: no record outlives the registration it was
   sent to, and none enters a later one; a retired process endpoint stays
   empty; and SIGCONT and a stop signal are pending together only if a delivery
   has put one of them back. *)
PendingBelongs == RecordsOfThisRegistration /\ RetiredStaysEmpty /\ JobControlExclusive
=============================================================================
