------------------------------- MODULE MmFault -------------------------------
(***************************************************************************)
(* Delegated page faults: crates/mm/src/fault.rs and the UffdFaultPolicy   *)
(* and resolver results of userfaultfd.rs.  A task freezes a FaultKey when *)
(* it faults, is admitted later against the mapping and the broker of that *)
(* moment, sleeps, and is woken by a resolver whose reply is revalidated   *)
(* once more.  The broker (queue, waiters, wakeups) is the embedding       *)
(* kernel's and is modelled as FaultPort describes it: lookup, policy check*)
(* and submission are one critical section, and so are revalidation,       *)
(* installation and result.                                                *)
(*                                                                         *)
(* One address space with one logical mapping; addresses are whole pages.  *)
(***************************************************************************)
EXTENDS MmRange, FiniteSetsExt

CONSTANTS
  Tasks, Handlers,
  Intervals,        \* handler -> page range it registered
  PerSpace, PerHandler, Global,   \* FaultCapacity
  MaxGeneration     \* bound on generations

VARIABLES
  current,          \* MappingSnapshot: [generation, range, access, kind]
  registrations,    \* handler -> [generation, range], or NoRegistration
  lifecycle,        \* handler -> FaultLifecycleState
  tasks,            \* task -> [stage, request]
  queue             \* the broker's coalescible requests

fvars == <<current, registrations, lifecycle, tasks, queue>>

FaultAccess == {"Read", "Write", "Execute"}
NoRegistration == [generation |-> 0, range |-> NoRange]
Running == [stage |-> "Running"]

Init ==
  /\ current = [generation |-> 1, range |-> UserRange(0, MaxAddress),
                access |-> {"Read", "Write"}, kind |-> "AnonymousPrivate"]
  /\ registrations = [h \in Handlers |-> [generation |-> 1, range |-> Intervals[h]]]
  /\ lifecycle = [h \in Handlers |-> "Open"]
  /\ tasks = [t \in Tasks |-> Running]
  /\ queue = {}

(* FaultKey::from_address, check_access; FaultRequest::new.  Only pages some
   handler registered are delegated. *)
Fault(t, page, access, h) ==
  /\ tasks[t] = Running
  /\ ContainsAddress(current.range, page) /\ access \in current.access
  /\ ContainsAddress(registrations[h].range, page)
  /\ tasks' = [tasks EXCEPT ![t] = [stage |-> "Faulting", request |->
       [generation |-> current.generation, page |-> page, access |-> access, handler |-> h]]]
  /\ UNCHANGED <<current, registrations, lifecycle, queue>>

(* FaultKey::revalidate_completion *)
RevalidateCompletion(q) ==
  q.generation = current.generation /\ ContainsAddress(current.range, q.page)

(* FaultKey::revalidate_admission *)
RevalidateAdmission(q) == RevalidateCompletion(q) /\ q.access \in current.access

(* UffdRegistration::revalidate, validate_fault_admission *)
RegistrationAdmits(r, q) ==
  /\ r.generation = current.generation /\ current.kind = "AnonymousPrivate"
  /\ Contains(current.range, r.range)
  /\ q.generation = r.generation /\ ContainsAddress(r.range, q.page)
  /\ RevalidateAdmission(q)

(* The three request quotas of FaultAdmission::check *)
QuotaAdmits(h) ==
  /\ Cardinality(queue) < PerSpace /\ Cardinality(queue) < Global
  /\ Cardinality({q \in queue : q.handler = h}) < PerHandler

(* FaultAdmission::check with the broker's lookup as its context: an exact
   live request takes one more waiter and no credit *)
Admits(q) ==
  /\ lifecycle[q.handler] = "Open"
  /\ RegistrationAdmits(registrations[q.handler], q)
  /\ q \in queue \/ QuotaAdmits(q.handler)

(* UffdFaultPolicy::admit and FaultPort::submit; refused, the task retries *)
Admit(t) ==
  /\ tasks[t].stage = "Faulting"
  /\ IF Admits(tasks[t].request)
       THEN /\ queue' = queue \cup {tasks[t].request}
            /\ tasks' = [tasks EXCEPT ![t].stage = "Waiting"]
       ELSE /\ tasks' = [tasks EXCEPT ![t] = Running]
            /\ UNCHANGED queue
  /\ UNCHANGED <<current, registrations, lifecycle>>

(* Every waiter of a request that reached its end runs again *)
Wake(qs) == [t \in Tasks |-> IF tasks[t].stage = "Waiting" /\ tasks[t].request \in qs
                               THEN Running ELSE tasks[t]]

(* validate_fault_completion: identity and coverage, but not access *)
Completes(q) == RevalidateCompletion(q)

(* UffdResolverResult::progress, for_copy, for_zeropage *)
Progress(destination, completed, dontwake) ==
  IF completed = 0 \/ completed > ByteLen(destination) THEN [outcome |-> "InvalidProgress"]
  ELSE [outcome |-> IF completed = ByteLen(destination) THEN "Complete" ELSE "Retry",
        reported |-> completed, completed |-> Subrange(destination, 1, 0, completed), wake |-> ~dontwake]

(* UFFDIO_COPY or UFFDIO_ZEROPAGE on a range that one registration covers,
   whoever owns it (resolver_registration).  The lower installer may stop
   after a prefix; the requests of the prefix are revalidated
   (UffdFaultPolicy::prepare_completion) and, unless the caller said DONTWAKE
   or its result could not be copied out, their waiters are woken. *)
Resolve(destination, completed, dontwake, copiedOut) ==
  LET result == Progress(destination, completed, dontwake)
      ended == {q \in queue : Completes(q) /\ ContainsAddress(result.completed, q.page)}
      woken == IF result.wake /\ copiedOut THEN ended ELSE {}
  IN  /\ \E h \in Handlers : Contains(registrations[h].range, destination)
      /\ Contains(current.range, destination)
      /\ completed \in 1..ByteLen(destination)
      /\ queue' = queue \ woken
      /\ tasks' = Wake(woken)
      /\ UNCHANGED <<current, registrations, lifecycle>>

(* UFFDIO_WAKE of a range: waiters retry, nothing is installed *)
WakeRange(range) ==
  LET woken == {q \in queue : ContainsAddress(range, q.page)}
  IN  /\ woken # {}
      /\ queue' = queue \ woken /\ tasks' = Wake(woken)
      /\ UNCHANGED <<current, registrations, lifecycle>>

(* FaultPort::cancel by one waiter; the last one takes the request along *)
Cancel(t) ==
  LET q == tasks[t].request
  IN  /\ tasks[t].stage = "Waiting"
      /\ tasks' = [tasks EXCEPT ![t] = Running]
      /\ queue' = IF \E u \in Tasks \ {t} : tasks[u] = tasks[t] THEN queue ELSE queue \ {q}
      /\ UNCHANGED <<current, registrations, lifecycle>>

(* A handler closes: no new request, the old ones drain, then it detaches
   (FaultPort::detach) and whoever still waits is woken *)
BeginClose(h) ==
  /\ lifecycle[h] = "Open"
  /\ lifecycle' = [lifecycle EXCEPT ![h] = "Closing"]
  /\ UNCHANGED <<current, registrations, tasks, queue>>

Detach(h) ==
  LET woken == {q \in queue : q.handler = h}
  IN  /\ lifecycle[h] \in {"Open", "Closing"}
      /\ lifecycle' = [lifecycle EXCEPT ![h] = "Detached"]
      /\ registrations' = [registrations EXCEPT ![h] = NoRegistration]
      /\ queue' = queue \ woken /\ tasks' = Wake(woken)
      /\ UNCHANGED current

(* The kernel: mprotect, trim, and replacement of the logical mapping, which
   takes a new epoch; the registrations follow when the owner refreshes them *)
Protect(access) ==
  /\ current' = [current EXCEPT !.access = access]
  /\ UNCHANGED <<registrations, lifecycle, tasks, queue>>

Trim ==
  /\ current.range.end > 1
  /\ current' = [current EXCEPT !.range.end = @ - 1]
  /\ registrations' = [h \in Handlers |->
       LET r == Intersection(registrations[h].range, current'.range)
       IN  IF IsRange(r) THEN [registrations[h] EXCEPT !.range = r] ELSE NoRegistration]
  /\ UNCHANGED <<lifecycle, tasks, queue>>

Replace ==
  /\ current.generation < MaxGeneration
  /\ current' = [current EXCEPT !.generation = @ + 1]
  /\ UNCHANGED <<registrations, lifecycle, tasks, queue>>

Refresh(h) ==
  /\ registrations[h] # NoRegistration
  /\ registrations' = [registrations EXCEPT ![h].generation = current.generation]
  /\ UNCHANGED <<current, lifecycle, tasks, queue>>

Next ==
  \/ \E t \in Tasks, p \in Addresses, a \in FaultAccess, h \in Handlers : Fault(t, p, a, h)
  \/ \E t \in Tasks : Admit(t) \/ Cancel(t)
  \/ \E d \in AllRanges, n \in 1..MaxAddress, w, c \in BOOLEAN : Resolve(d, n, w, c)
  \/ \E r \in AllRanges : WakeRange(r)
  \/ \E h \in Handlers : BeginClose(h) \/ Detach(h) \/ Refresh(h)
  \/ \E access \in {{"Read"}, {"Read", "Write"}} : Protect(access)
  \/ Trim \/ Replace

Spec == Init /\ [][Next]_fvars

-----------------------------------------------------------------------------
(* Live requests stay within the three quotas although waiters join without a
   credit; a request has a waiter and a waiter its exact request; and nobody
   waits for a handler that has detached. *)
QueueWithinCapacity ==
  /\ Cardinality(queue) <= PerSpace /\ Cardinality(queue) <= Global
  /\ \A h \in Handlers : Cardinality({q \in queue : q.handler = h}) <= PerHandler
  /\ \A t \in Tasks : tasks[t].stage = "Waiting" => tasks[t].request \in queue
  /\ \A q \in queue : lifecycle[q.handler] # "Detached" /\
                        \E t \in Tasks : tasks[t] = [stage |-> "Waiting", request |-> q]

(* A reply never answers a request of a mapping that was replaced since: the
   waiters a resolver wakes were admitted under the epoch that is current when
   the page is installed, on a page that was both installed and still mapped. *)
RepliesExact ==
  queue' # queue =>
    \A d \in AllRanges, n \in 1..MaxAddress :
      Resolve(d, n, FALSE, TRUE) =>
        \A t \in Tasks : (tasks[t].stage = "Waiting" /\ tasks'[t] = Running) =>
          /\ tasks[t].request.generation = current.generation
          /\ tasks[t].request.page \in d.start..(d.start + n - 1) \cap Bytes(current.range)

(* What a resolver reports is a nonempty prefix of its destination, complete
   exactly when it is all of it, and announced unless DONTWAKE was asked for. *)
ProgressExact(d, n, w) ==
  LET r == Progress(d, n, w)
  IN  IF n \in 1..ByteLen(d)
        THEN /\ Bytes(r.completed) = d.start..(d.start + r.reported - 1) /\ r.reported = n
             /\ (r.outcome = "Complete") <=> (r.completed = d)
             /\ r.wake # w
        ELSE r.outcome = "InvalidProgress"
=============================================================================
