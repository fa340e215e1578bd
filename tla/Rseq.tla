-------------------------------- MODULE Rseq --------------------------------
(***************************************************************************)
(* ThreadRseq (crates/rseq/src/thread.rs) over RseqRegistrationState       *)
(* (registration.rs).  A caller reserves a transition, performs a side     *)
(* effect on user memory or starts an exec or fork, and then finalizes or  *)
(* cancels; scheduler and signal events arrive in between.                 *)
(*                                                                         *)
(* A plan is a linear value of the caller: `held` is the set of plans that *)
(* have been returned and not yet consumed.  Finalizing asserts that the   *)
(* plan matches the reservation of its thread.                             *)
(*                                                                         *)
(* The restart decision a resume gate takes comes first: descriptor proofs *)
(* of abi.rs and descriptor.rs, decide_restart of restart.rs.  Addresses   *)
(* are the naturals up to MaxAddress.                                      *)
(***************************************************************************)
EXTENDS Integers, FiniteSets

CONSTANTS
  MaxAddress,      \* u64::MAX
  SignatureBytes,  \* RSEQ_CS_SIGNATURE_BYTES
  UserLimit,       \* UserAddressLimit: exclusive
  Threads, First,  \* thread slots; the one that exists at the start
  Requests,        \* valid [area, signature] of rseq(2)
  Events,
  MaxEpoch, MaxRevision,   \* u64::MAX of both
  Gates            \* [area, descriptor, ip, abort_signature] met by a resume

VARIABLES
  threads,         \* existing thread -> ThreadRseq
  held,            \* plans not yet finalized or cancelled
  unseen           \* ghost: thread -> events raised that no committed gate handled

rvars == <<threads, held, unseen>>

-----------------------------------------------------------------------------
Uninitialized == "u32::MAX"          \* RSEQ_CPU_ID_UNINITIALIZED
RegistrationFailed == "u32::MAX - 1" \* RSEQ_CPU_ID_REGISTRATION_FAILED
NoDescriptor == [address |-> 0]

UserContains(a) == a < UserLimit

(* RseqCriticalSection::contains *)
InSection(d, ip) == ip >= d.start_ip /\ ip < d.start_ip + d.post_commit_offset

(* The last condition of validate_for_user *)
AbortInside(d) == InSection(d, d.abort_ip)

(* RseqDescriptor::new, RseqCriticalSection::validate_for_user, in the order of
   their checks *)
DescriptorNew(d) ==
  CASE d.address = 0 -> "InvalidDescriptorAddress"
    [] d.address # 0 /\ ~UserContains(d.address) -> "AddressOutOfRange"
    [] OTHER ->
       IF d.version # 0 THEN "InvalidVersion"
       ELSE IF d.start_ip + d.post_commit_offset > MaxAddress THEN "AddressOverflow"
       ELSE IF \E a \in {d.start_ip, d.start_ip + d.post_commit_offset, d.abort_ip} : ~UserContains(a)
         THEN "AddressOutOfRange"
       ELSE IF AbortInside(d) THEN "AbortInCriticalSection" ELSE "Ok"

(* decide_restart: descriptor NoDescriptor is a failed copy of a nonzero
   rseq_cs; the others were built by DescriptorNew. *)
DecideRestart(area, descriptor, ip, events, signature, abortSignature) ==
  IF area.rseq_cs = 0 \/ events = {} THEN "NoActive"
  ELSE IF descriptor = NoDescriptor THEN "DescriptorReadFault"
  ELSE IF area.rseq_cs # descriptor.address THEN "ActiveDescriptorMismatch"
  ELSE IF descriptor.abort_ip < SignatureBytes THEN "SignatureAddressUnderflow"
  ELSE IF abortSignature # signature THEN "RestartSignatureMismatch"
  ELSE IF ~InSection(descriptor, ip) THEN "ClearOnly"
  ELSE IF area.flags # 0 THEN "InvalidAreaFlags"
  ELSE IF descriptor.flags # 0 THEN "InvalidFlags" ELSE "Abort"

Decided == {"NoActive", "ClearOnly", "Abort"}

(* CpuIdState::from_raw, RseqArea::cpu_check, check_cpu *)
CpuCheck(area) ==
  LET ids == {area.cpu_id_start, area.cpu_id}
  IN  IF RegistrationFailed \in ids THEN "RegistrationFailed"
      ELSE IF Uninitialized \in ids THEN "Uninitialized"
      ELSE IF area.cpu_id_start = area.cpu_id THEN "Match" ELSE "Mismatch"

CheckCpu(area, expected) ==
  IF expected \in {Uninitialized, RegistrationFailed} THEN "InvalidCpuId"
  ELSE IF CpuCheck(area) = "Match" /\ area.cpu_id = expected THEN "Ok"
  ELSE IF CpuCheck(area) \in {"Match", "Mismatch"} THEN "CpuIdMismatch" ELSE CpuCheck(area)

-----------------------------------------------------------------------------
(* A descriptor that passed its proof, whatever its numbers: an Abort sends
   the thread to a user address outside the section it left, so it cannot be
   aborted again there, and only a thread inside the section, with matching
   signature and no flags, is sent anywhere; without an event nothing is read
   and nothing fails. *)
RestartExact(area, d, ip, events, signature, abortSignature) ==
  LET verdict == DecideRestart(area, d, ip, events, signature, abortSignature)
      section == d.start_ip..(d.start_ip + d.post_commit_offset - 1)
  IN  /\ events = {} => verdict = "NoActive"
      /\ (d # NoDescriptor /\ DescriptorNew(d) = "Ok") =>
           /\ verdict = "Abort" <=> /\ events # {} /\ area.rseq_cs = d.address /\ ip \in section
                                    /\ signature = abortSignature /\ d.abort_ip >= SignatureBytes
                                    /\ area.flags = 0 /\ d.flags = 0
           /\ verdict = "Abort" => d.abort_ip \notin section /\ d.abort_ip < UserLimit
           /\ verdict = "ClearOnly" => ip \notin section /\ area.rseq_cs # 0

(* A CPU is accepted only if both fields of the area are that ordinary CPU. *)
CpuExact(area, expected) ==
  CheckCpu(area, expected) = "Ok" <=>
    /\ expected \notin {Uninitialized, RegistrationFailed}
    /\ area.cpu_id = expected /\ area.cpu_id_start = expected

-----------------------------------------------------------------------------
None == [none |-> TRUE]

(* ThreadRseq::new, RseqRegistrationState::new *)
New == [registration |-> None, epoch |-> 0, pending |-> None, events |-> {},
        revision |-> 0, resume |-> None, exec |-> None, fork |-> None]

Init ==
  /\ threads = [t \in {First} |-> New]
  /\ held = {}
  /\ unseen = [t \in {First} |-> {}]

(* RseqRegistrationRequest::validate is the membership in Requests *)
Registration(request, epoch) == [request |-> request, epoch |-> epoch]

(* ensure_lifecycle_idle, has_pending_operation *)
Idle(t) ==
  t \in DOMAIN threads /\ \A f \in {"pending", "resume", "exec", "fork"} : threads[t][f] = None

(* RseqRevision::next and RseqEpoch::next, both checked before any change *)
Advances(t) == threads[t].revision < MaxRevision
Renews(t) == threads[t].epoch < MaxEpoch

(* prepare_register, of both layers *)
RegisterPlan(t, request) ==
  [kind |-> "register", thread |-> t, request |-> request, epoch |-> threads[t].epoch + 1]
PrepareRegister(t, request) ==
  /\ Idle(t) /\ Advances(t) /\ threads[t].registration = None /\ Renews(t)
  /\ threads' = [threads EXCEPT ![t] = [threads[t] EXCEPT !.revision = @ + 1, !.epoch = @ + 1,
                                                          !.pending = RegisterPlan(t, request)]]
  /\ held' = held \cup {RegisterPlan(t, request)}
  /\ UNCHANGED unseen

(* prepare_unregister: area and signature name the active registration *)
UnregisterPlan(t) ==
  [kind |-> "unregister", thread |-> t, registration |-> threads[t].registration, epoch |-> threads[t].epoch + 1]
PrepareUnregister(t, request) ==
  /\ Idle(t) /\ Advances(t) /\ threads[t].registration # None
  /\ threads[t].registration.request = request /\ Renews(t)
  /\ threads' = [threads EXCEPT ![t] = [threads[t] EXCEPT !.revision = @ + 1, !.epoch = @ + 1,
                                                          !.pending = UnregisterPlan(t)]]
  /\ held' = held \cup {UnregisterPlan(t)}
  /\ UNCHANGED unseen

CommitRegister(plan) ==
  /\ plan.kind = "register"
  /\ threads' = [threads EXCEPT ![plan.thread] =
                   [@ EXCEPT !.pending = None, !.registration = Registration(plan.request, plan.epoch)]]
  /\ held' = held \ {plan}
  /\ UNCHANGED unseen
CommitUnregister(plan) ==
  /\ plan.kind = "unregister"
  /\ threads' = [threads EXCEPT ![plan.thread] = [@ EXCEPT !.pending = None, !.registration = None]]
  /\ held' = held \ {plan}
  /\ UNCHANGED unseen

(* cancel_register, cancel_unregister: epoch and revision stay consumed *)
CancelRegistration(plan) ==
  /\ plan.kind \in {"register", "unregister"}
  /\ threads' = [threads EXCEPT ![plan.thread].pending = None]
  /\ held' = held \ {plan}
  /\ UNCHANGED unseen

RaisableAlways(t) == TRUE

(* The refusal of raise_events *)
Raisable(t) == threads[t].fork = None

(* raise_events *)
RaiseEvents(t, events) ==
  /\ Raisable(t) /\ Advances(t)
  /\ threads' = [threads EXCEPT ![t] = [threads[t] EXCEPT !.events = @ \cup events, !.revision = @ + 1]]
  /\ unseen' = [unseen EXCEPT ![t] = @ \cup events]
  /\ UNCHANGED held

(* begin_resume: a decision that fails leaves the events pending; one without
   events reserves nothing *)
BeginResume(t, gate) ==
  LET th == threads[t]
      verdict == DecideRestart(gate.area, gate.descriptor, gate.ip, th.events,
                               gate.signature, gate.abort_signature)
      plan == [kind |-> "resume", thread |-> t, revision |-> th.revision + 1, events |-> th.events]
  IN  /\ Idle(t) /\ verdict \in Decided
      /\ th.events # {} /\ Advances(t)
      /\ threads' = [threads EXCEPT ![t] = [threads[t] EXCEPT !.events = {}, !.revision = @ + 1, !.resume = plan]]
      /\ held' = held \cup {plan}
      /\ UNCHANGED unseen

(* commit_resume.  What was raised since begin_resume is pending now. *)
CommitResume(plan) ==
  /\ plan.kind = "resume"
  /\ threads' = [threads EXCEPT ![plan.thread].resume = None]
  /\ held' = held \ {plan}
  /\ unseen' = [unseen EXCEPT ![plan.thread] = (@ \ plan.events) \cup (@ \cap threads[plan.thread].events)]

RestoredNothing(t, plan) == threads[t].events

(* The union of cancel_resume *)
Restored(t, plan) == threads[t].events \cup plan.events

CancelResume(plan) ==
  /\ plan.kind = "resume"
  /\ threads' = [threads EXCEPT ![plan.thread] =
                   [@ EXCEPT !.resume = None, !.events = Restored(plan.thread, plan)]]
  /\ held' = held \ {plan}
  /\ UNCHANGED unseen

(* prepare_exec: the epoch is reserved but not yet current *)
PrepareExec(t) ==
  LET plan == [kind |-> "exec", thread |-> t, revision |-> threads[t].revision + 1,
               epoch |-> threads[t].epoch + 1]
  IN  /\ Idle(t) /\ Advances(t) /\ Renews(t)
      /\ threads' = [threads EXCEPT ![t] = [threads[t] EXCEPT !.revision = @ + 1, !.exec = plan]]
      /\ held' = held \cup {plan}
      /\ UNCHANGED unseen

(* reset_after_exec and the clearing of events *)
Cleared(t, epoch) ==
  [threads[t] EXCEPT !.registration = None, !.epoch = epoch, !.pending = None, !.events = {}, !.exec = None]

(* on_exec_success *)
OnExecSuccess(plan) ==
  /\ plan.kind = "exec"
  /\ threads' = [threads EXCEPT ![plan.thread] = Cleared(plan.thread, plan.epoch)]
  /\ unseen' = [unseen EXCEPT ![plan.thread] = {}]
  /\ held' = held \ {plan}

(* cancel_exec *)
CancelExec(plan) ==
  /\ plan.kind = "exec"
  /\ threads' = [threads EXCEPT ![plan.thread].exec = None]
  /\ held' = held \ {plan}
  /\ UNCHANGED unseen

(* fork_private, fork_clone_vm: the child's state, with the parent's new epoch *)
Child(t, mode) ==
  LET th == threads[t]
      e == th.epoch + 1
  IN  [New EXCEPT !.epoch = e, !.revision = th.revision + 1,
                  !.events = IF mode = "PrivateVm" THEN th.events ELSE {},
                  !.registration = IF mode = "PrivateVm" /\ th.registration # None
                                     THEN Registration(th.registration.request, e) ELSE None]

(* prepare_fork *)
PrepareFork(t, mode) ==
  LET plan == [kind |-> "fork", thread |-> t, mode |-> mode, child |-> Child(t, mode)]
  IN  /\ Idle(t) /\ Advances(t) /\ Renews(t)
      /\ threads' = [threads EXCEPT ![t] =
                       [threads[t] EXCEPT !.revision = @ + 1, !.epoch = @ + 1,
                                          !.fork = [revision |-> threads[t].revision + 1, mode |-> mode]]]
      /\ held' = held \cup {plan}
      /\ UNCHANGED unseen

(* commit_fork: the child starts with the snapshot *)
CommitFork(plan, c) ==
  /\ plan.kind = "fork" /\ c \in Threads \ DOMAIN threads
  /\ threads' = [t \in DOMAIN threads \cup {c} |->
                   IF t = c THEN plan.child
                   ELSE IF t = plan.thread THEN [threads[t] EXCEPT !.fork = None] ELSE threads[t]]
  /\ held' = held \ {plan}
  /\ unseen' = [t \in DOMAIN threads' |-> IF t = c THEN plan.child.events ELSE unseen[t]]

(* cancel_fork: revision and epoch stay consumed *)
CancelFork(plan) ==
  /\ plan.kind = "fork"
  /\ threads' = [threads EXCEPT ![plan.thread].fork = None]
  /\ held' = held \ {plan}
  /\ UNCHANGED unseen

(* reset *)
Reset(t) ==
  /\ Idle(t) /\ Advances(t) /\ Renews(t)
  /\ threads' = [threads EXCEPT ![t] = [Cleared(t, threads[t].epoch + 1) EXCEPT !.revision = threads[t].revision + 1]]
  /\ unseen' = [unseen EXCEPT ![t] = {}]
  /\ UNCHANGED held

Next ==
  \/ \E t \in DOMAIN threads :
       \/ \E q \in Requests : PrepareRegister(t, q) \/ PrepareUnregister(t, q)
       \/ \E e \in SUBSET Events \ {{}} : RaiseEvents(t, e)
       \/ \E g \in Gates : BeginResume(t, g)
       \/ \E mode \in {"CloneVm", "PrivateVm"} : PrepareFork(t, mode)
       \/ PrepareExec(t) \/ Reset(t)
  \/ \E plan \in held :
       \/ CommitRegister(plan) \/ CommitUnregister(plan) \/ CancelRegistration(plan)
       \/ CommitResume(plan) \/ CancelResume(plan)
       \/ OnExecSuccess(plan) \/ CancelExec(plan)
       \/ CancelFork(plan) \/ \E c \in Threads : CommitFork(plan, c)

Spec == Init /\ [][Next]_rvars

-----------------------------------------------------------------------------
Reservation(plan) ==
  LET th == threads[plan.thread]
  IN  CASE plan.kind \in {"register", "unregister"} -> th.pending = plan
        [] plan.kind = "resume" -> th.resume = plan
        [] plan.kind = "exec" -> th.exec = plan
        [] plan.kind = "fork" -> th.fork = [revision |-> plan.child.revision, mode |-> plan.mode]

(* Finalizing never panics: every plan a caller holds matches the reservation
   of its thread, a thread has at most one, and an unregister still names the
   active registration, so a side effect already done can always be settled. *)
TokensSettle ==
  /\ \A plan \in held : Reservation(plan)
  /\ \A plan, other \in held : plan.thread = other.thread => plan = other
  /\ \A plan \in held : plan.kind = "unregister" => threads[plan.thread].registration = plan.registration
  /\ \A t \in DOMAIN threads : Idle(t) <=> \A plan \in held : plan.thread # t

(* No event is lost between prepare and finalize: what was raised and not yet
   handled by a committed gate, an exec or a reset is pending or in the
   snapshot of the gate under way; a gate that fails brings it back. *)
EventsKept ==
  \A t \in DOMAIN threads :
    unseen[t] = threads[t].events \cup (IF threads[t].resume = None THEN {} ELSE threads[t].resume.events)

(* Between prepare and finalize nothing comes loose: the caller's plan can be
   settled, and the events it took with it are accounted for. *)
PlansSettle == TokensSettle /\ EventsKept

(* A child that commits has what its parent has then, although its snapshot
   was taken before the external fork; and every registration a thread comes
   to is newer than all its earlier epochs. *)
ForksExact ==
  /\ \A plan \in held, c \in Threads :
       CommitFork(plan, c) =>
         LET parent == threads[plan.thread]
             child == threads'[c]
         IN  IF plan.mode = "CloneVm" THEN child.registration = None /\ child.events = {}
             ELSE /\ child.events = parent.events
                  /\ (child.registration = None) <=> (parent.registration = None)
                  /\ child.registration # None => child.registration.request = parent.registration.request
  /\ \A t \in DOMAIN threads :
       LET r == threads'[t].registration
       IN  r # threads[t].registration /\ r # None =>
             /\ r.epoch = threads'[t].epoch
             /\ threads[t].registration = None

(* So does every commit of a fork and of a registration, whatever was raised,
   cancelled or executed between prepare and commit. *)
ForksInherit == [][ForksExact]_rvars
=============================================================================
