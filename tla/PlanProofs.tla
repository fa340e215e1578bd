----------------------------- MODULE PlanProofs -----------------------------
(***************************************************************************)
(* Proofs about the plans that Rseq and Packet hand out and settle later.  *)
(*                                                                         *)
(* Rseq, for any threads, requests, events, gates and any width of the     *)
(* epoch and revision counters.  TokensSettle says what a finalizing call  *)
(* finds in the one field of the thread it looks at.  It is not inductive: *)
(* that no other call is admitted in between needs the other three fields, *)
(* so Slots gives all four for a thread with a plan, and says that a       *)
(* thread without one is idle.                                             *)
(*                                                                         *)
(* Packet, for any callers, interfaces and protocols and any width of the  *)
(* generation counter.  BindNotLost is not inductive either: that a plan   *)
(* which still matches the live binding was made after the last rebind     *)
(* follows from the generation counting the rebinds, for the binding and   *)
(* for every plan outstanding.                                             *)
(***************************************************************************)
EXTENDS Rseq, Packet, TLAPS

Slot == Threads \cup {First}
Modes == {"CloneVm", "PrivateVm"}
Registrations == {None} \cup [request : Requests, epoch : Nat]
RegisterPlans == [kind : {"register"}, thread : Slot, request : Requests, epoch : Nat]
UnregisterPlans == [kind : {"unregister"}, thread : Slot, registration : Registrations, epoch : Nat]
ResumePlans == [kind : {"resume"}, thread : Slot, revision : Nat, events : SUBSET Events]
ExecPlans == [kind : {"exec"}, thread : Slot, revision : Nat, epoch : Nat]
Pendings == {None} \cup RegisterPlans \cup UnregisterPlans
Resumes == {None} \cup ResumePlans
Execs == {None} \cup ExecPlans
Forks == {None} \cup [revision : Nat, mode : Modes]
ThreadStates ==
  [registration : Registrations, epoch : Nat, pending : Pendings, events : SUBSET Events, revision : Nat,
   resume : Resumes, exec : Execs, fork : Forks]
Children == {th \in ThreadStates : th.pending = None /\ th.resume = None /\ th.exec = None /\ th.fork = None}
ForkPlans == [kind : {"fork"}, thread : Slot, mode : Modes, child : Children]
Plans == RegisterPlans \cup UnregisterPlans \cup ResumePlans \cup ExecPlans \cup ForkPlans

RseqTypeOK ==
  /\ DOMAIN threads \subseteq Slot
  /\ threads \in [DOMAIN threads -> ThreadStates]
  /\ unseen \in [DOMAIN threads -> SUBSET Events]
  /\ held \subseteq Plans
  /\ \A plan \in held : plan.thread \in DOMAIN threads

(* What a forked child has of its parent, fork_clone_vm and fork_private *)
Inherits(child, mode, parent) ==
  IF mode = "CloneVm" THEN child.registration = None /\ child.events = {}
  ELSE /\ child.events = parent.events
       /\ (child.registration = None) <=> (parent.registration = None)
       /\ child.registration # None => child.registration.request = parent.registration.request

(* The four reservation fields of the thread of a plan, and what the plan has
   in advance of its end *)
Mark(plan) == [revision |-> plan.child.revision, mode |-> plan.mode]
Reserved(th, plan) ==
  /\ th.pending = IF plan.kind \in {"register", "unregister"} THEN plan ELSE None
  /\ th.resume = IF plan.kind = "resume" THEN plan ELSE None
  /\ th.exec = IF plan.kind = "exec" THEN plan ELSE None
  /\ th.fork = IF plan.kind = "fork" THEN Mark(plan) ELSE None
  /\ plan.kind = "unregister" => th.registration = plan.registration
  /\ plan.kind = "register" => th.registration = None /\ plan.epoch = th.epoch
  /\ plan.kind = "fork" => Inherits(plan.child, plan.mode, th)
NoneReserved(th) == th.pending = None /\ th.resume = None /\ th.exec = None /\ th.fork = None

Slots ==
  /\ \A plan \in held : Reserved(threads[plan.thread], plan)
  /\ \A plan, other \in held : plan.thread = other.thread => plan = other
  /\ \A t \in DOMAIN threads : (\A plan \in held : plan.thread # t) => NoneReserved(threads[t])

IInv == RseqTypeOK /\ Slots /\ EventsKept

(* A step that changes one thread *)
Touches(t) ==
  /\ DOMAIN threads' = DOMAIN threads
  /\ threads' \in [DOMAIN threads -> ThreadStates]
  /\ \A u \in DOMAIN threads : u # t => threads'[u] = threads[u]

(* The part of EventsKept about one thread *)
Kept(th, seen) == seen = th.events \cup (IF th.resume = None THEN {} ELSE th.resume.events)

-----------------------------------------------------------------------------
(* Every reservation field may be empty. *)
LEMMA NoneAllowed ==
  None \in Registrations /\ None \in Pendings /\ None \in Resumes /\ None \in Execs /\ None \in Forks
BY Zenon DEF Registrations, Pendings, Resumes, Execs, Forks

(* A plan is not the empty reservation. *)
LEMMA PlanIsSome == ASSUME NEW plan \in Plans PROVE plan # None
BY Zenon DEF Plans, RegisterPlans, UnregisterPlans, ResumePlans, ExecPlans, ForkPlans, None

(* Nor is the mark a fork leaves in its thread. *)
LEMMA MarkIsSome == ASSUME NEW plan \in ForkPlans PROVE Mark(plan) # None /\ Mark(plan) \in [revision : Nat, mode : Modes]
BY Zenon DEF ForkPlans, Mark, Children, ThreadStates, None

(* ThreadRseq is idle when none of the four fields is reserved. *)
LEMMA IdleIs == ASSUME NEW t \in DOMAIN threads PROVE Idle(t) <=> NoneReserved(threads[t])
BY Zenon DEF Idle, NoneReserved

(* A thread whose plan is held is not idle. *)
LEMMA Busy == ASSUME NEW plan \in Plans, NEW th, Reserved(th, plan) PROVE ~NoneReserved(th)
<1>1. CASE plan \in ForkPlans
  BY <1>1, MarkIsSome, Zenon DEF Reserved, NoneReserved, ForkPlans
<1>2. CASE plan \notin ForkPlans
  BY <1>2, PlanIsSome, Zenon DEF Reserved, NoneReserved, Plans, RegisterPlans, UnregisterPlans, ResumePlans, ExecPlans
<1> QED BY <1>1, <1>2, Zenon

(* The strengthened invariant gives what finalizing calls rely on. *)
LEMMA SlotsSettle == IInv => TokensSettle
<1> SUFFICES ASSUME IInv PROVE TokensSettle
  BY Zenon
<1>1. ASSUME NEW plan \in held PROVE Reservation(plan)
  <2>1. plan \in Plans /\ Reserved(threads[plan.thread], plan)
    BY Zenon DEF IInv, RseqTypeOK, Slots
  <2> QED BY <2>1, ZenonT(30) DEF Reserved, Reservation, Mark, Plans, RegisterPlans, UnregisterPlans, ResumePlans, ExecPlans, ForkPlans
<1>2. ASSUME NEW t \in DOMAIN threads PROVE Idle(t) <=> \A plan \in held : plan.thread # t
  <2>1. ASSUME NEW plan \in held, plan.thread = t PROVE ~NoneReserved(threads[t])
    BY <2>1, Busy, Zenon DEF IInv, RseqTypeOK, Slots
  <2> QED BY <2>1, IdleIs, Zenon DEF IInv, Slots
<1> QED BY <1>1, <1>2, Zenon DEF TokensSettle, IInv, Slots, Reserved

(* An idle thread reserves. *)
LEMMA Reserves ==
  ASSUME IInv, NEW t \in DOMAIN threads, Idle(t), NEW plan \in Plans, plan.thread = t,
         Touches(t), Reserved(threads'[t], plan), held' = held \cup {plan},
         Kept(threads'[t], unseen[t]), unseen' = unseen
  PROVE  IInv'
<1>1. \A other \in held : other.thread # t
  BY SlotsSettle, Zenon DEF TokensSettle
<1>2. RseqTypeOK'
  BY Zenon DEF RseqTypeOK, IInv, Touches
<1>3. Slots'
  BY <1>1, Zenon DEF Slots, IInv, RseqTypeOK, Touches
<1>4. EventsKept'
  BY Zenon DEF EventsKept, IInv, RseqTypeOK, Touches, Kept
<1> QED BY <1>2, <1>3, <1>4, Zenon DEF IInv

(* A plan is settled. *)
LEMMA Settles ==
  ASSUME IInv, NEW plan \in held,
         Touches(plan.thread), NoneReserved(threads'[plan.thread]), held' = held \ {plan},
         unseen' \in [DOMAIN threads -> SUBSET Events],
         \A u \in DOMAIN threads : u # plan.thread => unseen'[u] = unseen[u],
         Kept(threads'[plan.thread], unseen'[plan.thread])
  PROVE  IInv'
<1>1. plan.thread \in DOMAIN threads /\ \A other \in held' : other.thread # plan.thread
  BY Zenon DEF IInv, RseqTypeOK, Slots
<1>2. RseqTypeOK'
  BY <1>1, Zenon DEF RseqTypeOK, IInv, Touches
<1>3. Slots'
  BY <1>1, Zenon DEF Slots, IInv, RseqTypeOK, Touches
<1>4. EventsKept'
  BY <1>1, Zenon DEF EventsKept, IInv, RseqTypeOK, Touches, Kept
<1> QED BY <1>2, <1>3, <1>4, Zenon DEF IInv

-----------------------------------------------------------------------------
(* What a record of the thread looks like before a step *)
LEMMA ThreadTyped ==
  ASSUME IInv, NEW t \in DOMAIN threads
  PROVE  /\ threads[t] \in ThreadStates /\ t \in Slot
         /\ threads[t].revision + 1 \in Nat /\ threads[t].epoch + 1 \in Nat
         /\ Kept(threads[t], unseen[t]) /\ unseen[t] \in SUBSET Events
BY DEF IInv, RseqTypeOK, EventsKept, Kept, ThreadStates

(* Storing a well-formed record in one thread touches that thread only. *)
LEMMA Assigns ==
  ASSUME IInv, NEW t \in DOMAIN threads, NEW th \in ThreadStates, threads' = [threads EXCEPT ![t] = th]
  PROVE  Touches(t) /\ threads'[t] = th
BY Zenon DEF IInv, RseqTypeOK, Touches

(* prepare_register preserves the invariant. *)
LEMMA RegisterStep ==
  ASSUME IInv, NEW t \in DOMAIN threads, NEW q \in Requests, PrepareRegister(t, q)
  PROVE  IInv'
<1> DEFINE plan == RegisterPlan(t, q)
           th == [threads[t] EXCEPT !.revision = @ + 1, !.epoch = @ + 1, !.pending = plan]
<1>1. /\ plan \in Pendings /\ plan \in Plans /\ plan.thread = t /\ plan.kind = "register"
      /\ plan.epoch = threads[t].epoch + 1
  BY ThreadTyped, Zenon DEF RegisterPlan, RegisterPlans, Pendings, Plans, ThreadStates
<1>2. threads' = [threads EXCEPT ![t] = th] /\ held' = held \cup {plan} /\ unseen' = unseen /\ Idle(t)
      /\ threads[t].registration = None
  BY ZenonT(30) DEF PrepareRegister
<1> HIDE DEF plan
<1>3. th \in ThreadStates
  BY <1>1, ThreadTyped, ZenonT(40) DEF ThreadStates
<1>4. Reserved(th, plan) /\ Kept(th, unseen[t])
  BY <1>1, <1>2, ThreadTyped, IdleIs, ZenonT(30) DEF Reserved, NoneReserved, Kept, ThreadStates
<1> HIDE DEF th
<1>5. Touches(t) /\ threads'[t] = th
  BY <1>2, <1>3, Assigns, ZenonT(30)
<1> QED BY <1>1, <1>2, <1>4, <1>5, Reserves, Zenon

(* prepare_unregister preserves the invariant. *)
LEMMA UnregisterStep ==
  ASSUME IInv, NEW t \in DOMAIN threads, NEW q \in Requests, PrepareUnregister(t, q)
  PROVE  IInv'
<1> DEFINE plan == UnregisterPlan(t)
           th == [threads[t] EXCEPT !.revision = @ + 1, !.epoch = @ + 1, !.pending = plan]
<1>1. /\ plan \in Pendings /\ plan \in Plans /\ plan.thread = t /\ plan.kind = "unregister"
      /\ plan.registration = threads[t].registration
  BY ThreadTyped, Zenon DEF UnregisterPlan, UnregisterPlans, Pendings, Plans, ThreadStates
<1>2. threads' = [threads EXCEPT ![t] = th] /\ held' = held \cup {plan} /\ unseen' = unseen /\ Idle(t)
  BY ZenonT(30) DEF PrepareUnregister
<1> HIDE DEF plan
<1>3. th \in ThreadStates
  BY <1>1, ThreadTyped, Zenon DEF ThreadStates
<1>4. Reserved(th, plan) /\ Kept(th, unseen[t])
  BY <1>1, <1>2, ThreadTyped, IdleIs DEF Reserved, NoneReserved, Kept, ThreadStates
<1> HIDE DEF th
<1>5. Touches(t) /\ threads'[t] = th
  BY <1>2, <1>3, Assigns, ZenonT(30)
<1> QED BY <1>1, <1>2, <1>4, <1>5, Reserves, Zenon

(* begin_resume moves the pending events into the snapshot of the gate. *)
LEMMA BeginResumeStep ==
  ASSUME IInv, NEW t \in DOMAIN threads, NEW g \in Gates, BeginResume(t, g)
  PROVE  IInv'
<1> DEFINE plan == [kind |-> "resume", thread |-> t, revision |-> threads[t].revision + 1, events |-> threads[t].events]
           th == [threads[t] EXCEPT !.events = {}, !.revision = @ + 1, !.resume = plan]
<1>1. /\ plan \in Resumes /\ plan \in Plans /\ plan.thread = t /\ plan.kind = "resume"
      /\ plan.events = threads[t].events
  BY ThreadTyped, Zenon DEF ResumePlans, Resumes, Plans, ThreadStates
<1>2. threads' = [threads EXCEPT ![t] = th] /\ held' = held \cup {plan} /\ unseen' = unseen /\ Idle(t)
  BY ZenonT(30) DEF BeginResume
<1> HIDE DEF plan
<1>3. th \in ThreadStates
  BY <1>1, ThreadTyped, Zenon DEF ThreadStates
<1>4. Reserved(th, plan)
  BY <1>1, <1>2, ThreadTyped, IdleIs, Zenon DEF Reserved, NoneReserved, ThreadStates
<1>5. Kept(th, unseen[t])
  BY <1>1, <1>2, ThreadTyped, IdleIs, PlanIsSome, ZenonT(30) DEF NoneReserved, Kept, ThreadStates
<1> HIDE DEF th
<1>6. Touches(t) /\ threads'[t] = th
  BY <1>2, <1>3, Assigns, ZenonT(30)
<1> QED BY <1>1, <1>2, <1>4, <1>5, <1>6, Reserves, Zenon

(* prepare_exec preserves the invariant. *)
LEMMA PrepareExecStep ==
  ASSUME IInv, NEW t \in DOMAIN threads, PrepareExec(t)
  PROVE  IInv'
<1> DEFINE plan == [kind |-> "exec", thread |-> t, revision |-> threads[t].revision + 1,
                    epoch |-> threads[t].epoch + 1]
           th == [threads[t] EXCEPT !.revision = @ + 1, !.exec = plan]
<1>1. plan \in Execs /\ plan \in Plans /\ plan.thread = t /\ plan.kind = "exec"
  BY ThreadTyped, Zenon DEF ExecPlans, Execs, Plans, ThreadStates
<1>2. threads' = [threads EXCEPT ![t] = th] /\ held' = held \cup {plan} /\ unseen' = unseen /\ Idle(t)
  BY ZenonT(30) DEF PrepareExec
<1> HIDE DEF plan
<1>3. th \in ThreadStates
  BY <1>1, ThreadTyped, Zenon DEF ThreadStates
<1>4. Reserved(th, plan) /\ Kept(th, unseen[t])
  BY <1>1, <1>2, ThreadTyped, IdleIs, ZenonT(30) DEF Reserved, NoneReserved, Kept, ThreadStates
<1> HIDE DEF th
<1>5. Touches(t) /\ threads'[t] = th
  BY <1>2, <1>3, Assigns, ZenonT(30)
<1> QED BY <1>1, <1>2, <1>4, <1>5, Reserves, Zenon

(* A new state with an epoch, a revision, events and a registration *)
Varied(e, v, events, r) == [New EXCEPT !.epoch = e, !.revision = v, !.events = events, !.registration = r]

(* A new thread state with other counters, events or registration reserves
   nothing. *)
LEMMA NewVaried ==
  ASSUME NEW e \in Nat, NEW v \in Nat, NEW events \in SUBSET Events, NEW r \in Registrations
  PROVE  /\ Varied(e, v, events, r) \in Children /\ Varied(e, v, events, r).revision = v
         /\ Varied(e, v, events, r).events = events /\ Varied(e, v, events, r).registration = r
<1> DEFINE child == [New EXCEPT !.epoch = e, !.revision = v, !.events = events, !.registration = r]
<1>1. New \in ThreadStates /\ NoneReserved(New)
  BY NoneAllowed, Zenon DEF New, ThreadStates, NoneReserved
<1>2. child \in ThreadStates
  BY <1>1, Zenon DEF ThreadStates
<1>3. NoneReserved(child) /\ child.revision = v /\ child.events = events /\ child.registration = r
  BY <1>1, Zenon DEF ThreadStates, NoneReserved
<1> QED BY <1>2, <1>3, ZenonT(30) DEF Varied, Children, NoneReserved

(* fork_clone_vm, fork_private: the child is a new state that inherits from
   its parent. *)
LEMMA ChildTyped ==
  ASSUME IInv, NEW t \in DOMAIN threads, NEW mode \in Modes
  PROVE  /\ Child(t, mode) \in Children /\ Child(t, mode).revision = threads[t].revision + 1
         /\ Inherits(Child(t, mode), mode, threads[t])
<1> DEFINE s == threads[t]
           events == IF mode = "PrivateVm" THEN s.events ELSE {}
           registration == IF mode = "PrivateVm" /\ s.registration # None
                             THEN Registration(s.registration.request, s.epoch + 1) ELSE None
<1>1. s \in ThreadStates /\ s.revision + 1 \in Nat /\ s.epoch + 1 \in Nat
  BY ThreadTyped, Zenon
<1>2. events \in SUBSET Events
  BY <1>1, Zenon DEF ThreadStates
<1>3. registration \in Registrations
  BY <1>1, NoneAllowed, Zenon DEF ThreadStates, Registration, Registrations
<1>4. Child(t, mode) = Varied(s.epoch + 1, s.revision + 1, events, registration)
  BY Zenon DEF Child, Varied
<1>5. /\ mode = "CloneVm" => events = {} /\ registration = None
      /\ mode = "PrivateVm" => /\ events = s.events
                               /\ (registration = None) <=> (s.registration = None)
                               /\ registration # None => registration.request = s.registration.request
  BY Zenon DEF Registration, None
<1> HIDE DEF events, registration
<1>6. Child(t, mode) \in Children /\ Child(t, mode).revision = threads[t].revision + 1
      /\ Child(t, mode).events = events /\ Child(t, mode).registration = registration
  BY <1>1, <1>2, <1>3, <1>4, NewVaried
<1> QED BY <1>5, <1>6, Zenon DEF Inherits, Modes

(* prepare_fork preserves the invariant. *)
LEMMA PrepareForkStep ==
  ASSUME IInv, NEW t \in DOMAIN threads, NEW mode \in Modes, PrepareFork(t, mode)
  PROVE  IInv'
<1> DEFINE plan == [kind |-> "fork", thread |-> t, mode |-> mode, child |-> Child(t, mode)]
           mark == [revision |-> threads[t].revision + 1, mode |-> mode]
           th == [threads[t] EXCEPT !.revision = @ + 1, !.epoch = @ + 1, !.fork = mark]
<1>1. /\ plan \in ForkPlans /\ plan \in Plans /\ plan.thread = t /\ plan.kind = "fork" /\ Mark(plan) = mark
      /\ Inherits(plan.child, plan.mode, threads[t])
  BY ThreadTyped, ChildTyped, Zenon DEF ForkPlans, Plans, Mark
<1>2. mark \in Forks
  BY ThreadTyped, Zenon DEF Forks
<1>3. threads' = [threads EXCEPT ![t] = th] /\ held' = held \cup {plan} /\ unseen' = unseen /\ Idle(t)
  BY ZenonT(30) DEF PrepareFork
<1> HIDE DEF plan, mark
<1>4. th \in ThreadStates
  BY <1>2, ThreadTyped, Zenon DEF ThreadStates
<1>5. Reserved(th, plan) /\ Kept(th, unseen[t])
  BY <1>1, <1>3, ThreadTyped, IdleIs DEF Reserved, Inherits, NoneReserved, Kept, ThreadStates
<1> HIDE DEF th
<1>6. Touches(t) /\ threads'[t] = th
  BY <1>3, <1>4, Assigns, ZenonT(30)
<1> QED BY <1>1, <1>3, <1>5, <1>6, Reserves, Zenon

-----------------------------------------------------------------------------
(* A held plan is well formed and reserved in its thread. *)
LEMMA PlanTyped ==
  ASSUME IInv, NEW plan \in held
  PROVE  /\ plan \in Plans /\ plan.thread \in DOMAIN threads
         /\ Reserved(threads[plan.thread], plan)
         /\ plan.kind = "register" => plan \in RegisterPlans
         /\ plan.kind = "resume" => plan \in ResumePlans
         /\ plan.kind = "exec" => plan \in ExecPlans
         /\ plan.kind = "fork" => plan \in ForkPlans
BY Zenon DEF IInv, RseqTypeOK, Slots, Plans, RegisterPlans, UnregisterPlans, ResumePlans, ExecPlans, ForkPlans

(* commit_register, commit_unregister and their cancelling calls preserve the
   invariant. *)
LEMMA SettleRegistrationStep ==
  ASSUME IInv, NEW plan \in held, CommitRegister(plan) \/ CommitUnregister(plan) \/ CancelRegistration(plan)
  PROVE  IInv'
<1> DEFINE t == plan.thread
           s == threads[t]
<1>1. PICK r \in Registrations :
        /\ threads' = [threads EXCEPT ![t] = [s EXCEPT !.pending = None, !.registration = r]]
        /\ held' = held \ {plan} /\ unseen' = unseen /\ plan.kind \in {"register", "unregister"}
  <2>1. CASE CommitRegister(plan)
    <3>1. Registration(plan.request, plan.epoch) \in Registrations
      BY <2>1, PlanTyped, SMTT(30) DEF CommitRegister, Registration, Registrations, RegisterPlans
    <3> QED BY <2>1, <3>1, ZenonT(30) DEF CommitRegister
  <2>2. CASE CommitUnregister(plan)
    BY <2>2, NoneAllowed, ZenonT(30) DEF CommitUnregister
  <2>3. CASE CancelRegistration(plan)
    <3>1. s \in ThreadStates /\ s.registration \in Registrations
      BY PlanTyped, ThreadTyped, Zenon DEF ThreadStates
    <3>2. [s EXCEPT !.pending = None] = [s EXCEPT !.pending = None, !.registration = s.registration]
      BY <3>1, ZenonT(30) DEF ThreadStates
    <3> QED BY <2>3, <3>1, <3>2, ZenonT(30) DEF CancelRegistration
  <2> QED BY <2>1, <2>2, <2>3, ZenonT(30)
<1> DEFINE th == [s EXCEPT !.pending = None, !.registration = r]
<1>2. t \in DOMAIN threads /\ s \in ThreadStates /\ Reserved(s, plan)
  BY PlanTyped, ThreadTyped, Zenon
<1>3. th \in ThreadStates
  BY <1>2, NoneAllowed, Zenon DEF ThreadStates
<1>4. NoneReserved(th) /\ Kept(th, unseen[t])
  BY <1>1, <1>2, ThreadTyped, Zenon DEF Reserved, NoneReserved, Kept, ThreadStates
<1> HIDE DEF th
<1>5. Touches(t) /\ threads'[t] = th
  BY <1>1, <1>2, <1>3, Assigns, ZenonT(30) DEF th
<1> QED BY <1>1, <1>2, <1>4, <1>5, Settles, Zenon DEF IInv, RseqTypeOK

(* commit_resume handles what the snapshot of its gate has. *)
LEMMA CommitResumeStep ==
  ASSUME IInv, NEW plan \in held, CommitResume(plan)
  PROVE  IInv'
<1> DEFINE t == plan.thread
           s == threads[t]
           th == [s EXCEPT !.resume = None]
           seen == (unseen[t] \ plan.events) \cup (unseen[t] \cap s.events)
<1>1. threads' = [threads EXCEPT ![t] = th] /\ held' = held \ {plan} /\ unseen' = [unseen EXCEPT ![t] = seen] /\ plan.kind = "resume"
  BY Zenon DEF CommitResume
<1>2. /\ t \in DOMAIN threads /\ s \in ThreadStates /\ Reserved(s, plan) /\ plan # None
      /\ unseen[t] \in SUBSET Events /\ Kept(s, unseen[t])
  BY PlanTyped, ThreadTyped, PlanIsSome, Zenon
<1>3. th \in ThreadStates
  BY <1>2, NoneAllowed, Zenon DEF ThreadStates
<1>4. NoneReserved(th)
  BY <1>1, <1>2, Zenon DEF Reserved, NoneReserved, ThreadStates
<1>5. seen = s.events
  BY <1>1, <1>2, Zenon DEF Reserved, Kept
<1>6. Kept(th, seen)
  BY <1>2, <1>5, Zenon DEF Kept, ThreadStates
<1>7. Touches(t) /\ threads'[t] = th
  BY <1>1, <1>2, <1>3, Assigns, ZenonT(30)
<1>8. /\ unseen' \in [DOMAIN threads -> SUBSET Events] /\ unseen'[t] = seen
      /\ \A u \in DOMAIN threads : u # t => unseen'[u] = unseen[u]
  BY <1>1, <1>2, Zenon DEF IInv, RseqTypeOK
<1> HIDE DEF th, seen
<1> QED BY <1>1, <1>4, <1>6, <1>7, <1>8, Settles, Zenon

(* cancel_resume brings the snapshot back to the pending events. *)
LEMMA CancelResumeStep ==
  ASSUME IInv, NEW plan \in held, CancelResume(plan)
  PROVE  IInv'
<1> DEFINE t == plan.thread
           s == threads[t]
           events == s.events \cup plan.events
           th == [s EXCEPT !.resume = None, !.events = events]
<1>1. threads' = [threads EXCEPT ![t] = th] /\ held' = held \ {plan} /\ unseen' = unseen /\ plan.kind = "resume"
  BY ZenonT(30) DEF CancelResume, Restored
<1>2. /\ t \in DOMAIN threads /\ s \in ThreadStates /\ Reserved(s, plan) /\ plan # None
      /\ unseen[t] \in SUBSET Events /\ Kept(s, unseen[t])
  BY PlanTyped, ThreadTyped, PlanIsSome, Zenon
<1>3. events \in SUBSET Events /\ unseen[t] = events
  BY <1>1, <1>2, Zenon DEF Reserved, Kept
<1> HIDE DEF events
<1>4. th \in ThreadStates
  BY <1>2, <1>3, NoneAllowed, Zenon DEF ThreadStates
<1>5. NoneReserved(th) /\ Kept(th, unseen[t])
  BY <1>1, <1>2, <1>3, Zenon DEF Reserved, NoneReserved, Kept, ThreadStates
<1>6. Touches(t) /\ threads'[t] = th
  BY <1>1, <1>2, <1>4, Assigns, ZenonT(30)
<1> HIDE DEF th
<1> QED BY <1>1, <1>2, <1>5, <1>6, Settles, Zenon DEF IInv, RseqTypeOK

(* Clearing a registration keeps the gate and the fork of the thread. *)
LEMMA ClearedTyped ==
  ASSUME IInv, NEW t \in DOMAIN threads, NEW e \in Nat
  PROVE  LET th == Cleared(t, e)
         IN  /\ th \in ThreadStates /\ th.registration = None /\ th.pending = None /\ th.exec = None /\ th.events = {}
             /\ th.resume = threads[t].resume /\ th.fork = threads[t].fork /\ th.revision = threads[t].revision
<1>1. threads[t] \in ThreadStates
  BY ThreadTyped, Zenon
<1>2. Cleared(t, e) \in ThreadStates
  BY <1>1, NoneAllowed, Zenon DEF Cleared, ThreadStates
<1> QED BY <1>1, <1>2, Zenon DEF Cleared, ThreadStates

(* on_exec_success preserves the invariant. *)
LEMMA ExecSuccessStep ==
  ASSUME IInv, NEW plan \in held, OnExecSuccess(plan)
  PROVE  IInv'
<1> DEFINE t == plan.thread
           th == Cleared(t, plan.epoch)
<1>1. threads' = [threads EXCEPT ![t] = th] /\ held' = held \ {plan} /\ unseen' = [unseen EXCEPT ![t] = {}] /\ plan.kind = "exec"
  BY Zenon DEF OnExecSuccess
<1>2. t \in DOMAIN threads /\ threads[t] \in ThreadStates /\ Reserved(threads[t], plan) /\ plan.epoch \in Nat
  BY <1>1, PlanTyped, ThreadTyped, Zenon DEF ExecPlans
<1>3. th \in ThreadStates /\ NoneReserved(th) /\ Kept(th, {})
  BY <1>1, <1>2, ClearedTyped, Zenon DEF Reserved, NoneReserved, Kept
<1> HIDE DEF th
<1>4. Touches(t) /\ threads'[t] = th
  BY <1>1, <1>2, <1>3, Assigns, ZenonT(30)
<1>5. /\ unseen' \in [DOMAIN threads -> SUBSET Events] /\ unseen'[t] = {}
      /\ \A u \in DOMAIN threads : u # t => unseen'[u] = unseen[u]
  BY <1>1, <1>2, Zenon DEF IInv, RseqTypeOK
<1> QED BY <1>1, <1>3, <1>4, <1>5, Settles, Zenon

(* cancel_exec preserves the invariant. *)
LEMMA CancelExecStep ==
  ASSUME IInv, NEW plan \in held, CancelExec(plan)
  PROVE  IInv'
<1> DEFINE t == plan.thread
           s == threads[t]
           th == [s EXCEPT !.exec = None]
<1>1. threads' = [threads EXCEPT ![t] = th] /\ held' = held \ {plan} /\ unseen' = unseen /\ plan.kind = "exec"
  BY Zenon DEF CancelExec
<1>2. t \in DOMAIN threads /\ s \in ThreadStates /\ Reserved(s, plan) /\ Kept(s, unseen[t])
  BY PlanTyped, ThreadTyped, Zenon
<1>3. th \in ThreadStates
  BY <1>2, NoneAllowed, Zenon DEF ThreadStates
<1>4. NoneReserved(th) /\ Kept(th, unseen[t])
  BY <1>1, <1>2, Zenon DEF Reserved, NoneReserved, Kept, ThreadStates
<1>5. Touches(t) /\ threads'[t] = th
  BY <1>1, <1>2, <1>3, Assigns, ZenonT(30)
<1> HIDE DEF th
<1> QED BY <1>1, <1>2, <1>4, <1>5, Settles, Zenon DEF IInv, RseqTypeOK

(* cancel_fork preserves the invariant. *)
LEMMA CancelForkStep ==
  ASSUME IInv, NEW plan \in held, CancelFork(plan)
  PROVE  IInv'
<1> DEFINE t == plan.thread
           s == threads[t]
           th == [s EXCEPT !.fork = None]
<1>1. threads' = [threads EXCEPT ![t] = th] /\ held' = held \ {plan} /\ unseen' = unseen /\ plan.kind = "fork"
  BY Zenon DEF CancelFork
<1>2. t \in DOMAIN threads /\ s \in ThreadStates /\ Reserved(s, plan) /\ Kept(s, unseen[t])
  BY PlanTyped, ThreadTyped, Zenon
<1>3. th \in ThreadStates
  BY <1>2, NoneAllowed, Zenon DEF ThreadStates
<1>4. NoneReserved(th)
  BY ONLY <1>1, <1>2, Zenon DEF Reserved, NoneReserved, ThreadStates
<1>5. Kept(th, unseen[t])
  BY ONLY <1>2, Zenon DEF Kept, ThreadStates
<1>6. Touches(t) /\ threads'[t] = th
  BY <1>1, <1>2, <1>3, Assigns, ZenonT(30)
<1> HIDE DEF th
<1> QED BY <1>1, <1>2, <1>4, <1>5, <1>6, Settles, Zenon DEF IInv, RseqTypeOK

(* The child comes into being idle, with the events of its snapshot. *)
LEMMA CommitForkStep ==
  ASSUME IInv, NEW plan \in held, NEW c \in Threads, CommitFork(plan, c)
  PROVE  IInv'
<1> DEFINE t == plan.thread
           th == [threads[t] EXCEPT !.fork = None]
<1>1. /\ plan.kind = "fork" /\ c \notin DOMAIN threads /\ c \in Slot
      /\ threads' = [u \in DOMAIN threads \cup {c} |-> IF u = c THEN plan.child ELSE IF u = t THEN th ELSE threads[u]]
      /\ held' = held \ {plan}
      /\ unseen' = [u \in DOMAIN threads' |-> IF u = c THEN plan.child.events ELSE unseen[u]]
  BY Zenon DEF CommitFork, Slot
<1>2. /\ t \in DOMAIN threads /\ threads[t] \in ThreadStates /\ Reserved(threads[t], plan)
      /\ plan.child \in Children /\ Kept(threads[t], unseen[t])
  BY <1>1, PlanTyped, ThreadTyped, Zenon DEF ForkPlans
<1>3. plan.child \in ThreadStates /\ NoneReserved(plan.child) /\ Kept(plan.child, plan.child.events)
      /\ plan.child.events \in SUBSET Events
  BY <1>2, Zenon DEF Children, NoneReserved, Kept, ThreadStates
<1>4. th \in ThreadStates
  BY <1>2, NoneAllowed, Zenon DEF ThreadStates
<1>5. NoneReserved(th) /\ Kept(th, unseen[t])
  BY <1>1, <1>2, Zenon DEF Reserved, NoneReserved, Kept, ThreadStates
<1>6. t # c /\ \A other \in held' : other \in held /\ other.thread # t /\ other.thread # c /\ other.thread \in DOMAIN threads
  BY <1>1, <1>2, Zenon DEF IInv, RseqTypeOK, Slots
<1> HIDE DEF th
<1>7. DOMAIN threads' = DOMAIN threads \cup {c} /\ threads'[c] = plan.child /\ threads'[t] = th
      /\ \A u \in DOMAIN threads : u # t => threads'[u] = threads[u]
  BY <1>1, <1>2, <1>6, Zenon
<1>8. unseen'[c] = plan.child.events /\ \A u \in DOMAIN threads : unseen'[u] = unseen[u]
  BY <1>1, <1>7, Zenon
<1>9. RseqTypeOK'
  <2>1. threads' \in [DOMAIN threads' -> ThreadStates]
    BY <1>1, <1>3, <1>4, Zenon DEF IInv, RseqTypeOK
  <2>2. unseen' \in [DOMAIN threads' -> SUBSET Events]
    BY <1>1, <1>3, <1>7, <1>8, Zenon DEF IInv, RseqTypeOK
  <2> QED BY <1>1, <1>6, <1>7, <2>1, <2>2, Zenon DEF IInv, RseqTypeOK
<1>10. Slots'
  BY <1>3, <1>5, <1>6, <1>7, <1>1, Zenon DEF IInv, Slots
<1>11. EventsKept'
  <2>1. ASSUME NEW u \in DOMAIN threads' PROVE Kept(threads'[u], unseen'[u])
    <3>1. CASE u = c
      BY <3>1, <1>3, <1>7, <1>8, Zenon
    <3>2. CASE u = t
      BY <3>2, <1>2, <1>5, <1>7, <1>8, Zenon
    <3>3. CASE u # c /\ u # t
      BY <3>3, <1>7, <1>8, ThreadTyped, Zenon
    <3> QED BY <3>1, <3>2, <3>3, Zenon
  <2> QED BY <2>1, Zenon DEF EventsKept, Kept
<1> QED BY <1>9, <1>10, <1>11, Zenon DEF IInv

-----------------------------------------------------------------------------
(* raise_events: the events of a thread with a plan other than a fork grow *)
LEMMA RaiseStep ==
  ASSUME IInv, NEW t \in DOMAIN threads, NEW e \in SUBSET Events, RaiseEvents(t, e)
  PROVE  IInv'
<1> DEFINE s == threads[t]
           events == s.events \cup e
           th == [s EXCEPT !.events = events, !.revision = @ + 1]
<1>1. /\ threads' = [threads EXCEPT ![t] = th] /\ held' = held
      /\ unseen' = [unseen EXCEPT ![t] = @ \cup e] /\ s.fork = None
  BY ZenonT(30) DEF RaiseEvents, Raisable
<1>2. s \in ThreadStates /\ s.revision + 1 \in Nat /\ Kept(s, unseen[t]) /\ unseen[t] \in SUBSET Events
  BY ThreadTyped, Zenon
<1>3. events \in SUBSET Events
  BY <1>2, Zenon DEF ThreadStates
<1>4. th \in ThreadStates
  BY <1>2, <1>3, Zenon DEF ThreadStates
<1>5. Kept(th, unseen[t] \cup e)
  BY <1>2, Zenon DEF Kept, ThreadStates
<1>6. /\ th.pending = s.pending /\ th.resume = s.resume /\ th.exec = s.exec /\ th.fork = s.fork
      /\ th.registration = s.registration /\ th.epoch = s.epoch
  BY <1>2, Zenon DEF ThreadStates
<1> HIDE DEF th
<1>7. Touches(t) /\ threads'[t] = th
  BY <1>1, <1>4, Assigns, ZenonT(30)
<1>8. RseqTypeOK'
  BY <1>1, <1>2, <1>7, Zenon DEF IInv, RseqTypeOK, Touches
<1>9. Slots'
  <2>1. ASSUME NEW plan \in held, plan.thread = t PROVE Reserved(th, plan)
    <3>1. Reserved(s, plan) /\ plan \in Plans /\ (plan.kind = "fork" => plan \in ForkPlans)
      BY <2>1, PlanTyped, Zenon
    <3>2. plan.kind # "fork"
      BY <1>1, <3>1, MarkIsSome, Zenon DEF Reserved
    <3> QED BY <1>6, <3>1, <3>2, Zenon DEF Reserved
  <2> QED BY <1>1, <1>6, <1>7, <2>1 DEF IInv, RseqTypeOK, Slots, Touches, NoneReserved
<1>10. EventsKept'
  BY <1>1, <1>2, <1>5, <1>7, Zenon DEF IInv, RseqTypeOK, EventsKept, Touches, Kept
<1> QED BY <1>8, <1>9, <1>10, Zenon DEF IInv

(* reset: an idle thread starts again *)
LEMMA ResetStep ==
  ASSUME IInv, NEW t \in DOMAIN threads, Reset(t)
  PROVE  IInv'
<1> DEFINE s == Cleared(t, threads[t].epoch + 1)
           th == [s EXCEPT !.revision = threads[t].revision + 1]
<1>1. /\ threads' = [threads EXCEPT ![t] = th] /\ held' = held
      /\ unseen' = [unseen EXCEPT ![t] = {}] /\ Idle(t)
  BY Zenon DEF Reset
<1>2. s \in ThreadStates /\ threads[t].revision + 1 \in Nat /\ NoneReserved(s) /\ s.events = {}
  BY <1>1, ThreadTyped, ClearedTyped, IdleIs, ZenonT(30) DEF NoneReserved
<1> HIDE DEF s
<1>3. th \in ThreadStates
  BY <1>2, Zenon DEF ThreadStates
<1>4. NoneReserved(th) /\ Kept(th, {})
  BY <1>2, Zenon DEF NoneReserved, Kept, ThreadStates
<1> HIDE DEF th
<1>5. Touches(t) /\ threads'[t] = th
  BY <1>1, <1>3, Assigns, ZenonT(30)
<1>6. \A plan \in held : plan.thread # t
  BY <1>1, SlotsSettle, Zenon DEF TokensSettle
<1>7. RseqTypeOK'
  BY <1>1, <1>5, Zenon DEF IInv, RseqTypeOK, Touches
<1>8. Slots'
  BY <1>1, <1>4, <1>5, <1>6, Zenon DEF IInv, RseqTypeOK, Slots, Touches
<1>9. EventsKept'
  BY <1>1, <1>4, <1>5, Zenon DEF IInv, RseqTypeOK, EventsKept, Touches, Kept
<1> QED BY <1>7, <1>8, <1>9, Zenon DEF IInv

(* The first thread has no registration and no event. *)
LEMMA InitInv == Init => IInv
<1> SUFFICES ASSUME Init PROVE IInv
  BY Zenon
<1>1. New \in ThreadStates /\ NoneReserved(New) /\ New.events = {}
  BY NoneAllowed, Zenon DEF New, ThreadStates, NoneReserved
<1> HIDE DEF New
<1> QED BY <1>1, Zenon DEF Init, IInv, RseqTypeOK, Slots, EventsKept, NoneReserved, Slot

(* Every step preserves the invariant. *)
LEMMA StepInv == IInv /\ [Next]_rvars => IInv'
<1> SUFFICES ASSUME IInv, [Next]_rvars PROVE IInv'
  BY Zenon
<1>1. ASSUME NEW t \in DOMAIN threads, NEW q \in Requests, PrepareRegister(t, q) \/ PrepareUnregister(t, q) PROVE IInv'
  BY <1>1, RegisterStep, UnregisterStep, Zenon
<1>2. ASSUME NEW t \in DOMAIN threads, NEW e \in SUBSET Events \ {{}}, RaiseEvents(t, e) PROVE IInv'
  BY <1>2, RaiseStep, Zenon
<1>3. ASSUME NEW t \in DOMAIN threads, NEW g \in Gates, BeginResume(t, g) PROVE IInv'
  BY <1>3, BeginResumeStep, Zenon
<1>4. ASSUME NEW t \in DOMAIN threads, NEW mode \in Modes, PrepareFork(t, mode) PROVE IInv'
  BY <1>4, PrepareForkStep, Zenon
<1>5. ASSUME NEW t \in DOMAIN threads, PrepareExec(t) \/ Reset(t) PROVE IInv'
  BY <1>5, PrepareExecStep, ResetStep, Zenon
<1>6. ASSUME NEW plan \in held, CommitRegister(plan) \/ CommitUnregister(plan) \/ CancelRegistration(plan) PROVE IInv'
  BY <1>6, SettleRegistrationStep, Zenon
<1>7. ASSUME NEW plan \in held, CommitResume(plan) \/ CancelResume(plan) PROVE IInv'
  BY <1>7, CommitResumeStep, CancelResumeStep, Zenon
<1>8. ASSUME NEW plan \in held, OnExecSuccess(plan) \/ CancelExec(plan) PROVE IInv'
  BY <1>8, ExecSuccessStep, CancelExecStep, Zenon
<1>9. ASSUME NEW plan \in held, CancelFork(plan) \/ \E c \in Threads : CommitFork(plan, c) PROVE IInv'
  BY <1>9, CancelForkStep, CommitForkStep, Zenon
<1>10. CASE UNCHANGED rvars
  BY <1>10, Zenon DEF rvars, IInv, RseqTypeOK, Slots, EventsKept
<1> QED BY <1>1, <1>2, <1>3, <1>4, <1>5, <1>6, <1>7, <1>8, <1>9, <1>10, SMTT(30) DEF Next, Modes

(* The strengthened invariant holds throughout. *)
LEMMA InvCorrect == Spec => []IInv
BY InitInv, StepInv, PTL DEF Spec

-----------------------------------------------------------------------------
(* commit_register, commit_unregister, commit_resume, on_exec_success,
   commit_fork and the cancelling calls never meet a reservation other than
   their own, whatever is raised or attempted since they were prepared; and
   raise_events, begin_resume, commit_resume, cancel_resume lose and invent no
   event between the snapshot of a gate and its end. *)
THEOREM PlansSettleCorrect == Spec => []PlansSettle
<1>1. IInv => PlansSettle
  BY SlotsSettle, SMTT(30) DEF IInv, PlansSettle
<1> QED BY <1>1, InvCorrect, PTL

(* Only commit_register gives a thread a registration, on a thread without
   one, and with the thread's newest epoch. *)
LEMMA OnlyRegisterRegisters ==
  ASSUME IInv, [Next]_rvars, NEW t \in DOMAIN threads
  PROVE  LET r == threads'[t].registration
         IN  r # threads[t].registration /\ r # None => r.epoch = threads'[t].epoch /\ threads[t].registration = None
<1> DEFINE r == threads'[t].registration
           Old == r = threads[t].registration \/ r = None
<1>0. threads \in [DOMAIN threads -> ThreadStates]
  BY Zenon DEF IInv, RseqTypeOK
<1>1. ASSUME NEW u \in DOMAIN threads, NEW q \in Requests, PrepareRegister(u, q) \/ PrepareUnregister(u, q) PROVE Old
  <2>1. PICK plan : threads' = [threads EXCEPT ![u] = [threads[u] EXCEPT !.revision = @ + 1, !.epoch = @ + 1,
                                                                         !.pending = plan]]
    BY <1>1, ZenonT(30) DEF PrepareRegister, PrepareUnregister
  <2>2. threads'[t].registration = threads[t].registration
    BY <1>0, <2>1, Zenon DEF ThreadStates
  <2> QED BY <2>2, Zenon
<1>2. ASSUME NEW u \in DOMAIN threads, NEW e, RaiseEvents(u, e) PROVE Old
  BY <1>0, <1>2, Zenon DEF RaiseEvents, ThreadStates
<1>3. ASSUME NEW u \in DOMAIN threads, NEW g \in Gates, BeginResume(u, g) PROVE Old
  BY <1>0, <1>3, Zenon DEF BeginResume, ThreadStates
<1>4. ASSUME NEW u \in DOMAIN threads, NEW mode, PrepareFork(u, mode) PROVE Old
  BY <1>0, <1>4, Zenon DEF PrepareFork, ThreadStates
<1>5. ASSUME NEW u \in DOMAIN threads, PrepareExec(u) PROVE Old
  BY <1>0, <1>5, Zenon DEF PrepareExec, ThreadStates
<1>6. ASSUME NEW u \in DOMAIN threads, Reset(u) PROVE Old
  BY <1>0, <1>6, Zenon DEF Reset, Cleared, ThreadStates
<1>7. ASSUME NEW plan \in held, CommitUnregister(plan) \/ CancelRegistration(plan) PROVE Old
  <2>1. CASE CommitUnregister(plan)
    BY <1>0, <2>1, Zenon DEF CommitUnregister, ThreadStates
  <2>2. CASE CancelRegistration(plan)
    BY <1>0, <2>2, Zenon DEF CancelRegistration, ThreadStates
  <2> QED BY <1>7, <2>1, <2>2, Zenon
<1>8. ASSUME NEW plan \in held, CommitResume(plan) \/ CancelResume(plan) PROVE Old
  <2>1. CASE CommitResume(plan)
    BY <1>0, <2>1, Zenon DEF CommitResume, ThreadStates
  <2>2. CASE CancelResume(plan)
    BY <1>0, <2>2, Zenon DEF CancelResume, ThreadStates
  <2> QED BY <1>8, <2>1, <2>2, Zenon
<1>9. ASSUME NEW plan \in held, OnExecSuccess(plan) \/ CancelExec(plan) PROVE Old
  <2>1. CASE OnExecSuccess(plan)
    <3>1. plan.thread = t => threads'[t] = Cleared(t, plan.epoch)
      BY <1>0, <2>1, Zenon DEF OnExecSuccess
    <3>2. plan.thread # t => threads'[t] = threads[t]
      BY <1>0, <2>1, Zenon DEF OnExecSuccess
    <3>3. Cleared(t, plan.epoch).registration = None
      BY <1>0, Zenon DEF Cleared, ThreadStates
    <3> QED BY <3>1, <3>2, <3>3, Zenon
  <2>2. CASE CancelExec(plan)
    BY <1>0, <2>2, Zenon DEF CancelExec, ThreadStates
  <2> QED BY <1>9, <2>1, <2>2, Zenon
<1>10. ASSUME NEW plan \in held, CancelFork(plan) \/ \E c \in Threads : CommitFork(plan, c) PROVE Old
  <2>1. CASE CancelFork(plan)
    BY <1>0, <2>1, Zenon DEF CancelFork, ThreadStates
  <2>2. ASSUME NEW c \in Threads, CommitFork(plan, c) PROVE Old
    <3>1. threads'[t] = IF t = plan.thread THEN [threads[t] EXCEPT !.fork = None] ELSE threads[t]
      BY <2>2, Zenon DEF CommitFork
    <3> QED BY <1>0, <3>1, Zenon DEF ThreadStates
  <2> QED BY <1>10, <2>1, <2>2, Zenon
<1>11. CASE UNCHANGED rvars
  BY <1>11, Zenon DEF rvars
<1>12. ASSUME NEW plan \in held, CommitRegister(plan), r # threads[t].registration
       PROVE  r.epoch = threads'[t].epoch /\ threads[t].registration = None
  <2>1. plan.thread = t /\ threads'[t] = [threads[t] EXCEPT !.pending = None, !.registration = Registration(plan.request, plan.epoch)]
    BY <1>0, <1>12, ZenonT(30) DEF CommitRegister
  <2>2. threads[t].registration = None /\ plan.epoch = threads[t].epoch
    BY <1>12, <2>1, PlanTyped, Zenon DEF Reserved, CommitRegister
  <2> QED BY <1>0, <2>1, <2>2 DEF Registration, ThreadStates
<1> QED BY <1>1, <1>2, <1>3, <1>4, <1>5, <1>6, <1>7, <1>8, <1>9, <1>10, <1>11, <1>12, Zenon DEF Next

(* commit_fork: the child has what its parent has at the commit, although its
   snapshot is from before the external fork; commit_register: a registration
   is newer than every earlier epoch of its thread. *)
THEOREM ForksInheritCorrect == Spec => ForksInherit
<1>1. ASSUME IInv, NEW plan \in held, NEW c \in Threads, CommitFork(plan, c)
      PROVE  Inherits(threads'[c], plan.mode, threads[plan.thread])
  BY <1>1, PlanTyped, Zenon DEF CommitFork, Reserved
<1>2. IInv /\ [Next]_rvars => [ForksExact]_rvars
  BY <1>1, OnlyRegisterRegisters, Zenon DEF ForksExact, Inherits
<1> QED BY <1>2, InvCorrect, PTL DEF Spec, ForksInherit

-----------------------------------------------------------------------------
(* crates/packet *)

Protocols == {FromNetworkOrder(p) : p \in RawProtocols}
Bindings == [interface : RawInterfaces \cup {Any}, protocol : Protocols, generation : Nat]
BindPlans == [expected : Bindings, at : Nat, replacement : Bindings]

PacketTypeOK ==
  /\ socket \in [socket_type : {"Raw", "Datagram"}, ignore_outgoing : BOOLEAN, binding : Bindings]
  /\ plans \in [Callers -> {Absent} \cup BindPlans]
  /\ rebinds \in Nat

(* A plan replaces its binding by the same one, or by one of the next
   generation. *)
OneGeneration(plan) ==
  \/ plan.replacement = plan.expected
  \/ ~IsNoop(plan) /\ plan.replacement.generation = plan.expected.generation + 1

PlanCounted(plan) == plan.expected.generation = plan.at + 1 /\ OneGeneration(plan)

PacketIInv ==
  /\ PacketTypeOK
  /\ socket.binding.generation = rebinds + 1
  /\ \A c \in Callers : plans[c] # Absent => PlanCounted(plans[c])

-----------------------------------------------------------------------------
(* A request taken from a sockaddr names an interface and a protocol the
   socket can bind (BindRequest). *)
LEMMA RequestTypes ==
  ASSUME NEW r \in BindRequests
  PROVE  r.interface \in RawInterfaces /\ r.protocol \in Protocols
<1>1. PICK p \in RawProtocols, i \in RawInterfaces : r = BindRequest(TRUE, p, i) /\ r # Invalid
  BY ZenonT(30) DEF BindRequests
<1>2. r = [interface |-> i, protocol |-> FromNetworkOrder(p)]
  BY <1>1, Zenon DEF BindRequest
<1> QED BY <1>2, Zenon DEF Protocols

(* A new socket has generation 1 and no plan. *)
LEMMA PacketInitInv == PacketInit => PacketIInv
<1> SUFFICES ASSUME PacketInit PROVE PacketIInv
  BY Zenon
<1>1. socket.binding \in Bindings /\ socket.binding.generation = 1
  BY DEF PacketInit, Bindings, Protocols
<1>2. socket \in [socket_type : {"Raw", "Datagram"}, ignore_outgoing : BOOLEAN, binding : Bindings]
  BY <1>1, ZenonT(30) DEF PacketInit
<1> QED BY <1>1, <1>2 DEF PacketInit, PacketIInv, PacketTypeOK

(* prepare_bind: a plan is made for the live binding, and advances it by at
   most one generation. *)
LEMMA PrepareStep ==
  ASSUME PacketIInv, NEW c \in Callers, NEW r \in BindRequests, PrepareBind(c, r)
  PROVE  PacketIInv'
<1> DEFINE live == socket.binding
           protocol == IF r.protocol.kind = "Disabled" THEN live.protocol ELSE r.protocol
           changed == r.interface # live.interface \/ protocol # live.protocol
           plan == [expected |-> live, at |-> rebinds,
                    replacement |-> [interface |-> r.interface, protocol |-> protocol,
                                     generation |-> live.generation + (IF changed THEN 1 ELSE 0)]]
<1>1. live \in Bindings /\ rebinds \in Nat /\ live.generation = rebinds + 1
  BY Zenon DEF PacketIInv, PacketTypeOK
<1>2. plan.replacement \in Bindings
  BY <1>1, RequestTypes DEF Bindings
<1>3. plan \in BindPlans
  BY <1>1, <1>2, Zenon DEF BindPlans
<1>4. OneGeneration(plan)
  <2>1. CASE changed
    BY <2>1, <1>1, Zenon DEF OneGeneration, IsNoop, Bindings
  <2>2. CASE ~changed
    BY <2>2, <1>1 DEF OneGeneration, Bindings
  <2> QED BY <2>1, <2>2, Zenon
<1>5. PlanCounted(plan)
  BY <1>1, <1>4, Zenon DEF PlanCounted
<1>6. plans' = [plans EXCEPT ![c] = plan] /\ UNCHANGED <<socket, rebinds>>
  BY Zenon DEF PrepareBind
<1> HIDE DEF plan
<1> QED BY <1>3, <1>5, <1>6, Zenon DEF PacketIInv, PacketTypeOK, PlanCounted, OneGeneration, IsNoop

(* publish_bind: a plan that matches replaces the binding, any other leaves
   the socket alone. *)
LEMMA PublishStep ==
  ASSUME PacketIInv, NEW c \in Callers, PublishBind(c)
  PROVE  PacketIInv'
<1> DEFINE plan == plans[c]
<1>1. plan \in BindPlans /\ PlanCounted(plan)
  BY Zenon DEF PublishBind, PacketIInv, PacketTypeOK
<1>2. plans' = [plans EXCEPT ![c] = Absent]
  BY Zenon DEF PublishBind
<1>3. CASE ~Current(plan)
  <2>1. socket' = socket /\ rebinds' = rebinds
    BY <1>3, Zenon DEF PublishBind, PacketIInv, PacketTypeOK
  <2> QED BY <1>2, <2>1, Zenon DEF PacketIInv, PacketTypeOK, PlanCounted, OneGeneration, IsNoop
<1>4. CASE Current(plan)
  <2>1. socket' = [socket EXCEPT !.binding = plan.replacement]
    BY <1>4, Zenon DEF PublishBind
  <2>2. rebinds' = IF IsNoop(plan) THEN rebinds ELSE rebinds + 1
    BY <1>4, Zenon DEF PublishBind
  <2>3. plan.expected = socket.binding /\ plan.expected \in Bindings /\ plan.replacement \in Bindings
    BY <1>1, <1>4, Zenon DEF Current, BindPlans
  <2>4. plan.replacement.generation = rebinds' + 1
    BY <1>1, <2>2, <2>3, Zenon DEF PacketIInv, PacketTypeOK, PlanCounted, OneGeneration, IsNoop, Bindings
  <2> QED BY <1>2, <2>1, <2>2, <2>3, <2>4 DEF PacketIInv, PacketTypeOK, PlanCounted, OneGeneration, IsNoop
<1> QED BY <1>3, <1>4, Zenon

(* Dropping a plan and setting PACKET_IGNORE_OUTGOING do not touch the binding. *)
LEMMA OtherStep ==
  ASSUME PacketIInv, \/ \E c \in Callers : DropPlan(c)
               \/ \E value \in 0..2 : SetOption("IgnoreOutgoing", value)
               \/ UNCHANGED pvars
  PROVE  PacketIInv'
<1>1. ASSUME NEW c \in Callers, DropPlan(c) PROVE PacketIInv'
  BY <1>1, Zenon DEF DropPlan, PacketIInv, PacketTypeOK, PlanCounted, OneGeneration, IsNoop
<1>2. ASSUME NEW value \in 0..2, SetOption("IgnoreOutgoing", value) PROVE PacketIInv'
  BY <1>2, ZenonT(30) DEF SetOption, DecodeSet, Invalid, PacketIInv, PacketTypeOK, PlanCounted, OneGeneration, IsNoop
<1>3. CASE UNCHANGED pvars
  BY <1>3, Zenon DEF pvars, PacketIInv, PacketTypeOK, PlanCounted, OneGeneration, IsNoop
<1> QED BY <1>1, <1>2, <1>3, Zenon

(* Every step preserves the invariant. *)
LEMMA PacketStepInv == PacketIInv /\ [PacketNext]_pvars => PacketIInv'
BY PrepareStep, PublishStep, OtherStep DEF PacketNext

(* The generation of the binding counts the selections published, for any
   callers and any interleaving of plans (prepare_bind, publish_bind). *)
THEOREM GenerationCounts == PacketSpec => []PacketIInv
BY PacketInitInv, PacketStepInv, PTL DEF PacketSpec

-----------------------------------------------------------------------------
(* publish_bind: a plan that still matches the live binding was prepared after
   the last published selection. *)
LEMMA MatchingPlanIsNew ==
  ASSUME PacketIInv, NEW c \in Callers, PublishBind(c), socket' # socket
  PROVE  plans[c].at = rebinds
<1>1. plans[c] \in BindPlans /\ PlanCounted(plans[c])
  BY Zenon DEF PublishBind, PacketIInv, PacketTypeOK
<1>2. Current(plans[c])
  BY Zenon DEF PublishBind, PacketIInv, PacketTypeOK
<1> QED BY <1>1, <1>2 DEF Current, PlanCounted, BindPlans, Bindings, PacketIInv, PacketTypeOK

(* Every published selection takes the next generation, so that equal
   generations are equal bindings. *)
LEMMA GenerationNames ==
  ASSUME PacketIInv, [PacketNext]_pvars
  PROVE  /\ socket'.binding.generation = socket.binding.generation => socket'.binding = socket.binding
         /\ socket'.binding.generation >= socket.binding.generation
<1>0. socket.binding \in Bindings
  BY Zenon DEF PacketIInv, PacketTypeOK
<1>1. ASSUME NEW c \in Callers, PublishBind(c), Current(plans[c])
      PROVE  \/ socket'.binding = socket.binding
             \/ socket'.binding.generation = socket.binding.generation + 1
  <2>1. PlanCounted(plans[c]) /\ plans[c].expected = socket.binding
    BY <1>1, Zenon DEF PublishBind, PacketIInv, Current
  <2>2. socket'.binding = plans[c].replacement
    BY <1>1, Zenon DEF PublishBind, PacketIInv, PacketTypeOK
  <2> QED BY <2>1, <2>2, Zenon DEF PlanCounted, OneGeneration
<1>2. ASSUME NEW c \in Callers, PublishBind(c), ~Current(plans[c]) PROVE socket'.binding = socket.binding
  BY <1>2, Zenon DEF PublishBind, PacketIInv, PacketTypeOK
<1>3. ASSUME NEW c \in Callers, NEW r \in BindRequests, PrepareBind(c, r) PROVE socket'.binding = socket.binding
  BY <1>3, Zenon DEF PrepareBind
<1>4. ASSUME NEW c \in Callers, DropPlan(c) PROVE socket'.binding = socket.binding
  BY <1>4, Zenon DEF DropPlan
<1>5. ASSUME NEW value \in 0..2, SetOption("IgnoreOutgoing", value) PROVE socket'.binding = socket.binding
  BY <1>5, Zenon DEF SetOption, PacketIInv, PacketTypeOK
<1>6. ASSUME UNCHANGED pvars PROVE socket'.binding = socket.binding
  BY <1>6, Zenon DEF pvars
<1>7. \/ socket'.binding = socket.binding
      \/ socket'.binding.generation = socket.binding.generation + 1
  BY <1>1, <1>2, <1>3, <1>4, <1>5, <1>6, Zenon DEF PacketNext
<1> QED BY <1>0, <1>7 DEF Bindings

(* publish_bind: a bind takes effect only if no other selection was published
   since it was prepared, not even one that was taken back, and a generation
   names one selection for good. *)
THEOREM BindNotLostCorrect == PacketSpec => [][BindNotLost]_pvars
<1>1. PacketIInv /\ [PacketNext]_pvars => [BindNotLost]_pvars
  BY MatchingPlanIsNew, GenerationNames, Zenon DEF BindNotLost
<1> QED BY <1>1, GenerationCounts, PTL DEF PacketSpec
=============================================================================
