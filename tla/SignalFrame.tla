----------------------------- MODULE SignalFrame -----------------------------
(***************************************************************************)
(* Handler frames of crates/signal (api/frame.rs, api/thread.rs, types.rs): *)
(* where a frame is placed, what it saves, and what rt_sigreturn restores. *)
(*                                                                         *)
(* One thread nests handlers on its ordinary stack and on one alternate    *)
(* stack.  Sizes are the byte sizes of the code; machine registers other   *)
(* than the stack pointer, and the floating-point image, are carried along *)
(* unchanged and left out.  The program moves its stack pointer down by    *)
(* Step inside a context and back before it leaves.                        *)
(***************************************************************************)
EXTENDS Integers, Sequences, SequencesExt

CONSTANTS
  Signos, Actions,     \* signals, and the flags and masks of their handlers
  Masks,               \* the masks the program sets
  InitialSp, Step,
  AltBase, AltSizes,   \* the alternate stack and the sizes it is given
  MaxDepth             \* bound on nested handlers

RedZone == 128
FpSize == 512
FixedSize == 432
Alignment == 16
WordSize == 8

VARIABLES
  context,   \* sp; state; the mask a suspended call restores
  blocked, stack,
  frames,    \* frames in user memory, oldest first, with what they save
  program    \* ghost: the stack and mask set outside handlers; changed inside

fvars == <<context, blocked, stack, frames, program>>

Stack(flags, base, size) == [flags |-> flags, sp |-> base, size |-> size]
NoStack == Stack({"DISABLE"}, 0, 0)
Configurations ==
  {NoStack} \union {Stack(flags, AltBase, size) : flags \in {{}, {"AUTODISARM"}}, size \in AltSizes}

Init ==
  /\ context = [sp |-> InitialSp, state |-> "running", restore |-> {}]
  /\ blocked = {} /\ stack = NoStack /\ frames = <<>>
  /\ program = [stack |-> NoStack, mask |-> {}, restacked |-> FALSE, remasked |-> FALSE]

-----------------------------------------------------------------------------
(* SignalStack *)
Disabled(st) == st.flags = {"DISABLE"}
Top(st) == st.sp + st.size
ContainsSp(st, sp) == ~Disabled(st) /\ sp > st.sp /\ sp - st.sp <= st.size
ContainsRange(st, start, len) == ~Disabled(st) /\ start >= st.sp /\ start + len <= Top(st)
FlagsAt(st, sp) ==
  IF Disabled(st) THEN {"DISABLE"} ELSE IF ContainsSp(st, sp) THEN {"ONSTACK"} ELSE {}

(* SignalFrameLayout::new; a negative address is an overflow *)
Origin(kind, sp, st) == IF kind = "FreshAltStack" THEN Top(st) ELSE sp - RedZone
FrameStart(origin) == ((origin - FpSize - FixedSize) \div Alignment) * Alignment
Layout(kind, sp, st) ==
  LET origin == Origin(kind, sp, st)
      start == FrameStart(origin)
      published == start - WordSize
      end == IF kind = "FreshAltStack" THEN Top(st) ELSE sp
  IN [start |-> start, published |-> published, end |-> start + FixedSize + FpSize,
      ok |-> /\ published >= 0
             /\ kind # "Normal" => ContainsRange(st, published, end - published)]

(* The stack of a frame: nested whenever the thread is on the alternate stack *)
FrameStack(act) ==
  IF ContainsSp(stack, context.sp) THEN "NestedAltStack"
  ELSE IF "ONSTACK" \in act.flags /\ ~Disabled(stack) THEN "FreshAltStack"
  ELSE "Normal"

(* The saved stack record, the live one during the handler, the added mask *)
VisibleStack ==
  IF "AUTODISARM" \in stack.flags THEN stack ELSE [stack EXCEPT !.flags = FlagsAt(stack, context.sp)]
HandlerStack == IF "AUTODISARM" \in stack.flags THEN NoStack ELSE stack
AddBlocked(s, act) == act.mask \union IF "NODEFER" \in act.flags THEN {} ELSE {s}
RestoreBlocked == IF context.state = "suspended" THEN context.restore ELSE blocked

-----------------------------------------------------------------------------
(* handle_signal of a handler: layout, three copies to user memory, install.
   A frame that cannot be placed or copied is a core dump. *)
Dies ==
  /\ context' = [sp |-> 0, state |-> "dead", restore |-> {}] /\ blocked' = {} /\ stack' = NoStack
  /\ frames' = <<>> /\ UNCHANGED program
Deliver(s, act) ==
  LET kind == FrameStack(act)
      layout == Layout(kind, context.sp, stack)
  IN
  /\ context.state # "dead" /\ s \notin blocked /\ Len(frames) < MaxDepth /\ layout.ok
  /\ frames' = Append(frames,
       [signo |-> s, act |-> act, kind |-> kind, layout |-> layout, sp |-> context.sp, mask |-> RestoreBlocked,
        live |-> stack, stack |-> VisibleStack])
  /\ context' = [sp |-> layout.published, state |-> "running", restore |-> {}]
  /\ stack' = HandlerStack
  /\ blocked' = blocked \union AddBlocked(s, act)
  /\ UNCHANGED program
CoreDump(s, act) ==     \* no room for the frame
  /\ context.state # "dead" /\ s \notin blocked
  /\ ~Layout(FrameStack(act), context.sp, stack).ok /\ Dies
CopyFails(s) ==         \* fpstate, frame or restorer cannot be written
  /\ context.state # "dead" /\ s \notin blocked /\ Dies

-----------------------------------------------------------------------------
(* rt_sigreturn: the frame at rsp, with the mask the handler left in it.  The
   stack record is applied unless it is invalid or, by the consumer's check,
   the call runs on the current alternate stack (ActiveStack, external). *)
Entry == IF frames = <<>> THEN InitialSp ELSE Last(frames).layout.published
Prepared(st) == IF Disabled(st) THEN NoStack ELSE st
Restored(record, rsp) == IF ContainsSp(stack, rsp) THEN stack ELSE Prepared(record)
SigReturn(mask) ==
  LET f == Last(frames)  rsp == f.layout.start IN
  /\ frames # <<>> /\ context.state = "running" /\ context.sp = Entry
  /\ context' = [context EXCEPT !.sp = f.sp] /\ frames' = Front(frames)
  /\ blocked' = mask /\ stack' = Restored(f.stack, rsp)
  /\ program' = [program EXCEPT !.remasked = @ \/ mask # f.mask]

-----------------------------------------------------------------------------
(* The program: its own stack use, sigprocmask, sigaltstack (refused on the
   active stack, external), sigsuspend *)
Call ==
  /\ context.state = "running"
  /\ \/ context.sp = Entry /\ context' = [context EXCEPT !.sp = Entry - Step]
     \/ context.sp = Entry - Step /\ context' = [context EXCEPT !.sp = Entry]
  /\ UNCHANGED <<blocked, stack, frames, program>>
SetStack(st) ==
  /\ context.state = "running" /\ ~ContainsSp(stack, context.sp) /\ stack' = st
  /\ program' = IF frames = <<>> THEN [program EXCEPT !.stack = st, !.restacked = FALSE]
                ELSE [program EXCEPT !.restacked = TRUE]
  /\ UNCHANGED <<context, blocked, frames>>
Remasked(mask) ==
  IF frames = <<>> THEN [program EXCEPT !.mask = mask, !.remasked = FALSE] ELSE [program EXCEPT !.remasked = TRUE]
SetBlocked(mask) ==
  /\ context.state = "running" /\ blocked' = mask /\ program' = Remasked(mask)
  /\ UNCHANGED <<context, stack, frames>>
Suspend(mask) ==
  /\ context.state = "running" /\ context' = [context EXCEPT !.state = "suspended", !.restore = blocked]
  /\ blocked' = mask /\ UNCHANGED <<stack, frames, program>>
Resume ==
  /\ context.state = "suspended" /\ context' = [context EXCEPT !.state = "running", !.restore = {}]
  /\ blocked' = context.restore /\ UNCHANGED <<stack, frames, program>>

Next ==
  \/ \E s \in Signos : CopyFails(s) \/ \E act \in Actions : Deliver(s, act) \/ CoreDump(s, act)
  \/ \E mask \in Masks : SetBlocked(mask) \/ Suspend(mask)
  \/ \E mask \in Masks \union {f.mask : f \in ToSet(frames)} : SigReturn(mask)
  \/ \E st \in Configurations : SetStack(st)
  \/ Call \/ Resume
Spec == Init /\ [][Next]_fvars

-----------------------------------------------------------------------------
(* Memory of a frame, its restorer word included, and of a red zone *)
Memory(f) == <<f.layout.published, f.layout.end>>
RedZoneOf(f) == <<f.sp - RedZone, f.sp>>
Apart(a, b) == a[2] <= b[1] \/ b[2] <= a[1]
OnAltStack(f) == f.layout.published >= f.live.sp /\ f.layout.end <= f.live.sp + f.live.size

(* No frame overwrites another one, or the red zone of any context that is to
   be resumed, and a frame on the alternate stack lies wholly inside it; a
   program that moves its alternate stack inside a handler is on its own. *)
FramesApart ==
  ~program.restacked =>
    \A i \in 1..Len(frames) :
      /\ frames[i].layout.start % Alignment = 0
      /\ frames[i].kind # "Normal" => OnAltStack(frames[i])
      /\ \A j \in 1..Len(frames) : Apart(Memory(frames[i]), RedZoneOf(frames[j]))
                                   /\ (i # j => Apart(Memory(frames[i]), Memory(frames[j])))

(* After the last return the alternate stack and the mask are the ones the
   program set, an AUTODISARM stack armed again, unless a handler changed them;
   and the signal of the running handler and those of its mask are deferred, also
   after a nested handler has returned or when it interrupted a sigsuspend. *)
HandlersUndone ==
  /\ frames = <<>> /\ context.state = "running" =>
       /\ ~program.restacked => stack = program.stack
       /\ ~program.remasked => blocked = program.mask
  /\ ~program.remasked /\ context.state = "running" /\ frames # <<>> =>
       /\ Last(frames).act.mask \subseteq blocked
       /\ "NODEFER" \in Last(frames).act.flags \/ Last(frames).signo \in blocked
=============================================================================
