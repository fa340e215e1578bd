------------------------------ MODULE FdOffset ------------------------------
(***************************************************************************)
(* The shared offset of an open file description: crates/fd/src/ofd.rs.    *)
(* Tasks that share the description start sequential I/O at the offset     *)
(* they read and commit what they transferred.  The consumer's lock should *)
(* serialise them; commit_io refuses a start that is no longer current, so *)
(* the model lets them overlap.  MaxOffset stands for u64::MAX.            *)
(***************************************************************************)
EXTENDS Integers, SequencesExt

CONSTANTS Tasks, MaxOffset, Lengths

VARIABLES
  offset,
  io,        \* task -> the start its I/O retained, or NotStarted
  segments   \* ghost: <<start, end>> of the I/O committed since the last seek
ovars == <<offset, io, segments>>

NotStarted == -1
Offsets == 0..MaxOffset

Init == offset = 0 /\ io = [t \in Tasks |-> NotStarted] /\ segments = << <<0, 0>> >>

(* offset(), with the I/O that uses it (external) *)
Start(t) ==
  /\ io[t] = NotStarted /\ io' = [io EXCEPT ![t] = offset] /\ UNCHANGED <<offset, segments>>

CommitSeek(to) ==
  /\ offset' = to /\ segments' = << <<to, to>> >> /\ UNCHANGED io

Current(start) == offset = start

(* commit_io: applied, StaleStart, Overflow *)
CommitIo(t, transferred) ==
  /\ io[t] # NotStarted /\ Current(io[t]) /\ io[t] + transferred <= MaxOffset
  /\ offset' = io[t] + transferred /\ io' = [io EXCEPT ![t] = NotStarted]
  /\ segments' = IF transferred = 0 THEN segments ELSE Append(segments, <<io[t], io[t] + transferred>>)
RefuseIo(t, transferred) ==
  /\ io[t] # NotStarted /\ (~Current(io[t]) \/ io[t] + transferred > MaxOffset)
  /\ io' = [io EXCEPT ![t] = NotStarted] /\ UNCHANGED <<offset, segments>>

Next ==
  \/ \E t \in Tasks : Start(t) \/ \E n \in Lengths : CommitIo(t, n) \/ RefuseIo(t, n)
  \/ \E to \in Offsets : CommitSeek(to)
Spec == Init /\ [][Next]_ovars

-----------------------------------------------------------------------------
(* The I/O that was accepted since the last seek is sequential: each transfer
   begins where the one before it ended and the offset is the end of the last,
   so two tasks never both account for the same bytes, and none is skipped. *)
OffsetSequential ==
  /\ offset \in Offsets /\ offset = Last(segments)[2]
  /\ \A i \in 1..(Len(segments) - 1) : segments[i][2] = segments[i + 1][1]
=============================================================================
