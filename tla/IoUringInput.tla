---------------------------- MODULE IoUringInput ----------------------------
(***************************************************************************)
(* What a ring accepts from userspace, as functions of the values passed.  *)
(*                                                                         *)
(* The geometry of a ring: crates/io-uring/src/setup.rs, and the headers   *)
(* of registration requests, registration.rs.  The byte sizes are those of *)
(* the code; the limits on entries and the width of u32 are constants.     *)
(* Setup flags are sets of names, "other" standing for an unknown bit.     *)
(*                                                                         *)
(* Decoding one private copy of a submission entry: sqe.rs.  The copy is   *)
(* decoded twice: once for the descriptor that reserves a request and its  *)
(* completion credit, once in full.  Byte offsets are left out; a field    *)
(* that the parser only compares with zero is a member of `nonzero` when   *)
(* it is set.                                                              *)
(***************************************************************************)
EXTENDS Integers, FiniteSetsExt

CONSTANTS
  Width,                      \* u32 is 0..(2^Width - 1)
  MaxEntries, MaxCqEntries,   \* IORING_MAX_ENTRIES, IORING_MAX_CQ_ENTRIES
  MaxBuffers, MaxFixedFiles, MaxProbe,
  MaxU64, Offsets, Lengths    \* of submission entries

SqeBytes == 64
CqeBytes == 16
RingHeaderBytes == 64
RingAlignment == 64

CounterSpan == 2^Width
Powers == {2^k : k \in 0..(Width - 1)}
Supported == {"CQSIZE", "CLAMP", "NO_SQARRAY"}

Err(e) == [ok |-> FALSE, error |-> e]
Ok(v) == [ok |-> TRUE, error |-> "none", value |-> v]

(* checked_next_power_of_two, checked u32 results *)
NextPowerOfTwo(n) == LET above == {p \in Powers : p >= n} IN IF above = {} THEN Err("Overflow") ELSE Ok(Min(above))
Checked(n) == IF n < CounterSpan THEN Ok(n) ELSE Err("Overflow")

ResolveSqEntries(entries, flags) ==
  IF entries = 0 THEN Err("ZeroEntries")
  ELSE IF entries > MaxEntries /\ "CLAMP" \notin flags THEN Err("SubmissionEntriesTooLarge")
  ELSE NextPowerOfTwo(Min({entries, MaxEntries}))

(* Without the comparison after the rounding *)
ResolveCqUnchecked(sq, requested, flags) ==
  IF "CQSIZE" \notin flags THEN Checked(2 * sq)
  ELSE IF requested = 0 THEN Err("ZeroCompletionEntries")
  ELSE IF requested > MaxCqEntries /\ "CLAMP" \notin flags THEN Err("CompletionEntriesTooLarge")
  ELSE NextPowerOfTwo(Min({requested, MaxCqEntries}))
ResolveCqEntries(sq, requested, flags) ==
  LET cq == ResolveCqUnchecked(sq, requested, flags) IN
  IF "CQSIZE" \in flags /\ cq.ok /\ cq.value < sq THEN Err("CompletionEntriesTooSmall") ELSE cq

AlignUp(v) == ((v + RingAlignment - 1) \div RingAlignment) * RingAlignment

(* SetupRequest::from_raw (the reserved words zero or not), then resolve.  The
   checked sums all fit if the largest of them does. *)
Geometry(sq, cq, flags) ==
  LET cqe_end == RingHeaderBytes + cq * CqeBytes
      array == AlignUp(cqe_end)
  IN [sq_entries |-> sq, cq_entries |-> cq,
      array |-> IF "NO_SQARRAY" \in flags THEN {} ELSE {array},
      ring_bytes |-> IF "NO_SQARRAY" \in flags THEN cqe_end ELSE array + 4 * sq,
      sqe_bytes |-> sq * SqeBytes]
Resolve(r) ==
  LET sq == ResolveSqEntries(r.entries, r.flags)
      cq == ResolveCqEntries(sq.value, r.cq_entries, r.flags)
      g == Geometry(sq.value, cq.value, r.flags)
  IN IF r.reserved THEN Err("ReservedFieldNonZero")
     ELSE IF ~(r.flags \subseteq Supported) THEN Err("UnsupportedSetupFlags")
     ELSE IF ~sq.ok THEN sq ELSE IF ~cq.ok THEN cq
     ELSE IF Max({g.ring_bytes, g.sqe_bytes}) < CounterSpan THEN Ok(g) ELSE Err("Overflow")

(* The published offsets of the words in the shared header *)
SqOffsets == [head |-> 0, tail |-> 4, ring_mask |-> 16, ring_entries |-> 24, flags |-> 36, dropped |-> 32]
CqOffsets == [head |-> 8, tail |-> 12, ring_mask |-> 20, ring_entries |-> 28, overflow |-> 44, flags |-> 40]

(* pending_submissions, submission_slot of the ring counters *)
PendingSubmissions(sq, head, tail) ==
  LET pending == (tail - head) % CounterSpan IN IF pending <= sq THEN Ok(pending) ELSE Err("InvalidQueueGeometry")
SubmissionSlot(sq, counter) == counter % sq

(* RegistrationRequest::decode; opcodes by name, ring for the high bit *)
Decode(r) ==
  LET null == r.argument = 0 IN
  IF r.ring
    THEN Err(IF r.opcode \in {"RegisterBuffers", "UnregisterBuffers"} THEN "InvalidRegistration" ELSE "UnsupportedRegistration")
  ELSE CASE r.opcode = "RegisterBuffers" ->
              IF ~null /\ r.count \notin 1..MaxBuffers THEN Err("InvalidRegistration") ELSE Ok(r)
         [] r.opcode \in {"UnregisterBuffers", "UnregisterFiles"} ->
              IF null /\ r.count = 0 THEN Ok(r) ELSE Err("InvalidRegistration")
         [] r.opcode = "RegisterFiles" ->
              IF null \/ r.count = 0 THEN Err("InvalidRegistration")
              ELSE IF r.count > MaxFixedFiles THEN Err("InvalidFileTableCapacity") ELSE Ok(r)
         [] r.opcode = "Probe" ->
              IF null \/ r.count > MaxProbe THEN Err("InvalidRegistration") ELSE Ok(r)
         [] r.opcode = "known" -> Err("UnsupportedRegistration")
         [] OTHER -> Err("UnknownRegistration")

-----------------------------------------------------------------------------
(* Reference definitions *)
Requests(sizes) ==
  [entries : sizes, cq_entries : sizes, flags : SUBSET (Supported \union {"other"}), reserved : BOOLEAN]
Headers(counts) ==
  [opcode : {"RegisterBuffers", "UnregisterBuffers", "RegisterFiles", "UnregisterFiles", "Probe", "known", "unknown"},
   ring : BOOLEAN, argument : {0, 1}, count : counts]

Words == {SqOffsets[f] : f \in DOMAIN SqOffsets} \union {CqOffsets[f] : f \in DOMAIN CqOffsets}
Rounds(p, n) == p \in Powers /\ p >= n /\ p < 2 * n

(* A layout that setup publishes: both queues are powers of two that round the
   (clamped) request up and no further, the completion queue holds at least the
   submissions, so every accepted request can own a completion, and the header
   words, the CQEs and the SQ array are aligned and do not overlap inside
   ring_bytes.  A request within the limits is never refused for overflow. *)
LayoutExact(r) ==
  LET a == Resolve(r)  l == a.value IN
  /\ a.error # "Overflow"
  /\ a.ok =>
       /\ Rounds(l.sq_entries, Min({r.entries, MaxEntries})) /\ l.sq_entries <= MaxEntries
       /\ "CQSIZE" \in r.flags => Rounds(l.cq_entries, Min({r.cq_entries, MaxCqEntries}))
       /\ l.cq_entries \in l.sq_entries..MaxCqEntries
       /\ Cardinality(Words) = 12 /\ \A w \in Words : w % 4 = 0 /\ w + 4 <= RingHeaderBytes
       /\ \A at \in l.array : /\ at % 4 = 0 /\ at >= RingHeaderBytes + l.cq_entries * CqeBytes
                              /\ at + 4 * l.sq_entries = l.ring_bytes
       /\ l.ring_bytes >= RingHeaderBytes + l.cq_entries * CqeBytes

(* The counters between an accepted head and tail name distinct submission
   slots, also where they wrap around u32, and are all of userspace's entries. *)
PendingExact(sq, head, tail) ==
  LET p == PendingSubmissions(sq, head, tail)
      slots == {SubmissionSlot(sq, (head + i) % CounterSpan) : i \in 0..(p.value - 1)}
  IN p.ok => /\ (head + p.value) % CounterSpan = tail
             /\ Cardinality(slots) = p.value /\ slots \subseteq 0..(sq - 1)

(* Whatever decode accepts asks the adapter to read a bounded range: only a null
   argument, which the adapter refuses without touching it, has any count. *)
DecodeBounded(r) ==
  Decode(r).ok /\ r.argument # 0 =>
    /\ ~r.ring
    /\ \/ r.opcode = "RegisterBuffers" /\ r.count \in 1..MaxBuffers
       \/ r.opcode = "RegisterFiles" /\ r.count \in 1..MaxFixedFiles
       \/ r.opcode = "Probe" /\ r.count \in 0..MaxProbe

-----------------------------------------------------------------------------
(* Opcodes by name: the seven implemented, one that Linux has, one it has not *)
Reads == {"READ", "READ_FIXED"}
Writes == {"WRITE", "WRITE_FIXED"}
Opcodes == Reads \union Writes \union {"NOP", "POLL_ADD", "ASYNC_CANCEL", "known", "unknown"}
Fields == {"ioprio", "personality", "buffer_index", "operation_flags", "splice_fd_in"}

(* classify_submission_opcode *)
Classify(opcode) ==
  CASE opcode = "NOP" -> "Nop" [] opcode = "POLL_ADD" -> "PollAdd" [] opcode = "ASYNC_CANCEL" -> "AsyncCancel"
    [] opcode \in Reads -> "Read" [] opcode \in Writes -> "Write"
    [] opcode = "known" -> "KnownUnsupported" [] OTHER -> "Unknown"

(* CopiedSubmission::descriptor *)
CopiedDescriptor(s) ==
  [user_data |-> s.user_data,
   operation |-> IF Classify(s.opcode) \in {"KnownUnsupported", "Unknown"} THEN "Rejected" ELSE Classify(s.opcode)]

(* require_submission_flags, FileTarget::from_sqe, IoBuffer::new *)
FlagsWithin(s, allowed) == s.flags \subseteq allowed
FileTarget(s) ==
  IF s.fd < 0 THEN Err("InvalidFileTarget")
  ELSE Ok([kind |-> IF "FIXED_FILE" \in s.flags THEN "Registered" ELSE "Descriptor", raw |-> s.fd])
IoBuffer(s) ==
  IF s.address + s.length > MaxU64 THEN Err("InvalidSubmission")
  ELSE Ok([address |-> s.address, end |-> s.address + s.length])

ParseNop(s) ==
  IF ~FlagsWithin(s, {}) THEN Err("UnsupportedSubmissionFlags")
  ELSE IF s.nonzero \intersect {"ioprio", "personality", "operation_flags"} # {} THEN Err("UnsupportedOperationFlags")
  ELSE Ok([operation |-> "Nop"])

ParseReadWrite(s) ==
  LET fixed == s.opcode \in {"READ_FIXED", "WRITE_FIXED"}
      refused == IF fixed THEN Fields \ {"buffer_index"} ELSE Fields
  IN IF ~FlagsWithin(s, {"FIXED_FILE"}) THEN Err("UnsupportedSubmissionFlags")
     ELSE IF s.nonzero \intersect refused # {} THEN Err("UnsupportedOperationFlags")
     ELSE IF s.offset = MaxU64 THEN Err("CurrentPositionUnsupported")
     ELSE IF ~FileTarget(s).ok THEN FileTarget(s) ELSE IF ~IoBuffer(s).ok THEN IoBuffer(s)
     ELSE Ok([operation |-> IF s.opcode \in Reads THEN "Read" ELSE "Write", file |-> FileTarget(s).value,
              offset |-> s.offset, buffer |-> IoBuffer(s).value, fixed_buffer |-> fixed])

ParsePollAdd(s) ==
  IF ~FlagsWithin(s, {"FIXED_FILE"}) THEN Err("UnsupportedSubmissionFlags")
  ELSE IF s.nonzero \intersect {"ioprio", "personality", "buffer_index"} # {} \/ s.offset # 0 \/ s.address # 0 \/ s.length # 0
    THEN Err("UnsupportedOperationFlags")
  ELSE IF ~FileTarget(s).ok THEN FileTarget(s)
  ELSE Ok([operation |-> "PollAdd", file |-> FileTarget(s).value, events |-> "operation_flags" \in s.nonzero])

ParseAsyncCancel(s) ==
  IF ~FlagsWithin(s, {}) THEN Err("UnsupportedSubmissionFlags")
  ELSE IF s.nonzero \intersect (Fields \ {"buffer_index"}) # {} \/ s.offset # 0 THEN Err("UnsupportedOperationFlags")
  ELSE Ok([operation |-> "AsyncCancel", target_user_data |-> s.address])

(* ParsedSubmission::parse_copied *)
Parse(s) ==
  CASE s.opcode = "NOP" -> ParseNop(s)
    [] s.opcode \in Reads \union Writes -> ParseReadWrite(s)
    [] s.opcode = "POLL_ADD" -> ParsePollAdd(s)
    [] s.opcode = "ASYNC_CANCEL" -> ParseAsyncCancel(s)
    [] s.opcode = "known" -> Err("UnsupportedOpcode")
    [] OTHER -> Err("UnknownOpcode")

(* ParsedSubmission::descriptor *)
ParsedDescriptor(s) == [user_data |-> s.user_data, operation |-> Parse(s).value.operation]

-----------------------------------------------------------------------------
Entries ==
  [opcode : Opcodes, flags : SUBSET {"FIXED_FILE", "other"}, fd : {-1, 3}, offset : Offsets,
   address : {0, 2, MaxU64}, length : Lengths, nonzero : SUBSET Fields, user_data : {7}]

(* The two decodings of one copy agree: a request is admitted under the
   operation it is then run as, which cancellation and the completion rely on;
   it is admitted as Rejected exactly when the full decoding has no such opcode. *)
DescriptorsAgree(s) ==
  /\ Parse(s).ok => CopiedDescriptor(s) = ParsedDescriptor(s)
  /\ CopiedDescriptor(s).operation = "Rejected" <=> Parse(s).error \in {"UnsupportedOpcode", "UnknownOpcode"}

(* An accepted transfer is explicit and representable: a file offset other than
   the current-position marker, and a buffer whose end IoBuffer::end can compute
   without overflow; a fixed buffer index is dropped by no accepted operation
   that transfers bytes. *)
TransferRepresentable(s) ==
  Parse(s).ok /\ Parse(s).value.operation \in {"Read", "Write"} =>
    /\ Parse(s).value.offset < MaxU64 /\ Parse(s).value.buffer.end <= MaxU64
    /\ "buffer_index" \in s.nonzero => Parse(s).value.fixed_buffer
=============================================================================
