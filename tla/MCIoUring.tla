------------------------------ MODULE MCIoUring ------------------------------
(***************************************************************************)
(* Small instances of the io-uring components.  They share no state, so    *)
(* one run explores them side by side: `part` is chosen once, and every    *)
(* other component rests in its initial state or has its variables Unused. *)
(*   "ring"     two request slots and two completion-queue entries         *)
(*   "wrap"     one slot, reused until head and tail have wrapped around   *)
(*   "files"    a registered-file table                                    *)
(*   "buffers"  a registered-buffer table over a four-address space        *)
(*   "input"    setup, queue counters, headers and submission entries, on  *)
(*              every input of a small space                               *)
(* The ring is the module extended here; the slots x1 to x12 hold the      *)
(* variables of the wrapping ring or of a table (see its INSTANCE).        *)
(***************************************************************************)
EXTENDS IoUringRequest, TLC

CONSTANTS o1, o2, l1, l2, l3, NoOwner

VARIABLES part, input, x1, x2, x3, x4, x5, x6, x7, x8, x9, x10, x11, x12

slots == <<x1, x2, x3, x4, x5, x6, x7, x8, x9, x10, x11, x12>>
mcVars == <<part, input, vars, slots>>

Wrap == INSTANCE IoUringRequest WITH
  Capacity <- 1, CqEntries <- 2, Modulus <- 4, MaxGeneration <- 5, MaxSequence <- 5,
  UserData <- {7}, Causes <- {"Completed"},
  entries <- x1, generation <- x2, free_slots <- x3, next_sequence <- x4, lifecycle <- x5,
  cq_head <- x6, cq_tail <- x7, terminal_credits <- x8, publication_in_flight <- x9,
  cqes <- x10, tokens <- x11, unread <- x12

Files == INSTANCE IoUringTables WITH
  Capacity <- 3, Owners <- {o1, o2}, LeaseCapacity <- 2, LeaseIds <- {l1, l2, l3}, MaxAddress <- 0,
  lifecycle <- x1, generation <- x2, owner <- x3, slot_leases <- x4, retire_cursor <- x5,
  leases <- x6, held <- x7, retirable <- x8, retired <- x9, ranges <- x10, leaseRange <- x11

Buffers == INSTANCE IoUringTables WITH
  Capacity <- 2, Owners <- {o1}, LeaseCapacity <- 1, LeaseIds <- {l1, l2}, MaxAddress <- 3,
  lifecycle <- x1, generation <- x2, owner <- x3, slot_leases <- x4, retire_cursor <- x5,
  leases <- x6, held <- x7, retirable <- x8, retired <- x9, ranges <- x10, leaseRange <- x11

Input == INSTANCE IoUringInput WITH
  Width <- 10, MaxEntries <- 8, MaxCqEntries <- 16, MaxBuffers <- 2, MaxFixedFiles <- 3, MaxProbe <- 4,
  MaxU64 <- 9, Offsets <- {0, 9}, Lengths <- {0, 7, 8}

(* The same module with counters that wrap at 16 *)
Counters == INSTANCE IoUringInput WITH
  Width <- 4, MaxEntries <- 8, MaxCqEntries <- 16, MaxBuffers <- 0, MaxFixedFiles <- 0, MaxProbe <- 0,
  MaxU64 <- 0, Offsets <- {}, Lengths <- {}

Inputs ==
  [op : {"setup"}, request : Input!Requests({0, 1, 3, 5, 8, 9, 16, 17, 1023})]
  \union [op : {"counters"}, sq : {1, 2, 4, 8}, head : 0..15, tail : 0..15]
  \union [op : {"register"}, header : Input!Headers({0, 2, 3, 4, 5})]
  \union [op : {"sqe"}, entry : Input!Entries]

Unused == "unused"
Unused9 ==
  /\ x1 = Unused /\ x2 = Unused /\ x3 = Unused /\ x4 = Unused /\ x5 = Unused
  /\ x6 = Unused /\ x7 = Unused /\ x8 = Unused /\ x9 = Unused

MCInit ==
  /\ Init
  /\ \/ part = "wrap" /\ Wrap!Init /\ input = Unused
     \/ /\ part = "files" /\ Files!TableInit /\ input = Unused
        /\ x10 = Unused /\ x11 = Unused /\ x12 = Unused
     \/ part = "buffers" /\ Buffers!BufferInit /\ input = Unused /\ x12 = Unused
     \/ /\ Unused9 /\ x10 = Unused /\ x11 = Unused /\ x12 = Unused
        /\ \/ part = "ring" /\ input = Unused
           \/ part = "input" /\ input \in Inputs

MCNext ==
  /\ UNCHANGED <<part, input>>
  /\ \/ part = "ring" /\ Next /\ UNCHANGED slots
     \/ part = "wrap" /\ Wrap!Next /\ UNCHANGED vars
     \/ part = "files" /\ Files!Next /\ UNCHANGED <<vars, x10, x11, x12>>
     \/ part = "buffers" /\ Buffers!BufferNext /\ UNCHANGED <<vars, x12>>

MCSpec == MCInit /\ [][MCNext]_mcVars

-----------------------------------------------------------------------------
(* A held lease keeps the owner it was granted, through retirement, and the
   lease counters count the leases held; a retiring table leaves no owner
   behind that nobody will hand back; and a buffer lease stays inside its
   buffer, also at the top of the address space. *)
LeasesHonoured ==
  /\ part = "files" => /\ Files!TypeOK /\ Files!LeasesCounted
                       /\ Files!LeasesHonoured /\ Files!NoOwnerStranded
  /\ part = "buffers" => Buffers!LeasesHonoured /\ Buffers!LeaseInsideBuffer

(* Nothing that userspace lays out makes two readings differ: the geometry
   setup publishes is apart and large enough; the queue counters name distinct
   slots across their wrap, and the ring keeps its books and its unread
   completions when they do; a header is decoded within its bounds, and a
   request is admitted under the operation its entry is then decoded to. *)
InputExact ==
  /\ part = "wrap" => Wrap!RingInv /\ Wrap!OneTerminalOwner /\ Wrap!UnreadIntact
  /\ part = "input" => CASE input.op = "setup" -> Input!LayoutExact(input.request)
                         [] input.op = "counters" -> Counters!PendingExact(input.sq, input.head, input.tail)
                         [] input.op = "register" -> Input!DecodeBounded(input.header)
                         [] input.op = "sqe" -> /\ Input!DescriptorsAgree(input.entry)
                                                /\ Input!TransferRepresentable(input.entry)
=============================================================================
