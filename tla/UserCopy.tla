------------------------------ MODULE UserCopy ------------------------------
(***************************************************************************)
(* The bounded zero-terminated load of crates/usercopy/src/alloc.rs        *)
(* (load_any_until_nul_bounded), over the checked reads of lib.rs.         *)
(*                                                                         *)
(* A load copies user memory chunk by chunk into kernel storage and looks  *)
(* for the terminator in the copy, while another thread of the program may *)
(* change the memory or unmap it between two chunks.  The provider         *)
(* (UserMemory::read, external) reads one chunk or reports BadAddress when *)
(* a byte of it is not mapped.  A byte is "data", "zero" or "hole".        *)
(***************************************************************************)
EXTENDS Integers, FiniteSetsExt, SequencesExt

CONSTANTS
  MaxAddress,      \* usize::MAX
  ChunkBytes,      \* CHUNK_BYTES
  PageBytes,       \* what the kernel maps and unmaps: a multiple of ChunkBytes
  MaxSearchBytes,  \* MAX_NUL_SEARCH_BYTES
  Memories,        \* user memory before the load
  Starts, Sizes, Budgets,
  Racy             \* addresses the other thread writes

Addresses == 0..MaxAddress

VARIABLES
  memory,
  load,       \* the call: its arguments, the elements copied, the answer
  disturbed   \* ghost: the memory changed since the call began
cvars == <<memory, load, disturbed>>

Idle == [start |-> 0, size |-> 1, max |-> 0, got |-> << >>, answer |-> "idle"]

Init == memory \in Memories /\ load = Idle /\ disturbed = FALSE

-----------------------------------------------------------------------------
(* size_of::<T>() = 0 and a budget below one element answer at once *)
MaxElements(size, budget) == Min({budget, MaxSearchBytes \div size})
Begin(start, size, budget) ==
  /\ load.answer = "idle"
  /\ load' = CASE size = 0 -> [Idle EXCEPT !.answer = "BadAddress"]
               [] size # 0 /\ MaxElements(size, budget) = 0 -> [Idle EXCEPT !.answer = "TooLong"]
               [] OTHER -> [start |-> start, size |-> size, max |-> MaxElements(size, budget),
                            got |-> << >>, answer |-> "scan"]
  /\ UNCHANGED <<memory, disturbed>>

ChunkElements(start, size, remaining) ==
  Min({Max({(ChunkBytes - (start % ChunkBytes)) \div size, 1}), remaining})

(* element_address and checked_end: representable, and then mapped *)
Readable(address, bytes) ==
  /\ address + bytes <= MaxAddress
  /\ \A a \in address..(address + bytes - 1) : memory[a] # "hole"

(* The element at an address, as is_zero_uninit sees it *)
Element(address, size) ==
  IF \A a \in address..(address + size - 1) : memory[a] = "zero" THEN "zero" ELSE "data"

(* One turn of the loop *)
Scan ==
  LET address == load.start + Len(load.got) * load.size
      len == ChunkElements(address, load.size, load.max - Len(load.got))
      spare == [i \in 1..len |-> Element(address + (i - 1) * load.size, load.size)]
      zeros == {i \in 1..len : spare[i] = "zero"}
  IN
  /\ load.answer = "scan" /\ Len(load.got) < load.max
  /\ load' = CASE ~Readable(address, len * load.size) -> [load EXCEPT !.answer = "BadAddress"]
               [] Readable(address, len * load.size) /\ zeros # {} ->
                    [load EXCEPT !.answer = "ok", !.got = @ \o SubSeq(spare, 1, Min(zeros) - 1)]
               [] OTHER -> [load EXCEPT !.got = @ \o spare]
  /\ UNCHANGED <<memory, disturbed>>
NoMemory ==       \* try_reserve_exact fails
  /\ load.answer = "scan" /\ Len(load.got) < load.max
  /\ load.start + Len(load.got) * load.size <= MaxAddress
  /\ load' = [load EXCEPT !.answer = "NoMemory"] /\ UNCHANGED <<memory, disturbed>>
TooLong ==
  /\ load.answer = "scan" /\ Len(load.got) = load.max
  /\ load' = [load EXCEPT !.answer = "TooLong"] /\ UNCHANGED <<memory, disturbed>>

(* The other thread: a store, or munmap of one page *)
Page(a) == a \div PageBytes
Race ==
  /\ load.answer = "scan" /\ ~disturbed /\ disturbed' = TRUE /\ UNCHANGED load
  /\ \/ \E a \in Racy, b \in {"data", "zero"} :
          memory[a] # "hole" /\ memory' = [memory EXCEPT ![a] = b]
     \/ \E p \in {Page(a) : a \in Addresses} :
          memory' = [a \in Addresses |-> IF Page(a) = p THEN "hole" ELSE memory[a]]

Next ==
  \/ \E start \in Starts, size \in Sizes, budget \in Budgets : Begin(start, size, budget)
  \/ Scan \/ NoMemory \/ TooLong \/ Race
Spec == Init /\ [][Next]_cvars

-----------------------------------------------------------------------------
(* The first element, within the budget, that ends a load element by element *)
Stops(i) ==
  LET a == load.start + i * load.size IN ~Readable(a, load.size) \/ Element(a, load.size) = "zero"
FirstStop == {i \in 0..(load.max - 1) : Stops(i) /\ \A j \in 0..(i - 1) : ~Stops(j)}

(* A load of memory that nobody changes answers what reading it one element at
   a time would: reading in chunks never turns memory behind the terminator, or
   behind the budget, into a fault. *)
LoadExact ==
  ~disturbed /\ load.max # 0 =>
    /\ load.answer = "ok" =>
         \E i \in FirstStop : Readable(load.start + i * load.size, load.size) /\ Len(load.got) = i
    /\ load.answer = "BadAddress" =>
         \E i \in FirstStop : ~Readable(load.start + i * load.size, load.size)
    /\ load.answer = "TooLong" => FirstStop = {}

(* Whatever the other thread does meanwhile, the caller gets a list without a
   terminator inside it, shorter than the budget. *)
ListClean ==
  /\ \A i \in 1..Len(load.got) : load.got[i] = "data"
  /\ Len(load.got) <= load.max /\ (load.answer = "ok" => Len(load.got) < load.max)
=============================================================================
