-------------------------------- MODULE MCMm --------------------------------
(***************************************************************************)
(* Small instances of the memory-management components.  They share no     *)
(* state, so one run explores them side by side: `part` is chosen once,    *)
(* and the variables of the other components stay Unused, the registry of  *)
(* pins empty.                                                             *)
(*   "range"    the address arithmetic, on every input of a tiny space     *)
(*   "pin"      the pin registry over three pages that the kernel mutates  *)
(*   "budget"   two system-wide pin budgets                                *)
(*   "uffd"     the userfaultfd table over three pages in two VMAs         *)
(*   "fault"    delegated faults of two tasks with two handlers            *)
(*   "copy"     a zero-terminated load from sixteen bytes of user memory   *)
(***************************************************************************)
EXTENDS MmPin, TLC

CONSTANTS a1, a2   \* two threads

VARIABLES part, input,
  table, api, next_id, revision, plans, vmas,
  current, registrations, lifecycle, tasks, queue,
  memory, load, disturbed

Interval(a, b) == [start |-> a, end |-> b]
PinQuota(p, b, t) == [pages |-> p, bytes |-> b, tokens |-> t]
Request(a, b, access, duration, use, o) ==
  [range |-> Interval(a, b), access |-> access, duration |-> duration, use |-> use, owner |-> o]
Profile(access, kind, longTerm) ==
  [access |-> access, kind |-> kind, long_term_pinnable |-> longTerm, writable_file_pin_supported |-> FALSE]
Vma(m, a, b) ==
  [address_space |-> 1, mapping |-> m, generation |-> 1, range |-> Interval(a, b), kind |-> "AnonymousPrivate"]
Registration(h, m, a, b) ==
  [handler |-> h, address_space |-> 1, mapping |-> m, generation |-> 1, range |-> Interval(a, b)]

Geometry == INSTANCE MmRange WITH MaxAddress <- 15

(* The constants of MmPin: three pages of two bytes *)
PinGlobalQuota == PinQuota(4, 10, 2)
PinOwnerQuotas == {PinQuota(3, 6, 1), PinQuota(4, 8, 2)}
PinProfiles == {Profile({"Read", "Write"}, "AnonymousPrivate", TRUE), Profile({"Read"}, "FileShared", FALSE)}
PinRequests == {Request(0, 3, "Write", "AsyncIo", "BlockIo", "a"),
                Request(3, 6, "Read", "Synchronous", "UserCopy", "b"),
                Request(1, 6, "Write", "LongTerm", "Dma", "a")}
BudgetQuota == PinQuota(3, 6, 2)
BudgetRanges == {Interval(0, 3), Interval(5, 6)}

Uffd == INSTANCE MmUserfaultfd WITH records <- table,
  MaxAddress <- 3, Agents <- {a1, a2}, Handlers <- {"h", "k"}, Capacity <- 2,
  MaxId <- 3, MaxRevision <- 4, MaxGeneration <- 2,
  InitVmas <- <<Vma(1, 0, 2), Vma(2, 2, 3)>>,
  Batches <- {<<Registration("h", 1, 0, 1), Registration("h", 2, 2, 3)>>, <<Registration("k", 1, 1, 2)>>},
  Intents <- {[handler |-> "h", range |-> Interval(1, 3)]}

Faults == INSTANCE MmFault WITH
  MaxAddress <- 3, Tasks <- {a1, a2}, Handlers <- {"h", "k"},
  Intervals <- [h \in {"h", "k"} |-> IF h = "h" THEN Interval(0, 2) ELSE Interval(2, 3)],
  PerSpace <- 2, PerHandler <- 1, Global <- 2, MaxGeneration <- 2

(* The same module at the size of the arithmetic inputs *)
Progress == INSTANCE MmFault WITH
  MaxAddress <- 15, Tasks <- {}, Handlers <- {}, Intervals <- << >>,
  PerSpace <- 0, PerHandler <- 0, Global <- 0, MaxGeneration <- 1

(* Four pages of one chunk each: the last is never the program's, one more may
   be a hole, and up to three bytes in a row are zero. *)
Memory(holes, zeros) ==
  [a \in 0..15 |-> IF a \div 4 \in holes THEN "hole" ELSE IF a \in zeros THEN "zero" ELSE "data"]
Copy == INSTANCE UserCopy WITH
  MaxAddress <- 15, ChunkBytes <- 4, PageBytes <- 4, MaxSearchBytes <- 12,
  Memories <- {Memory({3, h}, a..(a + n - 1)) : h \in 0..3, a \in 0..11, n \in 0..3},
  Starts <- {0, 1, 3, 6, 9, 15}, Sizes <- {0, 1, 2, 3, 5}, Budgets <- {0, 2, 16}, Racy <- {4, 7}

uffdOnly == <<table, api, next_id, revision, plans, vmas>>
faultOnly == <<current, registrations, lifecycle, tasks, queue>>
copyOnly == <<memory, load, disturbed>>
vars == <<part, input, pvars, bgvars, uffdOnly, faultOnly, copyOnly>>

Unused == "unused"
NoPins == state = "Open" /\ records = << >> /\ owners = Unused /\ next_token = Unused
          /\ global_usage = Unused /\ world = Unused /\ expected = Unused
BudgetUnused == next_identity = Unused /\ budgets = Unused /\ issued = Unused
UffdUnused == table = Unused /\ api = Unused /\ next_id = Unused /\ revision = Unused /\ plans = Unused
              /\ vmas = Unused
FaultUnused == current = Unused /\ registrations = Unused /\ lifecycle = Unused /\ tasks = Unused /\ queue = Unused
CopyUnused == memory = Unused /\ load = Unused /\ disturbed = Unused

PageSizes == {1, 2, 4}
Limits == {[kind |-> "Unlimited"], [kind |-> "Disabled"]} \cup [kind : {"Limited"}, bytes : {0, 3, 15}]
Inputs ==
  [op : {"covering"}, range : Geometry!AllRanges, page : PageSizes]
  \cup [op : {"relocate"}, origin : Geometry!Addresses, old : Geometry!Addresses, new : Geometry!Addresses, length : {3}]
  \cup [op : {"remap"}, page : {4}, old : Geometry!PageRanges(4), new : 0..12, length : 0..12, cut : Geometry!Addresses]
  \cup [op : {"memlock"}, current : Geometry!Addresses, already : 0..4, requested : 0..8, limit : Limits]
  \cup [op : {"progress"}, range : Geometry!AllRanges, completed : {0, 1, 2, 7, 15}, dontwake : BOOLEAN]

MCInit ==
  /\ part \in {"range", "pin", "budget", "uffd", "fault", "copy"}
  /\ IF part = "range" THEN input \in Inputs ELSE input = Unused
  /\ IF part = "pin" THEN Init ELSE NoPins
  /\ IF part = "budget" THEN BudgetInit ELSE BudgetUnused
  /\ IF part = "uffd" THEN Uffd!Init ELSE UffdUnused
  /\ IF part = "fault" THEN Faults!Init ELSE FaultUnused
  /\ IF part = "copy" THEN Copy!Init ELSE CopyUnused

MCNext ==
  \/ part = "pin" /\ Next /\ UNCHANGED <<part, input, bgvars, uffdOnly, faultOnly, copyOnly>>
  \/ part = "budget" /\ BudgetNext /\ UNCHANGED <<part, input, pvars, uffdOnly, faultOnly, copyOnly>>
  \/ part = "uffd" /\ Uffd!Next /\ UNCHANGED <<part, input, pvars, bgvars, faultOnly, copyOnly>>
  \/ part = "fault" /\ Faults!Next /\ UNCHANGED <<part, input, pvars, bgvars, uffdOnly, copyOnly>>
  \/ part = "copy" /\ Copy!Next /\ UNCHANGED <<part, input, pvars, bgvars, uffdOnly, faultOnly>>

Symmetry == Permutations({a1, a2})

MCSpec == MCInit /\ [][MCNext]_vars

-----------------------------------------------------------------------------
(* The books: pin charges per owner, per registry and per system budget are
   those of the live pins, queued faults stay within their three quotas, and
   userfaultfd registrations never overlap and can always be retired, also when
   revisions and identities have run out. *)
MmBooks ==
  /\ part = "pin" => TypeOK /\ PinBooks
  /\ part = "budget" => BudgetBooks
  /\ part = "uffd" => Uffd!TypeOK /\ Uffd!IntervalsApart /\ Uffd!RetirementPossible
  /\ part = "fault" => Faults!QueueWithinCapacity

(* Page coverings, relocations, remap fragments, memlock charges and resolver
   results equal their definitions over sets of addresses, also where they
   meet the end of the address space.  A zero-terminated load in chunks answers
   what a load byte by byte would, and stays clean when its memory changes. *)
GeometryExact ==
  /\ part = "copy" => Copy!LoadExact /\ Copy!ListClean
  /\ part = "range" =>
    CASE input.op = "covering" -> Geometry!CoveringExact(input.range, input.page)
      [] input.op = "relocate" -> Geometry!RelocationExact(input.origin, input.old, input.new, input.length)
      [] input.op = "remap" -> Geometry!RemapExact(input.old, input.new, input.length, input.cut, input.page)
      [] input.op = "memlock" -> Geometry!MemlockExact(input.current, input.already, input.requested, input.limit)
      [] input.op = "progress" -> Progress!ProgressExact(input.range, input.completed, input.dontwake)

(* What was prepared earlier takes effect only if it still fits: a plan
   commits on the table it was made for, the batch of a register ioctl gives
   its handler the pages of the batch, and every mapped page asked for if the
   table did not change since the replay, and takes none from others, a late
   reply never answers a fault of a replaced mapping, and a charge is refunded
   once, by its own budget. *)
PreparedStaysExact ==
  [][ /\ part = "uffd" => Uffd!CommitsOnPlannedTable /\ Uffd!RegisterExact
      /\ part = "fault" => Faults!RepliesExact
      /\ part = "budget" => RefundsExact ]_vars
=============================================================================
