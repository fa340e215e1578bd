---------------------------- MODULE IoUringTables ----------------------------
(***************************************************************************)
(* The registered-file table of crates/io-uring/src/resource.rs: slots are *)
(* installed while the table is built, leased by requests while it is      *)
(* published, and retired either by the unregister pass (next_retirable    *)
(* and retire, which looks at each slot once) or by the last lease.        *)
(* A method runs under one lock of the embedding kernel and is one action; *)
(* lease holders and the retiring caller interleave.                       *)
(*                                                                         *)
(* The registered-buffer table of crates/io-uring/src/buffer.rs has the    *)
(* lifecycle of the file table, method by method, and adds an address      *)
(* range to each slot and a requested subrange to each lease.  Addresses   *)
(* are u64; MaxAddress stands for u64::MAX and sums are checked against it.*)
(***************************************************************************)
EXTENDS Integers, FiniteSets

CONSTANTS
  Capacity,        \* number of slots
  Owners,          \* Arc<F> values
  LeaseCapacity,   \* lease_capacity
  LeaseIds,        \* names for the lease objects clients hold
  NoOwner,
  MaxAddress

VARIABLES
  lifecycle, generation, owner, slot_leases, retire_cursor, leases,
  held,      \* the leases clients hold: lease id -> [slot, generation, owner], or NoLease
  retirable, \* tokens returned by next_retirable and not yet passed to retire
  retired,   \* the owners handed back by retire and release, by slot and generation
  ranges,    \* buffers: slot -> [address, length] as registered
  leaseRange \* buffers: lease id -> [address, length] granted

tableVars == <<lifecycle, generation, owner, slot_leases, retire_cursor, leases>>
tvars == <<tableVars, held, retirable, retired>>
bvars == <<tvars, ranges, leaseRange>>

Slots == 0..(Capacity - 1)
NoLease == [slot |-> -1, generation |-> 0, owner |-> NoOwner]
Token(s) == [slot |-> s, generation |-> generation[s]]
Held == {l \in LeaseIds : held[l] # NoLease}

(* validate_token *)
ValidToken(t) ==
  t.slot \in Slots /\ generation[t.slot] = t.generation /\ owner[t.slot] # NoOwner

TableInit ==
  /\ lifecycle = "Building"
  /\ generation = [s \in Slots |-> 1]
  /\ owner = [s \in Slots |-> NoOwner]
  /\ slot_leases = [s \in Slots |-> 0]
  /\ retire_cursor = 0 /\ leases = 0
  /\ held = [l \in LeaseIds |-> NoLease]
  /\ retirable = {} /\ retired = {}

(* install *)
Install(s, o) ==
  /\ lifecycle = "Building" /\ owner[s] = NoOwner
  /\ owner' = [owner EXCEPT ![s] = o]
  /\ UNCHANGED <<lifecycle, generation, slot_leases, retire_cursor, leases, held, retirable,
                 retired>>

(* publish *)
Publish ==
  /\ lifecycle = "Building" /\ lifecycle' = "Published"
  /\ UNCHANGED <<generation, owner, slot_leases, retire_cursor, leases, held, retirable, retired>>

Leasable(t) == lifecycle = "Published" /\ ValidToken(t) /\ leases < LeaseCapacity

(* acquire, acquire_token: the client gets a lease object of its own *)
Acquire(l, t) ==
  /\ l \notin Held /\ Leasable(t)
  /\ slot_leases' = [slot_leases EXCEPT ![t.slot] = @ + 1]
  /\ leases' = leases + 1
  /\ held' = [held EXCEPT ![l] = [slot |-> t.slot, generation |-> t.generation,
                                  owner |-> owner[t.slot]]]
  /\ UNCHANGED <<lifecycle, generation, owner, retire_cursor, retirable, retired>>

(* begin_retire *)
BeginRetire ==
  /\ lifecycle \in {"Building", "Published"}
  /\ lifecycle' = "Retiring" /\ retire_cursor' = 0
  /\ UNCHANGED <<generation, owner, slot_leases, leases, held, retirable, retired>>

(* The owner leaves the slot and the generation moves on. *)
HandBack(t) ==
  /\ owner' = [owner EXCEPT ![t.slot] = NoOwner]
  /\ generation' = [generation EXCEPT ![t.slot] = t.generation + 1]
  /\ retired' = retired \union {[slot |-> t.slot, generation |-> t.generation,
                                 owner |-> owner[t.slot]]}

RetireReady(t) == lifecycle = "Retiring" /\ ValidToken(t) /\ slot_leases[t.slot] = 0

(* retire *)
Retire(t) ==
  /\ RetireReady(t)
  /\ HandBack(t)
  /\ retirable' = retirable \ {t}
  /\ UNCHANGED <<lifecycle, slot_leases, retire_cursor, leases, held>>

(* next_retirable *)
NextRetirable ==
  LET rest == {s \in Slots : s >= retire_cursor /\ owner[s] # NoOwner /\ slot_leases[s] = 0}
      first == CHOOSE s \in rest : \A r \in rest : s <= r
  IN
  /\ lifecycle = "Retiring" /\ retire_cursor < Capacity
  /\ \/ rest # {} /\ retire_cursor' = first + 1 /\ retirable' = retirable \union {Token(first)}
     \/ rest = {} /\ retire_cursor' = Capacity /\ UNCHANGED retirable
  /\ UNCHANGED <<lifecycle, generation, owner, slot_leases, leases, held, retired>>

RetiresOnReleaseNever(s) == FALSE

(* The last lease of a retiring slot takes the owner with it. *)
RetiresOnRelease(s) == lifecycle = "Retiring" /\ slot_leases[s] = 1

ReleaseTotal(n) == n - 1

(* release *)
Release(l) ==
  LET t == held[l] IN
  /\ l \in Held /\ ValidToken(t) /\ leases > 0 /\ slot_leases[t.slot] > 0
  /\ slot_leases' = [slot_leases EXCEPT ![t.slot] = @ - 1]
  /\ leases' = ReleaseTotal(leases)
  /\ held' = [held EXCEPT ![l] = NoLease]
  /\ \/ RetiresOnRelease(t.slot) /\ HandBack(t)
     \/ ~RetiresOnRelease(t.slot) /\ UNCHANGED <<owner, generation, retired>>
  /\ UNCHANGED <<lifecycle, retire_cursor, retirable>>

(* finish_retire *)
FinishRetire ==
  /\ lifecycle = "Retiring" /\ leases = 0 /\ \A s \in Slots : owner[s] = NoOwner
  /\ lifecycle' = "Closed"
  /\ UNCHANGED <<generation, owner, slot_leases, retire_cursor, leases, held, retirable, retired>>

Tokens == [slot : Slots, generation : {1, 2}]

LifecycleStep ==
  \/ Publish \/ BeginRetire \/ NextRetirable \/ FinishRetire
  \/ \E t \in Tokens : Retire(t)
  \/ \E l \in LeaseIds : Release(l)

Next ==
  \/ LifecycleStep
  \/ \E s \in Slots, o \in Owners : Install(s, o)
  \/ \E l \in LeaseIds, t \in Tokens : Acquire(l, t)

Spec == TableInit /\ [][Next]_tvars

-----------------------------------------------------------------------------
Addresses == 0..MaxAddress
NoRange == [address |-> 0, length |-> 0]

CheckedAdd(a, n) == a + n <= MaxAddress

BufferInit ==
  /\ TableInit
  /\ ranges = [s \in Slots |-> NoRange]
  /\ leaseRange = [l \in LeaseIds |-> NoRange]

(* install *)
InstallBuffer(s, o, address, length) ==
  /\ CheckedAdd(address, length) /\ length # 0
  /\ Install(s, o)
  /\ ranges' = [ranges EXCEPT ![s] = [address |-> address, length |-> length]]
  /\ UNCHANGED leaseRange

InsideWrapped(r, address, length) ==
  /\ address >= r.address
  /\ (address + length) % (MaxAddress + 1) <= r.address + r.length

(* RegisteredBufferRange::new and the comparison with the registered end *)
Inside(r, address, length) ==
  /\ CheckedAdd(address, length)
  /\ address >= r.address
  /\ address + length <= r.address + r.length

(* acquire, acquire_token *)
AcquireBuffer(l, t, address, length) ==
  /\ Inside(ranges[t.slot], address, length)
  /\ Acquire(l, t)
  /\ leaseRange' = [leaseRange EXCEPT ![l] = [address |-> address, length |-> length]]
  /\ UNCHANGED ranges

(* publish, begin_retire, next_retirable, retire, release, finish_retire *)
BufferLifecycle ==
  /\ LifecycleStep
  /\ leaseRange' = [l \in LeaseIds |-> IF held'[l] = NoLease THEN NoRange ELSE leaseRange[l]]
  /\ UNCHANGED ranges

BufferNext ==
  \/ BufferLifecycle
  \/ \E s \in Slots, o \in Owners, a, n \in Addresses : InstallBuffer(s, o, a, n)
  \/ \E l \in LeaseIds, t \in Tokens, a, n \in Addresses : AcquireBuffer(l, t, a, n)

-----------------------------------------------------------------------------
TypeOK ==
  /\ lifecycle \in {"Building", "Published", "Retiring", "Closed"}
  /\ generation \in [Slots -> {1, 2}]
  /\ owner \in [Slots -> Owners \union {NoOwner}]
  /\ slot_leases \in [Slots -> 0..LeaseCapacity]
  /\ leases \in 0..LeaseCapacity
  /\ retire_cursor \in 0..Capacity
  /\ retirable \subseteq Tokens

(* The per-slot and the total lease counters count the leases clients hold. *)
LeasesCounted ==
  /\ leases = Cardinality(Held)
  /\ \A s \in Slots : slot_leases[s] = Cardinality({l \in Held : held[l].slot = s})

(* A lease is honoured until it is released: its slot still has the same
   generation and the same owner, so release cannot be refused, and an owner is
   never handed back for destruction while a request still holds it. *)
LeasesHonoured ==
  /\ \A l \in Held : ValidToken(held[l]) /\ owner[held[l].slot] = held[l].owner
  /\ \A l \in Held, r \in retired : ~(held[l].slot = r.slot /\ held[l].generation = r.generation)

(* The retirement pass forgets no owner: once the cursor is past a slot, its
   owner is gone, is promised to the caller by a token, or waits for a lease. *)
NoOwnerStranded ==
  lifecycle = "Retiring" =>
    \A s \in Slots : owner[s] # NoOwner /\ s < retire_cursor =>
      slot_leases[s] > 0 \/ Token(s) \in retirable

(* Every granted subrange lies inside the buffer registered in the slot the
   lease pins, also for ranges that end at the top of the address space. *)
LeaseInsideBuffer ==
  \A l \in Held :
    LET r == ranges[held[l].slot]
        g == leaseRange[l]
    IN  r.address <= g.address /\ g.address + g.length <= r.address + r.length
=============================================================================
