-------------------------------- MODULE MmPin --------------------------------
(***************************************************************************)
(* The pin registry of crates/mm/src/pin.rs over the mapping snapshots of  *)
(* crates/mm/src/mapping.rs.  A caller reserves quota for a byte range,    *)
(* faults its pages in, revalidates one mapping segment after another in   *)
(* separate lock windows, and commits.  A live reservation, and an active  *)
(* pin that is not long-term, is meant to fence overlapping mutations of   *)
(* the mappings until it ends.                                             *)
(*                                                                         *)
(* The mappings belong to the embedding kernel: `world` gives, for each    *)
(* address space and page, the identity, generation and profile (access,   *)
(* kind, pinnability) of the VMA that holds it.  A VMA is a maximal run    *)
(* of equal pages.  Every mutation goes through admit_mutation.            *)
(*                                                                         *)
(* The system-wide pin budgets of the same file are at the end.  A kernel  *)
(* takes a charge from one budget before it does any lower pin work and    *)
(* gives it back when that work has ended.  Several budgets exist side by  *)
(* side and number their charges independently, from a seed of the         *)
(* caller's choice; a charge names its budget by an identity drawn from a  *)
(* shared atomic counter whose value 0 means that the identities are used  *)
(* up.  Budgets and registries share no state.                             *)
(***************************************************************************)
EXTENDS MmRange, FiniteSetsExt, Functions

CONSTANTS
  PageSize, Spaces, Owners,
  OwnerCapacity,   \* owners the registry can hold
  TokenCapacity,   \* reserved and active pins the registry can hold
  GlobalQuota, OwnerQuotas,
  MaxToken,        \* u64::MAX: tokens never wrap
  MaxGeneration,   \* bound on mapping generations
  Profiles,        \* VMA profiles the kernel maps pages with
  Requests,        \* pin requests callers make
  ChargeCapacity,  \* live charges a budget can hold
  Quota,           \* PinQuota of every budget
  MaxIdentity,     \* u64::MAX of the identity counter
  MaxCharge,       \* u64::MAX of the charge tokens
  ByteRanges       \* ranges callers charge a budget for

(* A page has a positive size, and a request names a UserRange. *)
ASSUME PinAssumption ==
  /\ PageSize \in Nat \ {0} /\ MaxAddress \in Nat /\ MaxToken \in Nat /\ MaxCharge \in Nat
  /\ \A q \in Requests : q.range \in AllRanges

VARIABLES
  state,           \* PinRegistryState
  owners,          \* configured owner -> [quota, usage]
  records,         \* live token -> PinRecord
  next_token,      \* MaxToken + 1 once exhausted
  global_usage,
  world,           \* address space -> page -> [mapping, generation, profile]
  expected,        \* live token -> ExpectedMapping its caller captured last
  next_identity,   \* NEXT_PIN_BUDGET_IDENTITY
  budgets,         \* identity -> [usage, records: token -> accounting, next_charge]
  issued           \* history: every charge ever handed out

pvars == <<state, owners, records, next_token, global_usage, world, expected>>
bgvars == <<next_identity, budgets, issued>>

Pages == {a \in Addresses : IsAligned(PageSize, a) /\ a + PageSize <= MaxAddress}
NoExpected == [mapping |-> 0, generation |-> 0, range |-> NoRange]

(* MappingSnapshot: the VMA that holds page a now, with its exact range *)
Snapshot(as, a) ==
  LET v == world[as][a]
      Same(b, c) == \A p \in Pages : b <= p /\ p <= c => world[as][p] = v
  IN  [mapping |-> v.mapping, generation |-> v.generation, profile |-> v.profile,
       range |-> [start |-> Min({p \in Pages : p <= a /\ Same(p, a)}),
                  end |-> Max({p \in Pages : a <= p /\ Same(a, p)}) + PageSize]]

(* MappingSnapshot::expected *)
ExpectedOf(s) == [mapping |-> s.mapping, generation |-> s.generation, range |-> s.range]

(* ExpectedMapping::revalidate, revalidate_range *)
RevalidateRange(e, current, covered) ==
  /\ e.mapping = current.mapping /\ e.generation = current.generation
  /\ Contains(current.range, e.range)
  /\ Contains(e.range, covered) /\ Contains(current.range, covered)

-----------------------------------------------------------------------------
(* PinAccounting *)
Zero == [pages |-> 0, bytes |-> 0, tokens |-> 0]
Add(u, c) == [k \in DOMAIN Zero |-> u[k] + c[k]]
ForRange(r) == [pages |-> PageCount(r, PageSize), bytes |-> ByteLen(r), tokens |-> 1]

(* PinQuota::admits *)
Admits(quota, usage) == \A k \in DOMAIN Zero : usage[k] <= quota[k]

Init ==
  /\ state = "Open"
  /\ owners = << >> /\ records = << >> /\ expected = << >>
  /\ next_token = 1
  /\ global_usage = Zero
  /\ world \in [Spaces -> {[p \in Pages |-> [mapping |-> 1, generation |-> 1, profile |-> f]] : f \in Profiles}]

(* configure_owner *)
ConfigureOwner(o, quota) ==
  /\ state = "Open"
  /\ IF o \in DOMAIN owners
       THEN Admits(quota, owners[o].usage) /\ owners' = [owners EXCEPT ![o].quota = quota]
       ELSE /\ Cardinality(DOMAIN owners) < OwnerCapacity
            /\ owners' = [x \in DOMAIN owners \cup {o} |->
                            IF x = o THEN [quota |-> quota, usage |-> Zero] ELSE owners[x]]
  /\ UNCHANGED <<state, records, next_token, global_usage, world, expected>>

(* remove_owner: refused with OwnerBusy while the owner is charged *)
Removable(o) == o \in DOMAIN owners /\ owners[o].usage = Zero

RemoveOwner(o) ==
  /\ state = "Open" /\ Removable(o)
  /\ owners' = Restrict(owners, DOMAIN owners \ {o})
  /\ UNCHANGED <<state, records, next_token, global_usage, world, expected>>

FencesWhileReserved(r) == r.state = "Reserved"

(* The records that stand for the mapping itself: every reservation, and the
   active pins that did not hand stability to lower owners.  The condition of
   has_clone_blocker, first_mutation_blocker and validate_overlap. *)
Fences(r) == r.state = "Reserved" \/ r.request.duration # "LongTerm"

(* has_clone_blocker *)
HasCloneBlocker == \E t \in DOMAIN records : Fences(records[t])

(* validate_overlap *)
ValidOverlap(request, range, as) ==
  \A t \in DOMAIN records :
    LET r == records[t]
    IN  ~ /\ r.address_space = as /\ Overlaps(r.range, range)
          /\ r.request.access = "Write" \/ request.access = "Write"
          /\ Fences(r)

(* PinRecord when it is reserved; `seen` is a ghost, the pages revalidated *)
Record(request, range, as) ==
  [request |-> request, range |-> range, address_space |-> as,
   validated_until |-> range.start, validated_mappings |-> 0,
   charge |-> ForRange(range), state |-> "Reserved", seen |-> {}]

(* reserve, allocate_token *)
Reserve(request, as) ==
  LET range == Covering(request.range, PageSize)
      charge == ForRange(range)
      o == request.owner
  IN  /\ state = "Open" /\ IsRange(range)
      /\ ValidOverlap(request, range, as)
      /\ o \in DOMAIN owners
      /\ Cardinality(DOMAIN records) < TokenCapacity
      /\ Admits(owners[o].quota, Add(owners[o].usage, charge))
      /\ Admits(GlobalQuota, Add(global_usage, charge))
      /\ next_token <= MaxToken
      /\ next_token' = next_token + 1
      /\ owners' = [owners EXCEPT ![o].usage = Add(@, charge)]
      /\ global_usage' = Add(global_usage, charge)
      /\ records' = [t \in DOMAIN records \cup {next_token} |->
                       IF t = next_token THEN Record(request, range, as) ELSE records[t]]
      /\ expected' = [t \in DOMAIN records' |-> IF t = next_token THEN NoExpected ELSE expected[t]]
      /\ UNCHANGED <<state, world>>

(* What the records of ts are charged together, and a usage without it
   (PinAccounting::checked_sub) *)
ChargesOf(ts) == [k \in DOMAIN Zero |-> MapThenSumSet(LAMBDA t : records[t].charge[k], ts)]
Refund(usage, ts) == [k \in DOMAIN Zero |-> usage[k] - ChargesOf(ts)[k]]

KeepCharge(ts) ==
  /\ records' = Restrict(records, DOMAIN records \ ts)
  /\ UNCHANGED <<owners, global_usage>>

(* remove_record, for each token of ts: the record goes and its charge is
   refunded to its owner and to the registry *)
RemoveRecords(ts) ==
  /\ records' = Restrict(records, DOMAIN records \ ts)
  /\ owners' = [o \in DOMAIN owners |-> [owners[o] EXCEPT !.usage =
                  Refund(@, {t \in ts : records[t].request.owner = o})]]
  /\ global_usage' = Refund(global_usage, ts)

DropTokens(ts) ==
  /\ RemoveRecords(ts)
  /\ expected' = Restrict(expected, DOMAIN records \ ts)

(* The caller captures the VMA under its next page and faults it in; other
   callers run before it revalidates (MappingSnapshot::expected). *)
Capture(t) ==
  /\ t \in DOMAIN records /\ records[t].state = "Reserved"
  /\ records[t].validated_until < records[t].range.end
  /\ expected' = [expected EXCEPT ![t] =
                    ExpectedOf(Snapshot(records[t].address_space, records[t].validated_until))]
  /\ UNCHANGED <<state, owners, records, next_token, global_usage, world>>

(* validate_mapping *)
ValidateMapping(request, covered, current) ==
  LET f == current.profile
      longTerm == request.duration = "LongTerm"
  IN  /\ Contains(current.range, covered)
      /\ request.access \in f.access
      /\ longTerm => f.long_term_pinnable
      /\ request.use = "Dma" => longTerm
      /\ ~ (longTerm /\ request.access = "Write" /\ f.kind = "FileShared" /\ ~f.writable_file_pin_supported)
      /\ longTerm => f.kind \notin {"Device", "Special"}

(* The conditions of revalidate_next on one segment *)
SegmentValid(t, covered, current) ==
  LET r == records[t]
  IN  /\ covered.start = r.validated_until /\ Contains(r.range, covered)
      /\ RevalidateRange(expected[t], current, covered)
      /\ ValidateMapping(r.request, covered, current)

(* revalidate_next: `current` is the VMA under the segment now; a failure
   rolls the reservation back. *)
RevalidateNext(t, covered) ==
  LET r == records[t]
      current == Snapshot(r.address_space, covered.start)
      windows == {<<p, world[r.address_space][p]>> : p \in Pages \cap Bytes(covered)}
  IN  /\ t \in DOMAIN records /\ r.state = "Reserved" /\ expected[t] # NoExpected
      /\ IF SegmentValid(t, covered, current)
           THEN /\ records' = [records EXCEPT ![t] = [r EXCEPT !.validated_until = covered.end,
                                                               !.validated_mappings = @ + 1,
                                                               !.seen = @ \cup windows]]
                /\ expected' = [expected EXCEPT ![t] = NoExpected]
                /\ UNCHANGED <<owners, global_usage>>
           ELSE DropTokens({t})
      /\ UNCHANGED <<state, next_token, world>>

(* commit: the segments revalidated reach the end of the range *)
Committable(r) ==
  r.state = "Reserved" /\ r.validated_until = r.range.end /\ r.validated_mappings # 0

Commit(t) ==
  /\ t \in DOMAIN records /\ Committable(records[t])
  /\ records' = [records EXCEPT ![t].state = "Active"]
  /\ UNCHANGED <<state, owners, next_token, global_usage, world, expected>>

(* cancel_reservation *)
CancelReservation(t) ==
  /\ t \in DOMAIN records /\ records[t].state = "Reserved"
  /\ DropTokens({t})
  /\ UNCHANGED <<state, next_token, world>>

(* release *)
Release(t) ==
  /\ t \in DOMAIN records /\ records[t].state = "Active"
  /\ DropTokens({t})
  /\ UNCHANGED <<state, next_token, world>>

(* begin_close *)
BeginClose ==
  /\ state = "Open"
  /\ state' = "Closing"
  /\ UNCHANGED <<owners, records, next_token, global_usage, world, expected>>

(* begin_teardown: every reservation is rolled back *)
BeginTeardown ==
  /\ state # "Closed"
  /\ state' = "TearingDown"
  /\ DropTokens({t \in DOMAIN records : records[t].state = "Reserved"})
  /\ UNCHANGED <<next_token, world>>

(* finish_teardown *)
FinishTeardown ==
  /\ state \in {"Closing", "TearingDown"} /\ records = << >>
  /\ state' = "Closed"
  /\ UNCHANGED <<owners, records, next_token, global_usage, world, expected>>

(* first_mutation_blocker, admit_mutation *)
AdmitMutation(as, range) ==
  \A t \in DOMAIN records :
    ~ (Fences(records[t]) /\ records[t].address_space = as /\ Overlaps(records[t].range, range))

(* The kernel changes the pages of `range` (mprotect, unmap and map again,
   truncate, ...): an InvalidationRange inside one VMA, admitted first, and a
   new generation for what it changes. *)
Mutate(as, range, f) ==
  LET s == Snapshot(as, range.start)
  IN  /\ Contains(s.range, range)
      /\ AdmitMutation(as, range)
      /\ s.generation < MaxGeneration
      /\ world' = [world EXCEPT ![as] = [p \in Pages |->
                     IF p \in Bytes(range)
                       THEN [mapping |-> s.mapping, generation |-> s.generation + 1, profile |-> f]
                       ELSE world[as][p]]]
      /\ UNCHANGED <<state, owners, records, next_token, global_usage, expected>>

Next ==
  \/ \E o \in Owners, q \in OwnerQuotas : ConfigureOwner(o, q)
  \/ \E o \in Owners : RemoveOwner(o)
  \/ \E q \in Requests, as \in Spaces : Reserve(q, as)
  \/ \E t \in DOMAIN records : Capture(t) \/ Commit(t) \/ CancelReservation(t) \/ Release(t)
  \/ \E t \in DOMAIN records, c \in PageRanges(PageSize) : RevalidateNext(t, c)
  \/ BeginClose \/ BeginTeardown \/ FinishTeardown
  \/ \E as \in Spaces, r \in PageRanges(PageSize), f \in Profiles : Mutate(as, r, f)

Spec == Init /\ [][Next]_pvars

-----------------------------------------------------------------------------
(* Types of the registry's fields. *)
TypeOK ==
  /\ state \in {"Open", "Closing", "TearingDown", "Closed"}
  /\ DOMAIN owners \subseteq Owners /\ DOMAIN expected = DOMAIN records
  /\ DOMAIN records \subseteq 1..MaxToken /\ next_token \in 1..(MaxToken + 1)
  /\ \A t \in DOMAIN records : records[t].state \in {"Reserved", "Active"} /\ t < next_token

(* Usage is exactly the sum of the live records' charges, per owner and for
   the registry, and stays within the quotas, whatever mix of failed
   revalidations, cancellations, releases and teardown ended the others; a
   charged owner is never forgotten. *)
PinBooks ==
  /\ global_usage = ChargesOf(DOMAIN records) /\ Admits(GlobalQuota, global_usage)
  /\ \A t \in DOMAIN records : records[t].request.owner \in DOMAIN owners
  /\ \A o \in DOMAIN owners :
       /\ owners[o].usage = ChargesOf({t \in DOMAIN records : records[t].request.owner = o})
       /\ Admits(owners[o].quota, owners[o].usage)

(* Between its lock windows, and until it ends, a pin that fences its range
   keeps every page it has revalidated exactly as it was then; what it is
   given access to still permits the access. An active pin covers its whole
   range. *)
FenceHolds ==
  \A t \in DOMAIN records :
    LET r == records[t]
        prefix == {p \in Pages : r.range.start <= p /\ p < r.validated_until}
    IN  /\ {w[1] : w \in r.seen} = prefix
        /\ Fences(r) => \A w \in r.seen : world[r.address_space][w[1]] = w[2]
        /\ \A w \in r.seen : r.request.access \in w[2].profile.access
        /\ r.state = "Active" => prefix = Pages \cap Bytes(r.range)

(* Of two live pins of one address space that overlap, one of them a writer,
   the older is an active long-term pin. *)
WritersApart ==
  \A t, u \in DOMAIN records :
    LET r == records[t]
        q == records[u]
    IN  /\ t < u /\ r.address_space = q.address_space /\ Overlaps(r.range, q.range)
        /\ "Write" \in {r.request.access, q.request.access}
        => r.state = "Active" /\ r.request.duration = "LongTerm"

(* A registry that is tearing down has no reservation, a closed one has no
   record, and a fork sees a clone blocker exactly while some range is fenced. *)
TeardownQuiet ==
  /\ state = "TearingDown" => \A t \in DOMAIN records : records[t].state = "Active"
  /\ state = "Closed" => records = << >>
  /\ HasCloneBlocker <=> \E as \in Spaces, p \in Pages : ~AdmitMutation(as, [start |-> p, end |-> p + PageSize])

(* What a pin stands for: it holds its pages, keeps writers apart, and is gone
   when the registry is torn down. *)
PinsHold == FenceHolds /\ WritersApart /\ TeardownQuiet

-----------------------------------------------------------------------------
(* PinBudget *)

BudgetInit == next_identity = 1 /\ budgets = << >> /\ issued = {}

(* The update of allocate_pin_budget_identity *)
NextIdentity(n) == IF n = MaxIdentity THEN 0 ELSE n + 1

(* PinBudget::new *)
NewBudget(first) ==
  /\ next_identity # 0
  /\ next_identity' = NextIdentity(next_identity)
  /\ budgets' = [b \in DOMAIN budgets \cup {next_identity} |->
                   IF b = next_identity
                     THEN [usage |-> Zero, records |-> << >>, next_charge |-> first]
                     ELSE budgets[b]]
  /\ UNCHANGED issued

(* reserve: next_charge is MaxCharge + 1 once the tokens are used up *)
BudgetReserve(b, r) ==
  LET g == budgets[b]
      range == Covering(r, PageSize)
      accounting == ForRange(range)
      usage == [k \in DOMAIN Zero |-> g.usage[k] + accounting[k]]
      t == g.next_charge
  IN  /\ IsRange(range)
      /\ Cardinality(DOMAIN g.records) < ChargeCapacity
      /\ \A k \in DOMAIN Zero : usage[k] <= Quota[k]
      /\ t <= MaxCharge
      /\ budgets' = [budgets EXCEPT ![b] =
           [usage |-> usage, next_charge |-> t + 1,
            records |-> [u \in DOMAIN g.records \cup {t} |->
                           IF u = t THEN accounting ELSE g.records[u]]]]
      /\ issued' = issued \cup {[budget |-> b, token |-> t]}
      /\ UNCHANGED next_identity

(* record_index *)
Owns(b, c) == c.budget = b /\ c.token \in DOMAIN budgets[b].records

(* release, of any charge the caller ever saw, at any budget *)
BudgetRelease(b, c) ==
  LET g == budgets[b]
  IN  /\ Owns(b, c)
      /\ budgets' = [budgets EXCEPT ![b] =
           [@ EXCEPT !.records = Restrict(g.records, DOMAIN g.records \ {c.token}),
                     !.usage = [k \in DOMAIN Zero |-> g.usage[k] - g.records[c.token][k]]]]
      /\ UNCHANGED <<next_identity, issued>>

(* PinBudgetCharge is Copy: a caller may drop its last copy, and the charge
   then stays in its budget *)
BudgetNext ==
  \/ \E first \in 1..MaxCharge : NewBudget(first)
  \/ \E b \in DOMAIN budgets, r \in ByteRanges : BudgetReserve(b, r)
  \/ \E b \in DOMAIN budgets, c \in issued : BudgetRelease(b, c)

BudgetSpec == BudgetInit /\ [][BudgetNext]_bgvars

-----------------------------------------------------------------------------
(* Each budget's usage is the sum of its live charges and within its quota;
   each live charge was handed out exactly by that budget and is the only
   thing that can refund it: no release at another budget, and no second
   release, changes the books. *)
BudgetBooks ==
  \A b \in DOMAIN budgets :
    LET g == budgets[b]
    IN  /\ \A t \in DOMAIN g.records : [budget |-> b, token |-> t] \in issued /\ t < g.next_charge
        /\ \A k \in DOMAIN Zero :
             g.usage[k] = MapThenSumSet(LAMBDA t : g.records[t][k], DOMAIN g.records)
        /\ \A k \in DOMAIN Zero : g.usage[k] \in 0..Quota[k]
        /\ Cardinality(DOMAIN g.records) <= ChargeCapacity

(* A charge ends only when its own caller releases it at its own budget, and
   a charge that ended never comes back. *)
RefundsExact ==
  \A c \in issued :
    LET live(s) == c.budget \in DOMAIN s /\ c.token \in DOMAIN s[c.budget].records
    IN  /\ c.budget \in DOMAIN budgets'
        /\ live(budgets) /\ ~live(budgets') => BudgetRelease(c.budget, c)
        /\ live(budgets') => live(budgets)
=============================================================================
