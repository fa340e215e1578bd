---------------------------- MODULE MmUserfaultfd ----------------------------
(***************************************************************************)
(* API negotiation and the registration table of                           *)
(* crates/mm/src/userfaultfd.rs.  A change of the table is first planned   *)
(* (a preflight that copies nothing but counters and the revision it saw)  *)
(* and committed later, after the caller has reserved storage or changed   *)
(* its mappings; other callers run in between.  The register ioctl plans a *)
(* canonical delta, replays it into caller-owned storage and submits that  *)
(* as a batch.                                                             *)
(*                                                                         *)
(* Addresses are whole pages, and mode is left out: MISSING is the only    *)
(* one UffdRegisterMode::from_bits builds.  The mappings are the embedding *)
(* kernel's; `vmas` is what it would pass as snapshots now.                *)
(***************************************************************************)
EXTENDS MmRange, FiniteSetsExt, Functions, Sequences

CONSTANTS
  Agents,          \* threads with a planned change in hand
  Handlers, Capacity,
  MaxId,           \* NonZeroU64::MAX of the registration identities
  MaxRevision,     \* u64::MAX of the revision
  MaxGeneration,   \* bound on mapping generations
  Batches,         \* request batches handed to register
  Intents,         \* [handler, range] of UFFDIO_REGISTER
  InitVmas

VARIABLES
  api,             \* UffdApiLifecycle
  records,         \* live id -> UffdRegistrationRequest
  next_id,         \* MaxId + 1 once exhausted
  revision,
  plans,           \* agent -> what it holds: a negotiation, a plan, a delta
  vmas             \* sequence of [address_space, mapping, generation, range, kind]

uvars == <<api, records, next_id, revision, plans, vmas>>

Idle == [stage |-> "Idle"]
Live == DOMAIN records
SeqSet(s) == {s[i] : i \in 1..Len(s)}
AsSeq(S) == CHOOSE s \in [1..Cardinality(S) -> S] : IsInjective(s)

Init ==
  /\ api = "Created" /\ records = << >> /\ next_id = 1 /\ revision = 1
  /\ plans = [a \in Agents |-> Idle]
  /\ vmas = InitVmas

-----------------------------------------------------------------------------
(* UffdFeatures::AVAILABLE: every feature of the ABI is known, none offered.
   UffdApiRequest::from_raw, UffdIoctls::API_PROFILE *)
AvailableFeatures == {}
ApiAccepts(version, features) == version = "UFFD_API" /\ features \subseteq AvailableFeatures

(* UffdRegisterMode::from_bits *)
ModeAccepts(bits) == bits = {"MISSING"}

(* UffdApiState::prepare, prepare_raw: validates and changes nothing.  The
   response is copied to userspace before commit. *)
PrepareApi(a, version, features) ==
  /\ plans[a] = Idle /\ api = "Created" /\ ApiAccepts(version, features)
  /\ plans' = [plans EXCEPT ![a] = [stage |-> "Api"]]
  /\ UNCHANGED <<api, records, next_id, revision, vmas>>

(* UffdApiState::commit: the loser of two negotiations is refused *)
CommitApi(a) ==
  /\ plans[a].stage = "Api" /\ api = "Created"
  /\ api' = "Initialized"
  /\ plans' = [plans EXCEPT ![a] = Idle]
  /\ UNCHANGED <<records, next_id, revision, vmas>>

-----------------------------------------------------------------------------
(* UffdRegistrationRequest::new *)
RequestOf(h, v, range) ==
  [handler |-> h, address_space |-> v.address_space, mapping |-> v.mapping,
   generation |-> v.generation, range |-> range]

(* UffdRegistration::revalidate *)
Revalidates(r, v) ==
  /\ r.address_space = v.address_space /\ r.mapping = v.mapping /\ r.generation = v.generation
  /\ v.kind = "AnonymousPrivate"
  /\ Contains(v.range, r.range)

OwnerOf(r) == <<r.handler, r.address_space>>

(* A live record that keeps a request from being published: it overlaps the
   request and is not the request itself (MmError::Busy, UffdRegistrationOverlap) *)
Clashes(r, q) ==
  r # q /\ r.address_space = q.address_space /\ Overlaps(r.range, q.range)

(* plan_request_changes: the checks it makes before counting *)
PlanValid(removed, requests, singleOwner) ==
  LET qs == SeqSet(requests)
      gone == SeqSet(removed)
  IN  /\ removed # << >> \/ requests # << >>
      /\ IsInjective(removed) /\ gone \subseteq Live
      /\ singleOwner => Cardinality({OwnerOf(records[i]) : i \in gone} \cup {OwnerOf(q) : q \in qs}) = 1
      /\ \A p, q \in qs : p = q \/ ~Overlaps(p.range, q.range)
      /\ \A i \in Live \ gone, q \in qs : ~Clashes(records[i], q)

(* advance_registration_ids *)
AdvanceIds(n) == next_id + n

(* plan_request_changes, with the plan it returns *)
PlanOf(removed, requests) ==
  LET retained == {records[i] : i \in Live \ SeqSet(removed)}
      published == Cardinality(SeqSet(requests) \ retained)
  IN  [revision |-> revision, removed |-> Len(removed), published |-> published,
       reused |-> Cardinality(SeqSet(requests) \cap retained),
       next_id_after |-> AdvanceIds(published)]

PlanFits(p) ==
  /\ Cardinality(Live) - p.removed + p.published <= Capacity
  /\ p.next_id_after <= MaxId + 1
  /\ p.published # 0 => revision # MaxRevision

Plannable(removed, requests, singleOwner) ==
  PlanValid(removed, requests, singleOwner) /\ PlanFits(PlanOf(removed, requests))

(* validate_mapping_replacements: each request keeps the owner of the removed
   registration it names as its source *)
SourcesValid(removed, requests, sources) ==
  /\ removed # << >> /\ SeqSet(removed) \subseteq Live
  /\ Cardinality({records[i].address_space : i \in SeqSet(removed)}) = 1
  /\ \A k \in 1..Len(requests) :
       sources[k] \in SeqSet(removed) /\ OwnerOf(records[sources[k]]) = OwnerOf(requests[k])

(* The conditions of preflight_register, preflight_replace and
   preflight_mapping_replace, repeated by their commits *)
OpValid(op) ==
  CASE op.kind = "register" -> api = "Initialized" /\ op.requests # << >> /\ Plannable(<< >>, op.requests, TRUE)
    [] op.kind = "replace"  -> api = "Initialized" /\ op.removed # << >> /\ Plannable(op.removed, op.requests, TRUE)
    [] op.kind = "mapping"  -> /\ SourcesValid(op.removed, op.requests, op.sources)
                               /\ Plannable(op.removed, op.requests, FALSE)

Preflight(a, op) ==
  /\ plans[a] = Idle /\ OpValid(op)
  /\ plans' = [plans EXCEPT ![a] = [stage |-> "Planned", op |-> op, base |-> records,
                                    plan |-> PlanOf(op.removed, op.requests)]]
  /\ UNCHANGED <<api, records, next_id, revision, vmas>>

(* The mutation of commit_request_changes: removals, then one new identity
   for each request that is not already there *)
Apply(removed, requests) ==
  LET kept == Restrict(records, Live \ SeqSet(removed))
      Fresh(k) == requests[k] \notin {kept[i] : i \in DOMAIN kept}
                    /\ \A j \in 1..(k - 1) : requests[j] # requests[k]
      IdOf(k) == next_id + Cardinality({j \in 1..(k - 1) : Fresh(j)})
      new == {k \in 1..Len(requests) : Fresh(k)}
  IN  /\ records' = [i \in DOMAIN kept \cup {IdOf(k) : k \in new} |->
                       IF i \in DOMAIN kept THEN kept[i]
                       ELSE requests[CHOOSE k \in new : IdOf(k) = i]]
      /\ next_id' = PlanOf(removed, requests).next_id_after
      /\ revision' = IF (removed # << >> \/ new # {}) /\ revision # MaxRevision
                       THEN revision + 1 ELSE revision

SealHoldsByCounts(p) == [PlanOf(p.op.removed, p.op.requests) EXCEPT !.revision = 0] = [p.plan EXCEPT !.revision = 0]

(* The seal of a plan: same revision, and the plan computed anew is equal *)
SealHolds(p) == revision = p.plan.revision /\ PlanOf(p.op.removed, p.op.requests) = p.plan

(* The gate on the API lifecycle is in the preflight only *)
StillValid(op) ==
  /\ op.kind = "mapping" => SourcesValid(op.removed, op.requests, op.sources)
  /\ Plannable(op.removed, op.requests, op.kind # "mapping")

(* commit_register, commit_replace, commit_mapping_replace *)
CommitPlan(a) ==
  /\ plans[a].stage = "Planned"
  /\ SealHolds(plans[a]) /\ StillValid(plans[a].op)
  /\ Apply(plans[a].op.removed, plans[a].op.requests)
  /\ plans' = [plans EXCEPT ![a] = Idle]
  /\ UNCHANGED <<api, vmas>>

(* A plan, a negotiation or a replayed delta that its holder gives up, or
   whose commit was refused *)
Discard(a) ==
  /\ plans[a] # Idle
  /\ plans' = [plans EXCEPT ![a] = Idle]
  /\ UNCHANGED <<api, records, next_id, revision, vmas>>

-----------------------------------------------------------------------------
(* registration_folds_into, without its error *)
FoldsInto(h, v, desired, r) ==
  /\ r.address_space = v.address_space /\ r.handler = h
  /\ Touch(r.range, desired) /\ Overlaps(r.range, v.range)

Folded(h, v, desired) == {i \in Live : FoldsInto(h, v, desired, records[i])}

Hull(r, rs) == [start |-> Min({r.start} \cup {q.start : q \in rs}),
                end |-> Max({r.end} \cup {q.end : q \in rs})]

(* The loop of canonical_register_delta: every pass folds what touches; as
   many passes as there are records reach the fixpoint. *)
Desired(h, v, target) ==
  LET Grown[n \in 0..Capacity] ==
        IF n = 0 THEN target
        ELSE Hull(Grown[n - 1], {records[i].range : i \in Folded(h, v, Grown[n - 1])})
  IN  Grown[Capacity]

(* canonical_register_delta for one VMA: ok, the interval wanted, the records
   it absorbs, and whether the table has it already *)
CanonicalDelta(intent, v) ==
  LET target == Intersection(intent.range, v.range)
      owners == {i \in Live : records[i].address_space = v.address_space /\ Overlaps(records[i].range, target)}
      range == Desired(intent.handler, v, target)
      folded == Folded(intent.handler, v, range)
      desired == RequestOf(intent.handler, v, range)
  IN  [ok |-> /\ IsRange(target)
              /\ \A i \in owners : Revalidates(records[i], v) /\ records[i].handler = intent.handler
              /\ \A i \in folded : Revalidates(records[i], v)
              /\ v.kind = "AnonymousPrivate" /\ Contains(v.range, range),
       desired |-> desired, folded |-> folded,
       no_op |-> Cardinality(folded) = 1 /\ \E i \in folded : records[i] = desired]

(* What the adapter passes: the VMAs that meet the range, in address order *)
VmasIn(range) == SelectSeq(vmas, LAMBDA v : Overlaps(v.range, range))

(* validate_vma_profile, also the whole of validate_unregister_vmas *)
VmaProfile(range, vs) ==
  /\ vs # << >>
  /\ \A k \in 1..Len(vs) : vs[k].address_space = vs[1].address_space /\ vs[k].kind = "AnonymousPrivate"

(* plan_register_delta: which VMAs change, and the batch a replay emits *)
DeltaChanges(intent) ==
  SelectSeq(VmasIn(intent.range), LAMBDA v : ~CanonicalDelta(intent, v).no_op)

DeltaRemoved(intent) ==
  UNION {CanonicalDelta(intent, v).folded : v \in SeqSet(DeltaChanges(intent))}

DeltaPlan(intent) ==
  [revision |-> revision, removed |-> Cardinality(DeltaRemoved(intent)),
   replacements |-> Len(DeltaChanges(intent)),
   next_id_after |-> AdvanceIds(Len(DeltaChanges(intent)))]

DeltaValid(intent) ==
  LET p == DeltaPlan(intent)
  IN  /\ VmaProfile(intent.range, VmasIn(intent.range))
      /\ \A v \in SeqSet(VmasIn(intent.range)) : CanonicalDelta(intent, v).ok
      /\ Cardinality(Live) - p.removed + p.replacements <= Capacity
      /\ p.next_id_after <= MaxId + 1
      /\ p.replacements # 0 => revision # MaxRevision

(* preflight_register_delta *)
PreflightDelta(a, intent, mode) ==
  /\ plans[a] = Idle /\ ModeAccepts(mode) /\ api = "Initialized"
  /\ DeltaValid(intent)
  /\ plans' = [plans EXCEPT ![a] = [stage |-> "Delta", intent |-> intent, plan |-> DeltaPlan(intent)]]
  /\ UNCHANGED <<api, records, next_id, revision, vmas>>

(* replay_register_delta into storage of the planned size; a no-op ends here *)
ReplayDelta(a) ==
  LET intent == plans[a].intent
      changes == DeltaChanges(intent)
      removed == DeltaRemoved(intent)
      op == [kind |-> IF removed = {} THEN "register" ELSE "replace", sources |-> << >>,
             removed |-> AsSeq(removed),
             requests |-> [k \in 1..Len(changes) |-> CanonicalDelta(intent, changes[k]).desired]]
  IN  /\ plans[a].stage = "Delta"
      /\ revision = plans[a].plan.revision /\ DeltaValid(intent) /\ DeltaPlan(intent) = plans[a].plan
      /\ plans' = [plans EXCEPT ![a] = IF changes = << >> THEN Idle
                     ELSE [stage |-> "Batch", op |-> op, intent |-> intent, revision |-> revision]]
      /\ UNCHANGED <<api, records, next_id, revision, vmas>>

(* register_batch, replace_batch: preflight and commit in one call *)
SubmitBatch(a) ==
  /\ plans[a].stage = "Batch" /\ OpValid(plans[a].op)
  /\ Apply(plans[a].op.removed, plans[a].op.requests)
  /\ plans' = [plans EXCEPT ![a] = Idle]
  /\ UNCHANGED <<api, vmas>>

-----------------------------------------------------------------------------
(* saturating_add(1) *)
Bump == IF revision = MaxRevision THEN revision ELSE revision + 1

(* unregister, detach_handler: the table changes at once *)
Retire(gone) ==
  /\ gone # {}
  /\ records' = Restrict(records, Live \ gone)
  /\ revision' = Bump
  /\ UNCHANGED <<api, next_id, plans, vmas>>

Unregister(i) == i \in Live /\ Retire({i})
DetachHandler(h) == Retire({i \in Live : records[i].handler = h})

(* The kernel replaces the logical mapping behind a VMA, or makes it one that
   userfaultfd does not serve *)
ReplaceVma(k, kind) ==
  /\ vmas[k].generation < MaxGeneration
  /\ vmas' = [vmas EXCEPT ![k].generation = @ + 1, ![k].kind = kind]
  /\ UNCHANGED <<api, records, next_id, revision, plans>>

(* tail_extension_replacement, head_extension_replacement *)
Extensions(r, v) ==
  {[r EXCEPT !.range = n] : n \in {m \in AllRanges :
     /\ Contains(v.range, m)
     /\ \/ m.start = r.range.start /\ m.end > r.range.end
        \/ m.end = r.range.end /\ m.start < r.range.start}}

(* refreshed_fragment: keeps the epoch of r, not the VMA's *)
Fragments(r, v) == {[r EXCEPT !.range = m] : m \in {n \in AllRanges : Contains(v.range, n)}}

(* canonical_union of two ordered fragments of one VMA *)
Unions(r, q, v) ==
  IF /\ OwnerOf(r) = OwnerOf(q) /\ r.generation = q.generation /\ r.mapping = q.mapping
     /\ r.range.end = q.range.start /\ Contains(v.range, r.range) /\ Contains(v.range, q.range)
    THEN {[r EXCEPT !.range.end = q.range.end]} ELSE {}

(* What a mapping hook asks for: removal, growth or refresh of a registration,
   its split at an address, or the merge of two, inside a VMA that is still
   their logical mapping *)
MappingOps ==
  LET Op(removed, requests, sources) ==
        [kind |-> "mapping", removed |-> removed, requests |-> requests, sources |-> sources]
      Homes(i) == {v \in SeqSet(vmas) : /\ v.mapping = records[i].mapping
                                        /\ v.address_space = records[i].address_space
                                        /\ v.kind = "AnonymousPrivate"}
      Moved(i) == UNION {Extensions(records[i], v) \cup Fragments(records[i], v) : v \in Homes(i)}
      Cuts(i) == (records[i].range.start + 1)..(records[i].range.end - 1)
      Merged(i, j) == UNION {Unions(records[i], records[j], v) : v \in Homes(i)}
  IN  UNION {   {Op(<<i>>, << >>, << >>)}
           \cup {Op(<<i>>, <<q>>, <<i>>) : q \in Moved(i)}
           \cup {Op(<<i>>, <<[records[i] EXCEPT !.range.end = c], [records[i] EXCEPT !.range.start = c]>>,
                    <<i, i>>) : c \in Cuts(i)}
           \cup UNION {{Op(<<i, j>>, <<q>>, <<i>>) : q \in Merged(i, j)} : j \in Live} : i \in Live}

(* A refresh asked for by the owner: same interval, the generation of now *)
ReplaceOps ==
  UNION {{[kind |-> "replace", removed |-> <<i>>, sources |-> << >>,
           requests |-> <<RequestOf(records[i].handler, v, records[i].range)>>] :
             v \in {w \in SeqSet(vmas) : Contains(w.range, records[i].range)}} : i \in Live}

RegisterOps ==
  {[kind |-> "register", removed |-> << >>, requests |-> b, sources |-> << >>] : b \in Batches}

Next ==
  \/ \E a \in Agents : \/ \E features \in SUBSET {"EVENT_FORK"} : PrepareApi(a, "UFFD_API", features)
                       \/ CommitApi(a) \/ CommitPlan(a) \/ Discard(a)
                       \/ ReplayDelta(a) \/ SubmitBatch(a)
                       \/ \E op \in RegisterOps \cup ReplaceOps \cup MappingOps : Preflight(a, op)
                       \/ \E intent \in Intents : PreflightDelta(a, intent, {"MISSING"})
  \/ \E i \in Live : Unregister(i)
  \/ \E h \in Handlers : DetachHandler(h)
  \/ \E k \in 1..Len(vmas), kind \in {"AnonymousPrivate", "FileShared"} : ReplaceVma(k, kind)

Spec == Init /\ [][Next]_uvars

-----------------------------------------------------------------------------
(* Types of the table's fields. *)
TypeOK ==
  /\ api \in {"Created", "Initialized"} /\ Live \subseteq 1..MaxId /\ Cardinality(Live) <= Capacity
  /\ next_id \in 1..(MaxId + 1) /\ revision \in 1..MaxRevision
  /\ \A a \in Agents : plans[a].stage \in {"Idle", "Api", "Planned", "Delta", "Batch"}

(* No page of an address space belongs to two registrations, whatever plans,
   deltas and mapping transactions interleaved; identities are never reused,
   and nothing is registered before the API is negotiated. *)
IntervalsApart ==
  /\ \A i, j \in Live : i # j /\ records[i].address_space = records[j].address_space
                         => Bytes(records[i].range) \cap Bytes(records[j].range) = {}
  /\ \A i \in Live : i < next_id
  /\ Live # {} => api = "Initialized"

(* A plan that publishes a registration commits on exactly the table it was
   planned on: any change in between, even one undone since, refuses it. *)
CommitsOnPlannedTable ==
  \A a \in Agents :
    (plans[a].stage = "Planned" /\ CommitPlan(a) /\ plans[a].plan.published # 0)
      => records = plans[a].base

Owner(rs, as, p) ==
  {rs[i].handler : i \in {j \in DOMAIN rs : rs[j].address_space = as /\ ContainsAddress(rs[j].range, p)}}

(* A batch that a register ioctl submits gives its handler every page of the
   batch, changes the owner of no other page and takes none from another
   handler.  The revision of the replay does not seal the batch, so the batch
   may have lost its fit; but if the table did not change since the replay, the
   handler holds every mapped page of the range it asked for, those of the VMAs
   the replay found registered already included, and holds each run of pages of
   a VMA as one interval. *)
RegisterExact ==
  \A a \in Agents :
    (plans[a].stage = "Batch" /\ SubmitBatch(a)) =>
      LET qs == SeqSet(plans[a].op.requests)
          h == plans[a].intent.handler
          as == vmas[1].address_space
          granted == UNION {Bytes(q.range) : q \in qs}
      IN  /\ \A p \in Addresses :
               Owner(records', as, p) = IF p \in granted THEN {h} ELSE Owner(records, as, p)
          /\ \A p \in granted : Owner(records, as, p) \subseteq {h}
          /\ revision = plans[a].revision =>
               \A p \in Bytes(plans[a].intent.range) :
                 (\E v \in SeqSet(vmas) : ContainsAddress(v.range, p)) => Owner(records', as, p) = {h}
          /\ revision = plans[a].revision =>
               \A i, j \in DOMAIN records' :
                 (i # j /\ records'[i] \in qs /\ records'[j].handler = h
                    /\ Touch(records'[i].range, records'[j].range))
                 => records'[i].mapping # records'[j].mapping

(* Retirement is never blocked: whatever the revision and the identities have
   come to, the removal of any live registration can be planned and, if the
   table does not change, committed. *)
RetirementPossible ==
  \A i \in Live : OpValid([kind |-> "mapping", removed |-> <<i>>, requests |-> << >>, sources |-> << >>])
=============================================================================
