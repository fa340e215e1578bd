# Verification of thekernel-linux-abi

TLA+ models of the kernel-independent state machines of this repository, the
TLC runs that check them on small instances, and TLAPS proofs that hold for
instances of every size.

The repository is a set of `no_std` crates. Each owns a piece of Linux ABI
state (process trees, descriptor tables, io_uring requests, pending signals,
...) and leaves scheduling, memory and I/O to an embedding kernel. What makes
them hard to test is what a kernel does to them: calls from several CPUs, a
lock dropped between two halves of an operation, prepared tokens that are
committed, dropped or never used, and counters that must balance after each.

`tlc -workers 2 -config <cfg> <module>` runs a check, `tlapm <module>` checks
the proofs of a module whose name ends in `Proofs`. `PROJECT.json` lists runs,
the source lines behind every definition, a mutant for every property, the
hazards and the theorems.

## Inventory

| crate | state | operations | hard behaviour | here |
|---|---|---|---|---|
| process | registry, thread groups, reaper scopes, groups, sessions | thread admission and exit, fork, exit, reparent, reap, setpgid, setsid, walks | exits in several lock sections, counters kept beside trees, walks over a changing tree | modelled; the terminal slot of a session not |
| io-uring | request slots, CQ counters, file and buffer tables | setup, decode, admit, complete, cancel, publish, close, lease, retire | races for the terminal result, counter wrap, close with work in flight, two decodings of one entry | modelled; `enter.rs` not |
| fd | descriptor table, epoll interests and queue, epoll graph, watch accounts, offsets | install, dup, close, fork, close_range, epoll_ctl, epoll_wait, seek, sequential I/O | publication outside the table lock, lost readiness, cycles | modelled; epoll and open file descriptions partly |
| signal | pending queues, accounts, endpoints, dispositions, frames | send, dequeue, requeue, register, retire, sigaction, exec, handler frames | two-phase sends, retries out of order, reused tids, SA_RESETHAND races, the one-record bypass | modelled; register images not |
| mm | pin registry and budgets, fault admission, userfaultfd table | reserve, revalidate, commit, release, teardown, preflight/commit | plans that go stale, fences, saturated revisions | modelled |
| rseq | per-thread registration, events, reservations | prepare/commit/cancel of register, resume, exec, fork | events raised during a resume, commits that cannot fail | modelled |
| seccomp | filter chain, mode, byte budget | append, publish, TSYNC check, teardown | stale snapshots, shared charges | modelled; program execution is a library's |
| packet | binding, options | bind plan and publication, delivery decision | stale plans | modelled |
| cred | credentials, id maps, namespaces | set*id, capset, exec, map publication, authority checks | proposals against an old credential, order of publications | modelled; hook contexts not |
| vfs | mutation transaction, walk budget | prepare, commit, abort, walk, access decisions | failure at every stage | modelled |
| usercopy | none | copies | overflow of address arithmetic, memory that changes between chunks | the zero-terminated load |

The crates do not call one another's state machines; the embedding kernel
composes them. The modules are therefore composed within a crate only: `MmPin`,
`MmUserfaultfd` and `MmFault` extend `MmRange`, `IoUringTables` holds the state
that files and buffers share, and `CredNamespace` publishes the id maps it
composes.

## Conventions

* A step is one critical section, or one atomic read-modify-write outside any
  lock. Where a function drops a lock and takes another, each part is a step,
  and its local variables in between are variables of the model.
* An action is the whole function or section: guards are its early returns; a
  call that returns an error and changes nothing is a stuttering step.
* Definitions and fields keep the names of the source.
* Allocation failure is a nondeterministic choice.
* `Max...` constants bound counters that are unbounded or 64 bits wide in the
  code. Where the code checks for exhaustion, the bound is that check.
* A pure function is an operator. It is checked on every small input against a
  reference definition named `...Exact`, written over sets of bytes, ids or
  pairs without the code's case analysis.
* Where a step changes several fields of one record, the update is written
  `![p] = [f[p] EXCEPT !.a = ..., !.b = ...]` in the modules with proofs: tlapm
  1.4.5 mistranslates two paths through one index, and `@` inside `[@ EXCEPT ...]`.
* Deadlock is not checked: every instance may legitimately stop (all
  generations used, every process reaped, a ring closed).

### Several components in one run

Components of a crate share no state. An MC module EXTENDS the component whose
theorems its run accompanies, so that TLC checks the very formulas that are
proved and evaluates the assumptions they rest on; it declares the variables of
the other components and INSTANCEs them. `part` chooses one component in the
initial state; the variables of the others keep an idle value. The reachable states are the
disjoint union of the instances', not their product. `MCPolicy` has many small
components and declares five slots `s1` to `s5` instead; each INSTANCE says
which variable is in which slot. Run-level properties of
instances have the form `part = "x" => X!P`; the component's module states and
explains each `P`.
Inputs of pure functions are the value of `input`, one initial state each.

Invariants ending in `Inv` or `Books` conjoin type invariants with bookkeeping.

## Modules

| module | models | source |
|---|---|---|
| `ProcessThreads` | thread admission, publication, exit, group exit, exit admission, reap | `process.rs` |
| `ProcessReparent` | fork, scope inits, subreapers, exit in sections, reparenting, reap | `process.rs` |
| `ProcessJobControl` | groups and sessions: creation, moves, counting, removal | `process.rs`, `process_group.rs`, `session.rs` |
| `ProcessCursor` | the budgeted walks over processes and threads, snapshots | `process.rs` |
| `IoUringRequest` | slots with generations, completion credits, CQ publication, cancel, close | `request.rs` |
| `IoUringTables` | registered files and buffers: build, publish, lease, retire | `resource.rs`, `buffer.rs` |
| `IoUringInput` | entry counts, ring layout, queue counters, registration headers; classification and both decodings of a submission entry | `setup.rs`, `registration.rs`, `sqe.rs` |
| `FdTable` | two-phase installation, dup, close, fork, detaching loops | `table.rs` |
| `FdEpoll` | interests, callbacks, ready queue, delivery | `epoll.rs` |
| `FdEpollGraph` | nesting of epoll instances, budgeted walks | `graph.rs` |
| `FdSubscription` | watch accounts, multi-source subscriptions | `subscription.rs` |
| `FdOffset` | the shared offset of an open file description | `ofd.rs` |
| `SignalRecords` | pending set, real-time queues, queue accounts, dequeue and requeue | `pending.rs` |
| `SignalEndpoint` | registration, retirement, two-phase sends, hints, masks, delivery | `api/process.rs`, `api/thread.rs` |
| `SignalActions` | dispositions shared by managers, SA_RESETHAND claims, exec | `api/process.rs` |
| `SignalDelivery` | one thread's delivery passes, the one-record bypass, `observe_signal_wait` | `api/thread.rs` |
| `SignalFrame` | placement of nested frames, what they save and restore | `api/frame.rs`, `api/thread.rs`, `types.rs` |
| `MmRange` | byte and page ranges, relocation, remap, memlock charges | `range.rs`, `plan.rs`, `userfaultfd.rs` |
| `MmPin` | pin reservations, revalidation windows, fences; system budgets | `pin.rs`, `mapping.rs` |
| `MmUserfaultfd` | API negotiation, planned changes of the registration table | `userfaultfd.rs` |
| `MmFault` | admission of delegated faults, late replies, resolver progress | `fault.rs`, `userfaultfd.rs` |
| `UserCopy` | the bounded zero-terminated load, chunk by chunk | `alloc.rs` |
| `Rseq` | two-phase operations on a thread's registration; the restart decision | `thread.rs`, `registration.rs`, `restart.rs`, `abi.rs`, `descriptor.rs` |
| `Seccomp` | installation, TSYNC, teardown and budget; profile, path charge, precedence | `state.rs`, `chain.rs`, `budget.rs`, `bpf.rs`, `action.rs`, `uapi.rs` |
| `Packet` | bind plans, options, delivery, frame views and receive decision | `socket.rs`, `receive.rs`, `options.rs`, `protocol.rs`, `address.rs` |
| `VfsSetattr` | DAC, sticky, hardlink and creation decisions; chmod, chown and content writes as transactions | `dac.rs`, `setattr.rs`, `transaction.rs`, cred `content_write.rs` |
| `VfsWalk` | openat2 policy and walk budgets | `path.rs`, `context.rs` |
| `CredTransition` | set*id, capset, ambient, bounding, securebits, user namespaces, exec | `credential.rs`, `transition.rs`, `exec.rs`, `file_capability.rs` |
| `CredNamespace` | id maps; namespaces, once-only map publication, setgroups | `idmap.rs`, `namespace.rs` |
| `CredAuthority` | capabilities across namespaces, ptrace, signals, scheduler | `security.rs`, `credential.rs` |
| `ProcessThreadsProofs`, `ProcessReparentProofs`, `ProcessJobControlProofs`, `IoUringRequestProofs`, `FdTableProofs`, `SignalProofs`, `MmPinProofs`, `PlanProofs` | proofs about the modules they extend: `SignalProofs` is about `SignalActions` and `SignalEndpoint`, `PlanProofs` about `Rseq` and `Packet` | |
| `MC...` | the instances TLC checks | |


**ProcessThreads.** `reserved`, `live` and `departing` are the nodes of the
threads tree; `memberships` and `live_threads` the counters kept by hand beside
it; `preparing` and `releasing` the CPUs between the domain counter and the
thread group's section. Admission charges the counter before it takes the
group, and a removal refunds it after, so the two never change together:
`ChargesConserved` says what their difference is. `Legacy` holds the processes
on which the older `remove_thread`/`exit_thread` calls are also made.

**ProcessReparent.** Registry, parents and scopes, and for every exit the
cursor and the reaper of its section. An exit moves at most `Batch` children
per topology section, and forks, exits and reaps run in between.

**ProcessCursor.** `nodes` is one intrusive tree, `walk` a cursor on it. A step
takes the lock for one node; the flag of that node is read after the unlock.
`Tree` says which tree it is. A reaped process keeps `published`; a detached
thread loses `live`, and the node of the last thread, which a prepared exit
keeps, is linked again with `live` set when that exit is dropped. Nodes `b` and
`c` have the same id, so an id can be freed and used again under a walk.

**IoUringRequest.** Head and tail wrap modulo `Modulus` (2^32 in the code).
A completion credit is reserved at admission and every terminal path spends
exactly one. Userspace moves the head. `Scan` is the loop of `claim_cancel` over
the slots, which keeps the candidate with the lowest admission sequence; what it
is meant to find is stated apart from it, in `CancelsOldest`. `IoUringInput` is pure: what `io_uring_setup` publishes, and what one copied entry is decoded to, once
for the reservation and once in full.

**FdTable.** A `PreparedPublication` commits with one atomic store outside the
table's section, so detaching loops are modelled descriptor by descriptor.

**FdEpoll.** A callback carries bits that were true when the source computed
them, so it may be late.

**FdEpollGraph.** The explicit-stack walks with their step budget, as recursive
operators, compared with the definitions of cycle, depth and parent count.

**FdOffset.** Sequential I/O of tasks that share a description is made to
overlap, which is what the refusal of a stale start in `commit_io` is for.

**Signal.** `SignalRecords` is one queue with both accounts; `held` is what a
delivery took and may put back, while other consumers take records and
`flush_pending` empties the queue at any time. `SignalEndpoint` abstracts a queue
to a set and keeps the lifecycle: a thread may be registered again under the same
tid, and a record must not cross. A delivery reads the action of its record once
(`ClaimAction`) and goes by it although sigaction may replace it meanwhile. `SignalDelivery` is one thread's passes over its queues:
which record a pass takes, what the callback between dequeue and disposition may
do, and the bypass armed for one exact record. `SignalFrame` has the byte
arithmetic of the code (red zone, alignment, frame size) and nests handlers,
each blocking its own signal and the mask of its action.
Not in them: `real_blocked` and `Drop` of the thread manager.

**Mm.** `MmPin`: `world` is the kernel's mapping state, changed only through
`admit_mutation`; a reservation is revalidated segment by segment in separate
lock windows, and `expected` remembers what each window saw. The registry
(`Spec`) and the system-wide budgets (`BudgetSpec`) are two state machines of one
module, as they are of one source file. `MmUserfaultfd`: a
plan keeps the revision it was made at and is committed after other callers ran.
The batch that `replay_register_delta` emits is submitted by `register_batch` or
`replace_batch`, which check it against the table of that moment and know nothing of
the revision of the replay; `RegisterExact` therefore promises the pages of the batch
always, and every mapped page of the range asked for only if the table did not change
since the replay. Ranges have one page size: where page sizes differ, `contains`
and `overlaps` of the code are false.
`MmFault`: the broker (`FaultPort`) is a trait of the repository implemented by
the kernel, modelled from its contract.

**Rseq.** `held` is the set of linear plans returned and not consumed. Every
finalizing call asserts that its plan matches the reservation of the thread;
`PlansSettle` says the assertions hold.

**Seccomp.** `refs` are the strong counts of the filter nodes. Charging the
budget is a load and a compare-exchange, and the iterative teardown of
`FilterNode::drop` goes one atomic step at a time, so that two threads can take
apart chains with a common ancestor. A program is the sequence of the classes of
instruction the profile tells apart; a filter is what it returns.

**Packet.** A bind is prepared, the device is worked on without a lock, and the
bind is published if the whole binding, generation included, is unchanged.

**Vfs.** `VfsSetattr` runs `MutationTransaction` over an inode that another
writer changes between plan, reservation and commit; every backend call may
fail. Its decisions come first in the module and are checked alone as well.
`VfsWalk` drives policy and budget with a walker over four places; an absolute
link whose restart is refused has been counted as a link.

**Cred.** A transition is derived from one credential and published if the
slot still holds that very object (`fresh`); a tracer may attach in between.
`CredNamespace` composes rows through a parent, looks ids up by bisection, and
resolves a map first and publishes it later, once. `CredAuthority` lets actors
with capabilities in different namespaces, and without any, change the scheduling
of one task call by call; `granted` remembers what those with the authority for a
field gave, and is given up by anyone who lowers the field. `SchedulerBounded`
compares the task with its limits and with `granted`.

**UserCopy.** Chunks stop at page boundaries; a thread changes memory between
two chunks. The provider's read is external.

## Runs

| run | instance | shows |
|---|---|---|
| `process_threads` | 2 processes (one init), 2 thread ids, 2 CPUs, limit 3 | books balance, charges conserved, one exit admission, group exit code sticky, no stranding |
| `process_tree` | 4 processes over 2 scopes with process 3 below subreaper 2, of which 2 and 3 exit; init alone with forks; 2 processes, 3 groups, 2 sessions, 2 CPUs; a cursor over 4 processes and one over 4 threads | no orphans, no cycles, parents told of zombies, adoption in scope, members in live groups, walks ordered and their loss bounded |
| `io_uring` | 2 slots and 2 CQ entries; 1 slot with wrapping counters; 3 files; 2 buffers over 4 addresses; every small setup request, counter pair, header and entry | credits owned, one terminal owner, unread entries intact, quiescent teardown, oldest cancelled, leases honoured, layout apart, both decodings agree |
| `fd` | a 2-slot table; a 1-slot table and its copy; 3 epoll instances twice; 3 watch owners; 2 level sources with 2 waiters; 1 edge or one-shot source with 2 bits; 2 tasks on one offset | tokens backed and stable, loops complete, walk verdicts exact, credits exact, delivery owned, readiness not lost, offset sequential |
| `progress` | 4 processes; a 2-slot ring; a 2-slot file table; 2 sources and 1 waiter | exits, closes and retirements end, queued interests are served |
| `signal` | a thread queue and a shared queue; three endpoint instances; 2 managers and 2 deliveries | bits backed, accounts exact, order kept with one consumer, hints not lost, registrations separate, job control exclusive, one-shot handlers |
| `mm` | 16 addresses for the arithmetic; 3 pin requests over 3 pages of 2 bytes that are remapped; 2 budgets; 2 planners of a 2-entry userfaultfd table over 3 pages in 2 VMAs; 2 faulting tasks with 2 handlers; a load from 16 bytes | books exact, fenced ranges stay as revalidated, registrations apart and always retirable, stale plans and late replies refused, geometry equal to sets of bytes |
| `policy` | the instances of `MCPolicy`, one per component, and every small input of the pure decisions | reservations settled, nothing out of bounds, decisions equal their definitions, old preparations undo nothing, privilege only by rule |
| `reap_before_reparent`, `walk_budget`, `fd_batch_capacity`, `signal_retry_order` | as above | findings, expected to fail |

Why the bounds are enough to be interesting: a limit of 3 memberships refuses
an admission while two threads of one process and one of another exist; a batch
of 2 children forces a second topology section; `Modulus` 4 over a queue of 2
wraps both counters; two generations per slot make a stale identifier meet a
reused slot; a global account of 2 under a user account of 3 is refused after
the user account was charged. A pin request spans a page boundary on both sides
and overlaps the two others; three userfaultfd identities and four revisions run
out, and four revisions leave room for a plan to be committed after another
caller's registration and unregistration; rseq epochs and revisions run out while a plan is held; a filter budget of 4
admits either of two racing filters and not both; ids up to 5 let an extent end
at the invalid id; the alternate stacks hold one frame and two. They are small
all the same: more than two consumers, or three concurrent exits over deeper
trees, are not explored.

Symmetry is used for identities the modules only compare, and not in
`progress`, where it would be unsound for liveness.

### Fairness

Only `progress` assumes any.

* Exits: strong fairness of each committing exit's sections. A committing exit
  runs on its CPU until it returns; that the topology lock does not starve it
  is an assumption on the lock the embedding kernel supplies.
* Ring close: weak fairness of the close calls and of every token holder, which
  the caller retries until Closed; strong fairness of a publication's commit,
  since it may be rolled back and tried again.
* Retirement: weak fairness of the retiring pass and of lease release. A request
  that never ends keeps its table open, in the code as in the model.
* Epoll: the waiter keeps waiting and its copyout ends.

## Proofs

Each theorem holds for every value of the constants its module assumes something
weak about; TLC checks the same formula on the instance of a run. All of them are
invariance or step properties, by one pattern: an inductive invariant, one lemma
per action (or per kind of action), and a temporal step.

| module | theorems | assumptions on the constants |
|---|---|---|
| `ProcessThreadsProofs` | `ThreadsInvCorrect`, `ChargesCorrect`, `ExitCorrect`, `NoStrandingCorrect`, `GroupExitCodeCorrect` | `ThreadsAssumption`: the limit is a number, code 0 is not a recorded exit |
| `ProcessReparentProofs` | `TreeSoundCorrect`, `ZombieKnownToParentCorrect`, `AdoptionInScopeCorrect` | `ReparentAssumption`: process 1 is booted, the batch is not empty |
| `ProcessJobControlProofs` | `JobBooksCorrect`, `MembersHaveLiveGroupCorrect` | `JobControlAssumption`: finite sets with an init in them, a limit above 0 |
| `IoUringRequestProofs` | `OneTerminalOwnerCorrect`, `RingInvCorrect`, `UnreadIntactCorrect`, `CancelTakesOldestCorrect` | `RingAssumption`: the CQ length divides the counter modulus and is below it |
| `FdTableProofs` | `TokensHonouredCorrect`, `DetachCompleteCorrect`, `GenerationsUniqueCorrect` | `FdTableAssumption`: capacity and generation limit are numbers |
| `SignalProofs` | `OneShotExactCorrect`; `HintNotLostCorrect`, `PendingBelongsCorrect`, `RegistryCoherentCorrect` | none for the dispositions; `EndpointAssumption`: the process is no thread, the limits are numbers |
| `MmPinProofs` | `PinsHoldCorrect`, `RefundsExactCorrect` | `PinAssumption`: a page size above 0, requests inside the address space |
| `PlanProofs` | `PlansSettleCorrect`, `ForksInheritCorrect`; `BindNotLostCorrect`, `GenerationCounts` | none |

**ProcessThreads.** The domain limit bounds the threads only because the counter
counts every linked node, every departing node and every CPU between the counter
and the tree, and the hand-kept counters stay right only if the three node sets
are finite and disjoint. `IInv` conjoins the type invariant, finiteness,
disjointness, the counter equations, the conservation of charges, the exclusivity
of the exit token, emptiness of zombies, an owner for each departing node, and
that a CPU is in one call at a time. `LinkNode`, `PublishNode`, `UnlinkNode`,
`DetachNode` and `RestoreNode` say what a change of the tree does to the counters;
the `...Step` lemmas cite them.

**ProcessReparent.** That an exit leaves no child behind is a statement about its last
section; what makes it inductive is `CursorOK`: the children a walking exit still has
are the deferred one or lie between its cursor and the bound it captured once it was a
zombie, since nothing forks or moves a child to a process that is no longer live.
Acyclicity needs no induction over the ancestry: `RankOK` says there is an order of
creation in which parents, and the inits of scopes, come first. `SelectReaper` walks up
that order, so what it returns is older than the child (`AdoptionResult`), and a set of
processes closed under parents would have no oldest member (`OrderExcludesCycles`).
`PhaseOK` ties the phase of an exit to its locals and to the topology lock, `TreeOK`
says which processes have a parent and which scope a live init.

**ProcessJobControl.** A group's counter is decremented outside every lock and the
group is removed later, so `JobBooks` counts members, reservations in flight and
releases still to come. It is inductive together with what publication means
(`Published`), what a call may rely on at its next lock (`CallsOK`), and what a fork
may rely on that took its snapshot of a group earlier (`SnapshotsOK`): a group that
is linked and was once published still is. `Gain` and `Loss` carry the
cardinalities.

**IoUringRequest.** `OneTerminalOwner` counts the linear tokens of a slot. The
count is replaced by three facts: every linear token meets the state it was handed
out in, which makes its generation the current one (`AllBacked`); no two tokens
are for one request (`Exclusive`); a request that no executor holds has one
(`Owned`). A method changes one slot and at most one token, so `Hands` proves the
invariant once for a step of that shape. `Books` adds the credits, the free stack
and the completion queue, with two facts of their own: the adapter has written a
plan's completion to the slot the plan names, and a draining table holds completions
only. The wrap-around is in four lemmas: `Remainder` and `RemainderUnique`,
`Distance` (a wrapping subtraction finds how far one counter is ahead of another)
and `AheadSlot` (the slot at the tail is none of an unread completion's, because the
CQ length divides the modulus). `CancelTakesOldest` is about a loop over the slots
whose result is compared with all of them. `Sequenced` says that the sequences of
occupied slots are distinct numbers below the next one. `ScanBest` is the loop's
invariant, that after any number of slots the candidate is the oldest selected one
among them; it is proved by a least counterexample (`LeastOf`) in place of an
induction, from one round of the loop (`RoundBest`).

**FdTable.** A commit or a drop of a prepared publication stores into its slot under
no lock, also while a detaching loop walks the table. `IInv` has tokens backed in both
directions, generations apart, descriptor tokens faithful to what they were issued
for, and, for a loop, that everything due is detached or still ahead of the cursor as
it was when the loop began. Almost every method stores into one slot: `StoreInv`
proves that shape, `CosmeticInv` the one that keeps every slot's state. `fork_copy`
renumbers generations by rank; `CopyGenerations` shows the ranks distinct and within
the limit, by the pigeonhole principle.

**SignalActions.** A delivery that finishes could consume a handler it has not
claimed, or take the claim of another with it. `IInv` adds that a delivery with
the current generation is the one the table records, that no two deliveries hold
one claim, and that a one-shot handler still in the table has not run.

**SignalEndpoint.** A send is prepared in one section and published in another, a
thread may be retired and registered again in between, and a delivery may hold a record
meanwhile. `EIInv` adds that an admitted endpoint is registered under an entry in the
same state (`RegisteredOK`), that a delivery holds its endpoint's registration and what
it took from the private queue was sent to that one (`DeliveringOK`), and that a private
queue with a record belongs to an admitted endpoint (`HoldersAdmitted`), which is why the
effects of SIGCONT and of stop signals reach every queue that matters. The registry's
limit rests on `LiveOK`: every live entry is the one its endpoint names.

**MmPin.** `FenceHolds` speaks of the pages a pin has seen. What makes it inductive is
that these are always a prefix of the pin's range that ends where the next window
starts (`Covered`), that mutations are admitted only outside fenced ranges, and that
a window in which the mapping is one segment sees the same mapping on each page of it
(`SnapshotUniform`). Coverings of byte ranges are page ranges by the arithmetic of
aligned addresses, proved once for any page size (`MultiplesApart`,
`CoveringIsPageRange`). For the budgets, `BudgetInv` says that identities are drawn
in order and not again, and that a budget's next charge is above all it handed out.

**Rseq.** `PlansSettle` says what a finalizing call finds in the one field it
looks at. That no other call was admitted in between depends on the other three
reservation fields; `Slots` gives all four for a thread with a plan and says that a
thread without one is idle. A forked child's plan is also compared with its parent
for as long as it is outstanding (`Inherits`), which is why events may not be
raised on a forking thread.

**Packet.** That a plan which matches the live binding was made after the last
rebind follows from the generation counting the rebinds, for the binding and for
every outstanding plan.

Model-checked only, and why:

* Liveness (`progress`): fairness is outside the prover's reach.
* Sums over sets: the pin and budget usage in `MmBooks`, the watch credits in
  `FdInv`, the filter bytes in `Confined`. They are folds, and the provers have no
  induction over data.
* The walks of `FdEpollGraph`, which are recursive operators.
* Real-time order and the accounts of `SignalRecords`: statements about sequences
  that are filtered and spliced.
* The `...Exact` checks of pure decisions: TLC evaluates them on every small input.
* The components without a proof module: cursors, the registered tables, epoll,
  frames, faults, credentials, seccomp and vfs.

## Findings

* `reap_before_reparent`: a comment (`process.rs:768`) says final exit reparents
  children before reap. A zombie can be reaped between its publication and the
  reparent sections, and a published child then names an unregistered parent.
* `walk_budget`: `for_each_thread` is documented to visit every live thread, and
  `try_processes` to snapshot every published process (`process.rs:2116`, `386`).
  A walk visits as many nodes as there were when it began; a node linked ahead of
  the cursor uses up a visit and a node that was there throughout is left out. The
  comment at `process.rs:366` gives this as the reason for the exit's own cursor.
  `WalkBounded` is what does hold: order, no repetition, and a loss no larger than
  the number of nodes linked meanwhile.
* `fd_batch_capacity`: `close_range` is documented to prove batch capacity first.
  A publication committed between the count and the loop makes the loop push more
  than was admitted.
* `signal_retry_order`: a retry is documented to keep real-time FIFO order. Two
  threads holding two instances of one process-directed signal can put them back
  in reverse order. With one consumer the order is kept (`SignalInv`).

### Notes on the code

Observations without a run of their own:

* Two scope-init admissions prepared for one scope both pass the check, and the
  second commit meets the assertion in `bind` (`process.rs:2238`).
* A thread token of an unpublished process has a `commit_infallible` that the
  model lets run before the process is published, against the comment at
  `process.rs:2287`.
* `flush_pending` (signal `api/process.rs:1165`, `api/thread.rs:1954`) resets the
  publication epochs through `take_all`. A fallback record that a delivery took
  before, and that a later node superseded, is then put back as a pending bit
  although the comment at `pending.rs:464` says that such a bit is not resurrected:
  take the fallback, publish a node, flush, put the fallback back. The model tells
  this case apart (`last` is "revived"); `FallbackNotResurrected` says it is the only
  way a superseded fallback returns.
* The signal crate takes the mask of a `SignalAction` as it is; that SIGKILL and
  SIGSTOP are not in it is left to the caller, and assumed by `SignalFrame`.
* In `validate_pkru_for_rt_sigreturn` the refusal `PkruNotEnabled` cannot be
  reached: a frame with a component outside the allowed ones is refused before.

## Further hazards

Not in the list of `PROJECT.json`, in brief. Those with properties are checked.

* `process/src/process.rs:2287`: commit_infallible publishes a thread through a
  token captured earlier; the process may have changed state since.
  (ExitTokenExclusive, ChargesConserved)
* `process/src/process.rs:2136`: group_exit is called by several threads and
  after an ordinary exit recorded a code. (GroupExitCodeSticky)
* `process/src/process.rs:2238`: two scope-init admissions prepared for one
  scope both pass the check before either commits. (open)
* `process/src/process.rs:1251`: a setsid, setpgid or move that loses its
  re-check under the topology lock must return the membership it reserved and
  drop the unpublished group and session. (JobBooks)
* `process/src/process.rs:622`: a fork snapshots the parent's group before it
  takes the registry lock; the group may have been emptied since.
  (MembersHaveLiveGroup)
* `process/src/process.rs:48`: membership counters at their limit. (JobBooks)
* `io-uring/src/request.rs:989`: a request id is used after its slot was cleared
  and reused; only the generation tells the two apart. (OneTerminalOwner)
* `io-uring/src/request.rs:1037`: a slot whose generation is exhausted must be
  retired, never put back on the free stack. (RingInv)
* `io-uring/src/request.rs:798`: a CQE is written and its tail stored outside
  the registry lock. (UnreadIntact, OneTerminalOwner)
* `io-uring/src/request.rs:905`: draining starts while an executor, a permit or a
  publication is outstanding. (OneTerminalOwner)
* `fd/src/table.rs:388`: generation exhaustion must fail before a slot is taken.
  (FdInv)
* `fd/src/epoll.rs:733`: copyout of an event faults after the event was taken
  from the queue. (ReadinessNotLost)
* `fd/src/epoll.rs:313`: the ready ring has one slot per interest; a stale record
  left by modify or remove would make it overflow. (FdInv)
* `fd/src/epoll.rs:439`: an exhausted delivery serial leaves the head of the
  queue in place for ever. (open)
* `fd/src/graph.rs:273`: one walk budget is shared by three walks and may run out
  in any of them. (FdInv)
* `fd/src/graph.rs:444`: edge and node tokens are kept after removal while their
  slots are reused. (FdInv)
* `fd/src/subscription.rs:219`: a source refuses to arm, or an owner is dropped,
  after some of its sources are armed. (FdInv)
* `fd/src/ofd.rs`: two tasks commit I/O that started at the same offset. (FdInv)
* `signal/src/pending.rs:468`: a fallback bit held by a delivery is put back
  after a node of the same signal was published and consumed. (SignalInv)
* `signal/src/api/process.rs:1165`: take_all resets the publication epochs while
  a delivery may hold a fallback that carries an old epoch. (SignalInv, up to the
  case in the notes above)
* `signal/src/api/process.rs:987`: the process endpoint is retired while a
  thread holds a record of its queue. (PendingBelongs)
* `mm/src/pin.rs:1057`: the record is taken out before its owner is looked up and
  before the two subtractions. (MmBooks)
* `usercopy/src/alloc.rs`: memory changes between two chunks of one load, and a
  chunk ends at a page the provider refuses. (GeometryExact)

## Not modelled

* io-uring `enter.rs`, `mapping_region`, feature bits: comparisons of arguments
  with constants, without state.
* The terminal slot of a session, the status word and async owner of an open file
  description: single fields written under one lock.
* Byte layouts and machine contexts: siginfo and ucontext encoding, x86_64 register
  and floating-point images, PKRU validation, byte decoding of
  `security.capability`, the rseq and io_uring structures. They are conversions
  with no state; a model would restate them.
* Execution and verification of classic BPF, which the axcbpf library does.
* The typed contexts of `cred/security.rs` and of its key, mmap and socket
  counterparts: records handed to hooks of the embedding kernel.
* `real_blocked` and the destruction of a signal manager by its last Arc.
* Removal receipts of `cred/content_write.rs`, flag decoders of userfaultfd
  ioctls, packet statistics, getters and `Display` implementations.
* `rescan_ready` of epoll: a full ready queue is shown unreachable.
* The embedding kernel: locks are mutual exclusion, memory may run out, and a
  backend, broker or provider does what its trait documents and may fail.

## Plan

1. Abstract specifications with refinement: a ring as a bag of completions, a
   descriptor table as a partial function, a pending queue as a FIFO.
2. Proofs for the leases of `IoUringTables` and the once-only maps of
   `CredNamespace`.
3. Three consumers of a shared pending queue, and three concurrent exits.
