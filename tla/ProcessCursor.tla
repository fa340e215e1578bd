---------------------------- MODULE ProcessCursor ----------------------------
(***************************************************************************)
(* Walks over the registry of processes and over the threads of a process  *)
(* (crates/process/src/process.rs): each step takes the lock for one node, *)
(* and the published (live) flag of that node is read after the unlock, so *)
(* a walk interleaves with admission, publication and removal.  Processes  *)
(* and ThreadIds are the same cursor over two trees; the snapshots         *)
(* (try_collect_process_values, try_threads) run one into a vector.        *)
(***************************************************************************)
EXTENDS Integers, FiniteSets, Sequences, SequencesExt, FiniteSetsExt

CONSTANTS
  Tree,      \* "processes" (the registry) or "threads" (one thread group)
  Nodes,     \* node objects (Arc<Process>, Arc<ThreadNode>)
  IdOf,      \* the pid or tid of a node; a freed id is reused by another node
  Limit      \* membership_limit

VARIABLES
  nodes,     \* lifecycle of a node, see Linked and Flag
  walk,      \* the walk in progress
  throughout,\* the nodes linked with their flag set since the walk began
  entered    \* how many nodes were linked since the walk began

cvars == <<nodes, walk, throughout, entered>>

Linked == {n \in Nodes : nodes[n] \in {"reserved", "published"}}

(* Process::published is never cleared, also not by a reap; ThreadNode::live is
   cleared when the node is detached. *)
Flag(n) == nodes[n] \in (IF Tree = "processes" THEN {"published", "removed"} ELSE {"published"})

(* A thread group in its final exit, prepared or committed, admits no thread. *)
Exiting == \E n \in Nodes : nodes[n] \in {"departing", "exited"}

NoNode == "none"
NoWalk == [kind |-> "none", phase |-> "idle", after |-> 0, remaining |-> 0, upper |-> 0,
           held |-> NoNode, yielded |-> << >>, capacity |-> 0]

Init ==
  /\ nodes \in [Nodes -> {"fresh", "published"}]
  /\ Cardinality(Linked) <= Limit
  /\ \A n, m \in Linked : IdOf[n] = IdOf[m] => n = m
  /\ walk = NoWalk /\ throughout = {} /\ entered = 0

-----------------------------------------------------------------------------
(* One more node was linked since the walk began, counted up to the number of
   nodes. *)
Enters == entered' = IF walk.phase = "idle" THEN 0 ELSE Min({entered + 1, Cardinality(Nodes)})

(* ProcessRegistry::admit, prepare_thread_in: the limit and the id are tested
   and the node linked in one section. *)
Admit(n) ==
  /\ nodes[n] = "fresh" /\ ~Exiting
  /\ Cardinality(Linked) < Limit
  /\ \A m \in Linked : IdOf[m] # IdOf[n]
  /\ nodes' = [nodes EXCEPT ![n] = "reserved"]
  /\ Enters
  /\ UNCHANGED <<walk, throughout>>

(* published.store, live.store *)
Publish(n) ==
  /\ nodes[n] = "reserved"
  /\ nodes' = [nodes EXCEPT ![n] = "published"]
  /\ UNCHANGED <<walk, throughout, entered>>

(* reap, remove_thread, the exit of a thread, or the Drop of an admission *)
Unlink(n) ==
  /\ n \in Linked
  /\ nodes' = [nodes EXCEPT ![n] = IF @ = "published" THEN "removed" ELSE "dropped"]
  /\ throughout' = throughout \ {n}
  /\ UNCHANGED <<walk, entered>>

(* ProcessDomain::exit_thread for the only member of the group: its node is
   unlinked and kept by the exit admission. *)
DepartLast(n) ==
  /\ Tree = "threads"
  /\ nodes[n] = "published" /\ Linked = {n}
  /\ nodes' = [nodes EXCEPT ![n] = "departing"]
  /\ throughout' = throughout \ {n}
  /\ UNCHANGED <<walk, entered>>

(* Drop of an uncommitted ProcessExitAdmission: the same node is linked again,
   its flag set. *)
Restore(n) ==
  /\ nodes[n] = "departing"
  /\ nodes' = [nodes EXCEPT ![n] = "published"]
  /\ Enters
  /\ UNCHANGED <<walk, throughout>>

(* ProcessExitAdmission::commit drops the node of a process that is now a zombie. *)
CommitExit(n) ==
  /\ nodes[n] = "departing"
  /\ nodes' = [nodes EXCEPT ![n] = "exited"]
  /\ UNCHANGED <<walk, throughout, entered>>

-----------------------------------------------------------------------------
Begun(kind, w) ==
  /\ walk' = [w EXCEPT !.kind = kind, !.phase = "walk"]
  /\ throughout' = {n \in Linked : Flag(n)}
  /\ entered' = 0
  /\ UNCHANGED nodes

(* processes, thread_ids: the budget is the number of members. *)
OpenProcesses ==
  /\ walk.phase = "idle"
  /\ Begun("processes", [NoWalk EXCEPT !.remaining = Cardinality(Linked)])

(* processes_through_current_max: the bound is the highest id. *)
OpenThroughMax ==
  /\ Tree = "processes"
  /\ walk.phase = "idle" /\ Linked # {}
  /\ Begun("max", [NoWalk EXCEPT !.upper = Max({IdOf[n] : n \in Linked})])

(* try_collect_process_values, try_threads: room for the members there are *)
Reserve ==
  /\ walk.phase = "idle"
  /\ walk' = [NoWalk EXCEPT !.kind = "snapshot", !.phase = "sized", !.capacity = Cardinality(Linked)]
  /\ UNCHANGED <<nodes, throughout, entered>>

(* The cursor of the snapshot counts the members again. *)
OpenSnapshot ==
  /\ walk.phase = "sized"
  /\ Begun("snapshot", [walk EXCEPT !.remaining = Cardinality(Linked), !.after = 0, !.yielded = << >>])

AheadFrom(S, after) == {n \in S : IdOf[n] >= after}

(* cursor_from_ptr + move_next, lower_bound(Excluded(after)) or front: the ids
   of a tree are distinct, so they all find the successor of `after`. *)
Ahead(S, after) == {n \in S : IdOf[n] > after}

Successor == CHOOSE n \in Ahead(Linked, walk.after) : \A m \in Ahead(Linked, walk.after) : IdOf[n] <= IdOf[m]

Ends ==
  \/ Ahead(Linked, walk.after) = {}
  \/ walk.kind # "max" /\ walk.remaining = 0
  \/ walk.kind = "max" /\ IdOf[Successor] > walk.upper

(* Iterator::next of the three cursors, the locked section *)
Visit ==
  /\ walk.phase = "walk"
  /\ IF Ends
     THEN walk' = [walk EXCEPT !.phase = "done"]
     ELSE walk' = [walk EXCEPT !.phase = "held", !.held = Successor, !.after = IdOf[Successor],
                               !.remaining = IF walk.kind = "max" THEN @ ELSE @ - 1]
  /\ UNCHANGED <<nodes, throughout, entered>>

(* The vector is full: double it up to the limit, or give up. *)
Grown(w) ==
  IF w.capacity >= Limit
  THEN [w EXCEPT !.phase = "capacity", !.held = NoNode]
  ELSE [w EXCEPT !.phase = "sized", !.held = NoNode, !.capacity = Min({2 * Max({@, 1}), Limit})]

(* Iterator::next after the unlock, and what the loop does with the item *)
Examine ==
  /\ walk.phase = "held"
  /\ walk' = CASE ~Flag(walk.held) -> [walk EXCEPT !.phase = "walk", !.held = NoNode]
               [] Flag(walk.held) /\ walk.kind = "snapshot" /\ Len(walk.yielded) = walk.capacity -> Grown(walk)
               [] OTHER -> [walk EXCEPT !.phase = "walk", !.held = NoNode, !.yielded = Append(@, walk.held)]
  /\ UNCHANGED <<nodes, throughout, entered>>

Close ==
  /\ walk.phase \in {"done", "capacity"}
  /\ walk' = NoWalk /\ throughout' = {} /\ entered' = 0
  /\ UNCHANGED nodes

Next ==
  \/ \E n \in Nodes : Admit(n) \/ Publish(n) \/ Unlink(n)
  \/ \E n \in Nodes : DepartLast(n) \/ Restore(n) \/ CommitExit(n)
  \/ OpenProcesses \/ OpenThroughMax \/ Reserve \/ OpenSnapshot
  \/ Visit \/ Examine \/ Close

Spec == Init /\ [][Next]_cvars

-----------------------------------------------------------------------------
TypeOK ==
  /\ nodes \in [Nodes -> {"fresh", "reserved", "published", "removed", "dropped",
                       "departing", "exited"}]
  /\ walk.phase \in {"idle", "sized", "walk", "held", "done", "capacity"}
  /\ walk.remaining \in 0..Limit /\ walk.capacity \in 0..Limit
  /\ throughout \subseteq Linked /\ entered \in 0..Cardinality(Nodes)

Missed == throughout \ ToSet(walk.yielded)

(* A walk yields ids in increasing order, each at most once, and no node that was
   never published, however the tree changes under it. *)
YieldsInOrder ==
  /\ \A i \in 1..Len(walk.yielded) - 1 : IdOf[walk.yielded[i]] < IdOf[walk.yielded[i + 1]]
  /\ \A n \in ToSet(walk.yielded) : nodes[n] \notin {"fresh", "reserved", "dropped"}

(* What a finished walk may miss of the nodes that were there from its
   beginning to its end: nothing up to the captured maximum for the cursor of
   exit reparenting; for the budgeted cursors at most one node for each that
   was linked meanwhile. *)
LossBounded ==
  walk.phase = "done" =>
    IF walk.kind = "max" THEN Missed = {} ELSE Cardinality(Missed) <= entered

(* A snapshot never gives up: its cursor is opened with at most `limit` members
   to visit, and a vector of that size holds them. *)
SnapshotFits == walk.phase # "capacity"

(* "Visits every live thread ID", "Fallibly snapshots every published process":
   a node that is there throughout the walk is visited. *)
WalkComplete == walk.phase = "done" => Missed = {}
=============================================================================
