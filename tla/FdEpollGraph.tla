---------------------------- MODULE FdEpollGraph ----------------------------
(***************************************************************************)
(* The epoll topology of crates/fd/src/graph.rs: which epoll instance      *)
(* watches which, kept acyclic and shallow by add_interest, whose          *)
(* validation walks the graph on one explicit work budget.  Every method   *)
(* runs under the domain lock and is one action.                           *)
(* Node slots are left out: a registration is named by its epoll and its   *)
(* generation.                                                             *)
(***************************************************************************)
EXTENDS Integers, FiniteSets

CONSTANTS
  Epolls,
  NodeCapacity, EdgeCapacity, MaxNesting, MaxParents, MaxWalkSteps, \* EpollGraphLimits
  MaxGeneration, \* stands for u64::MAX
  Leaf           \* a child that is not an epoll instance

VARIABLES
  registered,      \* epoll -> its registration's generation, 0 if none
  edges,           \* edge slot -> NoEdge or [generation, parent, child]
  next_generation,
  stale            \* edge tokens [slot, generation] of removed edges

vars == <<registered, edges, next_generation, stale>>

EdgeSlots == 1..EdgeCapacity
NoEdge == [generation |-> 0]
Live == {i \in EdgeSlots : edges[i] # NoEdge}
Nodes == {[epoll |-> e, generation |-> registered[e]] : e \in {x \in Epolls : registered[x] # 0}}

(* validate_node *)
ValidNode(n) == n \in Nodes

AllocateGeneration == next_generation < MaxGeneration /\ next_generation' = next_generation + 1

Init ==
  /\ registered = [e \in Epolls |-> 0]
  /\ edges = [i \in EdgeSlots |-> NoEdge]
  /\ next_generation = 1 /\ stale = {}

(* register *)
Register(e) ==
  /\ registered[e] = 0 /\ Cardinality(Nodes) < NodeCapacity /\ AllocateGeneration
  /\ registered' = [registered EXCEPT ![e] = next_generation]
  /\ UNCHANGED <<edges, stale>>

(* unregister is refused while an edge names the node *)
Attached(n) == \E i \in Live : edges[i].parent = n \/ edges[i].child = n

Unregister(n) ==
  /\ ValidNode(n) /\ ~Attached(n)
  /\ registered' = [registered EXCEPT ![n.epoll] = 0]
  /\ UNCHANGED <<edges, next_generation, stale>>

Failed(why) == [verdict |-> why, value |-> 0, budget |-> 0]
Found(v, b) == [verdict |-> "ok", value |-> v, budget |-> b]

RECURSIVE ReachesNode(_, _, _, _)
RECURSIVE ReachesEdges(_, _, _, _, _)

(* reaches: spend one step for the node, then one for every edge scanned *)
ReachesNode(current, target, budget, path_len) ==
  CASE budget = 0 -> Failed("WalkLimit")
    [] budget > 0 /\ current = target -> Found(1, budget - 1)
    [] budget > 0 /\ current # target /\ path_len > NodeCapacity -> Failed("Cycle")
    [] OTHER -> ReachesEdges(current, target, 1, budget - 1, path_len)

ReachesEdges(current, target, i, budget, path_len) ==
  CASE i > EdgeCapacity -> Found(0, budget)
    [] i \in EdgeSlots \ Live -> ReachesEdges(current, target, i + 1, budget, path_len)
    [] i \in Live /\ budget = 0 -> Failed("WalkLimit")
    [] i \in Live /\ budget > 0 /\ (edges[i].parent # current \/ edges[i].child = Leaf) ->
         ReachesEdges(current, target, i + 1, budget - 1, path_len)
    [] OTHER ->
         LET r == ReachesNode(edges[i].child, target, budget - 1, path_len + 1) IN
         IF r.verdict # "ok" \/ r.value = 1 THEN r
         ELSE ReachesEdges(current, target, i + 1, r.budget, path_len)

RECURSIVE DepthNode(_, _, _, _)
RECURSIVE DepthEdges(_, _, _, _, _, _)

Near(up, i) == IF up THEN edges[i].child ELSE edges[i].parent
Far(up, i) == IF up THEN edges[i].parent ELSE edges[i].child

(* max_parent_depth (up) and max_descendant_depth (down) *)
DepthNode(up, current, budget, path_len) ==
  CASE budget = 0 -> Failed("WalkLimit")
    [] budget > 0 /\ path_len > NodeCapacity -> Failed("Cycle")
    [] OTHER -> DepthEdges(up, current, 1, budget - 1, path_len, 0)

DepthEdges(up, current, i, budget, path_len, maximum) ==
  CASE i > EdgeCapacity -> Found(maximum, budget)
    [] i \in EdgeSlots \ Live -> DepthEdges(up, current, i + 1, budget, path_len, maximum)
    [] i \in Live /\ budget = 0 -> Failed("WalkLimit")
    [] i \in Live /\ budget > 0 /\ Near(up, i) # current ->
         DepthEdges(up, current, i + 1, budget - 1, path_len, maximum)
    [] OTHER ->
         LET r == IF Far(up, i) = Leaf THEN Found(0, budget - 1)
                  ELSE DepthNode(up, Far(up, i), budget - 1, path_len + 1)
             deeper == IF r.value + 1 > maximum THEN r.value + 1 ELSE maximum IN
         IF r.verdict # "ok" THEN r
         ELSE DepthEdges(up, current, i + 1, r.budget, path_len, deeper)

(* distinct_parent_count, counting each parent once *)
Parents(n) == {edges[i].parent : i \in {j \in Live : edges[j].child = n}}

EdgeCount(n) == Cardinality({i \in Live : edges[i].child = n})

ParentCount(n) == Cardinality(Parents(n))

AdmitsParent(parent, child) == parent \in Parents(child) \/ ParentCount(child) < MaxParents

NestingFits(above, below) == above + 1 + below <= MaxNesting

(* One budget serves this walk and the two depth walks after it. *)
CycleWalk(parent, child) ==
  IF child = Leaf THEN Found(0, MaxWalkSteps) ELSE ReachesNode(child, parent, MaxWalkSteps, 0)

(* add_interest up to the allocation of a generation: what it answers *)
Verdict(parent, child) ==
  LET cycle == CycleWalk(parent, child)
      above == DepthNode(TRUE, parent, cycle.budget, 0)
      below == IF child = Leaf THEN Found(0, above.budget)
               ELSE DepthNode(FALSE, child, above.budget, 0)
  IN CASE parent = child -> "SelfCycle"
       [] parent # child /\ child # Leaf /\ ~AdmitsParent(parent, child) -> "ParentLimit"
       [] OTHER ->
          IF Live = EdgeSlots THEN "Capacity"
          ELSE IF cycle.verdict # "ok" THEN cycle.verdict
          ELSE IF cycle.value = 1 THEN "Cycle"
          ELSE IF above.verdict # "ok" THEN above.verdict
          ELSE IF below.verdict # "ok" THEN below.verdict
          ELSE IF ~NestingFits(above.value, below.value) THEN "Nesting"
          ELSE "ok"

(* add_interest *)
AddInterest(parent, child) ==
  /\ ValidNode(parent) /\ (child = Leaf \/ ValidNode(child))
  /\ Verdict(parent, child) = "ok" /\ AllocateGeneration
  /\ \E i \in EdgeSlots \ Live :
       /\ \A j \in 1..(i - 1) : j \in Live
       /\ edges' = [edges EXCEPT ![i] =
            [generation |-> next_generation, parent |-> parent, child |-> child]]
  /\ UNCHANGED <<registered, stale>>

Removes(slot, generation) == edges[slot] # NoEdge /\ edges[slot].generation = generation

(* remove_interest, with a current token or one kept after its edge was removed *)
RemoveInterest(slot, generation) ==
  /\ slot \in Live
  /\ [slot |-> slot, generation |-> generation] \in
       stale \union {[slot |-> slot, generation |-> edges[slot].generation]}
  /\ Removes(slot, generation)
  /\ edges' = [edges EXCEPT ![slot] = NoEdge]
  /\ stale' = stale \union {[slot |-> slot, generation |-> generation]}
  /\ UNCHANGED <<registered, next_generation>>

Next ==
  \/ \E e \in Epolls : Register(e)
  \/ \E n \in Nodes : Unregister(n)
  \/ \E parent \in Nodes, child \in Nodes \union {Leaf} : AddInterest(parent, child)
  \/ \E slot \in EdgeSlots, generation \in 1..MaxGeneration : RemoveInterest(slot, generation)

Spec == Init /\ [][Next]_vars

-----------------------------------------------------------------------------
(* Reference notions: chains of k consecutive edges. *)
Chains(k) ==
  {c \in [1..k -> Live] : \A i \in 1..(k - 1) : edges[c[i]].child = edges[c[i + 1]].parent}

ReachesRef(from, to) ==
  \E k \in 1..EdgeCapacity : \E c \in Chains(k) : edges[c[1]].parent = from /\ edges[c[k]].child = to

DepthRef(up, n) ==
  LET lengths == {k \in 1..EdgeCapacity : \E c \in Chains(k) : Near(up, IF up THEN c[k] ELSE c[1]) = n}
  IN IF lengths = {} THEN 0 ELSE CHOOSE k \in lengths : \A l \in lengths : l <= k

VerdictRef(parent, child) ==
  IF parent = child THEN "SelfCycle"
  ELSE IF child # Leaf /\ Cardinality(Parents(child) \union {parent}) > MaxParents THEN "ParentLimit"
  ELSE IF Cardinality(Live) = EdgeCapacity THEN "Capacity"
  ELSE IF child # Leaf /\ ReachesRef(child, parent) THEN "Cycle"
  ELSE IF DepthRef(TRUE, parent) + 1 + (IF child = Leaf THEN 0 ELSE DepthRef(FALSE, child)) > MaxNesting
       THEN "Nesting" ELSE "ok"

TypeOK ==
  /\ registered \in [Epolls -> 0..(next_generation - 1)]
  /\ Cardinality(Nodes) <= NodeCapacity
  /\ next_generation \in 1..MaxGeneration
  /\ \A i \in Live : edges[i].generation < next_generation

(* No chain of interests is longer than max_nesting, whatever was added and
   removed in between; in particular the graph has no cycle, along which chains
   would be endless. *)
NestingBounded == Chains(MaxNesting + 1) = {}

(* No epoll is watched by more than max_parents_per_node distinct epolls. *)
ParentsBounded == \A n \in Nodes : ParentCount(n) <= MaxParents

(* An edge never outlives the registrations it names, so a registration that
   reuses an epoll identity inherits no edge of its predecessor. *)
EdgesAttached ==
  \A i \in Live : ValidNode(edges[i].parent) /\ (edges[i].child = Leaf \/ ValidNode(edges[i].child))

(* The budgeted walks decide what the definitions of cycle and nesting say, or
   give up with WalkLimit: no budget makes add_interest accept a bad edge or
   name the wrong error. *)
VerdictExact ==
  \A parent \in Nodes, child \in Nodes \union {Leaf} :
    Verdict(parent, child) \in {"WalkLimit", VerdictRef(parent, child)}

(* A removed edge's token never removes the edge that reused its slot. *)
StaleTokenRefused ==
  \A tok \in stale : ~Removes(tok.slot, tok.generation)
=============================================================================
