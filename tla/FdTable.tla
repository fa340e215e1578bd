------------------------------ MODULE FdTable ------------------------------
(***************************************************************************)
(* The descriptor table of crates/fd/src/table.rs.  A method that takes    *)
(* the table runs under the embedding kernel's lock and is one action,     *)
(* except the detaching loops: PreparedPublication::commit and its Drop    *)
(* only store an atomic phase and never take the table, so they interleave *)
(* with a loop that has already counted what it is going to detach.        *)
(* Occupied and Prepared with a visible phase are treated alike by every   *)
(* method and are one state, "Visible".                                    *)
(***************************************************************************)
EXTENDS Integers, FiniteSets

CONSTANTS
  Tables,        \* FdTableIds; the first is try_new's, the others come from fork_copy
  FirstTable,
  Capacity,      \* N
  Descriptions,  \* OFD handles
  MaxGeneration, \* stands for u64::MAX
  NoTable,
  Flags,         \* the CLOSE_ON_EXEC values callers choose
  BatchLimits    \* capacities callers give CloseBatch::try_with_capacity

ASSUME FdTableAssumption ==
  /\ FirstTable \in Tables /\ NoTable \notin Tables
  /\ Capacity \in Nat /\ MaxGeneration \in Nat \ {0}
  /\ Flags \subseteq BOOLEAN /\ BatchLimits \subseteq Nat

VARIABLES
  tables,          \* the tables that exist
  next_generation, \* per table
  slots,           \* per table and number: [state, generation, description, cloexec]
  reservations,    \* ReservationTokens callers hold
  publications,    \* PreparedPublications callers hold
  observed,        \* DescriptorTokens handed out, with the description they were for
  detach           \* the detaching loop in progress, or Idle

vars == <<tables, next_generation, slots, reservations, publications, observed, detach>>

Fds == 0..(Capacity - 1)
Generations == 1..(MaxGeneration - 1)
Vacant == [state |-> "Vacant"]
Idle == [table |-> NoTable]
Token(t, fd, g) == [table |-> t, fd |-> fd, generation |-> g]
Issued(t, fd, g, d) == [table |-> t, fd |-> fd, generation |-> g, description |-> d]
Slot(s, g, d, c) == [state |-> s, generation |-> g, description |-> d, cloexec |-> c]
Reserved(g, c) == [state |-> "Reserved", generation |-> g, cloexec |-> c]

(* The table is not borrowed by a detaching loop. *)
Free(t) == t \in tables /\ detach.table # t

Visible(t, fd) == slots[t][fd].state = "Visible"
SetSlot(t, fd, s) == slots' = [slots EXCEPT ![t][fd] = s]

BlocksPendingOnly(t, fd) == slots[t][fd].state = "Pending"

(* blocks_replacement *)
BlocksReplacement(t, fd) == slots[t][fd].state \in {"Reserved", "Pending", "Aborted"}

SameGeneration(t) == next_generation[t] < MaxGeneration /\ UNCHANGED next_generation

(* allocate_generation: u64::MAX is never issued *)
AllocateGeneration(t) ==
  /\ next_generation[t] < MaxGeneration
  /\ next_generation' = [next_generation EXCEPT ![t] = @ + 1]

(* The lowest vacant number of [minimum, limit), as a set of at most one. *)
LowestVacant(t, minimum, limit) ==
  {fd \in minimum..(limit - 1) :
     /\ slots[t][fd] = Vacant
     /\ \A low \in minimum..(fd - 1) : slots[t][low] # Vacant}

Init ==
  /\ tables = {FirstTable}
  /\ next_generation = [t \in Tables |-> 1]
  /\ slots = [t \in Tables |-> [fd \in Fds |-> Vacant]]
  /\ reservations = {} /\ publications = {} /\ observed = {}
  /\ detach = Idle

(* reserve *)
Reserve(t, minimum, limit, c) ==
  /\ Free(t) /\ AllocateGeneration(t)
  /\ \E fd \in LowestVacant(t, minimum, limit) :
       /\ SetSlot(t, fd, Reserved(next_generation[t], c))
       /\ reservations' = reservations \union {Token(t, fd, next_generation[t])}
  /\ UNCHANGED <<tables, publications, observed, detach>>

(* validate_reservation *)
ValidReservation(r) ==
  /\ slots[r.table][r.fd].state = "Reserved"
  /\ slots[r.table][r.fd].generation = r.generation

(* cancel_reservation *)
CancelReservation(r) ==
  /\ r \in reservations /\ Free(r.table) /\ ValidReservation(r)
  /\ SetSlot(r.table, r.fd, Vacant)
  /\ reservations' = reservations \ {r}
  /\ UNCHANGED <<tables, next_generation, publications, observed, detach>>

(* publish *)
Publish(r, d) ==
  /\ r \in reservations /\ Free(r.table) /\ ValidReservation(r)
  /\ SetSlot(r.table, r.fd, Slot("Visible", r.generation, d, slots[r.table][r.fd].cloexec))
  /\ reservations' = reservations \ {r}
  /\ observed' = observed \union {Issued(r.table, r.fd, r.generation, d)}
  /\ UNCHANGED <<tables, next_generation, publications, detach>>

(* prepare_publication *)
PreparePublication(r, d) ==
  /\ r \in reservations /\ Free(r.table) /\ ValidReservation(r)
  /\ SetSlot(r.table, r.fd, Slot("Pending", r.generation, d, slots[r.table][r.fd].cloexec))
  /\ reservations' = reservations \ {r}
  /\ publications' = publications \union {r}
  /\ UNCHANGED <<tables, next_generation, observed, detach>>

(* The token's slot, still in the phase prepare_publication left it in *)
PhaseIsPending(p) ==
  /\ slots[p.table][p.fd].state = "Pending"
  /\ slots[p.table][p.fd].generation = p.generation

(* The slot shares the token's phase, so a store through the token is seen by
   the slot of that generation, if it is still there. *)
StorePhase(p, phase) ==
  slots' = IF PhaseIsPending(p)
           THEN [slots EXCEPT ![p.table][p.fd].state = phase]
           ELSE slots

(* PreparedPublication::commit: no table, no lock *)
CommitPublication(p) ==
  /\ p \in publications
  /\ StorePhase(p, "Visible")
  /\ publications' = publications \ {p}
  /\ observed' = observed \union
       {Issued(p.table, p.fd, p.generation, slots[p.table][p.fd].description)}
  /\ UNCHANGED <<tables, next_generation, reservations, detach>>

(* Drop of an uncommitted PreparedPublication: no table, no lock *)
DropPublication(p) ==
  /\ p \in publications
  /\ StorePhase(p, "Aborted")
  /\ publications' = publications \ {p}
  /\ UNCHANGED <<tables, next_generation, reservations, observed, detach>>

(* cancel_prepared *)
CancelPrepared(p) ==
  /\ p \in publications /\ Free(p.table) /\ PhaseIsPending(p)
  /\ SetSlot(p.table, p.fd, Vacant)
  /\ publications' = publications \ {p}
  /\ UNCHANGED <<tables, next_generation, reservations, observed, detach>>

(* get_token *)
Resolves(t, tok) ==
  /\ tok.table = t
  /\ Visible(t, tok.fd) /\ slots[t][tok.fd].generation = tok.generation

(* token *)
Observe(t, fd) ==
  /\ Free(t) /\ Visible(t, fd)
  /\ observed' = observed \union {Issued(t, fd, slots[t][fd].generation, slots[t][fd].description)}
  /\ UNCHANGED <<tables, next_generation, slots, reservations, publications, detach>>

(* close *)
Close(t, fd) ==
  /\ Free(t) /\ Visible(t, fd)
  /\ SetSlot(t, fd, Vacant)
  /\ UNCHANGED <<tables, next_generation, reservations, publications, observed, detach>>

(* close_token *)
CloseToken(t, tok) == tok \in observed /\ Resolves(t, tok) /\ Close(t, tok.fd)

(* set_close_on_exec, mark_close_on_exec_range: the visible ones of a range *)
MarkCloseOnExec(t, first, last, c) ==
  /\ Free(t) /\ first <= last
  /\ slots' = [slots EXCEPT ![t] = [fd \in Fds |->
       IF fd \in first..last /\ Visible(t, fd) THEN [slots[t][fd] EXCEPT !.cloexec = c]
       ELSE slots[t][fd]]]
  /\ UNCHANGED <<tables, next_generation, reservations, publications, observed, detach>>

(* duplicate *)
Duplicate(t, source, minimum, limit, c) ==
  /\ Free(t) /\ Visible(t, source) /\ AllocateGeneration(t)
  /\ \E fd \in LowestVacant(t, minimum, limit) :
       LET d == slots[t][source].description IN
       /\ SetSlot(t, fd, Slot("Visible", next_generation[t], d, c))
       /\ observed' = observed \union {Issued(t, fd, next_generation[t], d)}
  /\ UNCHANGED <<tables, reservations, publications, detach>>

(* duplicate_replace with source # target; with source = target it is token *)
DuplicateReplace(t, source, target, c) ==
  LET d == slots[t][source].description IN
  /\ Free(t) /\ source # target /\ Visible(t, source)
  /\ ~BlocksReplacement(t, target) /\ AllocateGeneration(t)
  /\ SetSlot(t, target, Slot("Visible", next_generation[t], d, c))
  /\ observed' = observed \union {Issued(t, target, next_generation[t], d)}
  /\ UNCHANGED <<tables, reservations, publications, detach>>

(* fork_copy copies what visible_entry shows *)
Inherits(t, fd) == Visible(t, fd)

ForkCopy(t, u) ==
  LET visible == {fd \in Fds : Inherits(t, fd)} IN
  /\ Free(t) /\ u \notin tables
  /\ tables' = tables \union {u}
  /\ slots' = [slots EXCEPT ![u] = [fd \in Fds |->
       IF fd \in visible
       THEN [slots[t][fd] EXCEPT !.generation = Cardinality({f \in visible : f <= fd})]
       ELSE Vacant]]
  /\ next_generation' = [next_generation EXCEPT ![u] = 1 + Cardinality(visible)]
  /\ UNCHANGED <<reservations, publications, observed, detach>>

(* The predicates of close_range, close_on_exec and close_all. *)
Matches(t, fd, q) ==
  /\ Visible(t, fd)
  /\ \/ q.kind = "range" /\ fd \in q.first..q.last
     \/ q.kind = "cloexec" /\ slots[t][fd].cloexec

Queries ==
  [kind : {"range"}, first : Fds, last : Fds] \union {[kind |-> "cloexec"]}

(* count_matching *)
Matching(t, q) == {fd \in Fds : Matches(t, fd, q)}

Loop(t, q, n) ==
  [table |-> t, query |-> q, limit |-> n, cursor |-> 0, batch |-> 0,
   due |-> {Token(t, fd, slots[t][fd].generation) : fd \in Matching(t, q)}]

(* detach_matching, up to the capacity check; close_all is the full range *)
BeginDetach(t, q, n) ==
  /\ detach = Idle /\ t \in tables
  /\ Cardinality(Matching(t, q)) <= n
  /\ detach' = Loop(t, q, n)
  /\ UNCHANGED <<tables, next_generation, slots, reservations, publications, observed>>

(* prepare_close_on_exec and commit_close_on_exec: room for the whole table
   was reserved earlier, nothing is counted *)
BeginCloseOnExec(t) ==
  /\ detach = Idle /\ t \in tables
  /\ detach' = Loop(t, [kind |-> "cloexec"], Capacity)
  /\ UNCHANGED <<tables, next_generation, slots, reservations, publications, observed>>

CursorSkips(fd) == fd + 1 + (IF Matches(detach.table, fd, detach.query) THEN 1 ELSE 0)

CursorAfter(fd) == fd + 1

(* One turn of the loop; the last one returns from the method. *)
DetachStep ==
  LET fd == detach.cursor
      t == detach.table
      hit == Matches(t, fd, detach.query) IN
  /\ detach # Idle /\ fd < Capacity
  /\ slots' = IF hit THEN [slots EXCEPT ![t][fd] = Vacant] ELSE slots
  /\ detach' = [detach EXCEPT !.cursor = CursorAfter(fd), !.batch = @ + (IF hit THEN 1 ELSE 0)]
  /\ UNCHANGED <<tables, next_generation, reservations, publications, observed>>

DetachReturn ==
  /\ detach # Idle /\ detach.cursor >= Capacity
  /\ detach' = Idle
  /\ UNCHANGED <<tables, next_generation, slots, reservations, publications, observed>>

TableStep ==
  \E t \in Tables :
    \/ \E m \in Fds, n \in 1..Capacity, c \in Flags : Reserve(t, m, n, c)
    \/ \E fd \in Fds : Observe(t, fd) \/ Close(t, fd)
    \/ \E tok \in observed : CloseToken(t, tok)
    \/ \E first, last \in Fds, c \in Flags : MarkCloseOnExec(t, first, last, c)
    \/ \E fd, m \in Fds, n \in 1..Capacity, c \in Flags : Duplicate(t, fd, m, n, c)
    \/ \E fd, target \in Fds, c \in Flags : DuplicateReplace(t, fd, target, c)
    \/ \E u \in Tables : ForkCopy(t, u)
    \/ \E q \in Queries, n \in BatchLimits : BeginDetach(t, q, n)
    \/ BeginCloseOnExec(t)

TokenStep ==
  \/ \E r \in reservations : CancelReservation(r)
  \/ \E r \in reservations, d \in Descriptions : Publish(r, d) \/ PreparePublication(r, d)
  \/ \E p \in publications : CommitPublication(p) \/ DropPublication(p) \/ CancelPrepared(p)

Next == TableStep \/ TokenStep \/ DetachStep \/ DetachReturn

Spec == Init /\ [][Next]_vars

-----------------------------------------------------------------------------
Slots ==
  {Vacant} \union [state : {"Reserved"}, generation : Generations, cloexec : BOOLEAN]
  \union [state : {"Pending", "Aborted", "Visible"}, generation : Generations,
          description : Descriptions, cloexec : BOOLEAN]

Tokens == [table : Tables, fd : Fds, generation : Generations]

Loops ==
  [table : Tables, query : Queries, limit : BatchLimits \union {Capacity},
   cursor : 0..Capacity, batch : 0..Capacity, due : SUBSET Tokens]

TypeOK ==
  /\ tables \subseteq Tables
  /\ next_generation \in [Tables -> 1..MaxGeneration]
  /\ slots \in [Tables -> [Fds -> Slots]]
  /\ reservations \subseteq Tokens /\ publications \subseteq Tokens
  /\ observed \subseteq [table : Tables, fd : Fds, generation : Generations,
                         description : Descriptions]
  /\ detach \in {Idle} \union Loops

(* Reserved numbers and prepared publications are never stolen: whatever dup2,
   a detaching loop, a fork or another opener does, a token held by a caller
   finds its own slot, and no slot is blocked by a token nobody holds (an
   aborted publication excepted, which the code documents). *)
TokensBacked ==
  /\ reservations = {r \in Tokens : r.table \in tables /\ ValidReservation(r)}
  /\ publications = {p \in Tokens : p.table \in tables /\ PhaseIsPending(p)}

(* A descriptor token never resolves to another description, although numbers
   are reused by close, dup2 and exec, and a forked table counts its own
   generations from one (get_token). *)
TokenStable ==
  \A t \in tables, o \in observed :
    Resolves(t, o) => slots[t][o.fd].description = o.description

(* Both: a token is honoured by the slot it was handed out for, and by no other
   description. *)
TokensHonoured == TokensBacked /\ TokenStable

(* Generations are never shared by two slots of a table, nor issued twice. *)
GenerationsUnique ==
  \A t \in tables, f, g \in Fds :
    slots[t][f] # Vacant =>
      /\ slots[t][f].generation < next_generation[t]
      /\ f # g /\ slots[t][g] # Vacant => slots[t][f].generation # slots[t][g].generation

(* A detaching loop leaves nothing behind that matched when it began, whatever
   is published under it. *)
DetachComplete ==
  detach # Idle /\ detach.cursor >= Capacity =>
    \A tok \in detach.due : ~Resolves(detach.table, tok)

(* "Detaches an inclusive numeric range after proving batch capacity"
   (close_range): the entries a loop detaches fit the storage its caller
   admitted. *)
BatchWithinLimit == detach # Idle => detach.batch <= detach.limit
=============================================================================
