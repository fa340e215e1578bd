--------------------------- MODULE FdTableProofs ---------------------------
(***************************************************************************)
(* Proofs about FdTable for any set of tables and descriptions, any        *)
(* capacity and any generation limit.                                      *)
(***************************************************************************)
EXTENDS FdTable, FiniteSetTheorems, TLAPS

(* A descriptor token was issued by a table that exists, with a generation
   that is spent; the slot of that generation, if it is still there, shows the
   description the token was issued for. *)
Faithful(o) ==
  /\ o.table \in tables /\ o.generation < next_generation[o.table]
  /\ slots[o.table][o.fd].state # "Vacant" /\ slots[o.table][o.fd].generation = o.generation =>
       /\ slots[o.table][o.fd].state = "Visible"
       /\ slots[o.table][o.fd].description = o.description

ObservedOK == \A o \in observed : Faithful(o)

(* What a detaching loop set out to detach is detached, or it is ahead of the
   cursor, as it was when the loop began. *)
Due(tok) ==
  /\ tok.table = detach.table
  /\ \/ slots[tok.table][tok.fd] = Vacant
     \/ /\ detach.cursor <= tok.fd /\ slots[tok.table][tok.fd].generation = tok.generation
        /\ Matches(tok.table, tok.fd, detach.query)

LoopOK ==
  detach # Idle =>
    /\ detach.table \in tables /\ detach.batch <= detach.cursor
    /\ \A tok \in detach.due : Due(tok)

IInv == TypeOK /\ TokensBacked /\ GenerationsUnique /\ ObservedOK /\ LoopOK

-----------------------------------------------------------------------------
(* What a slot can be. *)
LEMMA SlotFacts ==
  ASSUME NEW s \in Slots
  PROVE  /\ s.state \in {"Vacant", "Reserved", "Pending", "Aborted", "Visible"}
         /\ s.state = "Vacant" <=> s = Vacant
         /\ s.state # "Vacant" => s.generation \in Generations /\ s.cloexec \in BOOLEAN
         /\ s.state \in {"Pending", "Aborted", "Visible"} => s.description \in Descriptions
         /\ s.state \in {"Pending", "Aborted", "Visible"} =>
              s \in [state : {"Pending", "Aborted", "Visible"}, generation : Generations,
                     description : Descriptions, cloexec : BOOLEAN]
BY DEF Slots, Vacant

(* Every slot of every table is one. *)
LEMMA SlotTyped ==
  ASSUME TypeOK, NEW t \in Tables, NEW fd \in Fds
  PROVE  slots[t][fd] \in Slots
BY Zenon DEF TypeOK

(* A token is its table, number and generation. *)
LEMMA TokenFacts ==
  /\ \A r \in Tokens : r = Token(r.table, r.fd, r.generation) /\ r.table \in Tables
                       /\ r.fd \in Fds /\ r.generation \in Generations
  /\ \A t \in Tables, fd \in Fds, g \in Generations : Token(t, fd, g) \in Tokens
BY DEF Tokens, Token

(* A detaching loop in progress names its table; an idle detach names none. *)
LEMMA LoopFacts ==
  ASSUME TypeOK
  PROVE  /\ detach = Idle => detach.table = NoTable /\ detach.table \notin Tables
         /\ detach # Idle => detach \in Loops /\ detach.table \in Tables
BY FdTableAssumption DEF TypeOK, Idle, Loops

(* Storing into one slot. *)
LEMMA StoreOne ==
  ASSUME TypeOK, NEW t \in Tables, NEW fd \in Fds, NEW s \in Slots,
         slots' = [slots EXCEPT ![t][fd] = s]
  PROVE  /\ slots' \in [Tables -> [Fds -> Slots]]
         /\ \A u \in Tables, f \in Fds :
              slots'[u][f] = IF u = t /\ f = fd THEN s ELSE slots[u][f]
BY Zenon DEF TypeOK

(* A slot is emptied, or goes on with its generation after it was reserved or
   pending, or is given the table's next generation. *)
Lawful(t, fd, s) ==
  \/ s = Vacant /\ UNCHANGED next_generation
  \/ /\ s.state # "Vacant" /\ slots[t][fd].state \in {"Reserved", "Pending"}
     /\ s.generation = slots[t][fd].generation /\ UNCHANGED next_generation
  \/ /\ s.state # "Vacant" /\ s.generation = next_generation[t] /\ AllocateGeneration(t)

(* Storing lawfully into one slot keeps the generations of a table apart. *)
LEMMA StoreUnique ==
  ASSUME IInv, NEW t \in tables, NEW fd \in Fds, NEW s \in Slots, Lawful(t, fd, s),
         slots' = [slots EXCEPT ![t][fd] = s], UNCHANGED tables
  PROVE  GenerationsUnique' /\ next_generation' \in [Tables -> 1..MaxGeneration]
<1> USE FdTableAssumption
<1>1. t \in Tables /\ TypeOK
  BY Zenon DEF IInv, TypeOK
<1>2. \A u \in Tables, f \in Fds : slots'[u][f] = IF u = t /\ f = fd THEN s ELSE slots[u][f]
  BY <1>1, StoreOne, ZenonT(40)
<1>3. /\ next_generation' \in [Tables -> 1..MaxGeneration]
      /\ \A u \in Tables : next_generation'[u] >= next_generation[u]
      /\ s.state # "Vacant" => s.generation < next_generation'[t]
  <2>1. next_generation \in [Tables -> 1..MaxGeneration]
    BY <1>1, Zenon DEF TypeOK
  <2>2. CASE UNCHANGED next_generation
    <3>1. next_generation[t] \in Int /\ \A u \in Tables : next_generation[u] >= next_generation[u]
      BY <1>1, <2>1
    <3>2. ~AllocateGeneration(t)
      BY <1>1, <2>1, <2>2 DEF AllocateGeneration
    <3>3. s.state # "Vacant" => s.generation < next_generation[t]
      <4>1. slots[t][fd].state # "Vacant" => slots[t][fd].generation < next_generation[t]
        BY <1>1, SlotTyped, SlotFacts, Zenon DEF IInv, GenerationsUnique
      <4>2. Vacant.state = "Vacant"
        BY Zenon DEF Vacant
      <4> QED BY <3>2, <4>1, <4>2, Zenon DEF Lawful
    <3> QED BY <2>1, <2>2, <3>1, <3>3, Zenon
  <2>3. CASE AllocateGeneration(t)
    <3>1. next_generation[t] < MaxGeneration
          /\ next_generation' = [next_generation EXCEPT ![t] = @ + 1]
      BY <2>3, Zenon DEF AllocateGeneration
    <3>2. next_generation[t] + 1 \in 1..MaxGeneration /\ next_generation[t] \in Int
      BY <1>1, <2>1, <3>1
    <3>3. \A u \in Tables : next_generation[u] \in Int
      BY <2>1
    <3>4. s.state # "Vacant" => s.generation < next_generation[t] + 1
      <4>1. slots[t][fd].state # "Vacant" => slots[t][fd].generation < next_generation[t]
                                            /\ slots[t][fd].generation \in Int
        BY <1>1, SlotTyped, SlotFacts DEF IInv, GenerationsUnique, Generations
      <4>2. Vacant.state = "Vacant"
        BY Zenon DEF Vacant
      <4> QED BY <3>2, <4>1, <4>2 DEF Lawful
    <3> QED BY <1>1, <2>1, <3>1, <3>2, <3>3, <3>4
  <2> QED BY <2>2, <2>3, Zenon DEF Lawful
<1>4. \A f \in Fds : f # fd /\ slots[t][f] # Vacant /\ s.state # "Vacant" =>
        slots[t][f].generation # s.generation
  <2> SUFFICES ASSUME NEW f \in Fds, f # fd, slots[t][f] # Vacant, s.state # "Vacant"
               PROVE  slots[t][f].generation # s.generation
    BY Zenon
  <2>1. slots[t][f].generation < next_generation[t] /\ slots[t][f].generation \in Int
    BY <1>1, SlotTyped, SlotFacts DEF IInv, GenerationsUnique, Generations
  <2>2. next_generation[t] \in Int
    BY <1>1 DEF TypeOK
  <2>3. CASE s.generation = next_generation[t]
    BY <2>1, <2>2, <2>3
  <2>4. CASE slots[t][fd].state \in {"Reserved", "Pending"} /\ s.generation = slots[t][fd].generation
    <3>1. slots[t][fd] # Vacant
      BY <2>4, <1>1, SlotTyped, SlotFacts, Zenon
    <3> QED BY <2>4, <3>1, Zenon DEF IInv, GenerationsUnique
  <2>5. s # Vacant
    BY DEF Vacant
  <2> QED BY <2>3, <2>4, <2>5, Zenon DEF Lawful
<1>5. s # Vacant <=> s.state # "Vacant"
  BY SlotFacts, Zenon
<1>6. \A u \in tables, f \in Fds : slots[u][f] # Vacant =>
        slots[u][f].generation \in Int /\ slots[u][f].generation < next_generation'[u]
  <2> SUFFICES ASSUME NEW u \in tables, NEW f \in Fds, slots[u][f] # Vacant
               PROVE  slots[u][f].generation \in Int /\ slots[u][f].generation < next_generation'[u]
    BY Zenon
  <2>1. u \in Tables
    BY <1>1, Zenon DEF TypeOK
  <2>2. slots[u][f].generation \in Int
    BY <1>1, <2>1, SlotTyped, SlotFacts DEF Generations
  <2>3. slots[u][f].generation < next_generation[u]
    BY Zenon DEF IInv, GenerationsUnique
  <2>4. next_generation[u] \in Int /\ next_generation'[u] \in Int
    BY <1>1, <1>3, <2>1 DEF TypeOK
  <2> QED BY <1>3, <2>1, <2>2, <2>3, <2>4
<1>7. GenerationsUnique'
  <2> SUFFICES ASSUME NEW u \in tables, NEW f \in Fds, NEW g \in Fds, slots'[u][f] # Vacant
               PROVE  /\ slots'[u][f].generation < next_generation'[u]
                      /\ f # g /\ slots'[u][g] # Vacant =>
                           slots'[u][f].generation # slots'[u][g].generation
    BY Zenon DEF GenerationsUnique
  <2>1. u \in Tables
    BY <1>1, Zenon DEF TypeOK
  <2>2. slots'[u][f].generation < next_generation'[u]
    BY <1>2, <1>3, <1>5, <1>6, <2>1
  <2>3. f # g /\ slots'[u][g] # Vacant => slots'[u][f].generation # slots'[u][g].generation
    BY <1>2, <1>4, <1>5, <2>1 DEF IInv, GenerationsUnique
  <2> QED BY <2>2, <2>3, Zenon
<1> QED BY <1>3, <1>7, Zenon

(* A descriptor token stays faithful; the one issued for the stored slot, if
   any, is. *)
LEMMA StoreObserved ==
  ASSUME IInv, NEW t \in tables, NEW fd \in Fds, NEW s \in Slots, Lawful(t, fd, s),
         slots' = [slots EXCEPT ![t][fd] = s], UNCHANGED tables,
         \A o \in observed' : \/ o \in observed
                              \/ s.state = "Visible" /\ o = Issued(t, fd, s.generation, s.description)
  PROVE  /\ ObservedOK'
         /\ observed' \subseteq [table : Tables, fd : Fds, generation : Generations,
                                 description : Descriptions]
<1> USE FdTableAssumption
<1>1. t \in Tables /\ TypeOK
  BY Zenon DEF IInv, TypeOK
<1>2. \A u \in Tables, f \in Fds : slots'[u][f] = IF u = t /\ f = fd THEN s ELSE slots[u][f]
  BY <1>1, StoreOne, ZenonT(40)
<1>3. GenerationsUnique' /\ next_generation' \in [Tables -> 1..MaxGeneration]
  BY StoreUnique, ZenonT(30)
<1>4. next_generation \in [Tables -> 1..MaxGeneration]
  BY <1>1, Zenon DEF TypeOK
<1>5. \A u \in Tables : next_generation'[u] >= next_generation[u]
  <2>1. CASE UNCHANGED next_generation
    BY <1>4, <2>1
  <2>2. CASE AllocateGeneration(t)
    BY <1>1, <1>4, <2>2 DEF AllocateGeneration
  <2> QED BY <2>1, <2>2, Zenon DEF Lawful
<1>6. ASSUME NEW o \in observed PROVE Faithful(o)'
  <2>1. /\ o.table \in tables /\ o.table \in Tables /\ o.fd \in Fds /\ o.generation \in Generations
        /\ o.generation < next_generation[o.table]
    BY <1>1, Zenon DEF IInv, ObservedOK, Faithful, TypeOK
  <2>2. o.generation < next_generation'[o.table]
    <3>1. o.generation \in Int /\ next_generation[o.table] \in Int /\ next_generation'[o.table] \in Int
      BY <1>3, <1>4, <2>1 DEF Generations
    <3> QED BY <1>5, <2>1, <3>1
  <2>3. CASE o.table # t \/ o.fd # fd
    <3>1. slots'[o.table][o.fd] = slots[o.table][o.fd]
      BY <1>2, <2>1, <2>3
    <3> QED BY <2>1, <2>2, <3>1, Zenon DEF IInv, ObservedOK, Faithful
  <2>4. CASE o.table = t /\ o.fd = fd
    <3>1. slots'[o.table][o.fd] = s
      BY <1>2, <2>1, <2>4, ZenonT(30)
    <3>2. ~(s.state # "Vacant" /\ s.generation = o.generation)
      <4>1. CASE s = Vacant
        BY <4>1, Zenon DEF Vacant
      <4>2. CASE slots[t][fd].state \in {"Reserved", "Pending"} /\ s.generation = slots[t][fd].generation
        <5>1. slots[t][fd].state # "Vacant" /\ slots[t][fd].state # "Visible"
          BY <4>2, Zenon
        <5>2. slots[t][fd].generation # o.generation
          BY <2>4, <5>1, Zenon DEF IInv, ObservedOK, Faithful
        <5> QED BY <4>2, <5>2, Zenon
      <4>3. CASE s.generation = next_generation[t]
        <5>1. o.generation \in Int /\ next_generation[t] \in Int
          BY <1>1, <1>4, <2>1 DEF Generations
        <5> QED BY <2>1, <2>4, <4>3, <5>1
      <4> QED BY <4>1, <4>2, <4>3, Zenon DEF Lawful
    <3> QED BY <2>1, <2>2, <3>1, <3>2, Zenon DEF Faithful
  <2> QED BY <2>3, <2>4, Zenon
<1>7. ASSUME NEW o, s.state = "Visible", o = Issued(t, fd, s.generation, s.description)
      PROVE  /\ Faithful(o)'
             /\ o \in [table : Tables, fd : Fds, generation : Generations, description : Descriptions]
  <2>1. /\ o.table = t /\ o.fd = fd /\ o.generation = s.generation
        /\ o.description = s.description
    BY <1>7, Zenon DEF Issued
  <2>2. s.generation \in Generations /\ s.description \in Descriptions /\ s # Vacant
    BY <1>7, SlotFacts, Zenon
  <2>3. slots'[t][fd] = s
    BY <1>1, <1>2, Zenon
  <2>4. s.generation < next_generation'[t]
    BY <1>3, <2>2, <2>3, Zenon DEF GenerationsUnique
  <2>5. Faithful(o)'
    BY <1>7, <2>1, <2>3, <2>4, Zenon DEF Faithful
  <2> QED BY <1>1, <1>7, <2>2, <2>5, Zenon DEF Issued
<1>8. observed \subseteq [table : Tables, fd : Fds, generation : Generations,
                          description : Descriptions]
  BY <1>1, Zenon DEF TypeOK
<1> QED BY <1>6, <1>7, <1>8, Zenon DEF ObservedOK

(* A loop is not disturbed by a store into another table, nor by the lock-free
   stores of commit and Drop, which find their slot pending. *)
LEMMA StoreLoop ==
  ASSUME IInv, NEW t \in tables, NEW fd \in Fds, NEW s \in Slots,
         slots' = [slots EXCEPT ![t][fd] = s], UNCHANGED <<tables, detach>>,
         detach.table # t \/ slots[t][fd].state = "Pending"
  PROVE  LoopOK'
<1>1. t \in Tables /\ TypeOK
  BY Zenon DEF IInv, TypeOK
<1>2. \A u \in Tables, f \in Fds : slots'[u][f] = IF u = t /\ f = fd THEN s ELSE slots[u][f]
  BY <1>1, StoreOne, ZenonT(40)
<1> SUFFICES ASSUME detach # Idle, NEW tok \in detach.due PROVE Due(tok)'
  BY Zenon DEF IInv, LoopOK
<1>3. tok \in Tokens /\ Due(tok)
  BY <1>1, LoopFacts, Zenon DEF Loops, IInv, LoopOK
<1>4. tok.table \in Tables /\ tok.fd \in Fds /\ tok.table = detach.table
  BY <1>3, TokenFacts, Zenon DEF Due
<1>5. tok.table # t \/ tok.fd # fd
  BY <1>3, <1>4 DEF Due, Vacant, Matches, Visible
<1>6. slots'[tok.table][tok.fd] = slots[tok.table][tok.fd]
  BY <1>2, <1>4, <1>5
<1> QED BY <1>3, <1>6, Zenon DEF Due, Matches, Visible

(* The holders of tokens follow the slot. *)
HoldersFollow(t, fd, s) ==
  /\ reservations' \subseteq Tokens /\ publications' \subseteq Tokens
  /\ \A r \in Tokens : r.table = t /\ r.fd = fd =>
       /\ r \in reservations' <=> s.state = "Reserved" /\ s.generation = r.generation
       /\ r \in publications' <=> s.state = "Pending" /\ s.generation = r.generation
  /\ \A r \in Tokens : ~(r.table = t /\ r.fd = fd) =>
       /\ r \in reservations' <=> r \in reservations
       /\ r \in publications' <=> r \in publications

(* Tokens stay backed when the holders change with the slot. *)
LEMMA StoreBacked ==
  ASSUME IInv, NEW t \in tables, NEW fd \in Fds, NEW s \in Slots,
         slots' = [slots EXCEPT ![t][fd] = s], UNCHANGED tables,
         HoldersFollow(t, fd, s)
  PROVE  TokensBacked'
<1>1. t \in Tables /\ TypeOK
  BY Zenon DEF IInv, TypeOK
<1>2. \A u \in Tables, f \in Fds : slots'[u][f] = IF u = t /\ f = fd THEN s ELSE slots[u][f]
  BY <1>1, StoreOne, ZenonT(30)
<1>3. ASSUME NEW r \in Tokens
      PROVE  /\ r \in reservations' <=> r.table \in tables /\ ValidReservation(r)'
             /\ r \in publications' <=> r.table \in tables /\ PhaseIsPending(r)'
  <2>1. r.table \in Tables /\ r.fd \in Fds
    BY TokenFacts, Zenon
  <2>2. CASE r.table = t /\ r.fd = fd
    <3>1. slots'[r.table][r.fd] = s
      BY <1>2, <2>1, <2>2, Zenon
    <3> QED BY <2>2, <3>1, Zenon DEF ValidReservation, PhaseIsPending, HoldersFollow
  <2>3. CASE ~(r.table = t /\ r.fd = fd)
    <3>1. slots'[r.table][r.fd] = slots[r.table][r.fd]
      BY <1>2, <2>1, <2>3, ZenonT(30)
    <3>2. /\ r \in reservations <=> r.table \in tables /\ ValidReservation(r)
          /\ r \in publications <=> r.table \in tables /\ PhaseIsPending(r)
      BY Zenon DEF IInv, TokensBacked
    <3> QED BY <2>3, <3>1, <3>2, Zenon DEF ValidReservation, PhaseIsPending, HoldersFollow
  <2> QED BY <2>2, <2>3, Zenon
<1> QED BY <1>3, Zenon DEF TokensBacked, HoldersFollow

(* A step that stores s into one slot: the shape of most actions. *)
Stores(t, fd, s) ==
  /\ t \in tables /\ fd \in Fds /\ s \in Slots
  /\ Lawful(t, fd, s) /\ HoldersFollow(t, fd, s)
  /\ slots' = [slots EXCEPT ![t][fd] = s]
  /\ UNCHANGED tables /\ UNCHANGED detach
  /\ detach.table # t \/ slots[t][fd].state = "Pending"
  /\ \A o \in observed' : \/ o \in observed
                          \/ s.state = "Visible" /\ o = Issued(t, fd, s.generation, s.description)

(* The four together: such a step keeps the invariant. *)
LEMMA StoreInv ==
  ASSUME IInv, NEW t, NEW fd, NEW s, Stores(t, fd, s)
  PROVE  IInv'
<1>1. t \in tables /\ fd \in Fds /\ s \in Slots /\ t \in Tables /\ TypeOK
  BY Zenon DEF IInv, TypeOK, Stores
<1>2. slots' \in [Tables -> [Fds -> Slots]]
  BY <1>1, StoreOne, ZenonT(30) DEF Stores
<1>3. GenerationsUnique' /\ next_generation' \in [Tables -> 1..MaxGeneration]
  BY <1>1, StoreUnique, ZenonT(30) DEF Stores
<1>4. /\ ObservedOK'
      /\ observed' \subseteq [table : Tables, fd : Fds, generation : Generations,
                              description : Descriptions]
  BY <1>1, StoreObserved, ZenonT(30) DEF Stores
<1>5. LoopOK'
  BY <1>1, StoreLoop, ZenonT(30) DEF Stores
<1>6. TokensBacked'
  BY <1>1, StoreBacked, ZenonT(30) DEF Stores
<1>7. TypeOK'
  BY <1>1, <1>2, <1>3, <1>4, Zenon DEF TypeOK, Stores, HoldersFollow
<1> QED BY <1>3, <1>4, <1>5, <1>6, <1>7, Zenon DEF IInv

(* Tokens and slots, in both directions. *)
LEMMA Holders ==
  ASSUME IInv, NEW t \in tables, NEW fd \in Fds, NEW r \in Tokens, r.table = t, r.fd = fd
  PROVE  /\ r \in reservations <=>
              slots[t][fd].state = "Reserved" /\ slots[t][fd].generation = r.generation
         /\ r \in publications <=>
              slots[t][fd].state = "Pending" /\ slots[t][fd].generation = r.generation
BY Zenon DEF IInv, TokensBacked, ValidReservation, PhaseIsPending

(* The token of a held reservation or publication. *)
LEMMA Held ==
  ASSUME IInv, NEW r \in reservations \union publications
  PROVE  /\ r \in Tokens /\ r.table \in tables /\ r.table \in Tables /\ r.fd \in Fds
         /\ r.generation \in Generations
         /\ slots[r.table][r.fd].generation = r.generation
         /\ r \in reservations <=> slots[r.table][r.fd].state = "Reserved"
         /\ r \in publications <=> slots[r.table][r.fd].state = "Pending"
<1>1. r \in Tokens /\ r.table \in tables /\ (ValidReservation(r) \/ PhaseIsPending(r))
  BY Zenon DEF IInv, TokensBacked
<1>2. r.table \in Tables /\ r.fd \in Fds /\ r.generation \in Generations
  BY <1>1, TokenFacts, Zenon
<1>3. slots[r.table][r.fd].generation = r.generation
  BY <1>1, Zenon DEF ValidReservation, PhaseIsPending
<1> QED BY <1>1, <1>2, <1>3, Holders, ZenonT(30)

-----------------------------------------------------------------------------
(* The initial state satisfies the invariant. *)
LEMMA InitIInv == Init => IInv
<1> SUFFICES ASSUME Init PROVE IInv
  BY Zenon
<1> USE FdTableAssumption
<1>1. Vacant \in Slots /\ Vacant.state = "Vacant"
  BY Zenon DEF Slots, Vacant
<1>2. TypeOK
  BY <1>1 DEF Init, TypeOK
<1>3. \A t \in Tables, fd \in Fds : slots[t][fd] = Vacant
  BY Zenon DEF Init
<1>4. TokensBacked
  <2>1. \A r \in Tokens : slots[r.table][r.fd].state = "Vacant"
    BY <1>1, <1>3, TokenFacts, Zenon
  <2> QED BY <2>1, Zenon DEF TokensBacked, ValidReservation, PhaseIsPending, Init
<1>5. GenerationsUnique
  BY <1>3, Zenon DEF GenerationsUnique, Init
<1>6. ObservedOK /\ LoopOK
  BY Zenon DEF ObservedOK, LoopOK, Init
<1> QED BY <1>2, <1>4, <1>5, <1>6, Zenon DEF IInv

(* reserve *)
LEMMA ReserveInv ==
  ASSUME IInv, NEW t \in Tables, NEW minimum \in Fds, NEW limit \in 1..Capacity,
         NEW c \in Flags, Reserve(t, minimum, limit, c)
  PROVE  IInv'
<1> USE FdTableAssumption
<1>1. t \in tables /\ detach.table # t /\ TypeOK
  BY Zenon DEF IInv, Reserve, Free
<1>2. PICK fd \in LowestVacant(t, minimum, limit) :
        /\ slots' = [slots EXCEPT ![t][fd] = Reserved(next_generation[t], c)]
        /\ reservations' = reservations \union {Token(t, fd, next_generation[t])}
  BY ZenonT(30) DEF Reserve, SetSlot
<1>3. fd \in Fds /\ slots[t][fd] = Vacant
  BY <1>2 DEF LowestVacant, Fds
<1>4. next_generation[t] \in Generations
  BY <1>1 DEF Reserve, AllocateGeneration, TypeOK, Generations
<1>5. PICK s \in Slots : s = Reserved(next_generation[t], c)
  BY <1>4, ZenonT(30) DEF Slots, Reserved
<1>6. s.state = "Reserved" /\ s.generation = next_generation[t]
  BY <1>5, Zenon DEF Reserved
<1>7. Lawful(t, fd, s)
  BY <1>6, Zenon DEF Lawful, Reserve
<1>8. HoldersFollow(t, fd, s)
  <2>1. reservations' \subseteq Tokens /\ publications' \subseteq Tokens
    BY <1>1, <1>2, <1>3, <1>4, TokenFacts DEF TypeOK, Reserve
  <2>2. ASSUME NEW r \in Tokens, r.table = t, r.fd = fd
        PROVE  /\ r \in reservations' <=> s.generation = r.generation
               /\ r \notin publications'
    <3>1. r \notin reservations /\ r \notin publications
      BY <1>1, <1>3, <2>2, Holders DEF Vacant
    <3>2. r = Token(t, fd, r.generation)
      BY <2>2, TokenFacts, Zenon
    <3> QED BY <1>2, <1>6, <3>1, <3>2 DEF Reserve, Token
  <2>3. \A r \in Tokens : ~(r.table = t /\ r.fd = fd) =>
          /\ r \in reservations' <=> r \in reservations
          /\ r \in publications' <=> r \in publications
    BY <1>2 DEF Reserve, Token
  <2> QED BY <1>6, <2>1, <2>2, <2>3, Zenon DEF HoldersFollow
<1>9. slots' = [slots EXCEPT ![t][fd] = s]
  BY <1>2, <1>5, Zenon
<1>10. UNCHANGED tables /\ UNCHANGED detach /\ observed' = observed
  BY Zenon DEF Reserve
<1>11. Stores(t, fd, s)
  BY <1>1, <1>3, <1>5, <1>7, <1>8, <1>9, <1>10, Zenon DEF Stores
<1> QED BY <1>11, StoreInv, Zenon

(* The holder of a reservation or publication spends it, or keeps it as a
   publication. *)
LEMMA Handover ==
  ASSUME IInv, NEW r \in reservations \union publications, NEW s, s.state # "Reserved",
         s.state = "Pending" => s.generation = r.generation,
         reservations' = reservations \ {r},
         publications' = IF s.state = "Pending" THEN publications \union {r} ELSE publications \ {r}
  PROVE  HoldersFollow(r.table, r.fd, s)
<1>1. /\ r \in Tokens /\ r.table \in tables /\ r.fd \in Fds
      /\ slots[r.table][r.fd].generation = r.generation
  BY Held, Zenon
<1>2. reservations \subseteq Tokens /\ publications \subseteq Tokens
  BY Zenon DEF IInv, TypeOK
<1>3. ASSUME NEW q \in Tokens, q.table = r.table, q.fd = r.fd, q # r
      PROVE  q \notin reservations /\ q \notin publications /\ q.generation # r.generation
  <2>1. q.generation # r.generation
    BY <1>1, <1>3, TokenFacts, Zenon
  <2> QED BY <1>1, <1>3, <2>1, Holders, Zenon
<1>4. ASSUME NEW q \in Tokens, q.table = r.table, q.fd = r.fd
      PROVE  /\ q \in reservations' <=> s.state = "Reserved" /\ s.generation = q.generation
             /\ q \in publications' <=> s.state = "Pending" /\ s.generation = q.generation
  BY <1>3, <1>4, Zenon
<1>5. \A q \in Tokens : ~(q.table = r.table /\ q.fd = r.fd) =>
        /\ q \in reservations' <=> q \in reservations
        /\ q \in publications' <=> q \in publications
  BY Zenon
<1> QED BY <1>1, <1>2, <1>4, <1>5, Zenon DEF HoldersFollow

(* A slot that nobody holds a token for, before or after. *)
LEMMA NoHolders ==
  ASSUME IInv, NEW t \in tables, NEW fd \in Fds, NEW s,
         slots[t][fd].state \notin {"Reserved", "Pending"}, s.state \notin {"Reserved", "Pending"},
         UNCHANGED <<reservations, publications>>
  PROVE  HoldersFollow(t, fd, s)
<1>1. reservations \subseteq Tokens /\ publications \subseteq Tokens
  BY Zenon DEF IInv, TypeOK
<1>2. \A r \in Tokens : r.table = t /\ r.fd = fd => r \notin reservations /\ r \notin publications
  BY Holders, Zenon
<1> QED BY <1>1, <1>2, Zenon DEF HoldersFollow

(* A vacant slot is one. *)
LEMMA VacantFacts == Vacant \in Slots /\ Vacant.state = "Vacant"
BY Zenon DEF Slots, Vacant

(* cancel_reservation *)
LEMMA CancelReservationInv ==
  ASSUME IInv, NEW r \in reservations, CancelReservation(r)
  PROVE  IInv'
<1>1. r.table \in tables /\ r.fd \in Fds /\ slots[r.table][r.fd].state = "Reserved"
      /\ r \notin publications
  BY Held, Zenon
<1>2. HoldersFollow(r.table, r.fd, Vacant)
  BY <1>1, Handover, VacantFacts, Zenon DEF CancelReservation
<1>3. Stores(r.table, r.fd, Vacant)
  BY <1>1, <1>2, VacantFacts, Zenon DEF Stores, Lawful, CancelReservation, Free, SetSlot
<1> QED BY <1>3, StoreInv, Zenon

(* publish *)
LEMMA PublishInv ==
  ASSUME IInv, NEW r \in reservations, NEW d \in Descriptions, Publish(r, d)
  PROVE  IInv'
<1>1. /\ r.table \in tables /\ r.table \in Tables /\ r.fd \in Fds /\ r.generation \in Generations
      /\ slots[r.table][r.fd].state = "Reserved" /\ r \notin publications
      /\ slots[r.table][r.fd].generation = r.generation
  BY Held, Zenon
<1>2. slots[r.table][r.fd].cloexec \in BOOLEAN
  BY <1>1, SlotTyped, SlotFacts, Zenon DEF IInv
<1>3. PICK s \in Slots : s = Slot("Visible", r.generation, d, slots[r.table][r.fd].cloexec)
  BY <1>1, <1>2, ZenonT(30) DEF Slots, Slot
<1>4. s.state = "Visible" /\ s.generation = r.generation /\ s.description = d
  BY <1>3, Zenon DEF Slot
<1>5. HoldersFollow(r.table, r.fd, s)
  BY <1>1, <1>4, Handover, Zenon DEF Publish
<1>6. slots' = [slots EXCEPT ![r.table][r.fd] = s]
  BY <1>3, Zenon DEF Publish, SetSlot
<1>7. Lawful(r.table, r.fd, s)
  BY <1>1, <1>4, Zenon DEF Lawful, Publish
<1>8. Stores(r.table, r.fd, s)
  BY <1>1, <1>4, <1>5, <1>6, <1>7, Zenon DEF Stores, Publish, Free
<1> QED BY <1>8, StoreInv, Zenon

(* prepare_publication *)
LEMMA PreparePublicationInv ==
  ASSUME IInv, NEW r \in reservations, NEW d \in Descriptions, PreparePublication(r, d)
  PROVE  IInv'
<1>1. /\ r.table \in tables /\ r.table \in Tables /\ r.fd \in Fds /\ r.generation \in Generations
      /\ slots[r.table][r.fd].state = "Reserved" /\ r \notin publications
      /\ slots[r.table][r.fd].generation = r.generation
  BY Held, Zenon
<1>2. slots[r.table][r.fd].cloexec \in BOOLEAN
  BY <1>1, SlotTyped, SlotFacts, Zenon DEF IInv
<1>3. PICK s \in Slots : s = Slot("Pending", r.generation, d, slots[r.table][r.fd].cloexec)
  BY <1>1, <1>2, ZenonT(30) DEF Slots, Slot
<1>4. s.state = "Pending" /\ s.generation = r.generation /\ s.description = d
  BY <1>3, SMTT(30) DEF Slot
<1>5. HoldersFollow(r.table, r.fd, s)
  BY <1>1, <1>4, Handover, Zenon DEF PreparePublication
<1>6. slots' = [slots EXCEPT ![r.table][r.fd] = s]
  BY <1>3, Zenon DEF PreparePublication, SetSlot
<1>7. Lawful(r.table, r.fd, s)
  BY <1>1, <1>4, Zenon DEF Lawful, PreparePublication
<1>8. Stores(r.table, r.fd, s)
  BY <1>1, <1>4, <1>5, <1>6, <1>7, Zenon DEF Stores, PreparePublication, Free
<1> QED BY <1>8, StoreInv, Zenon

(* PreparedPublication::commit and Drop: the phase of the pending slot changes,
   under no lock and whatever loop is running. *)
LEMMA StorePhaseInv ==
  ASSUME IInv, NEW p \in publications, NEW phase \in {"Visible", "Aborted"},
         StorePhase(p, phase), publications' = publications \ {p},
         UNCHANGED <<tables, next_generation, reservations, detach>>,
         \A o \in observed' : \/ o \in observed
                              \/ /\ phase = "Visible"
                                 /\ o = Issued(p.table, p.fd, p.generation,
                                               slots[p.table][p.fd].description)
  PROVE  IInv'
<1>1. /\ p.table \in tables /\ p.table \in Tables /\ p.fd \in Fds /\ p.generation \in Generations
      /\ slots[p.table][p.fd].state = "Pending" /\ p \notin reservations
      /\ slots[p.table][p.fd].generation = p.generation
  BY Held, Zenon
<1>2. slots[p.table][p.fd] \in
        [state : {"Pending", "Aborted", "Visible"}, generation : Generations,
         description : Descriptions, cloexec : BOOLEAN]
  BY <1>1, SlotTyped, SlotFacts, Zenon DEF IInv
<1>3. PICK s \in Slots : s = [slots[p.table][p.fd] EXCEPT !.state = phase]
  BY <1>2, ZenonT(30) DEF Slots
<1>4. /\ s.state = phase /\ s.generation = p.generation
      /\ s.description = slots[p.table][p.fd].description
  BY <1>1, <1>2, <1>3, SMTT(30)
<1>5. slots' = [slots EXCEPT ![p.table][p.fd] = s]
  BY <1>1, <1>3, Zenon DEF StorePhase, PhaseIsPending
<1>6. HoldersFollow(p.table, p.fd, s)
  BY <1>1, <1>4, Handover, Zenon
<1>7. Lawful(p.table, p.fd, s)
  BY <1>1, <1>4, SMTT(30) DEF Lawful
<1>8. Stores(p.table, p.fd, s)
  BY <1>1, <1>4, <1>5, <1>6, <1>7, Zenon DEF Stores
<1> QED BY <1>8, StoreInv, Zenon

(* cancel_prepared *)
LEMMA CancelPreparedInv ==
  ASSUME IInv, NEW p \in publications, CancelPrepared(p)
  PROVE  IInv'
<1>1. p.table \in tables /\ p.fd \in Fds /\ slots[p.table][p.fd].state = "Pending"
      /\ p \notin reservations
  BY Held, Zenon
<1>2. HoldersFollow(p.table, p.fd, Vacant)
  BY <1>1, Handover, VacantFacts, Zenon DEF CancelPrepared
<1>3. Stores(p.table, p.fd, Vacant)
  BY <1>1, <1>2, VacantFacts, Zenon DEF Stores, Lawful, CancelPrepared, Free, SetSlot
<1> QED BY <1>3, StoreInv, Zenon

(* close *)
LEMMA CloseInv ==
  ASSUME IInv, NEW t \in Tables, NEW fd \in Fds, Close(t, fd)
  PROVE  IInv'
<1>1. t \in tables /\ detach.table # t /\ slots[t][fd].state = "Visible"
  BY Zenon DEF Close, Free, Visible
<1>2. HoldersFollow(t, fd, Vacant)
  BY <1>1, NoHolders, VacantFacts, Zenon DEF Close
<1>3. Stores(t, fd, Vacant)
  BY <1>1, <1>2, VacantFacts, Zenon DEF Stores, Lawful, Close, SetSlot
<1> QED BY <1>3, StoreInv, Zenon

(* duplicate and duplicate_replace: a description gets another number, with a
   generation of its own. *)
LEMMA CopyInv ==
  ASSUME IInv, NEW t \in Tables, NEW source \in Fds, NEW fd \in Fds, NEW c \in Flags,
         Free(t), Visible(t, source), AllocateGeneration(t), ~BlocksReplacement(t, fd),
         SetSlot(t, fd, Slot("Visible", next_generation[t], slots[t][source].description, c)),
         observed' = observed \union
           {Issued(t, fd, next_generation[t], slots[t][source].description)},
         UNCHANGED <<tables, reservations, publications, detach>>
  PROVE  IInv'
<1>1. t \in tables /\ detach.table # t /\ TypeOK
  BY Zenon DEF IInv, Free
<1>2. next_generation[t] \in Generations
  BY <1>1, FdTableAssumption DEF AllocateGeneration, TypeOK, Generations
<1>3. slots[t][source].description \in Descriptions
  BY <1>1, SlotTyped, SlotFacts, Zenon DEF Visible
<1>4. PICK s \in Slots : s = Slot("Visible", next_generation[t], slots[t][source].description, c)
  BY <1>2, <1>3, FdTableAssumption, Zenon DEF Slots, Slot
<1>5. /\ s.state = "Visible" /\ s.generation = next_generation[t]
      /\ s.description = slots[t][source].description
  BY <1>4, Zenon DEF Slot
<1>6. HoldersFollow(t, fd, s)
  BY <1>1, <1>5, NoHolders, Zenon DEF BlocksReplacement
<1>7. slots' = [slots EXCEPT ![t][fd] = s]
  BY <1>4, SMTT(30) DEF SetSlot
<1>8. Lawful(t, fd, s)
  BY <1>5, Zenon DEF Lawful
<1>9. Stores(t, fd, s)
  BY <1>1, <1>5, <1>6, <1>7, <1>8, SMTT(30) DEF Stores
<1> QED BY <1>9, StoreInv, Zenon

(* A step that keeps the state, generation and description of every slot, and
   issues descriptor tokens only for what slots show. *)
LEMMA CosmeticInv ==
  ASSUME IInv, slots' \in [Tables -> [Fds -> Slots]],
         \A u \in Tables, f \in Fds :
           /\ slots'[u][f].state = slots[u][f].state
           /\ slots[u][f].state # "Vacant" => slots'[u][f].generation = slots[u][f].generation
           /\ slots[u][f].state = "Visible" => slots'[u][f].description = slots[u][f].description
           /\ u = detach.table => slots'[u][f] = slots[u][f],
         \A o \in observed' :
           \/ o \in observed
           \/ \E u \in tables, f \in Fds :
                slots[u][f].state = "Visible"
                /\ o = Issued(u, f, slots[u][f].generation, slots[u][f].description),
         UNCHANGED <<tables, next_generation, reservations, publications, detach>>
  PROVE  IInv'
<1>1. TypeOK /\ tables \subseteq Tables
  BY Zenon DEF IInv, TypeOK
<1>2. \A u \in Tables, f \in Fds : slots'[u][f] # Vacant <=> slots[u][f] # Vacant
  <2> SUFFICES ASSUME NEW u \in Tables, NEW f \in Fds
               PROVE  slots'[u][f] # Vacant <=> slots[u][f] # Vacant
    BY Zenon
  <2>1. slots[u][f] \in Slots /\ slots'[u][f] \in Slots
    BY <1>1, SlotTyped, Zenon
  <2> QED BY <2>1, SlotFacts, ZenonT(30)
<1>3. \A u \in Tables, f \in Fds : slots[u][f] # Vacant <=> slots[u][f].state # "Vacant"
  BY <1>1, SlotTyped, SlotFacts, SMTT(30)
<1>4. TokensBacked'
  <2>1. \A r \in Tokens : /\ ValidReservation(r)' <=> ValidReservation(r)
                          /\ PhaseIsPending(r)' <=> PhaseIsPending(r)
    <3> SUFFICES ASSUME NEW r \in Tokens
                 PROVE  /\ ValidReservation(r)' <=> ValidReservation(r)
                        /\ PhaseIsPending(r)' <=> PhaseIsPending(r)
      BY Zenon
    <3>1. r.table \in Tables /\ r.fd \in Fds
      BY TokenFacts, SMTT(30)
    <3> QED BY <3>1, Zenon DEF ValidReservation, PhaseIsPending
  <2> QED BY <2>1, SMTT(30) DEF IInv, TokensBacked
<1>5. GenerationsUnique'
  BY <1>1, <1>2, <1>3, SMTT(30) DEF IInv, GenerationsUnique
<1>6. LoopOK'
  <2> SUFFICES ASSUME detach # Idle, NEW tok \in detach.due PROVE Due(tok)'
    BY Zenon DEF IInv, LoopOK
  <2>1. tok \in Tokens /\ Due(tok)
    BY <1>1, LoopFacts, SMTT(30) DEF Loops, IInv, LoopOK
  <2>2. tok.table \in Tables /\ tok.fd \in Fds /\ tok.table = detach.table
    BY <2>1, TokenFacts, Zenon DEF Due
  <2>3. slots'[tok.table][tok.fd] = slots[tok.table][tok.fd]
    BY <2>2, SMTT(30)
  <2> QED BY <2>1, <2>3, SMTT(30) DEF Due, Matches, Visible
<1>7. ASSUME NEW o \in observed PROVE Faithful(o)'
  <2>1. o.table \in Tables /\ o.fd \in Fds /\ Faithful(o)
    BY <1>1, SMTT(30) DEF IInv, TypeOK, ObservedOK
  <2> QED BY <2>1, Zenon DEF Faithful
<1>8. ASSUME NEW u \in tables, NEW f \in Fds, slots[u][f].state = "Visible", NEW o,
             o = Issued(u, f, slots[u][f].generation, slots[u][f].description)
      PROVE  /\ Faithful(o)'
             /\ o \in [table : Tables, fd : Fds, generation : Generations, description : Descriptions]
  <2>1. /\ u \in Tables /\ slots[u][f].generation \in Generations
        /\ slots[u][f].description \in Descriptions /\ slots[u][f] # Vacant
    BY <1>1, <1>8, SlotTyped, SlotFacts, SMTT(30)
  <2>2. slots[u][f].generation < next_generation[u]
    BY <2>1, SMTT(30) DEF IInv, GenerationsUnique
  <2>3. /\ o.table = u /\ o.fd = f /\ o.generation = slots[u][f].generation
        /\ o.description = slots[u][f].description
    BY <1>8, SMTT(30) DEF Issued
  <2>4. Faithful(o)'
    BY <1>8, <2>1, <2>2, <2>3, SMTT(30) DEF Faithful
  <2> QED BY <1>8, <2>1, <2>4, SMTT(30) DEF Issued
<1>9. ObservedOK'
  BY <1>7, <1>8, SMTT(30) DEF ObservedOK
<1>10. observed' \subseteq [table : Tables, fd : Fds, generation : Generations,
                            description : Descriptions]
  BY <1>1, <1>8, SMTT(30) DEF TypeOK
<1>11. TypeOK'
  BY <1>1, <1>10, Zenon DEF TypeOK
<1> QED BY <1>4, <1>5, <1>6, <1>9, <1>11, Zenon DEF IInv

(* token *)
LEMMA ObserveInv ==
  ASSUME IInv, NEW t \in Tables, NEW fd \in Fds, Observe(t, fd)
  PROVE  IInv'
<1>1. /\ UNCHANGED <<tables, next_generation, reservations, publications, detach>>
      /\ slots' = slots /\ slots \in [Tables -> [Fds -> Slots]]
  BY Zenon DEF Observe, IInv, TypeOK
<1>2. t \in tables /\ slots[t][fd].state = "Visible"
  BY Zenon DEF Observe, Free, Visible
<1>3. \A o \in observed' :
        \/ o \in observed
        \/ \E u \in tables, f \in Fds :
             slots[u][f].state = "Visible"
             /\ o = Issued(u, f, slots[u][f].generation, slots[u][f].description)
  BY <1>2, SMTT(30) DEF Observe
<1> QED BY <1>1, <1>3, CosmeticInv, Zenon

(* set_close_on_exec, mark_close_on_exec_range *)
LEMMA MarkCloseOnExecInv ==
  ASSUME IInv, NEW t \in Tables, NEW first \in Fds, NEW last \in Fds, NEW c \in Flags,
         MarkCloseOnExec(t, first, last, c)
  PROVE  IInv'
<1>1. /\ UNCHANGED <<tables, next_generation, reservations, publications, detach>>
      /\ observed' = observed /\ detach.table # t
  BY Zenon DEF MarkCloseOnExec, Free
<1>2. slots \in [Tables -> [Fds -> Slots]]
  BY Zenon DEF IInv, TypeOK
<1> DEFINE marked(fd) == IF fd \in first..last /\ Visible(t, fd)
                         THEN [slots[t][fd] EXCEPT !.cloexec = c] ELSE slots[t][fd]
<1>3. slots' = [slots EXCEPT ![t] = [fd \in Fds |-> marked(fd)]]
  BY Zenon DEF MarkCloseOnExec
<1>4. ASSUME NEW fd \in Fds
      PROVE  /\ marked(fd) \in Slots /\ marked(fd).state = slots[t][fd].state
             /\ slots[t][fd].state # "Vacant" => marked(fd).generation = slots[t][fd].generation
             /\ slots[t][fd].state = "Visible" => marked(fd).description = slots[t][fd].description
  <2>1. slots[t][fd] \in Slots
    BY <1>2, Zenon
  <2>2. CASE ~(fd \in first..last /\ Visible(t, fd))
    BY <2>1, <2>2, Zenon
  <2>3. CASE fd \in first..last /\ Visible(t, fd)
    <3>1. slots[t][fd] \in [state : {"Pending", "Aborted", "Visible"}, generation : Generations,
                            description : Descriptions, cloexec : BOOLEAN]
      BY <2>1, <2>3, SlotFacts, Zenon DEF Visible
    <3>2. marked(fd) = [slots[t][fd] EXCEPT !.cloexec = c]
      BY <2>3, Zenon
    <3>3. marked(fd) \in [state : {"Pending", "Aborted", "Visible"}, generation : Generations,
                          description : Descriptions, cloexec : BOOLEAN]
      BY <3>1, <3>2, FdTableAssumption, Zenon
    <3> HIDE DEF marked
    <3> QED BY <3>1, <3>2, <3>3, SMTT(30) DEF Slots
  <2> QED BY <2>2, <2>3, Zenon
<1> HIDE DEF marked
<1>5. slots' \in [Tables -> [Fds -> Slots]]
  BY <1>2, <1>3, <1>4, Zenon
<1>6. \A u \in Tables, f \in Fds : slots'[u][f] = IF u = t THEN marked(f) ELSE slots[u][f]
  BY <1>2, <1>3, SMTT(30)
<1>7. \A u \in Tables, f \in Fds :
        /\ slots'[u][f].state = slots[u][f].state
        /\ slots[u][f].state # "Vacant" => slots'[u][f].generation = slots[u][f].generation
        /\ slots[u][f].state = "Visible" => slots'[u][f].description = slots[u][f].description
        /\ u = detach.table => slots'[u][f] = slots[u][f]
  BY <1>1, <1>4, <1>6, ZenonT(30)
<1> QED BY <1>1, <1>5, <1>7, CosmeticInv, Zenon

(* What fork_copy copies, and the generations it gives the copies. *)
Shown(t) == {fd \in Fds : Inherits(t, fd)}
Rank(t) == [fd \in Fds |-> Cardinality({f \in Shown(t) : f <= fd})]

(* The numbers of a table are finitely many, and a count of the visible ones up
   to fd tells them apart; there are no more than generations were issued. *)
LEMMA CopyGenerations ==
  ASSUME IInv, NEW t \in tables
  PROVE  /\ Cardinality(Shown(t)) \in Nat /\ Cardinality(Shown(t)) < next_generation[t]
         /\ \A fd \in Shown(t) : Rank(t)[fd] \in 1..Cardinality(Shown(t))
         /\ \A f, g \in Shown(t) : f # g => Rank(t)[f] # Rank(t)[g]
<1> USE FdTableAssumption
<1>8. PICK V : V = Shown(t) /\ V = {fd \in Fds : Inherits(t, fd)}
  BY ZenonT(30) DEF Shown
<1>9. PICK rank : rank = Rank(t) /\ rank = [fd \in Fds |-> Cardinality({f \in V : f <= fd})]
  BY <1>8, ZenonT(30) DEF Rank
<1>1. t \in Tables /\ TypeOK /\ next_generation[t] \in 1..MaxGeneration
  BY Zenon DEF IInv, TypeOK
<1>2. IsFiniteSet(V) /\ Cardinality(V) \in Nat
  <2>1. IsFiniteSet(Fds) /\ V \in SUBSET Fds
    BY <1>8, FS_Interval DEF Fds
  <2> QED BY <2>1, FS_Subset, FS_CardinalityType, Zenon
<1>3. \A fd \in V : fd \in Int /\ fd \in Fds
  BY <1>8 DEF Fds
<1>4. ASSUME NEW fd \in V PROVE rank[fd] \in 1..Cardinality(V)
  <2>1. {f \in V : f <= fd} \in SUBSET V /\ fd \in {f \in V : f <= fd}
    BY <1>3
  <2>2. /\ IsFiniteSet({f \in V : f <= fd})
        /\ Cardinality({f \in V : f <= fd}) <= Cardinality(V)
    BY <1>2, <2>1, FS_Subset, Zenon
  <2>3. Cardinality({f \in V : f <= fd}) \in Nat /\ Cardinality({f \in V : f <= fd}) # 0
    BY <2>1, <2>2, FS_CardinalityType, FS_EmptySet, Zenon
  <2>4. rank[fd] = Cardinality({f \in V : f <= fd})
    BY <1>3, <1>9, Zenon
  <2> QED BY <1>2, <2>2, <2>3, <2>4
<1>5. ASSUME NEW f \in V, NEW g \in V, f < g PROVE rank[f] # rank[g]
  <2> DEFINE F == {x \in V : x <= f}
             G == {x \in V : x <= g}
  <2>1. F \in SUBSET G /\ g \in G /\ g \notin F
    BY <1>3, <1>5
  <2>2. IsFiniteSet(G)
    BY <1>2, FS_Subset, Zenon
  <2>3. Cardinality(G) # Cardinality(F)
    BY <2>1, <2>2, FS_Subset, Zenon
  <2> QED BY <1>3, <1>9, <2>3, Zenon
<1>6. ASSUME NEW f \in V, NEW g \in V, f # g PROVE rank[f] # rank[g]
  <2>1. f < g \/ g < f
    BY ONLY <1>3, <1>6
  <2>2. CASE f < g
    BY ONLY <1>5, <2>2, Zenon
  <2>3. CASE g < f
    BY ONLY <1>5, <2>3, Zenon
  <2> QED BY <2>1, <2>2, <2>3, Zenon
<1>7. Cardinality(V) < next_generation[t]
  <2> DEFINE issued == 1..(next_generation[t] - 1)
             gen == [fd \in V |-> slots[t][fd].generation]
  <2>1. \A fd \in V : slots[t][fd] # Vacant /\ slots[t][fd].generation \in issued
    <3> SUFFICES ASSUME NEW fd \in V
                 PROVE  slots[t][fd] # Vacant /\ slots[t][fd].generation \in issued
      BY Zenon
    <3>1. slots[t][fd].state = "Visible" /\ fd \in Fds
      BY <1>8, Zenon DEF Inherits, Visible
    <3>2. slots[t][fd] # Vacant /\ slots[t][fd].generation \in Generations
      BY <1>1, <3>1, SlotTyped, SlotFacts, Zenon
    <3>3. slots[t][fd].generation < next_generation[t]
      BY <3>1, <3>2, Zenon DEF IInv, GenerationsUnique
    <3> QED BY <1>1, <3>2, <3>3 DEF Generations
  <2>2. IsFiniteSet(issued) /\ Cardinality(issued) = next_generation[t] - 1
    BY <1>1, FS_Interval
  <2>3. gen \in [V -> issued]
    BY <2>1, Zenon
  <2>4. \A f, g \in V : f # g => gen[f] # gen[g]
    BY <1>3, <2>1, Zenon DEF IInv, GenerationsUnique
  <2>5. ~(Cardinality(issued) < Cardinality(V))
    <3> HIDE DEF issued, gen
    <3> QED BY <1>2, <2>2, <2>3, <2>4, FS_PigeonHole
  <2> QED BY <1>1, <1>2, <2>2, <2>5, SMTT(30)
<1> QED BY <1>2, <1>4, <1>6, <1>7, <1>8, <1>9, Zenon

(* fork_copy: the copy counts its own generations, and no token of the parent
   names the copy. *)
LEMMA ForkCopyInv ==
  ASSUME IInv, NEW t \in Tables, NEW u \in Tables, ForkCopy(t, u)
  PROVE  IInv'
<1> USE FdTableAssumption
<1>1. /\ t \in tables /\ u \notin tables /\ tables' = tables \union {u} /\ TypeOK
      /\ UNCHANGED <<reservations, publications, observed, detach>> /\ tables \subseteq Tables
  BY Zenon DEF ForkCopy, Free, IInv, TypeOK
<1>2. PICK V : V = Shown(t) /\ V = {fd \in Fds : Inherits(t, fd)}
  BY ZenonT(30) DEF Shown
<1>3. PICK rank : rank = Rank(t) /\ rank = [fd \in Fds |-> Cardinality({f \in V : f <= fd})]
  BY <1>2, ZenonT(30) DEF Rank
<1>4. /\ Cardinality(V) \in Nat /\ Cardinality(V) < next_generation[t]
      /\ \A fd \in V : rank[fd] \in 1..Cardinality(V)
      /\ \A f, g \in V : f # g => rank[f] # rank[g]
  <2>1. V = Shown(t) /\ rank = Rank(t)
    BY <1>2, <1>3, Zenon
  <2> QED BY <1>1, <2>1, CopyGenerations, Zenon
<1>5. next_generation' = [next_generation EXCEPT ![u] = 1 + Cardinality(V)]
  BY <1>2, Zenon DEF ForkCopy
<1>6. next_generation' \in [Tables -> 1..MaxGeneration]
  <2>1. next_generation \in [Tables -> 1..MaxGeneration]
    BY <1>1, Zenon DEF TypeOK
  <2>2. 1 + Cardinality(V) \in 1..MaxGeneration
    BY <1>4, <2>1
  <2> QED BY <1>5, <2>1, <2>2, Zenon
<1> DEFINE copy(fd) == IF fd \in V THEN [slots[t][fd] EXCEPT !.generation = rank[fd]] ELSE Vacant
<1>7. slots' = [slots EXCEPT ![u] = [fd \in Fds |-> copy(fd)]]
  BY <1>2, <1>3, ZenonT(30) DEF ForkCopy
<1>8. ASSUME NEW fd \in Fds
      PROVE  /\ copy(fd) \in Slots /\ copy(fd).state \in {"Vacant", "Visible"}
             /\ copy(fd) # Vacant => fd \in V /\ copy(fd).generation = rank[fd]
  <2>1. CASE fd \notin V
    BY <2>1, VacantFacts, Zenon
  <2>2. CASE fd \in V
    <3>1. slots[t][fd].state = "Visible"
      BY <1>2, <2>2, Zenon DEF Inherits, Visible
    <3>2. slots[t][fd] \in [state : {"Pending", "Aborted", "Visible"}, generation : Generations,
                            description : Descriptions, cloexec : BOOLEAN]
      BY <1>1, <3>1, SlotTyped, SlotFacts, SMTT(30)
    <3>3. rank[fd] \in Generations
      BY <1>1, <1>4, <2>2 DEF Generations, TypeOK
    <3>4. copy(fd) = [slots[t][fd] EXCEPT !.generation = rank[fd]]
      BY <2>2, Zenon
    <3>5. copy(fd) \in [state : {"Pending", "Aborted", "Visible"}, generation : Generations,
                        description : Descriptions, cloexec : BOOLEAN]
      BY <3>2, <3>3, <3>4, SMTT(30)
    <3> HIDE DEF copy
    <3> QED BY <2>2, <3>1, <3>2, <3>4, <3>5, Zenon DEF Slots
  <2> QED BY <2>1, <2>2, Zenon
<1> HIDE DEF copy
<1>9. slots' \in [Tables -> [Fds -> Slots]]
  BY <1>1, <1>7, <1>8, Zenon DEF TypeOK
<1>10. \A v \in Tables, f \in Fds : slots'[v][f] = IF v = u THEN copy(f) ELSE slots[v][f]
  BY <1>1, <1>7, Zenon DEF TypeOK
<1>11. TypeOK'
  BY <1>1, <1>6, <1>9, SMTT(30) DEF TypeOK
<1>12. TokensBacked'
  <2>1. ASSUME NEW r \in Tokens
        PROVE  /\ r \in reservations <=> r.table \in tables' /\ ValidReservation(r)'
               /\ r \in publications <=> r.table \in tables' /\ PhaseIsPending(r)'
    <3>1. r.table \in Tables /\ r.fd \in Fds
      BY TokenFacts, Zenon
    <3>2. /\ r \in reservations <=> r.table \in tables /\ ValidReservation(r)
          /\ r \in publications <=> r.table \in tables /\ PhaseIsPending(r)
      BY SMTT(30) DEF IInv, TokensBacked
    <3>3. CASE r.table = u
      <4>1. slots'[r.table][r.fd].state \in {"Vacant", "Visible"}
        BY <1>8, <1>10, <3>1, <3>3, SMTT(30)
      <4> QED BY <1>1, <3>2, <3>3, <4>1, SMTT(30) DEF ValidReservation, PhaseIsPending
    <3>4. CASE r.table # u
      <4>1. slots'[r.table][r.fd] = slots[r.table][r.fd]
        BY <1>10, <3>1, <3>4, SMTT(30)
      <4> QED BY <1>1, <3>2, <3>4, <4>1, Zenon DEF ValidReservation, PhaseIsPending
    <3> QED BY <3>3, <3>4, Zenon
  <2> QED BY <1>1, <2>1, Zenon DEF TokensBacked, IInv, TypeOK
<1>13. GenerationsUnique'
  <2> SUFFICES ASSUME NEW v \in tables', NEW f \in Fds, NEW g \in Fds, slots'[v][f] # Vacant
               PROVE  /\ slots'[v][f].generation < next_generation'[v]
                      /\ f # g /\ slots'[v][g] # Vacant =>
                           slots'[v][f].generation # slots'[v][g].generation
    BY SMTT(30) DEF GenerationsUnique
  <2>1. CASE v = u
    <3>1. next_generation'[v] = 1 + Cardinality(V)
      BY <1>1, <1>5, <2>1, SMTT(30) DEF TypeOK
    <3>2. slots'[v][f] = copy(f) /\ slots'[v][g] = copy(g)
      BY <1>10, <2>1, SMTT(30)
    <3> QED BY <1>4, <1>8, <3>1, <3>2
  <2>2. CASE v # u
    <3>1. v \in tables /\ v \in Tables
      BY <1>1, <2>2, Zenon
    <3>2. next_generation'[v] = next_generation[v]
      BY <1>1, <1>5, <2>2, <3>1, SMTT(30) DEF TypeOK
    <3>3. slots'[v][f] = slots[v][f] /\ slots'[v][g] = slots[v][g]
      BY <1>10, <2>2, <3>1, SMTT(30)
    <3> QED BY <3>1, <3>2, <3>3, Zenon DEF IInv, GenerationsUnique
  <2> QED BY <2>1, <2>2, Zenon
<1>14. ObservedOK'
  <2> SUFFICES ASSUME NEW o \in observed PROVE Faithful(o)'
    BY <1>1, SMTT(30) DEF ObservedOK
  <2>1. o.table \in tables /\ o.table \in Tables /\ o.fd \in Fds /\ Faithful(o) /\ o.table # u
    BY <1>1, Zenon DEF IInv, TypeOK, ObservedOK, Faithful
  <2>2. next_generation'[o.table] = next_generation[o.table]
    BY <1>1, <1>5, <2>1, SMTT(30) DEF TypeOK
  <2>3. slots'[o.table][o.fd] = slots[o.table][o.fd]
    BY <1>10, <2>1, SMTT(30)
  <2> QED BY <1>1, <2>1, <2>2, <2>3, Zenon DEF Faithful
<1>15. LoopOK'
  <2> SUFFICES ASSUME detach # Idle, NEW tok \in detach.due PROVE Due(tok)'
    BY <1>1, Zenon DEF IInv, LoopOK
  <2>1. tok \in Tokens /\ Due(tok) /\ detach.table \in tables
    BY <1>1, LoopFacts, SMTT(30) DEF Loops, IInv, LoopOK
  <2>2. tok.table \in Tables /\ tok.fd \in Fds /\ tok.table = detach.table
    BY <2>1, TokenFacts, SMTT(30) DEF Due
  <2>3. slots'[tok.table][tok.fd] = slots[tok.table][tok.fd]
    BY <1>1, <1>10, <2>1, <2>2, ZenonT(30)
  <2> QED BY <1>1, <2>1, <2>3, SMTT(30) DEF Due, Matches, Visible
<1> QED BY <1>11, <1>12, <1>13, <1>14, <1>15, Zenon DEF IInv

(* detach_matching and commit_close_on_exec begin a loop. *)
LEMMA BeginInv ==
  ASSUME IInv, NEW t \in tables, NEW q \in Queries, NEW n \in BatchLimits \union {Capacity},
         detach' = Loop(t, q, n),
         UNCHANGED <<tables, next_generation, slots, reservations, publications, observed>>
  PROVE  IInv'
<1> USE FdTableAssumption
<1>1. t \in Tables /\ TypeOK
  BY Zenon DEF IInv, TypeOK
<1>2. PICK due : due = {Token(t, fd, slots[t][fd].generation) : fd \in Matching(t, q)}
  BY ZenonT(30)
<1>3. ASSUME NEW tok \in due
      PROVE  tok \in Tokens /\ tok.table = t /\ tok.fd \in Fds /\ Matches(t, tok.fd, q)
             /\ slots[t][tok.fd].generation = tok.generation
  <2>1. PICK fd \in Matching(t, q) : tok = Token(t, fd, slots[t][fd].generation)
    BY <1>2, <1>3, SMTT(30)
  <2>2. fd \in Fds /\ Matches(t, fd, q) /\ slots[t][fd].state = "Visible"
    BY SMTT(30) DEF Matching, Matches, Visible
  <2>3. slots[t][fd].generation \in Generations
    BY <1>1, <2>2, SlotTyped, SlotFacts, SMTT(30)
  <2> QED BY <1>1, <2>1, <2>2, <2>3, TokenFacts, Zenon DEF Token
<1>4. detach' = [table |-> t, query |-> q, limit |-> n, cursor |-> 0, batch |-> 0, due |-> due]
  BY <1>2, SMTT(30) DEF Loop
<1>5. /\ detach'.table = t /\ detach'.query = q /\ detach'.cursor = 0 /\ detach'.batch = 0
      /\ detach'.due = due
  BY <1>4, SMTT(30)
<1>6. TypeOK'
  <2>1. detach' \in Loops
    BY <1>1, <1>3, <1>4, SMTT(30) DEF Loops
  <2> QED BY <1>1, <2>1, SMTT(30) DEF TypeOK
<1>7. LoopOK'
  <2>1. \A tok \in due : tok.fd >= 0
    BY <1>3, SMTT(30) DEF Fds
  <2> QED BY <1>3, <1>5, <2>1, SMTT(30) DEF LoopOK, Due, Matches, Visible
<1>8. TokensBacked' /\ GenerationsUnique' /\ ObservedOK'
  BY ZenonT(30) DEF IInv, TokensBacked, ValidReservation, PhaseIsPending, GenerationsUnique, ObservedOK,
         Faithful
<1> QED BY <1>6, <1>7, <1>8, Zenon DEF IInv

(* One turn of a detaching loop. *)
LEMMA DetachStepInv ==
  ASSUME IInv, DetachStep
  PROVE  IInv'
<1> USE FdTableAssumption
<1>1. /\ detach # Idle /\ detach \in Loops /\ TypeOK /\ detach.table \in tables
      /\ detach.batch <= detach.cursor
      /\ UNCHANGED <<tables, next_generation, reservations, publications, observed>>
  BY LoopFacts, Zenon DEF DetachStep, IInv, LoopOK
<1>2. PICK t \in tables, fd \in Fds : t = detach.table /\ fd = detach.cursor
  BY <1>1 DEF DetachStep, Loops, Fds
<1>3. t \in Tables /\ fd \in Int
  BY <1>1 DEF TypeOK, Fds
<1>4. PICK hit \in BOOLEAN : hit = Matches(t, fd, detach.query)
  BY ZenonT(30) DEF Matches
<1>5. /\ slots' = IF hit THEN [slots EXCEPT ![t][fd] = Vacant] ELSE slots
      /\ detach' = [detach EXCEPT !.cursor = fd + 1, !.batch = @ + (IF hit THEN 1 ELSE 0)]
  BY <1>2, <1>4, Zenon DEF DetachStep, CursorAfter
<1>6. \A v \in Tables, f \in Fds :
        slots'[v][f] = IF hit /\ v = t /\ f = fd THEN Vacant ELSE slots[v][f]
  BY <1>1, <1>3, <1>5, StoreOne, VacantFacts
<1>7. slots' \in [Tables -> [Fds -> Slots]]
  BY <1>1, <1>3, <1>5, StoreOne, VacantFacts, Zenon DEF TypeOK
<1>8. /\ detach' \in Loops /\ detach'.table = t /\ detach'.query = detach.query
      /\ detach'.due = detach.due /\ detach'.cursor = fd + 1 /\ detach'.batch <= fd + 1
  <2>1. fd + 1 \in 0..Capacity /\ detach.batch + (IF hit THEN 1 ELSE 0) \in 0..Capacity
        /\ detach.batch + (IF hit THEN 1 ELSE 0) <= fd + 1
    BY <1>1, <1>2 DEF Loops, Fds
  <2> QED BY <1>1, <1>2, <1>5, <2>1, ZenonT(30) DEF Loops
<1>9. hit => slots[t][fd].state = "Visible"
  BY <1>4, ZenonT(30) DEF Matches, Visible
<1>10. detach' # Idle
  BY <1>8, FdTableAssumption DEF Loops, Idle
<1>11. TypeOK'
  BY <1>1, <1>7, <1>8, SMTT(30) DEF TypeOK
<1>12. TokensBacked'
  <2>1. ASSUME NEW r \in Tokens
        PROVE  /\ ValidReservation(r)' <=> ValidReservation(r)
               /\ PhaseIsPending(r)' <=> PhaseIsPending(r)
    <3>1. r.table \in Tables /\ r.fd \in Fds
      BY TokenFacts, SMTT(30)
    <3> QED BY <1>6, <1>9, <3>1, VacantFacts, Zenon DEF ValidReservation, PhaseIsPending
  <2> QED BY <1>1, <2>1, SMTT(30) DEF IInv, TokensBacked
<1>13. GenerationsUnique'
  BY <1>1, <1>6, SMTT(30) DEF IInv, GenerationsUnique, TypeOK
<1>14. ObservedOK'
  <2> SUFFICES ASSUME NEW o \in observed PROVE Faithful(o)'
    BY <1>1, SMTT(30) DEF ObservedOK
  <2>1. o.table \in Tables /\ o.fd \in Fds /\ Faithful(o)
    BY <1>1, SMTT(30) DEF IInv, TypeOK, ObservedOK
  <2> QED BY <1>1, <1>6, <2>1, VacantFacts, Zenon DEF Faithful
<1>15. LoopOK'
  <2>1. ASSUME NEW tok \in detach.due PROVE Due(tok)'
    <3>1. tok \in Tokens /\ Due(tok)
      BY <1>1, <2>1, SMTT(30) DEF Loops, IInv, LoopOK
    <3>2. tok.table = t /\ tok.fd \in Fds /\ tok.fd \in Int
      BY <1>2, <3>1, TokenFacts, SMTT(30) DEF Due, Fds
    <3>3. CASE slots[t][tok.fd] = Vacant
      BY <1>3, <1>6, <1>8, <3>2, <3>3, SMTT(30) DEF Due
    <3>4. CASE slots[t][tok.fd] # Vacant
      <4>1. /\ fd <= tok.fd /\ slots[t][tok.fd].generation = tok.generation
            /\ Matches(t, tok.fd, detach.query)
        BY <1>2, <3>1, <3>2, <3>4, SMTT(30) DEF Due
      <4>2. CASE tok.fd = fd
        BY <1>3, <1>4, <1>6, <1>8, <3>2, <4>1, <4>2, SMTT(30) DEF Due
      <4>3. CASE tok.fd # fd
        <5>1. slots'[t][tok.fd] = slots[t][tok.fd]
          BY <1>3, <1>6, <3>2, <4>3, SMTT(30)
        <5>2. fd + 1 <= tok.fd
          BY <1>3, <3>2, <4>1, <4>3
        <5> QED BY <1>8, <3>2, <4>1, <5>1, <5>2, SMTT(30) DEF Due, Matches, Visible
      <4> QED BY <4>2, <4>3, SMTT(30)
    <3> QED BY <3>3, <3>4, Zenon
  <2> QED BY <1>1, <1>2, <1>8, <1>10, <2>1, SMTT(30) DEF LoopOK
<1> QED BY <1>11, <1>12, <1>13, <1>14, <1>15, Zenon DEF IInv

(* A detaching method returns. *)
LEMMA DetachReturnInv ==
  ASSUME IInv, DetachReturn
  PROVE  IInv'
<1>1. /\ detach' = Idle
      /\ UNCHANGED <<tables, next_generation, slots, reservations, publications, observed>>
  BY SMTT(30) DEF DetachReturn
<1>2. TypeOK' /\ LoopOK'
  BY <1>1, SMTT(30) DEF IInv, TypeOK, LoopOK
<1>3. TokensBacked' /\ GenerationsUnique' /\ ObservedOK'
  BY <1>1, SMTT(30) DEF IInv, TokensBacked, ValidReservation, PhaseIsPending, GenerationsUnique, ObservedOK,
              Faithful
<1> QED BY <1>2, <1>3, Zenon DEF IInv

-----------------------------------------------------------------------------
(* duplicate *)
LEMMA DuplicateInv ==
  ASSUME IInv, NEW t \in Tables, NEW source \in Fds, NEW m \in Fds, NEW n \in 1..Capacity,
         NEW c \in Flags, Duplicate(t, source, m, n, c)
  PROVE  IInv'
<1>1. PICK fd \in LowestVacant(t, m, n) :
        /\ SetSlot(t, fd, Slot("Visible", next_generation[t], slots[t][source].description, c))
        /\ observed' = observed \union
             {Issued(t, fd, next_generation[t], slots[t][source].description)}
  BY ONLY Duplicate(t, source, m, n, c), ZenonT(30) DEF Duplicate
<1>2. fd \in m..(n - 1) /\ slots[t][fd] = Vacant
  BY ONLY <1>1, Zenon DEF LowestVacant
<1>3. fd \in Fds
  BY ONLY <1>2, FdTableAssumption, m \in Fds, n \in 1..Capacity DEF Fds
<1>4. ~BlocksReplacement(t, fd)
  BY ONLY <1>2, VacantFacts, SMTT(30) DEF BlocksReplacement
<1>5. /\ Free(t) /\ Visible(t, source) /\ AllocateGeneration(t)
      /\ UNCHANGED <<tables, reservations, publications, detach>>
  BY ONLY Duplicate(t, source, m, n, c), ZenonT(30) DEF Duplicate
<1> QED BY <1>1, <1>3, <1>4, <1>5, CopyInv, ZenonT(40)

(* Every method that takes the table preserves the invariant. *)
LEMMA TableStepInv ==
  ASSUME IInv, TableStep
  PROVE  IInv'
<1>1. ASSUME NEW t \in Tables, NEW m \in Fds, NEW n \in 1..Capacity, NEW c \in Flags, Reserve(t, m, n, c)
      PROVE  IInv'
  BY <1>1, ReserveInv, Zenon
<1>2. ASSUME NEW t \in Tables, NEW fd \in Fds, Observe(t, fd) \/ Close(t, fd) PROVE IInv'
  BY <1>2, ObserveInv, CloseInv, Zenon
<1>3. ASSUME NEW t \in Tables, NEW tok \in observed, CloseToken(t, tok) PROVE IInv'
  <2>1. tok.fd \in Fds /\ Close(t, tok.fd)
    BY <1>3, Zenon DEF CloseToken, IInv, TypeOK
  <2> QED BY <2>1, CloseInv, Zenon
<1>4. ASSUME NEW t \in Tables, NEW first \in Fds, NEW last \in Fds, NEW c \in Flags,
             MarkCloseOnExec(t, first, last, c)
      PROVE  IInv'
  BY <1>4, MarkCloseOnExecInv, Zenon
<1>5. ASSUME NEW t \in Tables, NEW source \in Fds, NEW m \in Fds, NEW n \in 1..Capacity, NEW c \in Flags,
             Duplicate(t, source, m, n, c)
      PROVE  IInv'
  BY <1>5, DuplicateInv, SMTT(30)
<1>6. ASSUME NEW t \in Tables, NEW source \in Fds, NEW target \in Fds, NEW c \in Flags,
             DuplicateReplace(t, source, target, c)
      PROVE  IInv'
  BY <1>6, CopyInv, FdTableAssumption, Zenon DEF DuplicateReplace
<1>7. ASSUME NEW t \in Tables, NEW u \in Tables, ForkCopy(t, u) PROVE IInv'
  BY <1>7, ForkCopyInv, Zenon
<1>8. ASSUME NEW t \in Tables, NEW q \in Queries, NEW n \in BatchLimits, BeginDetach(t, q, n) PROVE IInv'
  BY <1>8, BeginInv, FdTableAssumption, SMTT(30) DEF BeginDetach
<1>9. ASSUME NEW t \in Tables, BeginCloseOnExec(t) PROVE IInv'
  <2>1. [kind |-> "cloexec"] \in Queries
    BY Zenon DEF Queries
  <2> QED BY <1>9, <2>1, BeginInv, FdTableAssumption, Zenon DEF BeginCloseOnExec
<1> QED BY <1>1, <1>2, <1>3, <1>4, <1>5, <1>6, <1>7, <1>8, <1>9, SMTT(30) DEF TableStep

(* Every step preserves the invariant. *)
LEMMA NextIInv == IInv /\ [Next]_vars => IInv'
<1> SUFFICES ASSUME IInv, [Next]_vars PROVE IInv'
  BY Zenon
<1>1. CASE TableStep
  BY <1>1, TableStepInv, Zenon
<1>2. ASSUME NEW r \in reservations, CancelReservation(r) PROVE IInv'
  BY <1>2, CancelReservationInv, Zenon
<1>3. ASSUME NEW r \in reservations, NEW d \in Descriptions, Publish(r, d) \/ PreparePublication(r, d)
      PROVE  IInv'
  BY <1>3, PublishInv, PreparePublicationInv, SMTT(30)
<1>4. ASSUME NEW p \in publications, CommitPublication(p) PROVE IInv'
  BY <1>4, StorePhaseInv, SMTT(30) DEF CommitPublication
<1>5. ASSUME NEW p \in publications, DropPublication(p) PROVE IInv'
  BY <1>5, StorePhaseInv, Zenon DEF DropPublication
<1>6. ASSUME NEW p \in publications, CancelPrepared(p) PROVE IInv'
  BY <1>6, CancelPreparedInv, Zenon
<1>7. CASE DetachStep \/ DetachReturn
  BY <1>7, DetachStepInv, DetachReturnInv, Zenon
<1>8. CASE UNCHANGED vars
  BY <1>8, ZenonT(30) DEF vars, IInv, TypeOK, TokensBacked, ValidReservation, PhaseIsPending, GenerationsUnique,
              ObservedOK, Faithful, LoopOK, Due, Matches, Visible
<1> QED BY <1>1, <1>2, <1>3, <1>4, <1>5, <1>6, <1>7, <1>8, Zenon DEF Next, TokenStep

(* The invariant implies the properties of the run. *)
LEMMA IInvImplies == IInv => TokensHonoured /\ DetachComplete /\ GenerationsUnique /\ TypeOK
<1> SUFFICES ASSUME IInv PROVE TokensHonoured /\ DetachComplete /\ GenerationsUnique /\ TypeOK
  BY Zenon
<1>1. TokenStable
  BY Zenon DEF TokenStable, Resolves, Visible, IInv, ObservedOK, Faithful
<1>2. DetachComplete
  <2> SUFFICES ASSUME detach # Idle, detach.cursor >= Capacity, NEW tok \in detach.due
               PROVE  ~Resolves(detach.table, tok)
    BY Zenon DEF DetachComplete
  <2>1. tok \in Tokens /\ Due(tok) /\ detach.cursor \in Int
    BY LoopFacts DEF Loops, IInv, LoopOK
  <2>2. tok.fd < Capacity /\ tok.fd \in Int
    BY <2>1, TokenFacts, FdTableAssumption, SMTT(30) DEF Fds
  <2>3. slots[tok.table][tok.fd] = Vacant
    BY <2>1, <2>2, FdTableAssumption DEF Due
  <2> QED BY <2>3, VacantFacts, Zenon DEF Resolves, Visible
<1> QED BY <1>1, <1>2, Zenon DEF IInv, TokensHonoured

(* In every reachable state, for any tables, capacity and generation limit, a
   reservation or publication a caller holds finds its slot, no slot is blocked
   without a holder, and a descriptor token resolves to the description it was
   issued for or not at all. *)
THEOREM TokensHonouredCorrect == Spec => []TokensHonoured
BY IInvImplies, InitIInv, NextIInv, PTL DEF Spec

(* A detaching loop leaves nothing behind that matched when it began, although
   commit and Drop of prepared publications run under it without the lock. *)
THEOREM DetachCompleteCorrect == Spec => []DetachComplete
BY IInvImplies, InitIInv, NextIInv, PTL DEF Spec

(* Generations are issued once per table and never reach the reserved maximum,
   in copies as well. *)
THEOREM GenerationsUniqueCorrect == Spec => [](GenerationsUnique /\ TypeOK)
BY IInvImplies, InitIInv, NextIInv, PTL DEF Spec
=============================================================================
