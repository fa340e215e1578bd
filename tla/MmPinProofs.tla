----------------------------- MODULE MmPinProofs -----------------------------
(***************************************************************************)
(* Proofs about MmPin for any page size, address space, profiles, requests *)
(* and quotas, and any number of pins and budgets.                         *)
(***************************************************************************)
EXTENDS MmPin, WellFoundedInduction, TLAPS

(* What the registry's records and the kernel's pages are. *)
Charges == [pages : Int, bytes : Int, tokens : Int]
Mappings == [mapping : Nat, generation : Nat, profile : Profiles]
PinRecords ==
  [request : Requests, range : PageRanges(PageSize), address_space : Spaces,
   validated_until : Nat, validated_mappings : Nat, charge : Charges,
   state : {"Reserved", "Active"}, seen : SUBSET (Pages \X Mappings)]

Typed ==
  /\ TypeOK
  /\ records \in [DOMAIN records -> PinRecords]
  /\ world \in [Spaces -> [Pages -> Mappings]]

(* One record: the segments it has revalidated are a prefix of its range that
   ends where the next one starts, and were accessible when it saw them. *)
Prefix(r) == {p \in Pages : r.range.start <= p /\ p < r.validated_until}
Covered(r) ==
  /\ r.range.start <= r.validated_until /\ r.validated_until <= r.range.end
  /\ {w[1] : w \in r.seen} = Prefix(r)
  /\ \A w \in r.seen : r.request.access \in w[2].profile.access
  /\ r.state = "Active" => r.validated_until = r.range.end

Held(r) == Fences(r) => \A w \in r.seen : world[r.address_space][w[1]] = w[2]

IInv ==
  /\ Typed
  /\ \A t \in DOMAIN records : Covered(records[t])
  /\ \A t \in DOMAIN records : Held(records[t])
  /\ WritersApart
  /\ state = "TearingDown" => \A t \in DOMAIN records : records[t].state = "Active"
  /\ state = "Closed" => records = << >>

-----------------------------------------------------------------------------
(* Multiples of n are n apart. *)
LEMMA MultiplesApart ==
  ASSUME NEW n \in Nat, n > 0, NEW q \in Int, NEW s \in Int, q * n < s * n
  PROVE  q * n + n <= s * n
<1>1. q < s
  <2>1. ASSUME s <= q PROVE FALSE
    <3>1. PICK d \in Nat : q = s + d
      BY <2>1
    <3>2. q * n = s * n + d * n /\ d * n >= 0
      BY <3>1
    <3> QED BY <3>2
  <2> QED BY <2>1
<1>2. PICK d \in Nat : s = q + 1 + d
  <2>1. s - q - 1 \in Nat
    BY <1>1
  <2> QED BY <2>1
<1>3. s * n = q * n + n + d * n /\ d * n >= 0
  BY <1>2
<1> QED BY <1>3

(* An aligned address is a multiple of the page size. *)
LEMMA AlignedMultiple ==
  ASSUME NEW n \in Nat, n > 0, NEW x \in Int, x % n = 0
  PROVE  \E q \in Int : x = q * n
<1>1. x % n \in 0..(n - 1) /\ x \div n \in Int
  OBVIOUS
<1>2. PICK q \in Int, r \in 0..(n - 1) : q = x \div n /\ r = x % n
  BY <1>1, Zenon
<1>3. x = q * n + r
  BY <1>2
<1> QED BY <1>2, <1>3

(* Between two aligned addresses there is room for a page. *)
LEMMA AlignedGap ==
  ASSUME NEW n \in Nat, n > 0, NEW x \in Int, x % n = 0, NEW y \in Int, y % n = 0, x < y
  PROVE  x + n <= y
<1>1. PICK q \in Int : x = q * n
  BY AlignedMultiple, Zenon
<1>2. PICK s \in Int : y = s * n
  BY AlignedMultiple, Zenon
<1>3. q * n < s * n
  BY <1>1, <1>2, Zenon
<1>4. q * n + n <= s * n
  BY <1>3, MultiplesApart, Zenon
<1> QED BY <1>1, <1>2, <1>4, Zenon

(* The sum of aligned numbers is aligned. *)
LEMMA AlignedSum ==
  ASSUME NEW n \in Nat, n > 0, NEW x \in Int, x % n = 0, NEW y \in Int, y % n = 0
  PROVE  (x + y) % n = 0
<1>1. PICK q \in Int : x = q * n
  BY AlignedMultiple, Zenon
<1>2. PICK s \in Int : y = s * n
  BY AlignedMultiple, Zenon
<1>3. PICK z \in Int, k \in Int : z = x + y /\ k = q + s
  OBVIOUS
<1>4. z = k * n
  BY <1>1, <1>2, <1>3
<1>5. z % n = 0
  BY <1>4
<1> QED BY <1>3, <1>5, Zenon

-----------------------------------------------------------------------------
(* A set of natural numbers has a least element. *)
LEMMA LeastElement ==
  ASSUME NEW S, S \subseteq Nat, S # {}
  PROVE  \E x \in S : \A y \in S : x <= y
<1>1. IsWellFoundedOn(OpToRel(<, Nat), Nat)
  BY NatLessThanWellFounded, ZenonT(30)
<1>2. PICK x \in S : \A y \in S : ~ (<<y, x>> \in OpToRel(<, Nat))
  BY <1>1, WFMin, ZenonT(30)
<1>3. \A y \in S : ~ (y < x)
  BY <1>2, ZenonT(30) DEF OpToRel
<1> QED BY <1>3

(* Min names the least element. *)
LEMMA MinLeast ==
  ASSUME NEW S, S \subseteq Nat, S # {}
  PROVE  Min(S) \in S /\ \A y \in S : Min(S) <= y
BY LeastElement, ZenonT(30) DEF Min

(* A bounded one has a greatest. *)
LEMMA MaxGreatest ==
  ASSUME NEW n \in Nat, NEW S, S \subseteq 0..n, S # {}
  PROVE  Max(S) \in S /\ \A y \in S : Max(S) >= y
<1> DEFINE T == {n - x : x \in S}
<1>1. PICK s \in S : TRUE
  BY ZenonT(30)
<1>2. n - s \in T
  BY <1>1, Zenon
<1>3. T \subseteq Nat
  OBVIOUS
<1>4. PICK z \in T : \A y \in T : z <= y
  BY <1>2, <1>3, LeastElement, ZenonT(30)
<1>5. PICK x \in S : z = n - x
  BY <1>4, Zenon
<1>6. \A y \in S : x >= y
  BY <1>4, <1>5
<1> QED BY <1>6, Zenon DEF Max

-----------------------------------------------------------------------------
(* A page range starts on a page. *)
LEMMA StartsOnPage ==
  ASSUME NEW r \in PageRanges(PageSize)
  PROVE  /\ r.start \in Pages /\ r.start \in Nat /\ r.end \in Nat
         /\ r.start + PageSize <= r.end /\ r.end <= MaxAddress
<1>1. /\ r.start \in 0..MaxAddress /\ r.end \in 0..MaxAddress /\ r.start < r.end
      /\ r.start % PageSize = 0 /\ r.end % PageSize = 0
  BY Zenon DEF PageRanges, AllRanges, IsAligned, Addresses
<1>2. PICK a \in Int, b \in Int : a = r.start /\ b = r.end
  BY <1>1, PinAssumption
<1>3. a + PageSize <= b
  <2>1. /\ a % PageSize = 0 /\ b % PageSize = 0 /\ a < b
        /\ PageSize \in Nat /\ PageSize > 0
    BY <1>1, <1>2, PinAssumption
  <2> QED BY ONLY <2>1, AlignedGap, ZenonT(30)
<1> QED BY <1>1, <1>2, <1>3, PinAssumption DEF Pages, Addresses, IsAligned

(* PageRange::covering answers a page range. *)
LEMMA CoveringIsPageRange ==
  ASSUME NEW r \in AllRanges, IsRange(Covering(r, PageSize))
  PROVE  Covering(r, PageSize) \in PageRanges(PageSize)
<1> DEFINE s == AlignDown(PageSize, r.start)
           e == AlignUp(PageSize, r.end)
           l == e - s
<1>1. r.start \in Nat /\ r.end \in Nat /\ r.start < r.end /\ r.end <= MaxAddress
  BY PinAssumption DEF AllRanges, Addresses
<1>2. PageSize \in Nat /\ PageSize > 0 /\ MaxAddress \in Nat
  BY PinAssumption
<1>3. s \in Nat /\ s <= r.start
  <2>1. r.start % PageSize \in 0..(PageSize - 1)
    BY <1>1, <1>2
  <2>2. r.start % PageSize <= r.start
    BY <1>1, <1>2
  <2> QED BY <1>1, <2>1, <2>2 DEF AlignDown
<1>4. e \in Nat /\ e >= r.end
  <2>1. PICK v \in Nat : v = r.end + (PageSize - 1)
    BY <1>1, <1>2
  <2>2. v % PageSize \in 0..(PageSize - 1)
    BY <1>2
  <2>3. e = IF v > MaxAddress THEN MaxAddress + 1 ELSE v - (v % PageSize)
    BY <2>1, Zenon DEF AlignUp, AlignDown
  <2>4. CASE v > MaxAddress
    BY <1>1, <1>2, <2>3, <2>4
  <2>5. CASE ~ (v > MaxAddress)
    BY <1>1, <1>2, <2>1, <2>2, <2>3, <2>5
  <2> QED BY <2>4, <2>5, Zenon
<1>5. Covering(r, PageSize) = IF e > MaxAddress THEN NoRange ELSE PageRange(s, l, PageSize)
  BY Zenon DEF Covering
<1>6. /\ s % PageSize = 0 /\ l % PageSize = 0 /\ s + l <= MaxAddress
      /\ Covering(r, PageSize) = [start |-> s, end |-> s + l]
  BY <1>5, Zenon DEF IsRange, PageRange, UserRange, IsAligned
<1>7. l \in Nat /\ l > 0
  BY <1>1, <1>3, <1>4
<1>8. (s + l) % PageSize = 0
  <2>1. s \in Int /\ l \in Int /\ s % PageSize = 0 /\ l % PageSize = 0
    BY <1>3, <1>6, <1>7
  <2> HIDE DEF s, e, l
  <2> QED BY <1>2, <2>1, AlignedSum, ZenonT(30)
<1>9. s \in 0..MaxAddress /\ s + l \in 0..MaxAddress /\ s < s + l
  BY <1>2, <1>3, <1>6, <1>7
<1> HIDE DEF s, e, l
<1> QED BY <1>6, <1>8, <1>9 DEF PageRanges, AllRanges, Addresses, IsAligned

(* A snapshot's range is a run of equal pages: what is read under one of them
   holds for all. *)
LEMMA SnapshotUniform ==
  ASSUME NEW as, NEW a \in Pages
  PROVE  LET s == Snapshot(as, a).range
         IN  /\ s.start \in Nat /\ s.end \in Nat
             /\ \A p \in Pages : s.start <= p /\ p < s.end => world[as][p] = world[as][a]
<1> DEFINE v == world[as][a]
           Same(b, c) == \A x \in Pages : b <= x /\ x <= c => world[as][x] = v
           Low == {x \in Pages : x <= a /\ Same(x, a)}
           High == {x \in Pages : a <= x /\ Same(a, x)}
<1>1. /\ Snapshot(as, a).range.start = Min(Low)
      /\ Snapshot(as, a).range.end = Max(High) + PageSize
  BY Zenon DEF Snapshot
<1>2. /\ PageSize \in Nat /\ PageSize > 0 /\ MaxAddress \in Nat
      /\ Pages \subseteq 0..MaxAddress /\ a \in Nat
  BY PinAssumption DEF Pages, Addresses
<1>3. Low \subseteq Pages /\ High \subseteq Pages
  <2> HIDE DEF Same
  <2> QED BY Zenon
<1>4. ASSUME NEW x \in Pages, a <= x, x <= a PROVE world[as][x] = v
  <2>1. x = a
    BY ONLY <1>2, <1>4
  <2> QED BY <2>1, Zenon
<1>5. Same(a, a)
  BY <1>4, ZenonT(30)
<1>6. a <= a
  BY <1>2
<1>7. a \in Low /\ a \in High
  <2> HIDE DEF Same
  <2> QED BY <1>5, <1>6, Zenon
<1>8. Min(Low) \in Low
  <2> HIDE DEF Low, High
  <2>1. Low \subseteq Nat /\ Low # {}
    BY <1>2, <1>3, <1>7
  <2> QED BY <2>1, MinLeast, ZenonT(30)
<1>9. Max(High) \in High
  <2> HIDE DEF Low, High
  <2>1. High \subseteq 0..MaxAddress /\ High # {}
    BY <1>2, <1>3, <1>7, Zenon
  <2> QED BY <1>2, <2>1, MaxGreatest, ZenonT(30)
<1>10. Same(Min(Low), a)
  <2> HIDE DEF Same
  <2> QED BY <1>8, Zenon
<1>11. PICK m \in Pages : m = Max(High) /\ Same(a, m)
  <2> HIDE DEF Same
  <2> QED BY <1>9, Zenon
<1>12. m \in Nat /\ m % PageSize = 0
  BY <1>2 DEF Pages, IsAligned
<1>13. ASSUME NEW p \in Pages, Min(Low) <= p, p < m + PageSize
       PROVE  world[as][p] = v
  <2>1. p \in Nat /\ p % PageSize = 0
    BY <1>2 DEF Pages, IsAligned
  <2>2. CASE p <= a
    BY <1>10, <1>13, <2>2, ZenonT(30)
  <2>3. CASE ~ (p <= a)
    <3>1. p <= m
      <4>1. ASSUME m < p PROVE FALSE
        <5>1. m \in Int /\ p \in Int /\ PageSize \in Nat /\ PageSize > 0
          BY <1>2, <1>12, <2>1
        <5>2. m + PageSize <= p
          BY ONLY <1>12, <2>1, <4>1, <5>1, AlignedGap, ZenonT(30)
        <5> QED BY ONLY <1>13, <5>1, <5>2
      <4> QED BY ONLY <1>12, <2>1, <4>1
    <3>2. a <= p
      BY ONLY <1>2, <2>1, <2>3
    <3> QED BY <1>11, <3>1, <3>2, ZenonT(30)
  <2> QED BY <2>2, <2>3, ZenonT(30)
<1>14. Min(Low) \in Nat /\ Max(High) + PageSize \in Nat
  <2>1. Min(Low) \in Pages
    <3> HIDE DEF Low, High
    <3> QED BY ONLY <1>3, <1>8, Zenon
  <2> HIDE DEF Low, High
  <2>2. PICK k \in Pages : k = Min(Low)
    BY ONLY <2>1, Zenon
  <2>3. k \in Nat /\ m + PageSize \in Nat
    BY ONLY <1>2, <1>12
  <2> QED BY <1>11, <2>2, <2>3, Zenon
<1> HIDE DEF Low, High
<1> QED BY <1>1, <1>11, <1>13, <1>14, ZenonT(30)

-----------------------------------------------------------------------------
(* A token that ends leaves the records of the others as they are: a failed
   revalidation, a cancelled reservation, a release, a teardown. *)
LEMMA DropOthers ==
  ASSUME Typed, NEW ts, DropTokens(ts)
  PROVE  /\ DOMAIN records' = DOMAIN records \ ts
         /\ \A t \in DOMAIN records' : records'[t] = records[t]
         /\ records' \in [DOMAIN records' -> PinRecords]
         /\ DOMAIN owners' = DOMAIN owners /\ DOMAIN expected' = DOMAIN records'
<1>1. /\ records' = [t \in DOMAIN records \ ts |-> records[t]]
      /\ expected' = [t \in DOMAIN records \ ts |-> expected[t]]
      /\ DOMAIN owners' = DOMAIN owners
  BY Zenon DEF DropTokens, RemoveRecords, Restrict
<1> QED BY <1>1, Zenon DEF Typed

(* What holds of the records holds when some of them are gone and the others,
   and the pages, are unchanged. *)
LEMMA FewerRecords ==
  ASSUME IInv, UNCHANGED world,
         DOMAIN records' \subseteq DOMAIN records,
         \A t \in DOMAIN records' : records'[t] = records[t]
  PROVE  /\ (\A t \in DOMAIN records : Covered(records[t]))'
         /\ (\A t \in DOMAIN records : Held(records[t]))'
         /\ WritersApart'
<1>1. (\A t \in DOMAIN records : Covered(records[t]))'
  BY Zenon DEF IInv, Covered, Prefix
<1>2. (\A t \in DOMAIN records : Held(records[t]))'
  BY DEF IInv, Held, Fences
<1>3. WritersApart'
  BY Zenon DEF IInv, WritersApart
<1> QED BY <1>1, <1>2, <1>3, Zenon

(* The types survive it too. *)
LEMMA DropTyped ==
  ASSUME Typed, NEW ts, DropTokens(ts), UNCHANGED <<world, next_token>>,
         state' \in {"Open", "Closing", "TearingDown", "Closed"}
  PROVE  Typed'
<1>1. /\ DOMAIN records' = DOMAIN records \ ts
      /\ \A t \in DOMAIN records' : records'[t] = records[t]
      /\ records' \in [DOMAIN records' -> PinRecords]
      /\ DOMAIN owners' = DOMAIN owners /\ DOMAIN expected' = DOMAIN records'
  BY DropOthers, ZenonT(30)
<1>2. TypeOK'
  BY <1>1, Zenon DEF Typed, TypeOK
<1> QED BY <1>1, <1>2, Zenon DEF Typed

(* cancel_reservation, release, and revalidate_next where it fails *)
LEMMA DropStep ==
  ASSUME IInv, NEW ts, DropTokens(ts), UNCHANGED <<state, next_token, world>>
  PROVE  IInv'
<1>1. Typed /\ Typed'
  BY DropTyped, Zenon DEF IInv, Typed, TypeOK
<1>2. DOMAIN records' \subseteq DOMAIN records /\ \A t \in DOMAIN records' : records'[t] = records[t]
  BY <1>1, DropOthers, ZenonT(30)
<1>3. /\ (\A t \in DOMAIN records : Covered(records[t]))'
      /\ (\A t \in DOMAIN records : Held(records[t]))'
      /\ WritersApart'
  BY <1>2, FewerRecords, Zenon
<1>4. state' = "TearingDown" => \A t \in DOMAIN records' : records'[t].state = "Active"
  BY <1>2, Zenon DEF IInv
<1>5. state' = "Closed" => records' = << >>
  <2>1. SUFFICES ASSUME state = "Closed" PROVE records' = << >>
    BY Zenon
  <2>2. DOMAIN records = {}
    BY <2>1 DEF IInv
  <2>3. DOMAIN records' = {} /\ records' = [t \in DOMAIN records' |-> records'[t]]
    BY <1>1, <1>2, <2>2, ZenonT(30) DEF Typed
  <2> QED BY <2>3
<1> QED BY <1>1, <1>3, <1>4, <1>5, Zenon DEF IInv

(* begin_teardown *)
LEMMA TeardownStep ==
  ASSUME IInv, BeginTeardown
  PROVE  IInv'
<1> DEFINE ts == {t \in DOMAIN records : records[t].state = "Reserved"}
<1>1. DropTokens(ts) /\ UNCHANGED <<next_token, world>> /\ state' = "TearingDown"
  BY Zenon DEF BeginTeardown
<1>2. Typed /\ Typed'
  BY <1>1, DropTyped, Zenon DEF IInv
<1>3. DOMAIN records' = DOMAIN records \ ts /\ \A t \in DOMAIN records' : records'[t] = records[t]
  BY <1>1, <1>2, DropOthers, ZenonT(30)
<1>4. /\ (\A t \in DOMAIN records : Covered(records[t]))'
      /\ (\A t \in DOMAIN records : Held(records[t]))'
      /\ WritersApart'
  BY <1>1, <1>3, FewerRecords, Zenon
<1>5. \A t \in DOMAIN records' : records'[t].state = "Active"
  BY <1>2, <1>3, Zenon DEF Typed, TypeOK
<1> QED BY <1>1, <1>2, <1>4, <1>5, Zenon DEF IInv

(* The steps that leave the records and the pages alone. *)
LEMMA RegistryStep ==
  ASSUME IInv, UNCHANGED <<records, world, next_token>>,
         state' \in {"Open", "Closing", "TearingDown", "Closed"},
         DOMAIN owners' \subseteq Owners, DOMAIN expected' = DOMAIN expected,
         state' = state \/ state' = "Closing" \/ (state' = "Closed" /\ records = << >>)
  PROVE  IInv'
<1>1. Typed'
  BY Zenon DEF IInv, Typed, TypeOK
<1>2. /\ (\A t \in DOMAIN records : Covered(records[t]))'
      /\ (\A t \in DOMAIN records : Held(records[t]))'
      /\ WritersApart'
  BY FewerRecords, Zenon
<1>3. /\ state' = "TearingDown" => \A t \in DOMAIN records' : records'[t].state = "Active"
      /\ state' = "Closed" => records' = << >>
  BY Zenon DEF IInv
<1> QED BY <1>1, <1>2, <1>3, Zenon DEF IInv

(* reserve: the new record has seen nothing, and every older record that it
   conflicts with has given its range up. *)
LEMMA ReserveStep ==
  ASSUME IInv, NEW request \in Requests, NEW as \in Spaces, Reserve(request, as)
  PROVE  IInv'
<1> DEFINE range == Covering(request.range, PageSize)
           n == next_token
           new == Record(request, range, as)
<1>1. /\ state = "Open" /\ IsRange(range) /\ ValidOverlap(request, range, as)
      /\ n <= MaxToken /\ next_token' = n + 1
      /\ records' = [t \in DOMAIN records \cup {n} |-> IF t = n THEN new ELSE records[t]]
      /\ DOMAIN owners' = DOMAIN owners /\ DOMAIN expected' = DOMAIN records'
      /\ UNCHANGED <<state, world>>
  BY Zenon DEF Reserve
<1>2. range \in PageRanges(PageSize)
  BY <1>1, CoveringIsPageRange, PinAssumption, Zenon
<1> HIDE DEF range
<1>3. range.start \in Nat /\ range.end \in Nat /\ range.start <= range.end
  BY <1>2, StartsOnPage, PinAssumption
<1>4. ForRange(range) \in Charges
  BY <1>3, PinAssumption DEF ForRange, PageCount, ByteLen, Charges
<1>5. new \in PinRecords
  BY <1>2, <1>3, <1>4, ZenonT(30) DEF Record, PinRecords
<1>6. /\ new.range = range /\ new.state = "Reserved" /\ new.address_space = as
      /\ new.request = request /\ new.seen = {} /\ new.validated_until = range.start
  BY Zenon DEF Record
<1> HIDE DEF new
<1>7. n \in Nat /\ n \notin DOMAIN records /\ \A t \in DOMAIN records : t \in Nat /\ t < n
  BY PinAssumption DEF IInv, Typed, TypeOK
<1>8. /\ DOMAIN records' = DOMAIN records \cup {n} /\ records'[n] = new
      /\ \A t \in DOMAIN records : records'[t] = records[t]
  BY <1>1, <1>7, Zenon
<1>9. Typed'
  <2>1. records' \in [DOMAIN records' -> PinRecords]
    BY <1>1, <1>5, Zenon DEF IInv, Typed
  <2>2. TypeOK'
    BY <1>1, <1>6, <1>7, <1>8, PinAssumption DEF IInv, Typed, TypeOK
  <2> QED BY <1>1, <2>1, <2>2, ZenonT(30) DEF IInv, Typed
<1>10. Covered(new)
  BY <1>3, <1>6, SMTT(30) DEF Covered, Prefix, Pages, Addresses
<1>11. (\A t \in DOMAIN records : Covered(records[t]))'
  BY <1>8, <1>10, ZenonT(30) DEF IInv, Covered, Prefix
<1>12. (\A t \in DOMAIN records : Held(records[t]))'
  BY <1>1, <1>6, <1>8, ZenonT(30) DEF IInv, Held, Fences
<1>13. WritersApart'
  <2>1. ASSUME NEW t \in DOMAIN records, as = records[t].address_space,
               Overlaps(records[t].range, range),
               "Write" \in {records[t].request.access, request.access}
        PROVE  records[t].state = "Active" /\ records[t].request.duration = "LongTerm"
    BY <1>1, <2>1, Zenon DEF ValidOverlap, Fences, IInv, Typed, TypeOK
  <2>2. ASSUME NEW t \in DOMAIN records', NEW u \in DOMAIN records', t < u
        PROVE  t \in DOMAIN records
    BY <1>7, <1>8, <2>2
  <2> QED BY <1>6, <1>8, <2>1, <2>2, ZenonT(40) DEF IInv, WritersApart
<1> QED BY <1>1, <1>9, <1>11, <1>12, <1>13, Zenon DEF IInv

(* One record changes and keeps what it is about; no step but reserve changes
   who conflicts with whom, and a pin never loses what it has given up. *)
LEMMA OneRecord ==
  ASSUME IInv, NEW t \in DOMAIN records, NEW new \in PinRecords,
         records' = [records EXCEPT ![t] = new],
         new.request = records[t].request, new.range = records[t].range,
         new.address_space = records[t].address_space,
         new.state = records[t].state \/ new.state = "Active",
         DOMAIN expected' = DOMAIN expected, UNCHANGED <<state, owners, next_token, world>>,
         Covered(new), Held(new)
  PROVE  IInv'
<1>1. /\ DOMAIN records' = DOMAIN records /\ records'[t] = new
      /\ \A u \in DOMAIN records : u # t => records'[u] = records[u]
      /\ records' \in [DOMAIN records' -> PinRecords]
  BY Zenon DEF IInv, Typed
<1>2. new.state \in {"Reserved", "Active"}
  BY Zenon DEF PinRecords
<1>3. Typed'
  <2>1. TypeOK'
    BY <1>1, <1>2, Zenon DEF IInv, Typed, TypeOK
  <2> QED BY <1>1, <2>1, Zenon DEF IInv, Typed
<1>4. (\A u \in DOMAIN records : Covered(records[u]))'
  BY <1>1, ZenonT(30) DEF IInv, Covered, Prefix
<1>5. (\A u \in DOMAIN records : Held(records[u]))'
  BY <1>1 DEF IInv, Held, Fences
<1>6. \A u \in DOMAIN records :
        /\ records'[u].request = records[u].request /\ records'[u].range = records[u].range
        /\ records'[u].address_space = records[u].address_space
        /\ records[u].state = "Active" => records'[u].state = "Active"
  BY <1>1, <1>2, Zenon
<1>7. WritersApart'
  BY <1>1, <1>6 DEF IInv, WritersApart
<1>8. state' = "TearingDown" => \A u \in DOMAIN records' : records'[u].state = "Active"
  BY <1>1, <1>6, Zenon DEF IInv
<1>9. state' # "Closed"
  BY DEF IInv
<1> QED BY <1>3, <1>4, <1>5, <1>7, <1>8, <1>9, Zenon DEF IInv

(* commit: the prefix is the range *)
LEMMA CommitStep ==
  ASSUME IInv, NEW t \in DOMAIN records, Commit(t)
  PROVE  IInv'
<1> DEFINE r == records[t]
           new == [r EXCEPT !.state = "Active"]
<1>1. /\ r \in PinRecords /\ Covered(r) /\ Held(r)
      /\ r.state = "Reserved" /\ r.validated_until = r.range.end
      /\ records' = [records EXCEPT ![t] = new]
      /\ UNCHANGED <<state, owners, next_token, global_usage, world, expected>>
  BY Zenon DEF Commit, Committable, IInv, Typed
<1> HIDE DEF r
<1>2. /\ new \in PinRecords /\ new.request = r.request /\ new.range = r.range
      /\ new.address_space = r.address_space /\ new.state = "Active"
      /\ new.seen = r.seen /\ new.validated_until = r.validated_until
  BY <1>1, Zenon DEF PinRecords
<1> HIDE DEF new
<1>3. Covered(new)
  BY <1>1, <1>2, Zenon DEF Covered, Prefix
<1>4. Held(new)
  BY <1>1, <1>2, Zenon DEF Held, Fences
<1> USE DEF r
<1> QED BY <1>1, <1>2, <1>3, <1>4, OneRecord, ZenonT(30)

(* revalidate_next: the segment goes on where the last one ended, and lies in
   one run of pages whose profile permits the access. *)
LEMMA RevalidateStep ==
  ASSUME IInv, NEW t \in DOMAIN records, NEW covered \in PageRanges(PageSize),
         RevalidateNext(t, covered)
  PROVE  IInv'
<1> DEFINE r == records[t]
           current == Snapshot(r.address_space, covered.start)
           windows == {<<p, world[r.address_space][p]>> : p \in Pages \cap Bytes(covered)}
           new == [r EXCEPT !.validated_until = covered.end, !.validated_mappings = @ + 1,
                            !.seen = @ \cup windows]
<1>1. CASE ~ SegmentValid(t, covered, current)
  <2>1. DropTokens({t}) /\ UNCHANGED <<state, next_token, world>>
    BY <1>1, Zenon DEF RevalidateNext
  <2> QED BY <2>1, DropStep, Zenon
<1>2. CASE SegmentValid(t, covered, current)
  <2>1. /\ r \in PinRecords /\ Covered(r) /\ Held(r) /\ r.state = "Reserved"
        /\ records' = [records EXCEPT ![t] = new]
        /\ expected' = [expected EXCEPT ![t] = NoExpected]
        /\ UNCHANGED <<state, owners, next_token, world>>
    BY <1>2, Zenon DEF RevalidateNext, IInv, Typed
  <2>2. /\ covered.start = r.validated_until /\ Contains(r.range, covered)
        /\ Contains(current.range, covered) /\ r.request.access \in current.profile.access
    BY <1>2, Zenon DEF SegmentValid, ValidateMapping
  <2>3. current.profile = world[r.address_space][covered.start].profile
    BY Zenon DEF Snapshot
  <2> HIDE DEF r
  <2>4. /\ covered.start \in Pages /\ covered.start \in Nat /\ covered.end \in Nat
        /\ covered.start <= covered.end /\ Pages \subseteq Nat
        /\ r.range.start \in Nat /\ r.range.end \in Nat
    BY <2>1, StartsOnPage, PinAssumption DEF PinRecords, Pages, Addresses
  <2>5. ASSUME NEW p \in Pages \cap Bytes(covered)
        PROVE  /\ world[r.address_space][p] \in Mappings
               /\ r.request.access \in world[r.address_space][p].profile.access
    <3>1. p \in Nat /\ covered.start <= p /\ p < covered.end
      BY <2>4 DEF Bytes
    <3>2. /\ current.range.start \in Nat /\ current.range.end \in Nat
          /\ current.range.start <= p /\ p < current.range.end =>
               world[r.address_space][p] = world[r.address_space][covered.start]
      BY <2>4, SnapshotUniform, ZenonT(30)
    <3>3. current.range.start <= p /\ p < current.range.end
      BY <2>2, <2>4, <3>1, <3>2 DEF Contains
    <3>4. world[r.address_space][p] \in Mappings
      BY <2>1 DEF IInv, Typed, PinRecords
    <3> QED BY <2>2, <2>3, <3>2, <3>3, <3>4, Zenon
  <2> HIDE DEF current
  <2>6. windows \subseteq Pages \X Mappings
    BY <2>5
  <2>7. /\ new \in PinRecords /\ new.request = r.request /\ new.range = r.range
        /\ new.address_space = r.address_space /\ new.state = r.state
        /\ new.seen = r.seen \cup windows /\ new.validated_until = covered.end
    <3> HIDE DEF windows
    <3>1. r.seen \cup windows \in SUBSET (Pages \X Mappings) /\ r.validated_mappings + 1 \in Nat
      BY <2>1, <2>6 DEF PinRecords
    <3> QED BY <2>1, <2>4, <3>1, ZenonT(30) DEF PinRecords
  <2> HIDE DEF new
  <2>8. {w[1] : w \in new.seen} = Prefix(new)
    <3>1. {w[1] : w \in windows} = {p \in Pages : r.validated_until <= p /\ p < covered.end}
      <4>1. \A w \in windows : w[1] \in Pages \cap Bytes(covered)
        OBVIOUS
      <4>2. ASSUME NEW p \in Pages \cap Bytes(covered) PROVE \E w \in windows : w[1] = p
        <5>1. <<p, world[r.address_space][p]>> \in windows
          BY Zenon
        <5> QED BY <5>1, ZenonT(30)
      <4>3. \A p \in Pages : p \in Bytes(covered) <=> covered.start <= p /\ p < covered.end
        BY ONLY <2>4 DEF Bytes
      <4> HIDE DEF windows
      <4>4. {w[1] : w \in windows} = Pages \cap Bytes(covered)
        BY <4>1, <4>2, Zenon
      <4> QED BY <2>2, <4>3, <4>4, Zenon
    <3>2. {w[1] : w \in r.seen} = {p \in Pages : r.range.start <= p /\ p < r.validated_until}
      BY <2>1, Zenon DEF Covered, Prefix
    <3>3. {w[1] : w \in new.seen} = {w[1] : w \in r.seen} \cup {w[1] : w \in windows}
      <4> HIDE DEF windows
      <4> QED BY <2>7, Zenon
    <3>4. Prefix(new) = {p \in Pages : r.range.start <= p /\ p < covered.end}
      BY <2>7, Zenon DEF Prefix
    <3>5. r.range.start <= r.validated_until /\ r.validated_until <= covered.end /\ r.validated_until \in Nat
      BY <2>1, <2>2, <2>4, Zenon DEF Covered
    <3>6. ASSUME NEW p \in Pages
          PROVE  r.range.start <= p /\ p < covered.end <=>
                   \/ r.range.start <= p /\ p < r.validated_until
                   \/ r.validated_until <= p /\ p < covered.end
      BY ONLY <2>4, <3>5
    <3>7. {p \in Pages : r.range.start <= p /\ p < r.validated_until}
            \cup {p \in Pages : r.validated_until <= p /\ p < covered.end}
          = {p \in Pages : r.range.start <= p /\ p < covered.end}
      BY ONLY <3>6, Zenon
    <3> QED BY ONLY <3>1, <3>2, <3>3, <3>4, <3>7, Zenon
  <2>9. Covered(new)
    <3>1. \A w \in windows : r.request.access \in w[2].profile.access
      BY <2>5
    <3>2. \A w \in new.seen : new.request.access \in w[2].profile.access
      <4> HIDE DEF windows
      <4> QED BY <2>1, <2>7, <3>1, Zenon DEF Covered
    <3>3. new.range.start <= new.validated_until /\ new.validated_until <= new.range.end
      BY <2>1, <2>2, <2>4, <2>7 DEF Covered, Contains
    <3> QED BY <2>1, <2>7, <2>8, <3>2, <3>3, Zenon DEF Covered
  <2>10. Held(new)
    <3>1. \A w \in windows : world[r.address_space][w[1]] = w[2]
      BY SMTT(30)
    <3> HIDE DEF windows
    <3> QED BY <2>1, <2>7, <3>1, SMTT(30) DEF Held, Fences
  <2> USE DEF r
  <2> QED BY <2>1, <2>7, <2>9, <2>10, OneRecord, ZenonT(30)
<1> QED BY <1>1, <1>2, Zenon

(* admit_mutation: a page that a fencing pin has seen is not in the range. *)
LEMMA MutateStep ==
  ASSUME IInv, NEW as \in Spaces, NEW range \in PageRanges(PageSize), NEW f \in Profiles,
         Mutate(as, range, f)
  PROVE  IInv'
<1> DEFINE v == world[as][range.start]
           m == [mapping |-> v.mapping, generation |-> v.generation + 1, profile |-> f]
           pages == [p \in Pages |-> IF p \in Bytes(range) THEN m ELSE world[as][p]]
<1>1. /\ AdmitMutation(as, range) /\ world' = [world EXCEPT ![as] = pages]
      /\ UNCHANGED <<state, owners, records, next_token, global_usage, expected>>
  BY Zenon DEF Mutate, Snapshot
<1>2. /\ range.start \in Pages /\ range.start \in Nat /\ range.end \in Nat /\ Pages \subseteq Nat
  BY StartsOnPage, PinAssumption DEF Pages, Addresses
<1>3. /\ records \in [DOMAIN records -> PinRecords] /\ world \in [Spaces -> [Pages -> Mappings]]
      /\ \A t \in DOMAIN records : Covered(records[t]) /\ Held(records[t])
  BY Zenon DEF IInv, Typed
<1>4. v \in Mappings
  BY <1>2, <1>3, ZenonT(30)
<1>5. m \in Mappings
  <2> HIDE DEF v
  <2> QED BY <1>4 DEF Mappings
<1> HIDE DEF m
<1>6. pages \in [Pages -> Mappings]
  BY <1>3, <1>5, ZenonT(30)
<1>7. world' \in [Spaces -> [Pages -> Mappings]]
  <2> HIDE DEF pages
  <2> QED BY <1>1, <1>3, <1>6, ZenonT(30)
<1>8. /\ \A p \in Pages : p \notin Bytes(range) => world'[as][p] = world[as][p]
      /\ \A s \in Spaces : s # as => world'[s] = world[s]
  BY <1>1, <1>3, Zenon
<1>9. Typed'
  BY <1>1, <1>7, ZenonT(30) DEF IInv, Typed, TypeOK
<1>10. ASSUME NEW t \in DOMAIN records, Fences(records[t]), NEW w \in records[t].seen
       PROVE  world'[records[t].address_space][w[1]] = w[2]
  <2> DEFINE r == records[t]
  <2>1. /\ r \in PinRecords /\ Covered(r)
        /\ world[r.address_space][w[1]] = w[2]
    BY <1>3, <1>10, Zenon DEF Held
  <2>2. ~ (r.address_space = as /\ Overlaps(r.range, range))
    BY <1>1, <1>10, ZenonT(30) DEF AdmitMutation
  <2> HIDE DEF r
  <2>3. r.address_space \in Spaces /\ r.range.start \in Nat /\ r.range.end \in Nat /\ r.validated_until \in Nat
    BY <2>1, StartsOnPage, Zenon DEF PinRecords
  <2>4. w[1] \in Prefix(r)
    BY <1>10, <2>1, Zenon DEF Covered, r
  <2>5. PICK p \in Pages : p = w[1] /\ r.range.start <= p /\ p < r.validated_until
    BY <2>4, Zenon DEF Prefix
  <2>6. p < r.range.end
    BY <1>2, <2>1, <2>3, <2>5 DEF Covered
  <2>7. p \in Bytes(range) => Overlaps(r.range, range)
    BY <1>2, <2>3, <2>5, <2>6, SMTT(30) DEF Bytes, Overlaps
  <2>8. world'[r.address_space][p] = world[r.address_space][p]
    BY <1>8, <2>2, <2>3, <2>7, ZenonT(30)
  <2> QED BY <2>1, <2>5, <2>8, Zenon DEF r
<1>11. (\A t \in DOMAIN records : Held(records[t]))'
  <2>1. records' = records
    BY <1>1, Zenon
  <2>2. \A t \in DOMAIN records : Fences(records[t]) =>
          \A w \in records[t].seen : world'[records[t].address_space][w[1]] = w[2]
    BY ONLY <1>10, Zenon
  <2> QED BY ONLY <2>1, <2>2, Zenon DEF Held, Fences
<1>12. (\A t \in DOMAIN records : Covered(records[t]))'
  BY <1>1, <1>3, Zenon DEF Covered, Prefix
<1>13. WritersApart'
  BY <1>1, Zenon DEF IInv, WritersApart
<1> QED BY <1>1, <1>9, <1>11, <1>12, <1>13, SMTT(30) DEF IInv

(* A new registry has no pin and no owner. *)
LEMMA InitIInv ==
  ASSUME Init
  PROVE  IInv
<1>1. DOMAIN records = {} /\ DOMAIN owners = {} /\ DOMAIN expected = {} /\ records = << >>
  BY DEF Init
<1>2. TypeOK
  BY <1>1, PinAssumption DEF Init, TypeOK
<1>3. world \in [Spaces -> [Pages -> Mappings]]
  <2>1. {[p \in Pages |-> [mapping |-> 1, generation |-> 1, profile |-> f]] : f \in Profiles}
          \subseteq [Pages -> Mappings]
    BY DEF Mappings
  <2> QED BY <2>1, Zenon DEF Init
<1>4. records \in [DOMAIN records -> PinRecords]
  BY <1>1
<1> QED BY <1>1, <1>2, <1>3, <1>4, Zenon DEF Init, IInv, Typed, WritersApart

(* Every operation of the registry keeps the invariant. *)
LEMMA StepIInv ==
  ASSUME IInv, [Next]_pvars
  PROVE  IInv'
<1>1. /\ state \in {"Open", "Closing", "TearingDown", "Closed"} /\ DOMAIN owners \subseteq Owners
  BY Zenon DEF IInv, Typed, TypeOK
<1>2. ASSUME NEW o \in Owners, NEW q \in OwnerQuotas, ConfigureOwner(o, q) PROVE IInv'
  <2>1. DOMAIN owners' \subseteq Owners
    BY <1>1, <1>2, Zenon DEF ConfigureOwner
  <2> QED BY <1>1, <1>2, <2>1, RegistryStep, Zenon DEF ConfigureOwner
<1>3. ASSUME NEW o \in Owners, RemoveOwner(o) PROVE IInv'
  <2>1. DOMAIN owners' \subseteq Owners
    BY <1>1, <1>3, Zenon DEF RemoveOwner, Restrict
  <2> QED BY <1>1, <1>3, <2>1, RegistryStep, Zenon DEF RemoveOwner
<1>4. ASSUME NEW q \in Requests, NEW as \in Spaces, Reserve(q, as) PROVE IInv'
  BY <1>4, ReserveStep, ZenonT(30)
<1>5. ASSUME NEW t \in DOMAIN records, Capture(t) PROVE IInv'
  <2>1. DOMAIN expected' = DOMAIN expected
    BY <1>5, Zenon DEF Capture
  <2> QED BY <1>1, <1>5, <2>1, RegistryStep, Zenon DEF Capture
<1>6. ASSUME NEW t \in DOMAIN records, Commit(t) PROVE IInv'
  BY <1>6, CommitStep, Zenon
<1>7. ASSUME NEW t \in DOMAIN records, CancelReservation(t) \/ Release(t) PROVE IInv'
  BY <1>7, DropStep, Zenon DEF CancelReservation, Release
<1>8. ASSUME NEW t \in DOMAIN records, NEW c \in PageRanges(PageSize), RevalidateNext(t, c) PROVE IInv'
  BY <1>8, RevalidateStep, Zenon
<1>9. CASE BeginClose
  BY <1>1, <1>9, RegistryStep, Zenon DEF BeginClose
<1>10. CASE BeginTeardown
  BY <1>10, TeardownStep, Zenon
<1>11. CASE FinishTeardown
  BY <1>1, <1>11, RegistryStep, Zenon DEF FinishTeardown
<1>12. ASSUME NEW as \in Spaces, NEW r \in PageRanges(PageSize), NEW f \in Profiles, Mutate(as, r, f)
       PROVE  IInv'
  BY <1>12, MutateStep, ZenonT(30)
<1>13. CASE UNCHANGED pvars
  BY <1>1, <1>13, RegistryStep, Zenon DEF pvars
<1> QED BY <1>2, <1>3, <1>4, <1>5, <1>6, <1>7, <1>8, <1>9, <1>10, <1>11, <1>12, <1>13, Zenon DEF Next

(* A pin that is covered and held has its pages. *)
LEMMA IInvGivesPinsHold ==
  ASSUME IInv
  PROVE  PinsHold
<1>1. ASSUME NEW t \in DOMAIN records
      PROVE  /\ records[t] \in PinRecords /\ Covered(records[t]) /\ Held(records[t])
             /\ records[t].range.start \in Pages /\ records[t].range.start \in Nat
             /\ records[t].range.end \in Nat /\ records[t].range.start < records[t].range.end
             /\ records[t].address_space \in Spaces
  <2>1. records[t] \in PinRecords /\ Covered(records[t]) /\ Held(records[t])
    BY Zenon DEF IInv, Typed
  <2>2. records[t].range \in PageRanges(PageSize) /\ records[t].address_space \in Spaces
    BY <2>1, Zenon DEF PinRecords
  <2> QED BY <2>1, <2>2, StartsOnPage, PinAssumption
<1>2. FenceHolds
  <2>1. SUFFICES ASSUME NEW t \in DOMAIN records
        PROVE  /\ {w[1] : w \in records[t].seen} = Prefix(records[t])
               /\ Fences(records[t]) =>
                    \A w \in records[t].seen : world[records[t].address_space][w[1]] = w[2]
               /\ \A w \in records[t].seen : records[t].request.access \in w[2].profile.access
               /\ records[t].state = "Active" => Prefix(records[t]) = Pages \cap Bytes(records[t].range)
    BY Zenon DEF FenceHolds, Prefix
  <2>2. records[t].state = "Active" => Prefix(records[t]) = Pages \cap Bytes(records[t].range)
    <3>1. \A p \in Pages : p \in Bytes(records[t].range) <=>
                             records[t].range.start <= p /\ p < records[t].range.end
      BY <1>1, PinAssumption DEF Bytes, Pages, Addresses
    <3>2. records[t].state = "Active" => records[t].validated_until = records[t].range.end
      BY <1>1, Zenon DEF Covered
    <3> QED BY <3>1, <3>2, Zenon DEF Prefix
  <2> QED BY <1>1, <2>2, Zenon DEF Covered, Held
<1>3. ASSUME NEW t \in DOMAIN records, Fences(records[t])
      PROVE  \E as \in Spaces, p \in Pages : ~AdmitMutation(as, [start |-> p, end |-> p + PageSize])
  <2>1. PICK p \in Pages : p = records[t].range.start
    BY <1>1, Zenon
  <2>2. p \in Nat /\ p < p + PageSize
    BY <1>1, <2>1, PinAssumption
  <2>3. Overlaps(records[t].range, [start |-> p, end |-> p + PageSize])
    BY <1>1, <2>1, <2>2, Zenon DEF Overlaps
  <2>4. ~AdmitMutation(records[t].address_space, [start |-> p, end |-> p + PageSize])
    BY <1>3, <2>3, SMTT(30) DEF AdmitMutation
  <2> QED BY <1>1, <2>4, Zenon
<1>4. TeardownQuiet
  <2>1. HasCloneBlocker <=>
          \E as \in Spaces, p \in Pages : ~AdmitMutation(as, [start |-> p, end |-> p + PageSize])
    BY <1>3, ZenonT(30) DEF HasCloneBlocker, AdmitMutation
  <2> QED BY <2>1, ZenonT(30) DEF IInv, TeardownQuiet
<1> QED BY <1>2, <1>4, Zenon DEF IInv, PinsHold

(* A pin holds its range: between its lock windows, and until it ends or hands
   stability to lower owners, every page it has revalidated stays exactly as it
   was then and permits its access, whatever mutations the kernel tries; a
   committed pin covers its whole range; conflicting pins overlap only if the
   older gave its range up; teardown leaves no reservation, closing no record,
   and a fork is refused exactly while some page is fenced. *)
THEOREM PinsHoldCorrect == Spec => []PinsHold
<1>1. Init => IInv
  BY InitIInv, Zenon
<1>2. IInv /\ [Next]_pvars => IInv'
  BY StepIInv, Zenon
<1>3. IInv => PinsHold
  BY IInvGivesPinsHold, Zenon
<1> QED BY <1>1, <1>2, <1>3, PTL DEF Spec

-----------------------------------------------------------------------------
(* PinBudget: identities are drawn in order and not again, and a budget's next
   charge is above every charge it has handed out. *)
BudgetInv ==
  /\ next_identity \in Nat
  /\ \A b \in DOMAIN budgets :
       /\ b \in Nat /\ (next_identity = 0 \/ b < next_identity)
       /\ budgets[b] = [usage |-> budgets[b].usage, records |-> budgets[b].records,
                        next_charge |-> budgets[b].next_charge]
       /\ budgets[b].next_charge \in Nat
  /\ \A c \in issued :
       c.budget \in DOMAIN budgets /\ c.token \in Nat /\ c.token < budgets[c.budget].next_charge

(* PinBudget::new: the identity is none of those in use. *)
LEMMA NewBudgetStep ==
  ASSUME BudgetInv, NEW first \in 1..MaxCharge, NewBudget(first)
  PROVE  BudgetInv' /\ RefundsExact
<1> DEFINE n == next_identity
           new == [usage |-> Zero, records |-> << >>, next_charge |-> first]
<1>1. /\ n \in Nat /\ n # 0 /\ n \notin DOMAIN budgets /\ issued' = issued
      /\ budgets' = [b \in DOMAIN budgets \cup {n} |-> IF b = n THEN new ELSE budgets[b]]
      /\ next_identity' = 0 \/ next_identity' = n + 1
  BY SMTT(30) DEF NewBudget, NextIdentity, BudgetInv
<1>2. /\ DOMAIN budgets' = DOMAIN budgets \cup {n} /\ budgets'[n] = new
      /\ \A b \in DOMAIN budgets : budgets'[b] = budgets[b]
  BY <1>1, Zenon
<1>3. first \in Nat
  BY PinAssumption
<1>4. next_identity' \in Nat /\ \A b \in DOMAIN budgets' : b \in Nat /\ (next_identity' = 0 \/ b < next_identity')
  BY <1>1, <1>2, SMTT(30) DEF BudgetInv
<1>5. BudgetInv'
  BY <1>1, <1>2, <1>3, <1>4, SMTT(30) DEF BudgetInv
<1>6. RefundsExact
  BY <1>1, <1>2, Zenon DEF BudgetInv, RefundsExact
<1> QED BY <1>5, <1>6, SMTT(30)

(* PinBudget::reserve: the token is above those handed out before. *)
LEMMA BudgetReserveStep ==
  ASSUME BudgetInv, NEW b \in DOMAIN budgets, NEW r \in ByteRanges, BudgetReserve(b, r)
  PROVE  BudgetInv' /\ RefundsExact
<1> DEFINE t == budgets[b].next_charge
<1>1. PICK u, a : LET new == [usage |-> u, next_charge |-> t + 1,
                              records |-> [x \in DOMAIN budgets[b].records \cup {t} |->
                                             IF x = t THEN a ELSE budgets[b].records[x]]]
                  IN  budgets' = [budgets EXCEPT ![b] = new]
  BY ZenonT(30) DEF BudgetReserve
<1>2. issued' = issued \cup {[budget |-> b, token |-> t]} /\ next_identity' = next_identity
  BY Zenon DEF BudgetReserve
<1>3. t \in Nat
  BY Zenon DEF BudgetInv
<1>4. /\ DOMAIN budgets' = DOMAIN budgets
      /\ \A x \in DOMAIN budgets : x # b => budgets'[x] = budgets[x]
      /\ budgets'[b].next_charge = t + 1 /\ DOMAIN budgets'[b].records = DOMAIN budgets[b].records \cup {t}
      /\ budgets'[b] = [usage |-> budgets'[b].usage, records |-> budgets'[b].records,
                        next_charge |-> budgets'[b].next_charge]
  BY <1>1, Zenon
<1> HIDE DEF t
<1>5. \A c \in issued : c.budget = b => c.token \in Nat /\ c.token < t
  BY Zenon DEF BudgetInv, t
<1>6. BudgetInv'
  BY <1>2, <1>3, <1>4, <1>5 DEF BudgetInv
<1>7. RefundsExact
  BY <1>3, <1>4, <1>5, SMTT(30) DEF BudgetInv, RefundsExact
<1> QED BY <1>6, <1>7, Zenon

(* PinBudget::release: only a charge of this budget, only while it is live. *)
LEMMA BudgetReleaseStep ==
  ASSUME BudgetInv, NEW b \in DOMAIN budgets, NEW c \in issued, BudgetRelease(b, c)
  PROVE  BudgetInv' /\ RefundsExact
<1>1. PICK u : budgets' = [budgets EXCEPT ![b] =
                 [budgets[b] EXCEPT !.records = Restrict(budgets[b].records, DOMAIN budgets[b].records \ {c.token}),
                                    !.usage = u]]
  BY ZenonT(30) DEF BudgetRelease
<1>2. c.budget = b /\ c.token \in DOMAIN budgets[b].records /\ UNCHANGED <<issued, next_identity>>
  BY SMTT(30) DEF BudgetRelease, Owns
<1>3. budgets[b] = [usage |-> budgets[b].usage, records |-> budgets[b].records,
                    next_charge |-> budgets[b].next_charge]
  BY SMTT(30) DEF BudgetInv
<1>4. /\ DOMAIN budgets' = DOMAIN budgets
      /\ \A x \in DOMAIN budgets : x # b => budgets'[x] = budgets[x]
      /\ budgets'[b].next_charge = budgets[b].next_charge
      /\ DOMAIN budgets'[b].records = DOMAIN budgets[b].records \ {c.token}
      /\ budgets'[b] = [usage |-> budgets'[b].usage, records |-> budgets'[b].records,
                        next_charge |-> budgets'[b].next_charge]
  BY <1>1, <1>3, ZenonT(30) DEF Restrict
<1>5. BudgetInv'
  BY <1>2, <1>4, ZenonT(30) DEF BudgetInv
<1>6. ASSUME NEW d \in issued, d.budget = b, d.token = c.token
      PROVE  BudgetRelease(d.budget, d)
  BY <1>2, <1>6, SMTT(30) DEF BudgetRelease, Owns
<1>7. RefundsExact
  BY <1>2, <1>4, <1>6, Zenon DEF BudgetInv, RefundsExact
<1> QED BY <1>5, <1>7, SMTT(30)

(* A charge of a system-wide pin budget ends only when it is released at its
   own budget, and a charge that ended never comes back: neither a release at
   another budget nor a second release changes the books. *)
THEOREM RefundsExactCorrect == BudgetSpec => [][RefundsExact]_bgvars
<1>1. BudgetInit => BudgetInv
  BY DEF BudgetInit, BudgetInv
<1>2. BudgetInv /\ BudgetNext => BudgetInv' /\ RefundsExact
  BY NewBudgetStep, BudgetReserveStep, BudgetReleaseStep, SMTT(30) DEF BudgetNext
<1>3. BudgetInv /\ UNCHANGED bgvars => BudgetInv'
  BY Zenon DEF BudgetInv, bgvars
<1> QED BY <1>1, <1>2, <1>3, PTL DEF BudgetSpec
=============================================================================
