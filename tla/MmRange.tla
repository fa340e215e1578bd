------------------------------- MODULE MmRange -------------------------------
(***************************************************************************)
(* The address arithmetic of crates/mm/src/range.rs and plan.rs: checked   *)
(* byte and page ranges, the page covering of a byte range, the geometry   *)
(* of a remap, and incremental memlock charges.  MaxAddress stands for     *)
(* usize::MAX (u64::MAX for charges): every checked_add compares with it.  *)
(* A fallible constructor returns NoRange (or a record without the field   *)
(* "ok" set) where the code returns an error; which error is not told      *)
(* apart.  Two ranges that are compared are assumed to have one page size: *)
(* PageRange::contains and overlaps are false where page sizes differ.     *)
(***************************************************************************)
EXTENDS Integers, FiniteSets

CONSTANT MaxAddress

Addresses == 0..MaxAddress
NoRange == [start |-> 0, end |-> 0]

(* UserRange::new, from_bounds: [start, start + length), nonempty, representable *)
UserRange(start, length) ==
  IF length # 0 /\ start + length <= MaxAddress
    THEN [start |-> start, end |-> start + length] ELSE NoRange

ByteLen(r) == r.end - r.start
IsRange(r) == r # NoRange
Contains(r, o) == r.start <= o.start /\ o.end <= r.end
Overlaps(r, o) == r.start < o.end /\ o.start < r.end
ContainsAddress(r, a) == r.start <= a /\ a < r.end
Bytes(r) == r.start..(r.end - 1)

(* PageSize: a power of two, so the mask arithmetic is a remainder *)
IsAligned(ps, v) == v % ps = 0
AlignDown(ps, v) == v - (v % ps)

(* PageRange::with_page_size *)
PageRange(start, length, ps) ==
  IF IsAligned(ps, start) /\ IsAligned(ps, length) THEN UserRange(start, length) ELSE NoRange

(* PageSize::align_up: add the mask, checked, then clear the low bits.  A
   sum that does not fit is reported as an address beyond MaxAddress. *)
AlignUp(ps, v) ==
  IF v + (ps - 1) > MaxAddress THEN MaxAddress + 1 ELSE AlignDown(ps, v + (ps - 1))

(* PageRange::covering *)
Covering(r, ps) ==
  LET start == AlignDown(ps, r.start)
      end == AlignUp(ps, r.end)
  IN  IF end > MaxAddress THEN NoRange ELSE PageRange(start, end - start, ps)

PageCount(r, ps) == ByteLen(r) \div ps

(* PageRange::subrange: relative to the first byte of r *)
Subrange(r, ps, offset, length) ==
  LET sub == PageRange(r.start + offset, length, ps)
  IN  IF /\ IsAligned(ps, offset) /\ r.start + offset <= MaxAddress
         /\ IsRange(sub) /\ Contains(r, sub)
        THEN sub ELSE NoRange

(* page_range_intersection (userfaultfd.rs) *)
Intersection(l, r) ==
  LET start == IF l.start > r.start THEN l.start ELSE r.start
      end == IF l.end < r.end THEN l.end ELSE r.end
  IN  IF start < end THEN [start |-> start, end |-> end] ELSE NoRange

(* ranges_touch *)
Touch(l, r) == l.start <= r.end /\ r.start <= l.end

-----------------------------------------------------------------------------
(* plan.rs *)

(* PageCoveringPlan::new *)
CoveringPlan(r, ps) ==
  LET pages == Covering(r, ps)
  IN  [ok |-> IsRange(pages), pages |-> pages,
       leading_bytes |-> r.start - pages.start, trailing_bytes |-> pages.end - r.end]

ClampedOrigin(origin, old_start, new_start) ==
  IF new_start + (origin - old_start) \in Addresses
    THEN [ok |-> TRUE, origin |-> new_start + (origin - old_start), backing_advance |-> 0]
    ELSE [ok |-> TRUE, origin |-> new_start, backing_advance |-> 0]

(* relocate_affine_origin: an origin that would fall below zero is rebased
   to new_start and the prefix it stood for is handed to the backing. *)
RelocateAffineOrigin(origin, old_start, new_start) ==
  IF origin >= old_start
    THEN LET moved == new_start + (origin - old_start)
         IN  [ok |-> moved <= MaxAddress, origin |-> moved, backing_advance |-> 0]
    ELSE LET consumed == old_start - origin
         IN  IF new_start >= consumed
               THEN [ok |-> TRUE, origin |-> new_start - consumed, backing_advance |-> 0]
               ELSE [ok |-> TRUE, origin |-> new_start, backing_advance |-> consumed]

(* RemapGeometry::new *)
Remap(old, new_start, new_length, ps) ==
  LET new == PageRange(new_start, new_length, ps)
      moved == IF ByteLen(old) < ByteLen(new) THEN ByteLen(old) ELSE ByteLen(new)
  IN  [ok |-> IsRange(new), old_range |-> old, new_range |-> new,
       moved_source |-> UserRange(old.start, moved)]

(* RemapGeometry::growth_tail, NoRange where there is none *)
GrowthTail(g, ps) ==
  IF ByteLen(g.new_range) > ByteLen(g.old_range)
    THEN PageRange(g.new_range.start + ByteLen(g.old_range),
                   ByteLen(g.new_range) - ByteLen(g.old_range), ps)
    ELSE NoRange

(* RemapGeometry::segment: the destination of one source fragment *)
Segment(g, source, ps) ==
  LET destination == PageRange(g.new_range.start + (source.start - g.old_range.start),
                               ByteLen(source), ps)
  IN  IF /\ Contains(g.moved_source, source) /\ IsRange(destination)
         /\ Contains(g.new_range, destination)
        THEN destination ELSE NoRange

(* MemlockPlan::new; limit is a MemlockLimit: its kind and, if Limited, its bytes *)
MemlockPlan(current, already, requested, limit) ==
  LET additional == requested - already
      total == current + additional
  IN  [ok |-> /\ requested # 0 /\ already <= requested /\ limit.kind # "Disabled"
              /\ total <= MaxAddress
              /\ limit.kind = "Limited" => total <= limit.bytes,
       additional_bytes |-> additional, total_locked_bytes |-> total]

-----------------------------------------------------------------------------
(* Reference definitions over sets of addresses *)

AllRanges == {r \in [start : Addresses, end : Addresses] : r.start < r.end}
PageRanges(ps) == {r \in AllRanges : IsAligned(ps, r.start) /\ IsAligned(ps, r.end)}

(* The covering of a byte range is the least page range that contains it, and
   is refused exactly when no representable page range does: a request that
   ends in the last page of the address space is refused, never wrapped. *)
CoveringExact(r, ps) ==
  LET above == {p \in PageRanges(ps) : Bytes(r) \subseteq Bytes(p)}
      c == CoveringPlan(r, ps)
  IN  /\ c.ok <=> above # {}
      /\ c.ok => /\ c.pages \in above
                 /\ \A p \in above : Bytes(c.pages) \subseteq Bytes(p)
                 /\ c.leading_bytes + ByteLen(r) + c.trailing_bytes = PageCount(c.pages, ps) * ps
                 /\ c.leading_bytes \in 0..(ps - 1) /\ c.trailing_bytes \in 0..(ps - 1)

(* Relocation keeps every byte on its backing: byte a of the old mapping lies
   at backing offset a - origin, and the byte it moves to lies at the same
   offset from the new origin once the consumed prefix is added. *)
RelocationExact(origin, old_start, new_start, length) ==
  LET m == RelocateAffineOrigin(origin, old_start, new_start)
  IN  m.ok => /\ m.origin \in Addresses
              /\ \A i \in 0..(length - 1) :
                   (new_start + i) - m.origin + m.backing_advance = (old_start + i) - origin

(* Splitting the moved prefix at any page boundary moves each byte to the same
   place as moving it whole; the destinations of the two fragments do not
   overlap, and together with the growth tail they are the new range. *)
RemapExact(old, new_start, new_length, cut, ps) ==
  LET g == Remap(old, new_start, new_length, ps)
      left == [start |-> g.moved_source.start, end |-> cut]
      right == [start |-> cut, end |-> g.moved_source.end]
      d(s) == Segment(g, s, ps)
      placed == UNION {Bytes(d(s)) : s \in {left, right}} \cup
                  (IF IsRange(GrowthTail(g, ps)) THEN Bytes(GrowthTail(g, ps)) ELSE {})
  IN  g.ok /\ cut \in (g.moved_source.start + 1)..(g.moved_source.end - 1) /\ IsAligned(ps, cut) =>
        /\ IsRange(d(left)) /\ IsRange(d(right)) /\ ~Overlaps(d(left), d(right))
        /\ placed = Bytes(g.new_range)
        /\ d(right).start - g.new_range.start = cut - old.start

(* A memlock plan charges exactly the bytes of the request that were not
   charged before, and never lets the total pass the limit. *)
MemlockExact(current, already, requested, limit) ==
  LET p == MemlockPlan(current, already, requested, limit)
  IN  p.ok => /\ p.additional_bytes \in 0..requested
              /\ p.total_locked_bytes - p.additional_bytes = current
              /\ p.total_locked_bytes \in Addresses
              /\ limit.kind = "Limited" => p.total_locked_bytes <= limit.bytes
=============================================================================
