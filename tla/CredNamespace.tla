--------------------------- MODULE CredNamespace ---------------------------
(***************************************************************************)
(* User namespaces of crate cred.                                          *)
(*                                                                         *)
(* Id maps (idmap.rs): extents of user ids resolved through the parent's   *)
(* map to kernel ids, kept sorted both ways and searched by bisection.     *)
(* Ids are 0..InvalidId, the last one invalid.                             *)
(*                                                                         *)
(* Namespaces (namespace.rs): the tree a child joins at creation, the uid  *)
(* and gid maps each namespace publishes once, and the setgroups policy    *)
(* serialized with the gid map.  A writer resolves its rows through the    *)
(* parent's map first and publishes later, so two writers and a policy     *)
(* change interleave.                                                      *)
(***************************************************************************)
EXTENDS Integers, Sequences, SequencesExt

CONSTANTS InvalidId,       \* u32::MAX
          MaxExtents,      \* ID_MAP_MAX_EXTENTS
          Writers,
          Inputs,          \* the row sequences a writer may write
          Owners,          \* kernel ids a creator may have
          MaxParentLevel,  \* USER_NAMESPACE_MAX_CREATION_PARENT_LEVEL
          MaxSpaces        \* bound: namespaces ever created

VARIABLES spaces,   \* sequence of namespaces, the initial one first
          writes    \* [Writers -> the resolved map in hand]

nvars == <<spaces, writes>>

NoId == -1
EmptyMap == [forward |-> <<>>, reverse |-> <<>>]
Invalid == [error |-> "InvalidInput"]
NotPermitted == [error |-> "NotPermitted"]

(* valid_range_end: the half-open end, where it is representable.          *)
ValidRange(first, count) == count > 0 /\ first # InvalidId /\ first + count <= InvalidId

(* The field an order of the extents goes by. *)
Upper == "first"
Lower == "lower_first"

SortedBy(extents, start) == SortSeq(extents, LAMBDA a, b : a[start] < b[start])

NonOverlapping(sorted, start) ==
  \A i \in 1..Len(sorted) - 1 : sorted[i][start] + sorted[i].count <= sorted[i + 1][start]

(* validate_id_map_input, and the same checks in try_from_kernel_extents.  *)
LowerUnchecked(extents) ==
  /\ Len(extents) \in 1..MaxExtents
  /\ \A i \in 1..Len(extents) :
       ValidRange(extents[i].first, extents[i].count)
       /\ ValidRange(extents[i].lower_first, extents[i].count)
  /\ NonOverlapping(SortedBy(extents, Upper), Upper)
ValidExtents(extents) ==
  /\ LowerUnchecked(extents)
  /\ NonOverlapping(SortedBy(extents, Lower), Lower)

(* find_extent: bisect for the last extent that starts at or below id.     *)
FindExtent(sorted, id, start) ==
  LET bisect[w \in (0..Len(sorted)) \X (0..Len(sorted))] ==
        LET left == w[1]
            right == w[2]
            middle == left + (right - left) \div 2
        IN IF left >= right THEN left
           ELSE IF sorted[middle + 1][start] <= id
                  THEN bisect[<<middle + 1, right>>]
                  ELSE bisect[<<left, middle>>]
      found == bisect[<<0, Len(sorted)>>]
  IN IF found = 0 \/ id >= sorted[found][start] + sorted[found].count
       THEN {}
       ELSE {sorted[found]}

MapIdToKernel(map, id) ==
  LET hit == FindExtent(map.forward, id, Upper)
  IN IF hit = {} THEN NoId ELSE LET x == CHOOSE x \in hit : TRUE
                                IN x.lower_first + (id - x.first)

MapIdFromKernel(map, id) ==
  LET hit == FindExtent(map.reverse, id, Lower)
  IN IF hit = {} THEN NoId ELSE LET x == CHOOSE x \in hit : TRUE
                                IN x.first + (id - x.lower_first)

(* map_range_to_kernel: the whole range must lie in one extent.            *)
MapRangeToKernel(map, first, count) ==
  LET hit == FindExtent(map.forward, first, Upper)
  IN IF ~ValidRange(first, count) \/ hit = {} THEN NoId
     ELSE LET x == CHOOSE x \in hit : TRUE
          IN IF first + count > x.first + x.count
               THEN NoId
               ELSE x.lower_first + (first - x.first)

FromKernelExtents(extents) ==
  IF ValidExtents(extents)
    THEN [forward |-> SortedBy(extents, Upper), reverse |-> SortedBy(extents, Lower)]
    ELSE Invalid

Identity == FromKernelExtents(<<[first |-> 0, lower_first |-> 0, count |-> InvalidId]>>)

TryFromParent(input, parent) ==
  LET resolved == [i \in 1..Len(input) |->
                     [input[i] EXCEPT !.lower_first =
                        MapRangeToKernel(parent, input[i].lower_first, input[i].count)]]
  IN IF ~ValidExtents(input) THEN Invalid
     ELSE IF \E i \in 1..Len(input) : resolved[i].lower_first = NoId
            THEN NotPermitted
            ELSE FromKernelExtents(resolved)

Accepted(map) == "forward" \in DOMAIN map

(* try_extents_for_lower: the rows a reader in another namespace sees.     *)
ExtentsForLower(map, lower) ==
  [i \in 1..Len(map.forward) |->
     LET seen == MapIdFromKernel(lower, map.forward[i].lower_first)
     IN [map.forward[i] EXCEPT !.lower_first = IF seen = NoId THEN InvalidId ELSE seen]]

-----------------------------------------------------------------------------
(* The reference: a row maps id to lower_first + (id - first), a set of    *)
(* rows the union of what each maps, with no id twice on either side.      *)
Covers(x, id) == id \in x.first..(x.first + x.count - 1)

(* An accepted map of a namespace is the written rows composed with the    *)
(* parent's map: an id is mapped exactly when a row covers it, to the      *)
(* kernel id the parent gives it; the two lookups are inverse of each      *)
(* other; and the parent reads back the rows that were written.  A map is  *)
(* accepted whenever the rows are one-to-one and each row lies in one      *)
(* extent of the parent's map (try_from_parent_slice, find_extent).        *)
IdMapExact(input, parent) ==
  LET map == TryFromParent(input, parent)
      ids == 0..InvalidId
      rows == {input[i] : i \in 1..Len(input)}
      oneToOne ==
        /\ Len(input) \in 1..MaxExtents
        /\ \A i \in 1..Len(input) :
             input[i].count > 0 /\ input[i].first + input[i].count <= InvalidId
             /\ input[i].lower_first + input[i].count <= InvalidId
        /\ \A i, j \in 1..Len(input) : i # j =>
             \A a \in 0..input[i].count - 1, b \in 0..input[j].count - 1 :
               /\ input[i].first + a # input[j].first + b
               /\ input[i].lower_first + a # input[j].lower_first + b
      contained(x) == \E k \in 1..Len(parent.forward) :
                        Covers(parent.forward[k], x.lower_first)
                        /\ Covers(parent.forward[k], x.lower_first + x.count - 1)
  IN /\ Accepted(map) <=> oneToOne /\ \A x \in rows : contained(x)
     /\ Accepted(map) =>
          /\ \A id \in ids :
               LET kernel == MapIdToKernel(map, id)
               IN /\ (kernel # NoId) <=> \E x \in rows : Covers(x, id)
                  /\ \A x \in rows : Covers(x, id) =>
                       \E k \in 1..Len(parent.forward) :
                         LET p == parent.forward[k]
                             low == x.lower_first + (id - x.first)
                         IN Covers(p, low) /\ kernel = p.lower_first + (low - p.first)
                  /\ kernel # NoId => kernel < InvalidId /\ MapIdFromKernel(map, kernel) = id
                  /\ MapIdFromKernel(map, id) # NoId =>
                       MapIdToKernel(map, MapIdFromKernel(map, id)) = id
          /\ LET read == ExtentsForLower(map, parent)
             IN {read[i] : i \in 1..Len(read)} = rows

-----------------------------------------------------------------------------
NoWrite == [space |-> 0]

Fixed(map) == [once |-> FALSE, map |-> map]
PublishOnce == [once |-> TRUE, map |-> EmptyMap]
IsPublished(slot) == ~slot.once \/ slot.map # EmptyMap

Init ==
  /\ spaces = <<[parent |-> 0, level |-> 0, owner |-> 0, group |-> 0,
                 uid |-> Fixed(Identity), gid |-> Fixed(Identity),
                 setgroups |-> TRUE, gated |-> FALSE]>>
  /\ writes = [w \in Writers |-> NoWrite]

(* UserNamespaceDomain::try_child and UserNamespaceMapState::try_child.    *)
Create ==
  /\ Len(spaces) < MaxSpaces
  /\ \E p \in 1..Len(spaces), owner \in Owners, group \in Owners :
       /\ spaces[p].level <= MaxParentLevel
       /\ MapIdFromKernel(spaces[p].uid.map, owner) # NoId
       /\ MapIdFromKernel(spaces[p].gid.map, group) # NoId
       /\ spaces' = Append(spaces,
            [parent |-> p, level |-> spaces[p].level + 1, owner |-> owner, group |-> group,
             uid |-> PublishOnce, gid |-> PublishOnce,
             setgroups |-> spaces[p].setgroups, gated |-> FALSE])
  /\ UNCHANGED writes

(* A writer resolves its rows against the parent's current map.            *)
Resolve(w) ==
  /\ writes[w] = NoWrite
  /\ \E n \in 2..Len(spaces), which \in {"uid", "gid"}, rows \in Inputs, gated \in BOOLEAN :
       LET parent == spaces[spaces[n].parent]
           map == TryFromParent(rows, IF which = "uid" THEN parent.uid.map ELSE parent.gid.map)
       IN /\ Accepted(map)
          /\ gated => which = "gid"
          /\ writes' = [writes EXCEPT ![w] = [space |-> n, which |-> which, map |-> map,
                                              gated |-> gated]]
  /\ UNCHANGED spaces

(* MapSlot::try_publish                                                    *)
MayPublish(slot, map) == slot.once /\ map # EmptyMap /\ ~IsPublished(slot)

(* try_publish_uid_map and try_publish_gid_map.                            *)
Publish(w) ==
  LET x == writes[w]
      s == spaces[x.space]
  IN /\ x # NoWrite
     /\ writes' = [writes EXCEPT ![w] = NoWrite]
     /\ spaces' =
          CASE x.which = "uid" /\ MayPublish(s.uid, x.map) ->
                 [spaces EXCEPT ![x.space].uid.map = x.map]
            [] x.which = "gid" /\ MayPublish(s.gid, x.map) /\ ~(x.gated /\ s.setgroups) ->
                 [spaces EXCEPT ![x.space].gid.map = x.map, ![x.space].gated = x.gated]
            [] OTHER -> spaces

(* try_update_setgroups_policy: what is denied is not allowed again, and    *)
(* nothing is denied once the gid map is published.                        *)
UpdateSetgroups(n, allow) ==
  /\ IF allow THEN spaces[n].setgroups ELSE ~IsPublished(spaces[n].gid)
  /\ spaces' = [spaces EXCEPT ![n].setgroups = allow]
  /\ UNCHANGED writes

Next == Create \/ (\E w \in Writers : Resolve(w) \/ Publish(w)) 
     \/ \E n \in 1..Len(spaces), allow \in BOOLEAN : UpdateSetgroups(n, allow)

MaySetgroups(s) == IsPublished(s.gid) /\ s.setgroups

-----------------------------------------------------------------------------
Image(map) == {MapIdToKernel(map, id) : id \in 0..InvalidId} \ {NoId}

(* The kernel ids a namespace maps are ids its parent maps, down the whole *)
(* tree and whatever order the maps were published in; the creator's ids   *)
(* stay mapped in the parent; the depth never passes its limit; and a      *)
(* namespace whose gid map was written without the setgid authority never  *)
(* admits setgroups.                                                       *)
SpacesConfined ==
  \A n \in 2..Len(spaces) :
    LET s == spaces[n]
        p == spaces[s.parent]
    IN /\ Image(s.uid.map) \subseteq Image(p.uid.map)
       /\ Image(s.gid.map) \subseteq Image(p.gid.map)
       /\ s.owner \in Image(p.uid.map) /\ s.group \in Image(p.gid.map)
       /\ s.level = p.level + 1 /\ s.level <= MaxParentLevel + 1
       /\ s.gated => ~MaySetgroups(s)

(* A published map is final, and a denied setgroups stays denied.          *)
MapsFinal ==
  \A n \in 1..Len(spaces) :
    LET s == spaces[n]
        t == spaces'[n]
    IN /\ s.uid.map # EmptyMap => t.uid.map = s.uid.map
       /\ s.gid.map # EmptyMap => t.gid.map = s.gid.map
       /\ ~s.setgroups => ~t.setgroups
=============================================================================
