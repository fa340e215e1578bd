---------------------- MODULE ProcessJobControlProofs ----------------------
(***************************************************************************)
(* Proofs about ProcessJobControl for any finite sets of processes, group  *)
(* and session objects and CPUs, and any membership limit.                 *)
(***************************************************************************)
EXTENDS ProcessJobControl, FiniteSetTheorems, TLAPS

(* What publication means: a published group is linked, its session is
   published, and a registered process is in a published group.  An allocated
   group has an allocated session; only allocated objects are linked. *)
Published ==
  /\ \A g \in Groups :
       /\ gpublished[g] => glinked[g] /\ spublished[gsession[g]]
       /\ glinked[g] => pgid[g] # None
       /\ pgid[g] # None => gsession[g] \in Sessions /\ sid[gsession[g]] # None
  /\ \A s \in Sessions : slinked[s] => sid[s] # None
  /\ \A p \in Procs : Registered(p) => group[p] \in Groups /\ gpublished[group[p]]

(* What a call in progress on CPU c may rely on when it takes the next lock:
   its group is allocated and, once it holds a membership, linked; an
   admission is dropped on the group it admitted. *)
CallOK(c) ==
  /\ cpu[c].pc \in {"admit", "reserve", "topology", "fork"} =>
       cpu[c].p \in Procs /\ cpu[c].g \in Groups /\ pgid[cpu[c].g] # None
  /\ cpu[c].pc = "topology" => glinked[cpu[c].g]
  /\ cpu[c].pc \in {"release", "remove"} => cpu[c].prev \in Groups
  /\ cpu[c].admission =>
       /\ cpu[c].pc \in {"reserve", "topology", "release", "remove"}
       /\ cpu[c].g \in Groups
       /\ cpu[c].pc \in {"release", "remove"} => cpu[c].prev = cpu[c].g

CallsOK == \A c \in Cpus : CallOK(c)

(* The group a fork took its snapshot of was published once: if it is still
   linked it is still published.  A group waiting to be admitted is not linked
   and belongs to one call, and no fork has seen it. *)
SnapshotsOK ==
  \A c \in Cpus :
    /\ cpu[c].pc = "fork" /\ glinked[cpu[c].g] => gpublished[cpu[c].g]
    /\ cpu[c].pc = "admit" =>
         /\ ~glinked[cpu[c].g]
         /\ \A d \in Cpus : d # c /\ cpu[d].pc \in {"admit", "fork"} => cpu[d].g # cpu[c].g

IInv ==
  /\ TypeOK /\ MembershipsOwned /\ RegistryCoherent /\ EmptyGroupIsClaimed
  /\ Published /\ CallsOK /\ SnapshotsOK

-----------------------------------------------------------------------------
(* A finite set that gains an element. *)
LEMMA Gain ==
  ASSUME NEW S, NEW T, NEW x, IsFiniteSet(S), x \notin S, T = S \union {x}
  PROVE  IsFiniteSet(T) /\ Cardinality(T) = Cardinality(S) + 1
BY FS_AddElement, Zenon

(* A finite set that loses one. *)
LEMMA Loss ==
  ASSUME NEW S, NEW T, NEW x, IsFiniteSet(S), x \in S, T = S \ {x}
  PROVE  IsFiniteSet(T) /\ Cardinality(T) = Cardinality(S) - 1
BY FS_RemoveElement, Zenon

(* The sets the counters count are finite. *)
LEMMA Sizes ==
  /\ \A g \in Groups :
       /\ IsFiniteSet(Members(g)) /\ Cardinality(Members(g)) \in Nat
       /\ IsFiniteSet(Reserving(g)) /\ Cardinality(Reserving(g)) \in Nat
       /\ IsFiniteSet(Releasing(g)) /\ Cardinality(Releasing(g)) \in Nat
  /\ \A s \in Sessions : IsFiniteSet(GroupsOf(s)) /\ Cardinality(GroupsOf(s)) \in Nat
  /\ IsFiniteSet({g \in Groups : glinked[g]}) /\ IsFiniteSet({s \in Sessions : slinked[s]})
<1>1. \A g \in Groups : Members(g) \in SUBSET Procs /\ Reserving(g) \in SUBSET Cpus
                        /\ Releasing(g) \in SUBSET Cpus
  BY Zenon DEF Members, Reserving, Releasing
<1>2. \A s \in Sessions : GroupsOf(s) \in SUBSET Groups
  BY Zenon DEF GroupsOf
<1>3. /\ {g \in Groups : glinked[g]} \in SUBSET Groups
      /\ {s \in Sessions : slinked[s]} \in SUBSET Sessions
  BY Zenon
<1> QED
  BY <1>1, <1>2, <1>3, JobControlAssumption, FS_Subset, FS_CardinalityType, Zenon

(* A group with a member, a reservation or a membership to release has a
   positive counter. *)
LEMMA OwnerCounts ==
  ASSUME IInv, NEW g \in Groups,
         Members(g) # {} \/ Reserving(g) # {} \/ Releasing(g) # {}
  PROVE  memberships[g] \in Nat /\ memberships[g] > 0
<1>1. memberships[g] = Cardinality(Members(g)) + Cardinality(Reserving(g))
                       + Cardinality(Releasing(g))
  BY Zenon DEF IInv, MembershipsOwned
<1>2. /\ Cardinality(Members(g)) \in Nat /\ Cardinality(Reserving(g)) \in Nat
      /\ Cardinality(Releasing(g)) \in Nat
  BY Sizes, Zenon
<1>3. \/ Cardinality(Members(g)) # 0 \/ Cardinality(Reserving(g)) # 0
      \/ Cardinality(Releasing(g)) # 0
  BY Sizes, FS_EmptySet, Zenon
<1> QED BY ONLY <1>1, <1>2, <1>3

(* A step that changes one CPU's call between phases that hold no membership
   changes no reservation and no release. *)
LEMMA QuietCall ==
  ASSUME NEW c \in Cpus, \A d \in Cpus : d # c => cpu'[d] = cpu[d],
         cpu[c].pc \notin {"topology", "release"}, cpu'[c].pc \notin {"topology", "release"}
  PROVE  \A g \in Groups : Reserving(g)' = Reserving(g) /\ Releasing(g)' = Releasing(g)
BY Zenon DEF Reserving, Releasing

(* The membership books survive a step that moves no owner. *)
LEMMA OwnedSame ==
  ASSUME MembershipsOwned, UNCHANGED memberships,
         \A g \in Groups : /\ Members(g)' = Members(g) /\ Reserving(g)' = Reserving(g)
                           /\ Releasing(g)' = Releasing(g)
  PROVE  MembershipsOwned'
BY Zenon DEF MembershipsOwned

(* The registry books survive a step that links and allocates nothing. *)
LEMMA CoherentSame ==
  ASSUME RegistryCoherent, UNCHANGED <<objVars, linkVars>>
  PROVE  RegistryCoherent'
BY ZenonT(30) DEF RegistryCoherent, objVars, linkVars, GroupsOf

-----------------------------------------------------------------------------
(* The initial state satisfies the invariant. *)
LEMMA InitIInv == Init => IInv
<1> SUFFICES ASSUME Init PROVE IInv
  BY Zenon
<1> USE JobControlAssumption
<1>1. TypeOK
  BY DEF Init, TypeOK, Calls, IdleCpu
<1>2. /\ Members(1) = {1} /\ \A g \in Groups : g # 1 => Members(g) = {}
      /\ \A g \in Groups : Reserving(g) = {} /\ Releasing(g) = {}
  BY Zenon DEF Init, Members, Reserving, Releasing, Registered, IdleCpu
<1>3. MembershipsOwned
  <2>1. \A g \in Groups : memberships[g] = IF g = 1 THEN 1 ELSE 0
    BY Zenon DEF Init
  <2>2. Cardinality(Members(1)) = 1 /\ \A g \in Groups : g # 1 => Cardinality(Members(g)) = 0
    BY <1>2, FS_EmptySet, FS_Singleton, Zenon
  <2>3. \A g \in Groups : Cardinality(Reserving(g)) = 0 /\ Cardinality(Releasing(g)) = 0
    BY <1>2, FS_EmptySet, Zenon
  <2> QED BY ONLY <2>1, <2>2, <2>3 DEF MembershipsOwned
<1>4. /\ GroupsOf(1) = {1} /\ \A s \in Sessions : s # 1 => GroupsOf(s) = {}
      /\ {g \in Groups : glinked[g]} = {1} /\ {s \in Sessions : slinked[s]} = {1}
  BY ZenonT(30) DEF Init, GroupsOf
<1>5. RegistryCoherent
  <2>1. Cardinality(GroupsOf(1)) = 1 /\ \A s \in Sessions : s # 1 => Cardinality(GroupsOf(s)) = 0
    BY <1>4, FS_EmptySet, FS_Singleton, Zenon
  <2>2. /\ Cardinality({g \in Groups : glinked[g]}) = 1
        /\ Cardinality({s \in Sessions : slinked[s]}) = 1
    BY <1>4, FS_Singleton, Zenon
  <2>3. /\ \A s \in Sessions : groups[s] = (IF s = 1 THEN 1 ELSE 0) /\ (slinked[s] <=> s = 1)
        /\ group_count = 1 /\ session_count = 1 /\ \A g \in Groups : glinked[g] <=> g = 1
    BY ZenonT(30) DEF Init
  <2> QED BY ONLY <2>1, <2>2, <2>3 DEF RegistryCoherent
<1>6. EmptyGroupIsClaimed
  <2>1. \A g \in Groups : glinked[g] <=> g = 1
    BY ZenonT(30) DEF Init
  <2>2. memberships[1] = 1
    BY Zenon DEF Init
  <2> QED BY ONLY <2>1, <2>2 DEF EmptyGroupIsClaimed
<1>7. Published
  BY ZenonT(30) DEF Init, Published, Registered
<1>8. CallsOK /\ SnapshotsOK
  BY Zenon DEF Init, CallsOK, CallOK, SnapshotsOK, IdleCpu
<1> QED BY <1>1, <1>3, <1>5, <1>6, <1>7, <1>8, Zenon DEF IInv

(* try_create_session, try_create_group: new objects, not linked yet. *)
LEMMA StartCreateInv ==
  ASSUME IInv, NEW c \in Cpus, NEW p \in Procs, NEW g \in Groups, NEW s \in Sessions,
         NEW new \in BOOLEAN, StartCreate(c, p, g, s, new)
  PROVE  IInv'
<1> USE JobControlAssumption
<1>1. TypeOK'
  BY ZenonT(30) DEF IInv, TypeOK, StartCreate, Calls, IdleCpu, linkVars
<1>2. /\ cpu[c].pc = "idle" /\ cpu'[c].pc = "admit" /\ cpu'[c].p = p /\ cpu'[c].g = g
      /\ ~cpu'[c].admission /\ \A d \in Cpus : d # c => cpu'[d] = cpu[d]
  BY ZenonT(30) DEF IInv, TypeOK, StartCreate, IdleCpu
<1>3. ~glinked[g] /\ ~gpublished[g] /\ pgid[g] = None
  BY Zenon DEF IInv, TypeOK, Published, StartCreate
<1>4. /\ pgid' = [pgid EXCEPT ![g] = p] /\ gsession' = [gsession EXCEPT ![g] = s]
      /\ sid' = [sid EXCEPT ![s] = IF new THEN p ELSE @]
      /\ UNCHANGED <<pstate, group, memberships, linkVars>>
  BY Zenon DEF StartCreate
<1>11. sid'[s] # None /\ \A t \in Sessions : sid[t] # None => sid'[t] = sid[t]
  <2>1. CASE new
    BY <2>1, <1>4 DEF StartCreate, IInv, TypeOK
  <2>2. CASE ~new
    BY <2>2, <1>4 DEF StartCreate, IInv, TypeOK, Published, Registered
  <2> QED BY <2>1, <2>2, Zenon
<1>5. MembershipsOwned'
  <2>1. \A h \in Groups : Members(h)' = Members(h)
    BY <1>4, Zenon DEF Members, Registered
  <2> QED BY <1>2, <1>4, <2>1, QuietCall, OwnedSame, Zenon DEF IInv
<1>6. RegistryCoherent'
  <2>1. \A t \in Sessions : GroupsOf(t)' = GroupsOf(t)
    BY <1>3, <1>4 DEF GroupsOf, linkVars, IInv, TypeOK
  <2> QED BY <1>3, <1>4, <1>11, <2>1 DEF IInv, RegistryCoherent, Published, linkVars, TypeOK
<1>7. EmptyGroupIsClaimed'
  BY <1>2, <1>4 DEF IInv, EmptyGroupIsClaimed, CallsOK, CallOK, linkVars
<1>8. Published'
  BY <1>3, <1>4, <1>11, SMTT(30) DEF IInv, Published, Registered, linkVars, TypeOK
<1>9. CallsOK'
  BY <1>2, <1>4 DEF IInv, CallsOK, CallOK, TypeOK, linkVars
<1>10. SnapshotsOK'
  BY <1>2, <1>3, <1>4 DEF IInv, SnapshotsOK, CallsOK, CallOK, TypeOK, linkVars
<1> QED BY <1>1, <1>5, <1>6, <1>7, <1>8, <1>9, <1>10, Zenon DEF IInv

(* A call that starts without touching an object: move_to_group names a
   published group, prepare_fork the group of a registered process. *)
LEMMA StartInv ==
  ASSUME IInv, NEW c \in Cpus, NEW p \in Procs, NEW g \in Groups, gpublished[g],
         cpu[c].pc = "idle", NEW pc \in {"reserve", "fork"},
         cpu' = [cpu EXCEPT ![c] = [IdleCpu EXCEPT !.pc = pc, !.p = p, !.g = g]],
         UNCHANGED <<pstate, group, objVars, linkVars, memberships>>
  PROVE  IInv'
<1>1. TypeOK'
  BY ZenonT(30) DEF IInv, TypeOK, Calls, IdleCpu, linkVars, objVars
<1>2. /\ cpu'[c].pc = pc /\ cpu'[c].p = p /\ cpu'[c].g = g
      /\ ~cpu'[c].admission /\ \A d \in Cpus : d # c => cpu'[d] = cpu[d]
  BY Zenon DEF IInv, TypeOK, IdleCpu
<1>3. MembershipsOwned'
  <2>1. \A h \in Groups : Members(h)' = Members(h)
    BY Zenon DEF Members, Registered
  <2> QED BY <1>2, <2>1, QuietCall, OwnedSame, Zenon DEF IInv
<1>4. RegistryCoherent'
  BY CoherentSame, Zenon DEF IInv
<1>5. EmptyGroupIsClaimed'
  BY <1>2 DEF IInv, EmptyGroupIsClaimed, CallsOK, CallOK, linkVars
<1>6. Published'
  BY Zenon DEF IInv, Published, Registered, linkVars, objVars
<1>7. CallsOK'
  BY <1>2 DEF IInv, CallsOK, CallOK, Published, linkVars, objVars
<1>8. SnapshotsOK'
  BY <1>2 DEF IInv, SnapshotsOK, Published, linkVars, objVars
<1> QED BY <1>1, <1>3, <1>4, <1>5, <1>6, <1>7, <1>8, Zenon DEF IInv

(* A call that gives up before it holds anything. *)
LEMMA GiveUpInv ==
  ASSUME IInv, NEW c \in Cpus, cpu[c].pc \in {"admit", "reserve", "fork"}, ~cpu[c].admission,
         cpu' = [cpu EXCEPT ![c] = IdleCpu],
         UNCHANGED <<pstate, group, objVars, linkVars, memberships>>
  PROVE  IInv'
<1>1. TypeOK'
  BY Zenon DEF IInv, TypeOK, Calls, IdleCpu, linkVars, objVars
<1>2. /\ cpu'[c].pc = "idle" /\ ~cpu'[c].admission /\ \A d \in Cpus : d # c => cpu'[d] = cpu[d]
  BY Zenon DEF IInv, TypeOK, IdleCpu
<1>3. MembershipsOwned'
  <2>1. \A h \in Groups : Members(h)' = Members(h)
    BY Zenon DEF Members, Registered
  <2> QED BY <1>2, <2>1, QuietCall, OwnedSame, Zenon DEF IInv
<1>4. RegistryCoherent'
  BY CoherentSame, Zenon DEF IInv
<1>5. EmptyGroupIsClaimed'
  BY <1>2 DEF IInv, EmptyGroupIsClaimed, linkVars
<1>6. Published'
  BY Zenon DEF IInv, Published, Registered, linkVars, objVars
<1>7. CallsOK'
  BY <1>2, ZenonT(30) DEF IInv, CallsOK, CallOK, linkVars, objVars
<1>8. SnapshotsOK'
  BY <1>2 DEF IInv, SnapshotsOK, linkVars, objVars
<1> QED BY <1>1, <1>3, <1>4, <1>5, <1>6, <1>7, <1>8, Zenon DEF IInv

(* Linking a group, and its session if that is new, keeps the registry books. *)
LEMMA LinkGroup ==
  ASSUME IInv, NEW g \in Groups, NEW s \in Sessions, gsession[g] = s, NEW new \in BOOLEAN,
         \A h \in Groups : glinked[h] => pgid[h] # pgid[g],
         IF new THEN \A t \in Sessions : slinked[t] => sid[t] # sid[s] ELSE slinked[s],
         glinked' = [glinked EXCEPT ![g] = TRUE],
         groups' = [groups EXCEPT ![s] = @ + 1],
         group_count' = group_count + 1,
         slinked' = [slinked EXCEPT ![s] = TRUE],
         session_count' = (IF new THEN session_count + 1 ELSE session_count),
         UNCHANGED <<pgid, gsession, sid>>
  PROVE  RegistryCoherent'
<1>1. ~glinked[g] /\ (new => ~slinked[s])
  BY Zenon
<1>2. /\ \A t \in Sessions : groups'[t] = IF t = s THEN groups[s] + 1 ELSE groups[t]
      /\ \A t \in Sessions : slinked'[t] <=> t = s \/ slinked[t]
      /\ \A h \in Groups : glinked'[h] <=> h = g \/ glinked[h]
  BY Zenon DEF IInv, TypeOK
<1>3. /\ {h \in Groups : glinked'[h]} = {h \in Groups : glinked[h]} \union {g}
      /\ {t \in Sessions : slinked'[t]} = {t \in Sessions : slinked[t]} \union {s}
      /\ GroupsOf(s)' = GroupsOf(s) \union {g} /\ g \notin GroupsOf(s)
      /\ \A t \in Sessions : t # s => GroupsOf(t)' = GroupsOf(t)
  BY <1>1, <1>2 DEF GroupsOf
<1>4. Cardinality({h \in Groups : glinked'[h]}) = Cardinality({h \in Groups : glinked[h]}) + 1
  BY <1>1, <1>3, Sizes, FS_AddElement, ZenonT(30)
<1>5. Cardinality(GroupsOf(s)') = Cardinality(GroupsOf(s)) + 1
  BY <1>3, Sizes, FS_AddElement, ZenonT(40)
<1>6. Cardinality({t \in Sessions : slinked'[t]}) =
        IF new THEN Cardinality({t \in Sessions : slinked[t]}) + 1
               ELSE Cardinality({t \in Sessions : slinked[t]})
  <2>1. CASE new
    BY <2>1, <1>1, <1>3, Sizes, FS_AddElement, ZenonT(30)
  <2>2. CASE ~new
    <3>1. {t \in Sessions : slinked'[t]} = {t \in Sessions : slinked[t]}
      BY <2>2, <1>2, Zenon
    <3> QED BY <2>2, <3>1, ZenonT(30)
  <2> QED BY <2>1, <2>2, Zenon
<1>7. /\ group_count = Cardinality({h \in Groups : glinked[h]})
      /\ session_count = Cardinality({t \in Sessions : slinked[t]})
      /\ \A t \in Sessions : groups[t] = Cardinality(GroupsOf(t)) /\ groups[t] \in Nat
      /\ \A t \in Sessions : slinked[t] <=> groups[t] > 0
      /\ \A i, j \in Groups : glinked[i] /\ glinked[j] /\ i # j => pgid[i] # pgid[j]
      /\ \A t, u \in Sessions : slinked[t] /\ slinked[u] /\ t # u => sid[t] # sid[u]
  BY DEF IInv, RegistryCoherent, TypeOK
<1>8. /\ group_count' = Cardinality({h \in Groups : glinked'[h]})
      /\ session_count' = Cardinality({t \in Sessions : slinked'[t]})
  BY <1>4, <1>6, <1>7, Zenon
<1>9. \A t \in Sessions : groups'[t] = Cardinality(GroupsOf(t)')
  <2> TAKE t \in Sessions
  <2>1. CASE t = s
    BY <2>1, <1>2, <1>5, <1>7
  <2>2. CASE t # s
    BY <2>2, <1>2, <1>3, <1>7
  <2> QED BY <2>1, <2>2, Zenon
<1>10. \A t \in Sessions : slinked'[t] <=> groups'[t] > 0
  BY <1>2, <1>7
<1>11. \A i, j \in Groups : glinked'[i] /\ glinked'[j] /\ i # j => pgid'[i] # pgid'[j]
  BY <1>2, <1>7
<1>12. \A t, u \in Sessions : slinked'[t] /\ slinked'[u] /\ t # u => sid'[t] # sid'[u]
  BY <1>2, <1>7
<1> QED BY <1>8, <1>9, <1>10, <1>11, <1>12, Zenon DEF RegistryCoherent

(* Unlinking a group, and its session with the last one, does so too. *)
LEMMA UnlinkGroup ==
  ASSUME IInv, NEW g \in Groups, NEW s \in Sessions, gsession[g] = s, glinked[g],
         glinked' = [glinked EXCEPT ![g] = FALSE],
         groups' = [groups EXCEPT ![s] = Dec(@)],
         group_count' = Dec(group_count),
         slinked' = [slinked EXCEPT ![s] = @ /\ ~LastGroup(s)],
         session_count' = (IF LastGroup(s) THEN Dec(session_count) ELSE session_count),
         UNCHANGED <<pgid, gsession, sid>>
  PROVE  /\ RegistryCoherent' /\ group_count' \in Nat /\ session_count' \in Nat
         /\ slinked[s] /\ (LastGroup(s) => \A h \in Groups : gsession[h] = s /\ glinked[h] => h = g)
<1>1. /\ group_count = Cardinality({h \in Groups : glinked[h]})
      /\ session_count = Cardinality({t \in Sessions : slinked[t]})
      /\ \A t \in Sessions : groups[t] = Cardinality(GroupsOf(t)) /\ groups[t] \in Nat
      /\ \A t \in Sessions : slinked[t] <=> groups[t] > 0
      /\ \A i, j \in Groups : glinked[i] /\ glinked[j] /\ i # j => pgid[i] # pgid[j]
      /\ \A t, u \in Sessions : slinked[t] /\ slinked[u] /\ t # u => sid[t] # sid[u]
      /\ group_count \in Nat /\ session_count \in Nat
  BY DEF IInv, RegistryCoherent, TypeOK
<1>2. g \in GroupsOf(s) /\ g \in {h \in Groups : glinked[h]}
  BY Zenon DEF GroupsOf
<1>3. groups[s] > 0 /\ group_count > 0 /\ slinked[s]
  <2>1. GroupsOf(s) # {} /\ {h \in Groups : glinked[h]} # {}
    BY <1>2, Zenon
  <2>2. Cardinality(GroupsOf(s)) # 0 /\ Cardinality({h \in Groups : glinked[h]}) # 0
    BY <2>1, Sizes, FS_EmptySet, Zenon
  <2> QED BY <2>2, <1>1
<1>4. session_count > 0
  <2>1. s \in {t \in Sessions : slinked[t]}
    BY <1>3, Zenon
  <2>2. Cardinality({t \in Sessions : slinked[t]}) # 0
    BY <2>1, Sizes, FS_EmptySet, Zenon
  <2> QED BY <2>2, <1>1
<1>5. LastGroup(s) <=> groups[s] = 1
  BY <1>3, Zenon DEF LastGroup
<1>6. /\ groups' = [groups EXCEPT ![s] = @ - 1] /\ group_count' = group_count - 1
      /\ session_count' = (IF groups[s] = 1 THEN session_count - 1 ELSE session_count)
  BY <1>1, <1>3, <1>4, <1>5, ZenonT(30) DEF Dec
<1>7. /\ \A t \in Sessions : groups'[t] = IF t = s THEN groups[s] - 1 ELSE groups[t]
      /\ \A t \in Sessions : slinked'[t] <=> slinked[t] /\ ~(t = s /\ groups[s] = 1)
      /\ \A h \in Groups : glinked'[h] <=> h # g /\ glinked[h]
  BY <1>5, <1>6, ZenonT(40) DEF IInv, TypeOK
<1>8. /\ {h \in Groups : glinked'[h]} = {h \in Groups : glinked[h]} \ {g}
      /\ GroupsOf(s)' = GroupsOf(s) \ {g}
      /\ \A t \in Sessions : t # s => GroupsOf(t)' = GroupsOf(t)
  BY <1>7, Zenon DEF GroupsOf
<1>9. Cardinality({h \in Groups : glinked'[h]}) = Cardinality({h \in Groups : glinked[h]}) - 1
  BY <1>2, <1>8, Sizes, FS_RemoveElement, ZenonT(30)
<1>10. Cardinality(GroupsOf(s)') = Cardinality(GroupsOf(s)) - 1
  BY <1>2, <1>8, Sizes, FS_RemoveElement, ZenonT(30)
<1>11. Cardinality({t \in Sessions : slinked'[t]}) =
         IF groups[s] = 1 THEN Cardinality({t \in Sessions : slinked[t]}) - 1
                          ELSE Cardinality({t \in Sessions : slinked[t]})
  <2>1. CASE groups[s] = 1
    <3>1. /\ {t \in Sessions : slinked'[t]} = {t \in Sessions : slinked[t]} \ {s}
          /\ s \in {t \in Sessions : slinked[t]}
      BY <2>1, <1>3, <1>7, Zenon
    <3>2. Cardinality({t \in Sessions : slinked'[t]}) = Cardinality({t \in Sessions : slinked[t]}) - 1
      BY <3>1, Sizes, Loss, Zenon
    <3> QED BY <2>1, <3>2, Zenon
  <2>2. CASE groups[s] # 1
    <3>1. {t \in Sessions : slinked'[t]} = {t \in Sessions : slinked[t]}
      BY <2>2, <1>7, Zenon
    <3> QED BY <2>2, <3>1, Zenon
  <2> QED BY <2>1, <2>2, Zenon
<1>12. /\ group_count' = Cardinality({h \in Groups : glinked'[h]})
       /\ session_count' = Cardinality({t \in Sessions : slinked'[t]})
       /\ group_count' \in Nat /\ session_count' \in Nat
  BY <1>1, <1>3, <1>4, <1>6, <1>9, <1>11
<1>13. \A t \in Sessions : groups'[t] = Cardinality(GroupsOf(t)')
  <2> TAKE t \in Sessions
  <2>1. CASE t = s
    BY <2>1, <1>1, <1>7, <1>10, SMTT(30)
  <2>2. CASE t # s
    BY <2>2, <1>1, <1>7, <1>8, SMTT(30)
  <2> QED BY <2>1, <2>2, Zenon
<1>14. \A t \in Sessions : slinked'[t] <=> groups'[t] > 0
  BY <1>1, <1>3, <1>7
<1>15. /\ \A i, j \in Groups : glinked'[i] /\ glinked'[j] /\ i # j => pgid'[i] # pgid'[j]
       /\ \A t, u \in Sessions : slinked'[t] /\ slinked'[u] /\ t # u => sid'[t] # sid'[u]
  BY <1>1, <1>7, Zenon
<1>16. LastGroup(s) => \A h \in Groups : gsession[h] = s /\ glinked[h] => h = g
  <2> SUFFICES ASSUME LastGroup(s) PROVE GroupsOf(s)' = {}
    BY <1>8, Zenon DEF GroupsOf
  <2>1. Cardinality(GroupsOf(s)') = 0
    BY <1>1, <1>5, <1>10
  <2>2. IsFiniteSet(GroupsOf(s)')
    BY <1>2, <1>8, Sizes, FS_RemoveElement
  <2> QED BY <2>1, <2>2, FS_EmptySet, Zenon
<1> QED BY <1>3, <1>12, <1>13, <1>14, <1>15, <1>16, Zenon DEF RegistryCoherent

(* admit_session_group links the group and, for a new session, the session. *)
LEMMA AdmitSessionGroupInv ==
  ASSUME IInv, NEW c \in Cpus, AdmitSessionGroup(c)
  PROVE  IInv'
<1> USE JobControlAssumption
<1> DEFINE g == cpu[c].g
           s == gsession[g]
           new == cpu[c].newSession
<1>1. /\ cpu[c].pc = "admit" /\ g \in Groups /\ pgid[g] # None /\ s \in Sessions
      /\ ~cpu[c].admission /\ new \in BOOLEAN
  BY Zenon DEF IInv, AdmitSessionGroup, CallsOK, CallOK, Published, TypeOK, Calls
<1>2. CASE ~Admissible(g, new)
  BY <1>1, <1>2, GiveUpInv, Zenon DEF AdmitSessionGroup, linkVars, objVars
<1>3. CASE Admissible(g, new)
  <2>1. /\ glinked' = [glinked EXCEPT ![g] = TRUE]
        /\ groups' = [groups EXCEPT ![s] = @ + 1]
        /\ group_count' = group_count + 1
        /\ slinked' = [slinked EXCEPT ![s] = TRUE]
        /\ session_count' = IF new THEN session_count + 1 ELSE session_count
        /\ cpu' = [cpu EXCEPT ![c] = [@ EXCEPT !.pc = "reserve", !.admission = TRUE]]
        /\ UNCHANGED <<pstate, group, objVars, gpublished, memberships, spublished>>
    BY <1>3, Zenon DEF AdmitSessionGroup
  <2>2. /\ group_count < Limit /\ (new => session_count < Limit) /\ groups[s] < Limit
        /\ \A h \in Groups : glinked[h] => pgid[h] # pgid[g]
        /\ IF new THEN \A t \in Sessions : slinked[t] => sid[t] # sid[s] ELSE slinked[s]
    BY <1>1, <1>3, SMTT(30) DEF Admissible
  <2>3. TypeOK'
    <3>1. cpu' \in [Cpus -> Calls]
      <4>1. cpu \in [Cpus -> Calls] /\ cpu[c] \in Calls
        BY Zenon DEF IInv, TypeOK
      <4>2. [cpu[c] EXCEPT !.pc = "reserve", !.admission = TRUE] \in Calls
        BY ONLY <4>1, ZenonT(30) DEF Calls
      <4> QED BY <2>1, <4>1, <4>2, ZenonT(30)
    <3>2. groups' \in [Sessions -> 0..Limit] /\ group_count' \in 0..Limit /\ session_count' \in 0..Limit
      BY <1>1, <2>1, <2>2 DEF IInv, TypeOK
    <3>3. glinked' \in [Groups -> BOOLEAN] /\ slinked' \in [Sessions -> BOOLEAN]
      BY <2>1, Zenon DEF IInv, TypeOK
    <3> QED BY <2>1, <3>1, <3>2, <3>3, Zenon DEF IInv, TypeOK, objVars
  <2>4. /\ cpu'[c].pc = "reserve" /\ cpu'[c].admission /\ cpu'[c].g = g /\ cpu'[c].p = cpu[c].p
        /\ \A d \in Cpus : d # c => cpu'[d] = cpu[d]
    BY <2>1 DEF IInv, TypeOK, Calls
  <2>5. MembershipsOwned'
    <3>1. \A h \in Groups : Members(h)' = Members(h)
      BY <2>1, Zenon DEF Members, Registered
    <3> QED BY <1>1, <2>1, <2>4, <3>1, QuietCall, OwnedSame, ZenonT(30) DEF IInv
  <2>6. RegistryCoherent'
    BY <1>1, <2>1, <2>2, LinkGroup, ZenonT(30) DEF objVars
  <2>7. EmptyGroupIsClaimed'
    BY <1>1, <2>1, <2>4 DEF IInv, EmptyGroupIsClaimed, TypeOK
  <2>8. Published'
    BY <1>1, <2>1, SMTT(30) DEF IInv, Published, Registered, TypeOK, objVars
  <2>9. CallsOK'
    BY <1>1, <2>1, <2>4, SMTT(30) DEF IInv, CallsOK, CallOK, TypeOK, objVars
  <2>10. SnapshotsOK'
    BY <1>1, <2>1, <2>4 DEF IInv, SnapshotsOK, TypeOK, CallsOK, CallOK
  <2> QED BY <2>3, <2>5, <2>6, <2>7, <2>8, <2>9, <2>10, SMTT(30) DEF IInv
<1> QED BY <1>2, <1>3, Zenon

(* reserve_group_member: the counter and the call's reservation grow together;
   a refused admission is dropped. *)
LEMMA ReserveGroupMemberInv ==
  ASSUME IInv, NEW c \in Cpus, ReserveGroupMember(c)
  PROVE  IInv'
<1> USE JobControlAssumption
<1>1. cpu[c].pc = "reserve" /\ cpu[c].g \in Groups /\ cpu[c] \in Calls
  BY Zenon DEF IInv, ReserveGroupMember, CallsOK, CallOK, TypeOK
<1>2. PICK g \in Groups : g = cpu[c].g
  BY <1>1, Zenon
<1>3. UNCHANGED <<pstate, group, objVars, linkVars>>
  BY Zenon DEF ReserveGroupMember
<1>4. RegistryCoherent'
  BY <1>3, CoherentSame, Zenon DEF IInv
<1>5. Published'
  BY <1>3, Zenon DEF IInv, Published, Registered, linkVars, objVars
<1>6. \A h \in Groups : Members(h)' = Members(h)
  BY <1>3, Zenon DEF Members, Registered
<1>7. CASE Reservable(g, cpu[c].admission)
  <2>1. /\ memberships' = [memberships EXCEPT ![g] = @ + 1]
        /\ cpu' = [cpu EXCEPT ![c].pc = "topology"]
    BY <1>2, <1>7, Zenon DEF ReserveGroupMember
  <2>2. glinked[g] /\ memberships[g] < Limit
    BY <1>7, Zenon DEF Reservable
  <2>3. TypeOK'
    <3>1. memberships' \in [Groups -> 0..Limit]
      <4>1. memberships \in [Groups -> 0..Limit]
        BY Zenon DEF IInv, TypeOK
      <4>2. memberships[g] + 1 \in 0..Limit
        BY ONLY <4>1, <1>2, <2>2, JobControlAssumption
      <4> QED BY ONLY <4>1, <4>2, <2>1, Zenon
    <3>2. cpu' \in [Cpus -> Calls]
      <4>1. [cpu[c] EXCEPT !.pc = "topology"] \in Calls
        BY <1>1, Zenon DEF Calls
      <4>2. cpu' = [cpu EXCEPT ![c] = [cpu[c] EXCEPT !.pc = "topology"]]
        BY ONLY <2>1, Zenon
      <4> QED BY <4>1, <4>2, Zenon DEF IInv, TypeOK
    <3> QED BY <1>3, <3>1, <3>2, Zenon DEF IInv, TypeOK, linkVars, objVars
  <2>4. /\ cpu'[c].pc = "topology" /\ cpu'[c].g = g /\ cpu'[c].p = cpu[c].p
        /\ cpu'[c].admission = cpu[c].admission
        /\ \A d \in Cpus : d # c => cpu'[d] = cpu[d]
    BY <1>1, <1>2, <2>1 DEF IInv, TypeOK, Calls
  <2>5. MembershipsOwned'
    <3>1. /\ \A h \in Groups : Releasing(h)' = Releasing(h)
          /\ \A h \in Groups : h # g => Reserving(h)' = Reserving(h)
          /\ Reserving(g)' = Reserving(g) \union {c} /\ c \notin Reserving(g)
      BY <1>1, <1>2, <2>4, ZenonT(30) DEF Releasing, Reserving
    <3>2. Cardinality(Reserving(g)') = Cardinality(Reserving(g)) + 1
      BY <3>1, Sizes, FS_AddElement, ZenonT(30)
    <3>3. \A h \in Groups : memberships'[h] = IF h = g THEN memberships[g] + 1 ELSE memberships[h]
      BY <2>1, Zenon DEF IInv, TypeOK
    <3>4. ASSUME NEW h \in Groups
          PROVE  memberships'[h] = Cardinality(Members(h)') + Cardinality(Reserving(h)')
                                   + Cardinality(Releasing(h)')
      <4>1. memberships[h] = Cardinality(Members(h)) + Cardinality(Reserving(h))
                             + Cardinality(Releasing(h))
        BY Zenon DEF IInv, MembershipsOwned
      <4>2. CASE h = g
        BY <4>1, <4>2, <1>6, <3>1, <3>2, <3>3, Sizes
      <4>3. CASE h # g
        BY <4>1, <4>3, <1>6, <3>1, <3>3, Zenon
      <4> QED BY <4>2, <4>3, Zenon
    <3> QED BY <3>4, Zenon DEF MembershipsOwned
  <2>6. EmptyGroupIsClaimed'
    BY <1>1, <1>2, <1>3, <2>1, <2>4, SMTT(30) DEF IInv, EmptyGroupIsClaimed, linkVars, TypeOK
  <2>7. CallsOK'
    BY <1>1, <1>2, <1>3, <2>2, <2>4, SMTT(30) DEF IInv, CallsOK, CallOK, linkVars, objVars
  <2>8. SnapshotsOK'
    BY <1>1, <1>3, <2>4 DEF IInv, SnapshotsOK, linkVars, objVars
  <2> QED BY <1>4, <1>5, <2>3, <2>5, <2>6, <2>7, <2>8, Zenon DEF IInv
<1>8. CASE ~Reservable(g, cpu[c].admission) /\ ~cpu[c].admission
  BY <1>1, <1>2, <1>3, <1>8, GiveUpInv, Zenon DEF ReserveGroupMember
<1>9. CASE ~Reservable(g, cpu[c].admission) /\ cpu[c].admission
  <2>1. /\ cpu' = [cpu EXCEPT ![c] = [cpu[c] EXCEPT !.pc = "remove", !.prev = g, !.admission = FALSE]]
        /\ memberships' = memberships
    BY <1>2, <1>9, ZenonT(30) DEF ReserveGroupMember
  <2>2. TypeOK'
    BY <1>1, <1>3, <2>1, ZenonT(30) DEF IInv, TypeOK, Calls, linkVars, objVars
  <2>3. /\ cpu'[c].pc = "remove" /\ cpu'[c].prev = g /\ ~cpu'[c].admission
        /\ \A d \in Cpus : d # c => cpu'[d] = cpu[d]
    BY <1>1, <2>1 DEF IInv, TypeOK, Calls
  <2>4. MembershipsOwned'
    BY <1>1, <1>6, <2>1, <2>3, QuietCall, OwnedSame, Zenon DEF IInv
  <2>5. EmptyGroupIsClaimed'
    BY <1>1, <1>2, <1>3, <2>1, <2>3, SMTT(30) DEF IInv, EmptyGroupIsClaimed, linkVars
  <2>6. CallsOK'
    BY <1>3, <2>3, Zenon DEF IInv, CallsOK, CallOK, linkVars, objVars
  <2>7. SnapshotsOK'
    BY <1>1, <1>3, <2>3 DEF IInv, SnapshotsOK, linkVars, objVars
  <2> QED BY <1>4, <1>5, <2>2, <2>4, <2>5, <2>6, <2>7, Zenon DEF IInv
<1> QED BY <1>7, <1>8, <1>9, Zenon

(* The topology section: the process moves, and the membership that is left to
   release is the old one; or nothing moves and the reserved one is returned. *)
LEMMA ReplaceGroupInv ==
  ASSUME IInv, NEW c \in Cpus, ReplaceGroup(c)
  PROVE  IInv'
<1> USE JobControlAssumption
<1>1. /\ cpu[c].pc = "topology" /\ cpu[c].g \in Groups /\ cpu[c].p \in Procs /\ cpu[c] \in Calls
      /\ glinked[cpu[c].g] /\ pgid[cpu[c].g] # None
  BY Zenon DEF IInv, ReplaceGroup, CallsOK, CallOK, TypeOK
<1>2. PICK g \in Groups, p \in Procs : g = cpu[c].g /\ p = cpu[c].p
  BY <1>1, Zenon
<1>3. UNCHANGED <<pstate, objVars, glinked, slinked, groups, group_count, session_count, memberships>>
  BY Zenon DEF ReplaceGroup
<1>4. RegistryCoherent'
  BY <1>3, SMTT(30) DEF IInv, RegistryCoherent, GroupsOf, objVars
<1>5. c \in Reserving(g) /\ memberships[g] > 0
  BY <1>1, <1>2, OwnerCounts, Zenon DEF Reserving
<1>6. CASE Replaceable(c)
  <2>1. /\ group' = [group EXCEPT ![p] = g]
        /\ gpublished' = [gpublished EXCEPT ![g] = TRUE]
        /\ spublished' = [spublished EXCEPT ![gsession[g]] = @ \/ cpu[c].newSession]
        /\ cpu' = [cpu EXCEPT ![c] = [@ EXCEPT !.pc = "release", !.prev = group[p], !.admission = FALSE]]
    BY <1>2, <1>6, SMTT(30) DEF ReplaceGroup
  <2>2. /\ pstate[p] = "live" /\ group[p] # g
        /\ ~cpu[c].newSession => gsession[group[p]] = gsession[g]
    BY <1>2, <1>6, Zenon DEF Replaceable
  <2>3. Registered(p) /\ group[p] \in Groups /\ gpublished[group[p]]
    BY <2>2, Zenon DEF IInv, Published, Registered
  <2>4. PICK old \in Groups : old = group[p]
    BY <2>3, Zenon
  <2>5. gsession[g] \in Sessions
    BY <1>1, <1>2, Zenon DEF IInv, Published
  <2>6. TypeOK'
    BY <1>1, <1>3, <2>1, <2>3, <2>5, ZenonT(30) DEF IInv, TypeOK, Calls, objVars
  <2>7. /\ cpu'[c].pc = "release" /\ cpu'[c].prev = old /\ ~cpu'[c].admission
        /\ \A d \in Cpus : d # c => cpu'[d] = cpu[d]
    BY <1>1, <2>1, <2>4, ZenonT(30) DEF IInv, TypeOK, Calls
  <2>8. MembershipsOwned'
    <3>1. /\ \A h \in Groups : h # g => Reserving(h)' = Reserving(h)
          /\ \A h \in Groups : h # old => Releasing(h)' = Releasing(h)
          /\ Reserving(g)' = Reserving(g) \ {c}
          /\ Releasing(old)' = Releasing(old) \union {c} /\ c \notin Releasing(old)
      BY <1>1, <1>2, <2>7 DEF Reserving, Releasing
    <3>2. /\ \A h \in Groups : h # g /\ h # old => Members(h)' = Members(h)
          /\ Members(g)' = Members(g) \union {p} /\ p \notin Members(g)
          /\ Members(old)' = Members(old) \ {p} /\ p \in Members(old)
      BY <1>3, <2>1, <2>2, <2>3, <2>4 DEF Members, Registered, IInv, TypeOK
    <3>3. /\ Cardinality(Reserving(g)') = Cardinality(Reserving(g)) - 1
          /\ Cardinality(Releasing(old)') = Cardinality(Releasing(old)) + 1
      BY <1>5, <3>1, Sizes, Gain, Loss, Zenon
    <3>4. /\ Cardinality(Members(g)') = Cardinality(Members(g)) + 1
          /\ Cardinality(Members(old)') = Cardinality(Members(old)) - 1
      BY <3>2, Sizes, Gain, Loss, Zenon
    <3>5. ASSUME NEW h \in Groups
          PROVE  memberships[h] = Cardinality(Members(h)') + Cardinality(Reserving(h)')
                                  + Cardinality(Releasing(h)')
      <4>1. memberships[h] = Cardinality(Members(h)) + Cardinality(Reserving(h))
                             + Cardinality(Releasing(h))
        BY SMTT(30) DEF IInv, MembershipsOwned
      <4>2. CASE h = g
        BY <4>1, <4>2, <2>2, <2>4, <3>1, <3>3, <3>4, Sizes, SMTT(30)
      <4>3. CASE h = old
        BY <4>1, <4>3, <2>2, <2>4, <3>1, <3>3, <3>4, Sizes, SMTT(30)
      <4>4. CASE h # g /\ h # old
        BY <4>1, <4>4, <3>1, <3>2, SMTT(30)
      <4> QED BY <4>2, <4>3, <4>4, Zenon
    <3> QED BY <1>3, <3>5, SMTT(30) DEF MembershipsOwned
  <2>9. EmptyGroupIsClaimed'
    BY <1>1, <1>2, <1>3, <1>5, <2>7, SMTT(30) DEF IInv, EmptyGroupIsClaimed
  <2>10. Published'
    <3>1. spublished[gsession[g]]'
      BY <1>1, <1>3, <2>1, <2>2, <2>3, <2>5, ZenonT(30) DEF IInv, Published, TypeOK, Calls, objVars
    <3>2. \A h \in Groups : gpublished[h] => spublished'[gsession[h]]
      BY <1>1, <2>1, <2>5, SMTT(30) DEF IInv, Published, TypeOK, Calls
    <3> QED BY <1>1, <1>2, <1>3, <2>1, <2>3, <3>1, <3>2, SMTT(30) DEF IInv, Published, Registered, TypeOK, objVars
  <2>11. CallsOK'
    BY <1>3, <2>7, SMTT(30) DEF IInv, CallsOK, CallOK, objVars
  <2>12. SnapshotsOK'
    BY <1>1, <1>3, <2>1, <2>7 DEF IInv, SnapshotsOK, CallsOK, CallOK, TypeOK
  <2> QED BY <1>4, <2>6, <2>8, <2>9, <2>10, <2>11, <2>12, SMTT(30) DEF IInv
<1>7. CASE ~Replaceable(c)
  <2>1. cpu' = [cpu EXCEPT ![c] = [cpu[c] EXCEPT !.pc = "release", !.prev = g]]
        /\ UNCHANGED <<group, gpublished, spublished>>
    BY <1>2, <1>7, Zenon DEF ReplaceGroup, ReturnReservation
  <2>2. TypeOK'
    BY <1>1, <1>3, <2>1, ZenonT(30) DEF IInv, TypeOK, Calls, objVars
  <2>3. /\ cpu'[c].pc = "release" /\ cpu'[c].prev = g /\ cpu'[c].g = g
        /\ cpu'[c].admission = cpu[c].admission
        /\ \A d \in Cpus : d # c => cpu'[d] = cpu[d]
    BY <1>1, <1>2, <2>1, Zenon DEF IInv, TypeOK, Calls
  <2>4. MembershipsOwned'
    <3>1. /\ \A h \in Groups : h # g => Reserving(h)' = Reserving(h) /\ Releasing(h)' = Releasing(h)
          /\ Reserving(g)' = Reserving(g) \ {c}
          /\ Releasing(g)' = Releasing(g) \union {c} /\ c \notin Releasing(g)
      BY <1>1, <1>2, <2>3 DEF Reserving, Releasing
    <3>2. /\ Cardinality(Reserving(g)') = Cardinality(Reserving(g)) - 1
          /\ Cardinality(Releasing(g)') = Cardinality(Releasing(g)) + 1
      BY <1>5, <3>1, Sizes, Gain, Loss, Zenon
    <3>3. \A h \in Groups : Members(h)' = Members(h)
      BY <1>3, <2>1, Zenon DEF Members, Registered
    <3>4. ASSUME NEW h \in Groups
          PROVE  memberships[h] = Cardinality(Members(h)') + Cardinality(Reserving(h)')
                                  + Cardinality(Releasing(h)')
      <4>1. memberships[h] = Cardinality(Members(h)) + Cardinality(Reserving(h))
                             + Cardinality(Releasing(h))
        BY Zenon DEF IInv, MembershipsOwned
      <4>2. CASE h = g
        BY <4>1, <4>2, <3>2, <3>3, Sizes
      <4>3. CASE h # g
        BY <4>1, <4>3, <3>1, <3>3, Zenon
      <4> QED BY <4>2, <4>3, Zenon
    <3> QED BY <1>3, <3>4, Zenon DEF MembershipsOwned
  <2>5. EmptyGroupIsClaimed'
    BY <1>1, <1>2, <1>3, <2>3 DEF IInv, EmptyGroupIsClaimed
  <2>6. Published'
    BY <1>3, <2>1, SMTT(30) DEF IInv, Published, Registered, objVars
  <2>7. CallsOK'
    BY <1>1, <1>2, <1>3, <2>3 DEF IInv, CallsOK, CallOK, objVars
  <2>8. SnapshotsOK'
    BY <1>1, <1>3, <2>1, <2>3 DEF IInv, SnapshotsOK
  <2> QED BY <1>4, <2>2, <2>4, <2>5, <2>6, <2>7, <2>8, SMTT(30) DEF IInv
<1> QED BY <1>6, <1>7, SMTT(30)

(* release_group_member: the atomic decrement; whoever takes the counter to
   zero goes on to remove the group. *)
LEMMA ReleaseGroupMemberInv ==
  ASSUME IInv, NEW c \in Cpus, ReleaseGroupMember(c)
  PROVE  IInv'
<1> USE JobControlAssumption
<1>1. cpu[c].pc = "release" /\ cpu[c].prev \in Groups /\ cpu[c] \in Calls
  BY Zenon DEF IInv, ReleaseGroupMember, CallsOK, CallOK, TypeOK
<1>2. PICK g \in Groups : g = cpu[c].prev
  BY <1>1, Zenon
<1>3. UNCHANGED <<pstate, group, objVars, linkVars>>
  BY Zenon DEF ReleaseGroupMember
<1>4. RegistryCoherent'
  BY <1>3, CoherentSame, Zenon DEF IInv
<1>5. Published'
  BY <1>3, Zenon DEF IInv, Published, Registered, linkVars, objVars
<1>6. \A h \in Groups : Members(h)' = Members(h)
  BY <1>3, Zenon DEF Members, Registered
<1>7. c \in Releasing(g) /\ memberships[g] \in Nat /\ memberships[g] > 0
  BY <1>1, <1>2, OwnerCounts, Zenon DEF Releasing
<1>8. memberships' = [memberships EXCEPT ![g] = @ - 1]
  BY <1>2, <1>7, ZenonT(30) DEF ReleaseGroupMember, Dec
<1>9. memberships' \in [Groups -> 0..Limit]
  <2>1. memberships \in [Groups -> 0..Limit]
    BY Zenon DEF IInv, TypeOK
  <2> QED BY ONLY <2>1, <1>2, <1>7, <1>8, JobControlAssumption
<1>10. PICK call \in Calls : cpu' = [cpu EXCEPT ![c] = call]
                             /\ call = IF WasLast(g) THEN [cpu[c] EXCEPT !.pc = "remove"]
                                                     ELSE AfterRelease(c)
  BY <1>1, <1>2, ZenonT(30) DEF ReleaseGroupMember, AfterRelease, Calls, IdleCpu
<1>11. TypeOK'
  <2>1. cpu' \in [Cpus -> Calls]
    BY <1>10, Zenon DEF IInv, TypeOK
  <2> QED BY <1>3, <1>9, <2>1, Zenon DEF IInv, TypeOK, linkVars, objVars
<1>12. cpu'[c] = call /\ \A d \in Cpus : d # c => cpu'[d] = cpu[d]
  BY <1>10, Zenon DEF IInv, TypeOK
<1>13. /\ call.pc \in {"remove", "idle"} /\ (call.pc = "remove" => call.prev = g)
       /\ (memberships[g] = 1 \/ cpu[c].admission => call.pc = "remove")
       /\ (call.admission => cpu[c].admission /\ call.g = cpu[c].g)
  BY <1>1, <1>2, <1>10, Zenon DEF WasLast, AfterRelease, Calls, IdleCpu
<1>14. cpu[c].admission => cpu[c].g = g
  BY <1>1, <1>2, Zenon DEF IInv, CallsOK, CallOK
<1>15. MembershipsOwned'
  <2>1. /\ \A h \in Groups : Reserving(h)' = Reserving(h)
        /\ \A h \in Groups : h # g => Releasing(h)' = Releasing(h)
        /\ Releasing(g)' = Releasing(g) \ {c}
    BY <1>1, <1>2, <1>12, <1>13, ZenonT(30) DEF Reserving, Releasing
  <2>2. Cardinality(Releasing(g)') = Cardinality(Releasing(g)) - 1
    BY <1>7, <2>1, Sizes, Loss, Zenon
  <2>3. \A h \in Groups : memberships'[h] = IF h = g THEN memberships[g] - 1 ELSE memberships[h]
    BY <1>8, Zenon DEF IInv, TypeOK
  <2>4. ASSUME NEW h \in Groups
        PROVE  memberships'[h] = Cardinality(Members(h)') + Cardinality(Reserving(h)')
                                 + Cardinality(Releasing(h)')
    <3>1. memberships[h] = Cardinality(Members(h)) + Cardinality(Reserving(h))
                           + Cardinality(Releasing(h))
      BY Zenon DEF IInv, MembershipsOwned
    <3>2. CASE h = g
      BY <3>1, <3>2, <1>6, <2>1, <2>2, <2>3, Sizes
    <3>3. CASE h # g
      BY <3>1, <3>3, <1>6, <2>1, <2>3, Zenon
    <3> QED BY <3>2, <3>3, Zenon
  <2> QED BY <2>4, Zenon DEF MembershipsOwned
<1>16. EmptyGroupIsClaimed'
  <2>1. \A h \in Groups : memberships'[h] = IF h = g THEN memberships[g] - 1 ELSE memberships[h]
    BY <1>8, Zenon DEF IInv, TypeOK
  <2> SUFFICES ASSUME NEW h \in Groups, glinked[h], memberships'[h] = 0
               PROVE  \E d \in Cpus : \/ cpu'[d].admission /\ cpu'[d].g = h
                                      \/ cpu'[d].pc = "remove" /\ cpu'[d].prev = h
    BY <1>3, Zenon DEF EmptyGroupIsClaimed, linkVars
  <2>2. CASE h = g
    <3>1. memberships[g] = 1
      BY <2>1, <2>2, <1>7
    <3> QED BY <2>2, <3>1, <1>12, <1>13, Zenon
  <2>3. CASE h # g
    <3>1. PICK d \in Cpus : \/ cpu[d].admission /\ cpu[d].g = h
                            \/ cpu[d].pc = "remove" /\ cpu[d].prev = h
      BY <2>1, <2>3, Zenon DEF IInv, EmptyGroupIsClaimed
    <3>2. d # c
      BY <2>3, <3>1, <1>1, <1>14, SMTT(30)
    <3> QED BY <3>1, <3>2, <1>12, Zenon
  <2> QED BY <2>2, <2>3, Zenon
<1>17. CallsOK'
  BY <1>1, <1>3, <1>12, <1>13, <1>14, SMTT(30) DEF IInv, CallsOK, CallOK, linkVars, objVars
<1>18. SnapshotsOK'
  BY <1>3, <1>12, <1>13 DEF IInv, SnapshotsOK, linkVars, objVars
<1> QED BY <1>4, <1>5, <1>11, <1>15, <1>16, <1>17, <1>18, Zenon DEF IInv

(* remove_empty_group: the counter is looked at again under the lock, so a
   group that somebody joined or reserved meanwhile stays. *)
LEMMA RemoveEmptyGroupInv ==
  ASSUME IInv, NEW c \in Cpus, RemoveEmptyGroup(c)
  PROVE  IInv'
<1> USE JobControlAssumption
<1>1. cpu[c].pc = "remove" /\ cpu[c].prev \in Groups /\ cpu[c] \in Calls
  BY ZenonT(30) DEF IInv, RemoveEmptyGroup, CallsOK, CallOK, TypeOK
<1>2. PICK g \in Groups : g = cpu[c].prev
  BY <1>1, SMTT(30)
<1>3. UNCHANGED <<pstate, group, objVars, memberships>>
  BY Zenon DEF RemoveEmptyGroup
<1>4. PICK call \in Calls : cpu' = [cpu EXCEPT ![c] = call] /\ call = AfterRelease(c)
  BY <1>1, ZenonT(30) DEF RemoveEmptyGroup, AfterRelease, Calls, IdleCpu
<1>5. cpu' \in [Cpus -> Calls] /\ cpu'[c] = call /\ \A d \in Cpus : d # c => cpu'[d] = cpu[d]
  BY <1>4, Zenon DEF IInv, TypeOK
<1>6. /\ call.pc \in {"remove", "idle"} /\ ~call.admission /\ (call.pc = "remove" => call.prev = g)
      /\ (cpu[c].admission => cpu[c].g = g)
  BY <1>1, <1>2, <1>4, Zenon DEF AfterRelease, Calls, IdleCpu, IInv, CallsOK, CallOK
<1>7. MembershipsOwned'
  <2>1. \A h \in Groups : Members(h)' = Members(h)
    BY <1>3, Zenon DEF Members, Registered
  <2> QED BY <1>1, <1>3, <1>5, <1>6, <2>1, QuietCall, OwnedSame, Zenon DEF IInv
<1>8. CASE ~Removable(g)
  <2>1. UNCHANGED linkVars
    BY <1>2, <1>8, SMTT(30) DEF RemoveEmptyGroup
  <2>2. TypeOK'
    BY <1>3, <1>5, <2>1, Zenon DEF IInv, TypeOK, linkVars, objVars
  <2>3. RegistryCoherent'
    BY <1>3, <2>1, CoherentSame, ZenonT(30) DEF IInv
  <2>4. EmptyGroupIsClaimed'
    BY <1>1, <1>2, <1>3, <1>5, <1>6, <1>8, <2>1, SMTT(30) DEF IInv, EmptyGroupIsClaimed, Removable, linkVars
  <2>5. Published'
    BY <1>3, <2>1, SMTT(30) DEF IInv, Published, Registered, linkVars, objVars
  <2>6. CallsOK'
    BY <1>3, <1>5, <1>6, <2>1, SMTT(30) DEF IInv, CallsOK, CallOK, linkVars, objVars
  <2>7. SnapshotsOK'
    BY <1>3, <1>5, <1>6, <2>1 DEF IInv, SnapshotsOK, linkVars, objVars
  <2> QED BY <1>7, <2>2, <2>3, <2>4, <2>5, <2>6, <2>7, SMTT(30) DEF IInv
<1>9. CASE Removable(g)
  <2>1. glinked[g] /\ memberships[g] = 0 /\ pgid[g] # None /\ gsession[g] \in Sessions
    BY <1>9, Zenon DEF Removable, IInv, Published
  <2>2. PICK s \in Sessions : s = gsession[g]
    BY <2>1, Zenon
  <2>3. /\ glinked' = [glinked EXCEPT ![g] = FALSE]
        /\ gpublished' = [gpublished EXCEPT ![g] = FALSE]
        /\ group_count' = Dec(group_count)
        /\ groups' = [groups EXCEPT ![s] = Dec(@)]
        /\ slinked' = [slinked EXCEPT ![s] = @ /\ ~LastGroup(s)]
        /\ spublished' = [spublished EXCEPT ![s] = @ /\ ~LastGroup(s)]
        /\ session_count' = IF LastGroup(s) THEN Dec(session_count) ELSE session_count
    BY <1>2, <1>9, <2>2, ZenonT(30) DEF RemoveEmptyGroup
  <2>4. /\ RegistryCoherent'
        /\ LastGroup(s) => \A h \in Groups : gsession[h] = s /\ glinked[h] => h = g
    BY <1>3, <2>1, <2>2, <2>3, UnlinkGroup, ZenonT(30) DEF objVars
  <2>5. TypeOK'
    <3>1. group_count' \in 0..Limit /\ session_count' \in 0..Limit
      BY <2>3, SMTT(30) DEF IInv, TypeOK, Dec
    <3>2. groups' \in [Sessions -> 0..Limit]
      BY <2>3, SMTT(30) DEF IInv, TypeOK, Dec
    <3>3. /\ glinked' \in [Groups -> BOOLEAN] /\ gpublished' \in [Groups -> BOOLEAN]
          /\ slinked' \in [Sessions -> BOOLEAN] /\ spublished' \in [Sessions -> BOOLEAN]
      BY <2>3, Zenon DEF IInv, TypeOK
    <3> QED BY <1>3, <1>5, <3>1, <3>2, <3>3, SMTT(30) DEF IInv, TypeOK, objVars
  <2>6. Members(g) = {} /\ Reserving(g) = {}
    BY <2>1, OwnerCounts
  <2>7. /\ \A h \in Groups : glinked'[h] <=> h # g /\ glinked[h]
        /\ \A h \in Groups : gpublished'[h] <=> h # g /\ gpublished[h]
        /\ \A t \in Sessions : spublished'[t] <=> spublished[t] /\ ~(t = s /\ LastGroup(s))
    BY <2>3, ZenonT(30) DEF IInv, TypeOK
  <2>8. EmptyGroupIsClaimed'
    BY <1>1, <1>2, <1>3, <1>5, <1>6, <2>7, SMTT(30) DEF IInv, EmptyGroupIsClaimed
  <2>9. Published'
    <3>1. \A h \in Groups : gpublished'[h] => glinked'[h] /\ spublished'[gsession[h]]
      BY <2>4, <2>7, Zenon DEF IInv, Published
    <3>2. \A p \in Procs : Registered(p) => group[p] # g
      BY <2>6, SMTT(30) DEF Members
    <3>3. \A t \in Sessions : slinked'[t] => slinked[t]
      BY <2>3, SMTT(30) DEF IInv, TypeOK
    <3> QED BY <1>3, <2>7, <3>1, <3>2, <3>3, SMTT(30) DEF IInv, Published, Registered, objVars
  <2>10. CallsOK'
    <3>1. \A d \in Cpus : cpu[d].pc = "topology" => cpu[d].g # g
      BY <2>6, SMTT(30) DEF Reserving
    <3> QED BY <1>3, <1>5, <1>6, <2>7, <3>1, SMTT(30) DEF IInv, CallsOK, CallOK, objVars
  <2>11. SnapshotsOK'
    BY <1>3, <1>5, <1>6, <2>7 DEF IInv, SnapshotsOK, CallsOK, CallOK
  <2> QED BY <1>7, <2>4, <2>5, <2>8, <2>9, <2>10, <2>11, SMTT(30) DEF IInv
<1> QED BY <1>8, <1>9, Zenon

(* ProcessRegistry::admit: the child joins the group its parent was in when
   the fork began, if that group is still linked. *)
LEMMA ForkAdmitInv ==
  ASSUME IInv, NEW c \in Cpus, ForkAdmit(c)
  PROVE  IInv'
<1> USE JobControlAssumption
<1>1. /\ cpu[c].pc = "fork" /\ cpu[c].g \in Groups /\ cpu[c].p \in Procs
      /\ ~cpu[c].admission /\ cpu' = [cpu EXCEPT ![c] = IdleCpu] /\ UNCHANGED <<objVars, linkVars>>
  BY Zenon DEF IInv, ForkAdmit, CallsOK, CallOK, TypeOK, Calls
<1>2. PICK g \in Groups, p \in Procs : g = cpu[c].g /\ p = cpu[c].p
  BY <1>1, Zenon
<1>3. CASE UNCHANGED <<memberships, pstate, group>>
  BY <1>1, <1>3, GiveUpInv, ZenonT(30)
<1>4. CASE ~UNCHANGED <<memberships, pstate, group>>
  <2>1. /\ pstate[p] = "none" /\ Reservable(g, TRUE)
        /\ memberships' = [memberships EXCEPT ![g] = @ + 1]
        /\ pstate' = [pstate EXCEPT ![p] = "admitted"]
        /\ group' = [group EXCEPT ![p] = g]
    BY <1>2, <1>4, ZenonT(30) DEF ForkAdmit
  <2>2. glinked[g] /\ memberships[g] < Limit /\ gpublished[g]
    BY <1>1, <1>2, <2>1, SMTT(30) DEF Reservable, IInv, SnapshotsOK
  <2>3. cpu'[c].pc = "idle" /\ ~cpu'[c].admission /\ \A d \in Cpus : d # c => cpu'[d] = cpu[d]
    BY <1>1, SMTT(30) DEF IInv, TypeOK, IdleCpu
  <2>4. TypeOK'
    <3>1. memberships' \in [Groups -> 0..Limit]
      <4>1. memberships \in [Groups -> 0..Limit]
        BY SMTT(30) DEF IInv, TypeOK
      <4>2. memberships[g] + 1 \in 0..Limit
        BY ONLY <4>1, <1>2, <2>2, JobControlAssumption, SMTT(30)
      <4> QED BY ONLY <4>1, <4>2, <2>1, SMTT(30)
    <3>2. cpu' \in [Cpus -> Calls]
      BY <1>1, Zenon DEF IInv, TypeOK, Calls, IdleCpu
    <3> QED BY <1>1, <2>1, <3>1, <3>2, Zenon DEF IInv, TypeOK, linkVars, objVars
  <2>5. MembershipsOwned'
    <3>1. \A h \in Groups : Reserving(h)' = Reserving(h) /\ Releasing(h)' = Releasing(h)
      BY <1>1, <2>3, QuietCall, SMTT(30)
    <3>2. /\ \A h \in Groups : h # g => Members(h)' = Members(h)
          /\ Members(g)' = Members(g) \union {p} /\ p \notin Members(g)
      BY <2>1 DEF Members, Registered, IInv, TypeOK
    <3>3. Cardinality(Members(g)') = Cardinality(Members(g)) + 1
      BY <3>2, Sizes, Gain, Zenon
    <3>4. \A h \in Groups : memberships'[h] = IF h = g THEN memberships[g] + 1 ELSE memberships[h]
      BY <2>1, Zenon DEF IInv, TypeOK
    <3>5. ASSUME NEW h \in Groups
          PROVE  memberships'[h] = Cardinality(Members(h)') + Cardinality(Reserving(h)')
                                   + Cardinality(Releasing(h)')
      <4>1. memberships[h] = Cardinality(Members(h)) + Cardinality(Reserving(h))
                             + Cardinality(Releasing(h))
        BY Zenon DEF IInv, MembershipsOwned
      <4>2. CASE h = g
        BY <4>1, <4>2, <3>1, <3>3, <3>4, Sizes
      <4>3. CASE h # g
        BY <4>1, <4>3, <3>1, <3>2, <3>4, Zenon
      <4> QED BY <4>2, <4>3, Zenon
    <3> QED BY <3>5, Zenon DEF MembershipsOwned
  <2>6. RegistryCoherent'
    BY <1>1, CoherentSame, Zenon DEF IInv
  <2>7. EmptyGroupIsClaimed'
    <3>1. \A h \in Groups : memberships'[h] = 0 => memberships[h] = 0
      BY <2>1, SMTT(30) DEF IInv, TypeOK
    <3> QED BY <1>1, <2>3, <3>1, SMTT(30) DEF IInv, EmptyGroupIsClaimed, linkVars
  <2>8. Published'
    <3>1. \A q \in Procs : Registered(q)' => group'[q] \in Groups /\ gpublished'[group'[q]]
      <4> SUFFICES ASSUME NEW q \in Procs, Registered(q)'
                   PROVE  group'[q] \in Groups /\ gpublished'[group'[q]]
        BY Zenon
      <4>1. CASE q = p
        BY <1>1, <2>1, <2>2, <4>1, Zenon DEF IInv, TypeOK, linkVars
      <4>2. CASE q # p
        BY <1>1, <2>1, <4>2 DEF IInv, Published, Registered, TypeOK, linkVars
      <4> QED BY <4>1, <4>2, Zenon
    <3> QED BY <1>1, <3>1, ZenonT(30) DEF IInv, Published, linkVars, objVars
  <2>9. CallsOK'
    BY <1>1, <2>3, ZenonT(40) DEF IInv, CallsOK, CallOK, linkVars, objVars
  <2>10. SnapshotsOK'
    BY <1>1, <2>3 DEF IInv, SnapshotsOK, linkVars, objVars
  <2> QED BY <2>4, <2>5, <2>6, <2>7, <2>8, <2>9, <2>10, Zenon DEF IInv
<1> QED BY <1>3, <1>4, SMTT(30)

(* A process leaves the registry (reap, or the rollback of an admission) and
   its membership is the call's to release. *)
LEMMA LeaveInv ==
  ASSUME IInv, NEW c \in Cpus, NEW p \in Procs, cpu[c].pc = "idle", Registered(p),
         NEW left \in {"none", "reaped"},
         pstate' = [pstate EXCEPT ![p] = left],
         group' \in [Procs -> Groups \union {None}],
         \A q \in Procs : q # p => group'[q] = group[q],
         cpu' = [cpu EXCEPT ![c] = [IdleCpu EXCEPT !.pc = "release", !.prev = group[p]]],
         UNCHANGED <<objVars, linkVars, memberships>>
  PROVE  IInv'
<1> USE JobControlAssumption
<1>1. PICK g \in Groups : g = group[p]
  BY Zenon DEF IInv, Published
<1>2. /\ cpu'[c].pc = "release" /\ cpu'[c].prev = g /\ ~cpu'[c].admission
      /\ \A d \in Cpus : d # c => cpu'[d] = cpu[d]
  BY <1>1, ZenonT(30) DEF IInv, TypeOK, IdleCpu
<1>3. TypeOK'
  <2>1. cpu' \in [Cpus -> Calls]
    BY <1>1, ZenonT(30) DEF IInv, TypeOK, Calls, IdleCpu
  <2> QED BY <2>1, ZenonT(30) DEF IInv, TypeOK, linkVars, objVars
<1>4. \A q \in Procs : Registered(q)' <=> q # p /\ Registered(q)
  BY Zenon DEF Registered, IInv, TypeOK
<1>5. MembershipsOwned'
  <2>1. /\ \A h \in Groups : Reserving(h)' = Reserving(h)
        /\ \A h \in Groups : h # g => Releasing(h)' = Releasing(h)
        /\ Releasing(g)' = Releasing(g) \union {c} /\ c \notin Releasing(g)
    BY <1>2 DEF Reserving, Releasing
  <2>2. /\ \A h \in Groups : h # g => Members(h)' = Members(h)
        /\ Members(g)' = Members(g) \ {p} /\ p \in Members(g)
    BY <1>1, <1>4, Zenon DEF Members
  <2>3. /\ Cardinality(Members(g)') = Cardinality(Members(g)) - 1
        /\ Cardinality(Releasing(g)') = Cardinality(Releasing(g)) + 1
    BY <2>1, <2>2, Sizes, Gain, Loss, Zenon
  <2>4. ASSUME NEW h \in Groups
        PROVE  memberships[h] = Cardinality(Members(h)') + Cardinality(Reserving(h)')
                                + Cardinality(Releasing(h)')
    <3>1. memberships[h] = Cardinality(Members(h)) + Cardinality(Reserving(h))
                           + Cardinality(Releasing(h))
      BY Zenon DEF IInv, MembershipsOwned
    <3>2. CASE h = g
      BY <3>1, <3>2, <2>1, <2>3, Sizes
    <3>3. CASE h # g
      BY <3>1, <3>3, <2>1, <2>2, Zenon
    <3> QED BY <3>2, <3>3, Zenon
  <2> QED BY <2>4, Zenon DEF MembershipsOwned
<1>6. RegistryCoherent'
  BY CoherentSame, Zenon DEF IInv
<1>7. EmptyGroupIsClaimed'
  BY <1>2 DEF IInv, EmptyGroupIsClaimed, CallsOK, CallOK, linkVars
<1>8. Published'
  BY <1>4, Zenon DEF IInv, Published, linkVars, objVars
<1>9. CallsOK'
  BY <1>2 DEF IInv, CallsOK, CallOK, linkVars, objVars
<1>10. SnapshotsOK'
  BY <1>2 DEF IInv, SnapshotsOK, linkVars, objVars
<1> QED BY <1>3, <1>5, <1>6, <1>7, <1>8, <1>9, <1>10, Zenon DEF IInv

(* ProcessAdmission::commit, the last thread's exit and the zombie transition
   keep the process registered. *)
LEMMA StateInv ==
  ASSUME IInv, NEW p \in Procs, Registered(p), NEW now \in {"live", "headless", "zombie"},
         pstate' = [pstate EXCEPT ![p] = now],
         UNCHANGED <<group, objVars, linkVars, memberships, cpu>>
  PROVE  IInv'
<1>1. \A q \in Procs : Registered(q)' <=> Registered(q)
  BY Zenon DEF Registered, IInv, TypeOK
<1>2. TypeOK'
  BY Zenon DEF IInv, TypeOK, linkVars, objVars
<1>3. MembershipsOwned'
  <2>1. \A g \in Groups : Members(g)' = Members(g)
    BY <1>1, Zenon DEF Members
  <2>2. \A g \in Groups : Reserving(g)' = Reserving(g) /\ Releasing(g)' = Releasing(g)
    BY Zenon DEF Reserving, Releasing
  <2> QED BY <2>1, <2>2, OwnedSame, Zenon DEF IInv
<1>4. RegistryCoherent'
  BY CoherentSame, SMTT(30) DEF IInv
<1>5. /\ EmptyGroupIsClaimed'
      /\ CallsOK'
      /\ SnapshotsOK'
  <2>1. EmptyGroupIsClaimed'
    BY ZenonT(40) DEF IInv, EmptyGroupIsClaimed, linkVars
  <2>2. CallsOK'
    BY ZenonT(40) DEF IInv, CallsOK, CallOK, linkVars, objVars
  <2>3. SnapshotsOK'
    BY ZenonT(40) DEF IInv, SnapshotsOK, linkVars, objVars
  <2> QED BY <2>1, <2>2, <2>3, Zenon
<1>6. Published'
  BY <1>1, ZenonT(30) DEF IInv, Published, linkVars, objVars
<1> QED BY <1>2, <1>3, <1>4, <1>5, <1>6, Zenon DEF IInv

-----------------------------------------------------------------------------
(* Every step preserves the invariant. *)
LEMMA NextIInv == IInv /\ [Next]_vars => IInv'
<1> SUFFICES ASSUME IInv, [Next]_vars PROVE IInv'
  BY Zenon
<1> USE JobControlAssumption
<1>1. ASSUME NEW c \in Cpus, CallStep(c) PROVE IInv'
  BY <1>1, AdmitSessionGroupInv, ReserveGroupMemberInv, ReplaceGroupInv, ReleaseGroupMemberInv,
     RemoveEmptyGroupInv, ForkAdmitInv, Zenon DEF CallStep
<1>2. ASSUME NEW c \in Cpus, Start(c) PROVE IInv'
  <2> SUFFICES ASSUME NEW p \in Procs,
                      \/ \E g \in Groups : \/ StartMove(c, p, g)
                                           \/ \E s \in Sessions, new \in BOOLEAN :
                                                StartCreate(c, p, g, s, new)
                      \/ \E q \in Procs : ForkSnapshot(c, q, p)
                      \/ ForkRollback(c, p) \/ Reap(c, p)
               PROVE  IInv'
    BY <1>2, Zenon DEF Start
  <2>1. ASSUME NEW g \in Groups, StartMove(c, p, g) PROVE IInv'
    BY <2>1, StartInv, ZenonT(30) DEF StartMove
  <2>2. ASSUME NEW g \in Groups, NEW s \in Sessions, NEW new \in BOOLEAN,
               StartCreate(c, p, g, s, new)
        PROVE  IInv'
    BY <2>2, StartCreateInv, Zenon
  <2>3. ASSUME NEW q \in Procs, ForkSnapshot(c, q, p) PROVE IInv'
    <3>1. Registered(q) /\ group[q] \in Groups /\ gpublished[group[q]]
      BY <2>3, ZenonT(30) DEF ForkSnapshot, Registered, IInv, Published
    <3> QED BY <2>3, <3>1, StartInv, ZenonT(30) DEF ForkSnapshot
  <2>4. CASE ForkRollback(c, p)
    <3>1. Registered(p) /\ group' \in [Procs -> Groups \union {None}]
          /\ \A q \in Procs : q # p => group'[q] = group[q]
      BY <2>4, Zenon DEF ForkRollback, Registered, IInv, TypeOK
    <3> QED BY <2>4, <3>1, LeaveInv, ZenonT(30) DEF ForkRollback
  <2>5. CASE Reap(c, p)
    <3>1. Registered(p) /\ group' \in [Procs -> Groups \union {None}]
          /\ \A q \in Procs : q # p => group'[q] = group[q]
      BY <2>5, ZenonT(30) DEF Reap, Registered, IInv, TypeOK
    <3> QED BY <2>5, <3>1, LeaveInv, ZenonT(30) DEF Reap
  <2> QED BY <2>1, <2>2, <2>3, <2>4, <2>5, Zenon
<1>3. ASSUME NEW p \in Procs, ForkCommit(p) \/ LastThreadLeaves(p) \/ Exit(p) PROVE IInv'
  BY <1>3, StateInv, SMTT(30) DEF ForkCommit, LastThreadLeaves, Exit, Registered
<1>4. CASE UNCHANGED vars
  <2>1. UNCHANGED <<pstate, group, objVars, linkVars, memberships, cpu>>
    BY <1>4, ZenonT(30) DEF vars, objVars, linkVars
  <2>2. \A g \in Groups : Members(g)' = Members(g) /\ Reserving(g)' = Reserving(g)
                          /\ Releasing(g)' = Releasing(g)
    BY <2>1, ZenonT(30) DEF Members, Registered, Reserving, Releasing
  <2>3. MembershipsOwned' /\ RegistryCoherent'
    BY <2>1, <2>2, OwnedSame, CoherentSame, SMTT(30) DEF IInv
  <2>4. TypeOK' /\ EmptyGroupIsClaimed'
    BY <2>1, Zenon DEF IInv, TypeOK, EmptyGroupIsClaimed, linkVars, objVars
  <2>5. Published' /\ CallsOK' /\ SnapshotsOK'
    BY <2>1, ZenonT(30) DEF IInv, Published, Registered, CallsOK, CallOK, SnapshotsOK, linkVars, objVars
  <2> QED BY <2>3, <2>4, <2>5, Zenon DEF IInv
<1> QED BY <1>1, <1>2, <1>3, <1>4, Zenon DEF Next

(* A published group's session is linked, as the counter of its groups is not
   zero. *)
LEMMA IInvMembers == IInv => MembersHaveLiveGroup
<1> SUFFICES ASSUME IInv, NEW p \in Procs, Registered(p)
             PROVE  /\ glinked[group[p]] /\ gpublished[group[p]]
                    /\ slinked[gsession[group[p]]] /\ spublished[gsession[group[p]]]
  BY Zenon DEF IInv, MembersHaveLiveGroup, MembersGroupLinked
<1>1. PICK g \in Groups : g = group[p]
  BY Zenon DEF IInv, Published
<1>2. gpublished[g] /\ glinked[g] /\ spublished[gsession[g]] /\ gsession[g] \in Sessions
  BY <1>1, Zenon DEF IInv, Published
<1>3. PICK s \in Sessions : s = gsession[g]
  BY <1>2, ZenonT(30)
<1>4. g \in GroupsOf(s)
  BY <1>2, <1>3, ZenonT(30) DEF GroupsOf
<1>5. Cardinality(GroupsOf(s)) # 0 /\ Cardinality(GroupsOf(s)) \in Nat
  BY <1>4, Sizes, FS_EmptySet, Zenon
<1>6. slinked[s]
  BY <1>5 DEF IInv, RegistryCoherent
<1> QED BY <1>1, <1>2, <1>3, <1>6, Zenon

(* The counters of groups, sessions and the registry are exact in every
   reachable state (reserve_group_member, release_group_member,
   admit_session_group, remove_empty_group), whatever the interleaving. *)
THEOREM JobBooksCorrect == Spec => []JobBooks
<1>1. IInv => JobBooks
  BY Zenon DEF IInv, JobBooks
<1> QED BY <1>1, InitIInv, NextIInv, PTL DEF Spec

(* No reachable state has a registered process in a group or session that was
   unlinked under it, or an empty linked group that nobody is about to remove. *)
THEOREM MembersHaveLiveGroupCorrect == Spec => []MembersHaveLiveGroup
BY IInvMembers, InitIInv, NextIInv, PTL DEF Spec
=============================================================================
