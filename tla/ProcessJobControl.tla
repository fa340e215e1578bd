------------------------- MODULE ProcessJobControl -------------------------
(***************************************************************************)
(* Process groups and sessions of crates/process/src: membership counters  *)
(* that are charged under the registry `state` lock, released by a bare    *)
(* atomic decrement, and re-checked under the lock before an empty group   *)
(* is unlinked.                                                            *)
(*                                                                         *)
(* A call runs on a CPU and is split where the code drops a lock: the      *)
(* unlocked checks, the state section of admit_session_group, the one of   *)
(* reserve_group_member, the topology section that replaces the group, the *)
(* decrement of the old membership, and remove_empty_group.                *)
(***************************************************************************)
EXTENDS Integers, FiniteSets

CONSTANTS
  Procs,     \* PIDs; 1 is init and exists from the start
  Groups,    \* ProcessGroup objects; 1 is init's; objects are not reused
  Sessions,  \* Session objects; 1 is init's
  Cpus,
  Limit,     \* membership_limit
  None

ASSUME JobControlAssumption ==
  /\ IsFiniteSet(Procs) /\ IsFiniteSet(Groups) /\ IsFiniteSet(Sessions) /\ IsFiniteSet(Cpus)
  /\ 1 \in Procs /\ 1 \in Groups /\ 1 \in Sessions
  /\ None \notin Procs \union Groups \union Sessions
  /\ Limit \in Nat \ {0}

VARIABLES
  pstate,      \* "none" | "admitted" | "live" (is_live) | "headless" (no thread
               \* left, not yet a zombie) | "zombie" | "reaped"
  group,       \* Process.group
  pgid,        \* ProcessGroup.pgid, None while the object is not allocated
  gsession,    \* ProcessGroup.session
  glinked,     \* group is in RegistryState.groups
  gpublished,  \* ProcessGroup.published
  memberships, \* ProcessGroup.memberships
  sid,         \* Session.sid, None while the object is not allocated
  slinked,     \* session is in RegistryState.sessions
  spublished,  \* Session.published
  groups,      \* Session.groups
  group_count, session_count,  \* RegistryState counters
  cpu          \* the call each CPU is executing

vars == <<pstate, group, pgid, gsession, glinked, gpublished, memberships, sid, slinked,
          spublished, groups, group_count, session_count, cpu>>
objVars == <<pgid, gsession, sid>>
linkVars == <<glinked, gpublished, slinked, spublished, groups, group_count, session_count>>

Registered(p) == pstate[p] \in {"admitted", "live", "headless", "zombie"}
IdleCpu == [pc |-> "idle", p |-> None, g |-> None, prev |-> None,
            newSession |-> FALSE, admission |-> FALSE]

(* Who may own a unit of a group's membership counter: the processes in it, the
   calls that reserved a membership, and those that have one to release. *)
Members(g) == {p \in Procs : Registered(p) /\ group[p] = g}
Reserving(g) == {c \in Cpus : cpu[c].pc = "topology" /\ cpu[c].g = g}
Releasing(g) == {c \in Cpus : cpu[c].pc = "release" /\ cpu[c].prev = g}
GroupsOf(s) == {g \in Groups : glinked[g] /\ gsession[g] = s}

Dec(n) == IF n > 0 THEN n - 1 ELSE 0
-----------------------------------------------------------------------------
Init ==
  /\ pstate = [p \in Procs |-> IF p = 1 THEN "live" ELSE "none"]
  /\ group = [p \in Procs |-> IF p = 1 THEN 1 ELSE None]
  /\ pgid = [g \in Groups |-> IF g = 1 THEN 1 ELSE None]
  /\ gsession = [g \in Groups |-> IF g = 1 THEN 1 ELSE None]
  /\ glinked = [g \in Groups |-> g = 1]
  /\ gpublished = [g \in Groups |-> g = 1]
  /\ memberships = [g \in Groups |-> IF g = 1 THEN 1 ELSE 0]
  /\ sid = [s \in Sessions |-> IF s = 1 THEN 1 ELSE None]
  /\ slinked = [s \in Sessions |-> s = 1]
  /\ spublished = [s \in Sessions |-> s = 1]
  /\ groups = [s \in Sessions |-> IF s = 1 THEN 1 ELSE 0]
  /\ group_count = 1 /\ session_count = 1
  /\ cpu = [c \in Cpus |-> IdleCpu]

(* try_create_session / try_create_group: the unlocked checks, and the new
   objects (a fresh session for try_create_session). *)
StartCreate(c, p, g, s, newSession) ==
  /\ cpu[c].pc = "idle" /\ pstate[p] = "live"
  /\ pgid[g] = None
  /\ IF newSession THEN sid[s] = None /\ sid[gsession[group[p]]] # p
                   ELSE s = gsession[group[p]] /\ pgid[group[p]] # p
  /\ pgid' = [pgid EXCEPT ![g] = p]
  /\ gsession' = [gsession EXCEPT ![g] = s]
  /\ sid' = [sid EXCEPT ![s] = IF newSession THEN p ELSE @]
  /\ cpu' = [cpu EXCEPT ![c] = [IdleCpu EXCEPT !.pc = "admit", !.p = p, !.g = g,
                                               !.newSession = newSession]]
  /\ UNCHANGED <<pstate, group, memberships, linkVars>>

Admissible(g, newSession) ==
  LET s == gsession[g] IN
  /\ group_count < Limit /\ (newSession => session_count < Limit)
  /\ \A h \in Groups : glinked[h] => pgid[h] # pgid[g]
  /\ IF newSession THEN \A t \in Sessions : slinked[t] => sid[t] # sid[s]
                   ELSE slinked[s] /\ spublished[s]
  /\ groups[s] < Limit

(* admit_session_group *)
AdmitSessionGroup(c) ==
  LET g == cpu[c].g
      s == gsession[g]
  IN
  /\ cpu[c].pc = "admit"
  /\ \/ /\ Admissible(g, cpu[c].newSession)
        /\ glinked' = [glinked EXCEPT ![g] = TRUE]
        /\ groups' = [groups EXCEPT ![s] = @ + 1]
        /\ group_count' = group_count + 1
        /\ slinked' = [slinked EXCEPT ![s] = TRUE]
        /\ session_count' = IF cpu[c].newSession THEN session_count + 1 ELSE session_count
        /\ cpu' = [cpu EXCEPT ![c] = [@ EXCEPT !.pc = "reserve", !.admission = TRUE]]
     \/ /\ ~Admissible(g, cpu[c].newSession)
        /\ cpu' = [cpu EXCEPT ![c] = IdleCpu]
        /\ UNCHANGED <<glinked, groups, group_count, slinked, session_count>>
  /\ UNCHANGED <<pstate, group, objVars, gpublished, memberships, spublished>>

(* move_to_group: the unlocked checks *)
StartMove(c, p, g) ==
  /\ cpu[c].pc = "idle" /\ pstate[p] = "live"
  /\ glinked[g] /\ gpublished[g]
  /\ group[p] # g /\ gsession[group[p]] = gsession[g]
  /\ cpu' = [cpu EXCEPT ![c] = [IdleCpu EXCEPT !.pc = "reserve", !.p = p, !.g = g]]
  /\ UNCHANGED <<pstate, group, objVars, linkVars, memberships>>

Reservable(g, allowUnpublished) ==
  glinked[g] /\ (allowUnpublished \/ gpublished[g]) /\ memberships[g] < Limit

(* reserve_group_member; a refusal drops the admission, if one is held *)
ReserveGroupMember(c) ==
  LET g == cpu[c].g IN
  /\ cpu[c].pc = "reserve"
  /\ \/ /\ Reservable(g, cpu[c].admission)
        /\ memberships' = [memberships EXCEPT ![g] = @ + 1]
        /\ cpu' = [cpu EXCEPT ![c].pc = "topology"]
     \/ /\ ~Reservable(g, cpu[c].admission)
        /\ cpu' = [cpu EXCEPT ![c] = IF cpu[c].admission
                                     THEN [@ EXCEPT !.pc = "remove", !.prev = g, !.admission = FALSE]
                                     ELSE IdleCpu]
        /\ UNCHANGED memberships
  /\ UNCHANGED <<pstate, group, objVars, linkVars>>

(* What the topology section finds when it looks again. *)
Replaceable(c) ==
  LET p == cpu[c].p
      g == cpu[c].g
  IN  /\ pstate[p] = "live" /\ group[p] # g
      /\ IF cpu[c].newSession THEN sid[gsession[group[p]]] # p
         ELSE /\ gsession[group[p]] = gsession[g]
              /\ IF cpu[c].admission THEN pgid[group[p]] # p
                                     ELSE glinked[g] /\ gpublished[g]

ForgetReservation(c) == IF cpu[c].admission THEN [cpu[c] EXCEPT !.pc = "remove", !.prev = cpu[c].g,
                                                 !.admission = FALSE] ELSE IdleCpu

(* A refused replacement gives the reserved membership back. *)
ReturnReservation(c) == [cpu[c] EXCEPT !.pc = "release", !.prev = cpu[c].g]

(* The topology section: replace the group and commit the admission, or keep
   everything; the membership to release is the previous or the new one. *)
ReplaceGroup(c) ==
  LET p == cpu[c].p
      g == cpu[c].g
  IN
  /\ cpu[c].pc = "topology"
  /\ \/ /\ Replaceable(c)
        /\ group' = [group EXCEPT ![p] = g]
        /\ gpublished' = [gpublished EXCEPT ![g] = TRUE]
        /\ spublished' = [spublished EXCEPT ![gsession[g]] = @ \/ cpu[c].newSession]
        /\ cpu' = [cpu EXCEPT ![c] = [@ EXCEPT !.pc = "release", !.prev = group[p], !.admission = FALSE]]
     \/ /\ ~Replaceable(c)
        /\ cpu' = [cpu EXCEPT ![c] = ReturnReservation(c)]
        /\ UNCHANGED <<group, gpublished, spublished>>
  /\ UNCHANGED <<pstate, objVars, glinked, slinked, groups, group_count, session_count,
                 memberships>>

(* release_counter(&group.memberships) == Some(1) *)
WasLast(g) == memberships[g] = 1

(* What follows a release: Drop for JobControlAdmission, or nothing. *)
AfterRelease(c) ==
  IF cpu[c].admission THEN [cpu[c] EXCEPT !.pc = "remove", !.admission = FALSE] ELSE IdleCpu

(* release_group_member: the atomic decrement, under no lock *)
ReleaseGroupMember(c) ==
  LET g == cpu[c].prev IN
  /\ cpu[c].pc = "release"
  /\ memberships' = [memberships EXCEPT ![g] = Dec(@)]
  /\ cpu' = [cpu EXCEPT ![c] = IF WasLast(g) THEN [@ EXCEPT !.pc = "remove"] ELSE AfterRelease(c)]
  /\ UNCHANGED <<pstate, group, objVars, linkVars>>

RemovableUnchecked(g) == glinked[g]

Removable(g) == memberships[g] = 0 /\ glinked[g]

LastGroup(s) == groups[s] = 1 /\ slinked[s]

(* remove_empty_group *)
RemoveEmptyGroup(c) ==
  LET g == cpu[c].prev
      s == gsession[g]
  IN
  /\ cpu[c].pc = "remove"
  /\ cpu' = [cpu EXCEPT ![c] = AfterRelease(c)]
  /\ \/ /\ Removable(g)
        /\ glinked' = [glinked EXCEPT ![g] = FALSE]
        /\ gpublished' = [gpublished EXCEPT ![g] = FALSE]
        /\ group_count' = Dec(group_count)
        /\ groups' = [groups EXCEPT ![s] = Dec(@)]
        /\ slinked' = [slinked EXCEPT ![s] = @ /\ ~LastGroup(s)]
        /\ spublished' = [spublished EXCEPT ![s] = @ /\ ~LastGroup(s)]
        /\ session_count' = IF LastGroup(s) THEN Dec(session_count) ELSE session_count
     \/ /\ ~Removable(g)
        /\ UNCHANGED linkVars
  /\ UNCHANGED <<pstate, group, objVars, memberships>>

-----------------------------------------------------------------------------
(* prepare_fork: the child is built with a snapshot of the parent's group *)
ForkSnapshot(c, q, p) ==
  /\ cpu[c].pc = "idle" /\ pstate[q] \in {"live", "headless"} /\ pstate[p] = "none"
  /\ cpu' = [cpu EXCEPT ![c] = [IdleCpu EXCEPT !.pc = "fork", !.p = p, !.g = group[q]]]
  /\ UNCHANGED <<pstate, group, objVars, linkVars, memberships>>

(* ProcessRegistry::admit *)
ForkAdmit(c) ==
  LET p == cpu[c].p
      g == cpu[c].g
  IN
  /\ cpu[c].pc = "fork"
  /\ cpu' = [cpu EXCEPT ![c] = IdleCpu]
  /\ \/ /\ ~Registered(p) /\ pstate[p] = "none" /\ Reservable(g, TRUE)
        /\ Cardinality({q \in Procs : Registered(q)}) < Limit
        /\ memberships' = [memberships EXCEPT ![g] = @ + 1]
        /\ pstate' = [pstate EXCEPT ![p] = "admitted"]
        /\ group' = [group EXCEPT ![p] = g]
     \/ /\ \/ pstate[p] # "none" \/ ~Reservable(g, TRUE)
           \/ Cardinality({q \in Procs : Registered(q)}) >= Limit
        /\ UNCHANGED <<memberships, pstate, group>>
  /\ UNCHANGED <<objVars, linkVars>>

(* ProcessAdmission::commit *)
ForkCommit(p) ==
  /\ pstate[p] = "admitted"
  /\ pstate' = [pstate EXCEPT ![p] = "live"]
  /\ UNCHANGED <<group, objVars, linkVars, memberships, cpu>>

(* Drop for ProcessAdmission: unlink, then release the group membership *)
ForkRollback(c, p) ==
  /\ cpu[c].pc = "idle" /\ pstate[p] = "admitted"
  /\ pstate' = [pstate EXCEPT ![p] = "none"]
  /\ group' = [group EXCEPT ![p] = None]
  /\ cpu' = [cpu EXCEPT ![c] = [IdleCpu EXCEPT !.pc = "release", !.prev = group[p]]]
  /\ UNCHANGED <<objVars, linkVars, memberships>>

(* The last thread leaves: is_live becomes false *)
LastThreadLeaves(p) ==
  /\ pstate[p] = "live" /\ p # 1
  /\ pstate' = [pstate EXCEPT ![p] = "headless"]
  /\ UNCHANGED <<group, objVars, linkVars, memberships, cpu>>

(* The zombie transition, in its topology section *)
Exit(p) ==
  /\ pstate[p] = "headless"
  /\ pstate' = [pstate EXCEPT ![p] = "zombie"]
  /\ UNCHANGED <<group, objVars, linkVars, memberships, cpu>>

(* reap: unlink under topology and state, then release the group membership *)
Reap(c, p) ==
  /\ cpu[c].pc = "idle" /\ pstate[p] = "zombie"
  /\ pstate' = [pstate EXCEPT ![p] = "reaped"]
  /\ cpu' = [cpu EXCEPT ![c] = [IdleCpu EXCEPT !.pc = "release", !.prev = group[p]]]
  /\ UNCHANGED <<group, objVars, linkVars, memberships>>

-----------------------------------------------------------------------------
CallStep(c) ==
  \/ AdmitSessionGroup(c) \/ ReserveGroupMember(c) \/ ReplaceGroup(c)
  \/ ReleaseGroupMember(c) \/ RemoveEmptyGroup(c) \/ ForkAdmit(c)

Start(c) ==
  \E p \in Procs :
    \/ \E g \in Groups : \/ StartMove(c, p, g)
                         \/ \E s \in Sessions, new \in BOOLEAN : StartCreate(c, p, g, s, new)
    \/ \E q \in Procs : ForkSnapshot(c, q, p)
    \/ ForkRollback(c, p) \/ Reap(c, p)

Next ==
  \/ \E c \in Cpus : CallStep(c) \/ Start(c)
  \/ \E p \in Procs : ForkCommit(p) \/ LastThreadLeaves(p) \/ Exit(p)

Spec == Init /\ [][Next]_vars

-----------------------------------------------------------------------------
Calls ==
  [pc : {"idle", "admit", "reserve", "topology", "release", "remove", "fork"},
   p : Procs \union {None}, g : Groups \union {None}, prev : Groups \union {None},
   newSession : BOOLEAN, admission : BOOLEAN]

TypeOK ==
  /\ pstate \in [Procs -> {"none", "admitted", "live", "headless", "zombie", "reaped"}]
  /\ group \in [Procs -> Groups \union {None}]
  /\ pgid \in [Groups -> Procs \union {None}]
  /\ gsession \in [Groups -> Sessions \union {None}]
  /\ glinked \in [Groups -> BOOLEAN] /\ gpublished \in [Groups -> BOOLEAN]
  /\ memberships \in [Groups -> 0..Limit]
  /\ sid \in [Sessions -> Procs \union {None}]
  /\ slinked \in [Sessions -> BOOLEAN] /\ spublished \in [Sessions -> BOOLEAN]
  /\ groups \in [Sessions -> 0..Limit]
  /\ group_count \in 0..Limit /\ session_count \in 0..Limit
  /\ cpu \in [Cpus -> Calls]

(* Every unit of a group's membership counter has an owner: a registered
   process of the group, a reservation not yet installed, or a departed
   membership not yet released. *)
MembershipsOwned ==
  \A g \in Groups :
    memberships[g] =
      Cardinality(Members(g)) + Cardinality(Reserving(g)) + Cardinality(Releasing(g))

(* The registry counters count what is linked, a linked group's session is
   linked, and group and session ids are unique among linked objects. *)
RegistryCoherent ==
  /\ group_count = Cardinality({g \in Groups : glinked[g]})
  /\ session_count = Cardinality({s \in Sessions : slinked[s]})
  /\ \A s \in Sessions : groups[s] = Cardinality(GroupsOf(s))
  /\ \A s \in Sessions : slinked[s] <=> groups[s] > 0
  /\ \A g, h \in Groups : glinked[g] /\ glinked[h] /\ g # h => pgid[g] # pgid[h]
  /\ \A s, t \in Sessions : slinked[s] /\ slinked[t] /\ s # t => sid[s] # sid[t]

(* The books: types, an owner for every unit of a group's lock-free membership
   counter, and registry counters that match their links. *)
JobBooks == TypeOK /\ MembershipsOwned /\ RegistryCoherent

(* A registered process is never in a group that was unlinked under it, nor in
   a session that was: the lock-free decrement to zero and the removal that
   follows it cannot lose a member admitted in between. *)
MembersGroupLinked ==
  \A p \in Procs : Registered(p) =>
    /\ glinked[group[p]] /\ gpublished[group[p]]
    /\ slinked[gsession[group[p]]] /\ spublished[gsession[group[p]]]

(* No empty group stays registered: somebody is about to remove it. *)
EmptyGroupIsClaimed ==
  \A g \in Groups : glinked[g] /\ memberships[g] = 0 =>
    \E c \in Cpus : \/ cpu[c].admission /\ cpu[c].g = g
                    \/ cpu[c].pc = "remove" /\ cpu[c].prev = g

(* No registered process is in a group or session unlinked under it, and a
   group whose counter is zero is about to be removed by somebody. *)
MembersHaveLiveGroup == MembersGroupLinked /\ EmptyGroupIsClaimed
=============================================================================
