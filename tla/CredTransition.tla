--------------------------- MODULE CredTransition ---------------------------
(***************************************************************************)
(* Credentials of crate cred: the set*id, capset, ambient, bounding and    *)
(* securebits transitions, exec derivation and entry into a user           *)
(* namespace, each planned against one exact old credential and published  *)
(* later, while another writer may publish and a tracer may attach.        *)
(*                                                                         *)
(* A credential is immutable and shared by pointer.  The pending proposal  *)
(* keeps its old credential alive, so the pointer comparison at            *)
(* publication is the flag `fresh`: it is lost when the slot is replaced   *)
(* and never comes back.  Bits of a capability word are members of a set.  *)
(***************************************************************************)
EXTENDS Integers, FiniteSets

CONSTANTS Uids, Gids,    \* kernel ids
          Caps,          \* the capabilities told apart
          FsCaps,        \* those of Caps fsuid transitions mask
          Namespaces,    \* [id -> [parent, level, owner, root, uids, gids]]
          Root,          \* the initial namespace
          Named,         \* the capabilities single-capability calls name
          IdRequests, GroupRequests, CapRequests, BitRequests,
          Files          \* executables: [suid, sgid, owner, honored, fcap, readable]

VARIABLES task,     \* the published credential
          image,    \* what the last publication did to the process image
          pending,  \* the proposal of the slow writer, or NoPlan
          traced    \* does the tracing relation suppress privilege now

cvars == <<task, image, pending, traced>>

NoId == -1
NoPlan == [none |-> TRUE]
Refused == [refused |-> TRUE]

Bits == {"NOROOT", "NO_SETUID_FIXUP", "KEEP_CAPS", "NO_AMBIENT"}
LockOf == [NOROOT |-> "NOROOT_LOCKED", NO_SETUID_FIXUP |-> "NO_SETUID_FIXUP_LOCKED",
           KEEP_CAPS |-> "KEEP_CAPS_LOCKED", NO_AMBIENT |-> "NO_AMBIENT_LOCKED"]
Locks == {LockOf[b] : b \in Bits}
LockedBits(securebits) == {b \in Bits : LockOf[b] \in securebits}

-----------------------------------------------------------------------------
(* CapabilitySets *)

Validate(c) ==
  /\ c.securebits \subseteq Bits \cup Locks
  /\ c.effective \subseteq c.permitted
  /\ c.ambient \subseteq c.permitted \cap c.inheritable

FullCaps == [effective |-> Caps, permitted |-> Caps, inheritable |-> {},
             bounding |-> Caps, ambient |-> {}, securebits |-> {}]

ChangedIn(old, new) == (old \ new) \cup (new \ old)

RaiseAmbient(c, cap) ==
  IF "NO_AMBIENT" \in c.securebits \/ cap \notin c.permitted \cap c.inheritable
    THEN Refused
    ELSE [c EXCEPT !.ambient = @ \cup {cap}]

LowerAmbient(c, cap) == [c EXCEPT !.ambient = @ \ {cap}]
ClearAmbient(c) == [c EXCEPT !.ambient = {}]
ReconcileAmbient(c) == [c EXCEPT !.ambient = @ \cap c.permitted \cap c.inheritable]

DropBounding(c, cap) == [c EXCEPT !.bounding = @ \ {cap}]

SetSecurebits(c, requested) ==
  IF \/ ~(requested \subseteq Bits \cup Locks)
     \/ LockedBits(c.securebits) \cap ChangedIn(c.securebits, requested) # {}
     \/ ~((c.securebits \cap Locks) \subseteq requested)
    THEN Refused
    ELSE [c EXCEPT !.securebits = requested]

SetKeepCaps(c, enabled) ==
  IF LockOf["KEEP_CAPS"] \in c.securebits
    THEN Refused
    ELSE [c EXCEPT !.securebits = (@ \ {"KEEP_CAPS"})
                                  \cup (IF enabled THEN {"KEEP_CAPS"} ELSE {})]

-----------------------------------------------------------------------------
(* Credential construction *)

Credential(ids, groups, caps, nnp, ns) ==
  [u |-> ids.u, g |-> ids.g, groups |-> groups, caps |-> caps, nnp |-> nnp, ns |-> ns]

HasEffective(cred, cap) == cap \in cred.caps.effective

(* try_from_transition: the one gate every transition of a credential in   *)
(* its namespace passes.                                                   *)
FromTransition(old, new, mode) ==
  LET exempt == IF /\ mode = "ExecClearsKeepCaps"
                   /\ {"KEEP_CAPS", LockOf["KEEP_CAPS"]} \subseteq old.caps.securebits
                   /\ "KEEP_CAPS" \notin new.caps.securebits
                  THEN {"KEEP_CAPS"} ELSE {}
      changed == LockedBits(old.caps.securebits)
                 \cap ChangedIn(old.caps.securebits, new.caps.securebits)
  IN IF \/ ~Validate(new.caps)
        \/ old.ns # new.ns
        \/ old.nnp /\ ~new.nnp
        \/ changed \ exempt # {}
        \/ ~((old.caps.securebits \cap Locks) \subseteq new.caps.securebits)
       THEN Refused
       ELSE new

(* CredentialTransitionEffects::between *)
ResetsSecurity(old, new) ==
  \/ old.u.e # new.u.e \/ old.g.e # new.g.e
  \/ old.u.f # new.u.f \/ old.g.f # new.g.f
  \/ ~(new.caps.permitted \subseteq old.caps.permitted)

WithUserNamespace(current, ns) ==
  LET n == Namespaces[ns]
  IN IF \/ ns = Root
        \/ n.level # Namespaces[current.ns].level + 1
        \/ n.parent # current.ns
        \/ n.owner # current.u.e
       THEN Refused
       ELSE [current EXCEPT !.caps = FullCaps, !.ns = ns]

-----------------------------------------------------------------------------
(* Planning *)

SetIdChosen(old, requested) == IF requested = NoId THEN old ELSE requested

(* plan_user_id_transition and plan_group_id_transition on the four ids of *)
(* one kind; Refused is the EPERM return.                                  *)
PlanIds(old, request, privileged) ==
  LET within(id, set) == id = NoId \/ id \in set \/ privileged
      three == {old.r, old.e, old.s}
      r == IF "r" \in DOMAIN request THEN SetIdChosen(old.r, request.r) ELSE old.r
      e == IF "e" \in DOMAIN request THEN SetIdChosen(old.e, request.e) ELSE old.e
      s == IF "s" \in DOMAIN request THEN SetIdChosen(old.s, request.s) ELSE old.s
  IN CASE request.kind = "Set" ->
            IF privileged
              THEN [r |-> request.id, e |-> request.id, s |-> request.id, f |-> request.id]
              ELSE IF request.id \notin {old.r, old.s}
                     THEN Refused
                     ELSE [old EXCEPT !.e = request.id, !.f = request.id]
       [] request.kind = "Re" ->
            IF ~(within(request.r, {old.r, old.e}) /\ within(request.e, three))
              THEN Refused
              ELSE [r |-> r, e |-> e, f |-> e,
                    s |-> IF request.r # NoId \/ request.e \notin {NoId, old.r}
                            THEN e ELSE old.s]
       [] request.kind = "Res" ->
            IF /\ request.r \in {NoId, old.r}
               /\ request.e = NoId \/ (request.e = old.e /\ request.e = old.f)
               /\ request.s \in {NoId, old.s}
              THEN old
              ELSE IF ~\A id \in {request.r, request.e, request.s} : within(id, three)
                     THEN Refused
                     ELSE [r |-> r, e |-> e, s |-> s, f |-> e]
       [] request.kind = "Fs" ->
            IF within(request.id, three \cup {old.f}) THEN [old EXCEPT !.f = request.id] ELSE old

FixupUidCapabilities(root, old, new, c) ==
  LET isRoot(id) == root # NoId /\ id = root
      hadRoot == \E id \in {old.r, old.e, old.s} : isRoot(id)
      hasRoot == \E id \in {new.r, new.e, new.s} : isRoot(id)
      lost == hadRoot /\ ~hasRoot
      wiped == lost /\ "KEEP_CAPS" \notin c.securebits
      permitted == IF wiped THEN {} ELSE c.permitted
  IN IF [old EXCEPT !.f = new.f] = new \/ "NO_SETUID_FIXUP" \in c.securebits
       THEN c
       ELSE [c EXCEPT !.permitted = permitted,
                      !.ambient = IF lost THEN {} ELSE @,
                      !.effective = CASE isRoot(new.e) /\ ~isRoot(old.e) -> permitted
                                      [] wiped \/ (isRoot(old.e) /\ ~isRoot(new.e)) -> {}
                                      [] OTHER -> @]

FixupFsuidCapabilities(root, old, new, c) ==
  IF old = new \/ "NO_SETUID_FIXUP" \in c.securebits
    THEN c
    ELSE [c EXCEPT !.effective = CASE root = old -> @ \ FsCaps
                                   [] root = new -> @ \cup (FsCaps \cap c.permitted)
                                   [] OTHER -> @]

(* plan_user_id_transition, then UserIdTransitionPlan's preparation.       *)
UserIds(old, request) ==
  LET u == PlanIds(old.u, request, HasEffective(old, "SETUID"))
      root == Namespaces[old.ns].root
      caps == IF request.kind = "Fs"
                THEN FixupFsuidCapabilities(root, old.u.f, u.f, old.caps)
                ELSE FixupUidCapabilities(root, old.u, u, old.caps)
  IN IF u = Refused THEN Refused
     ELSE FromTransition(old, [old EXCEPT !.u = u, !.caps = caps], "Normal")

GroupIds(old, request) ==
  LET g == PlanIds(old.g, request, HasEffective(old, "SETGID"))
  IN IF g = Refused THEN Refused
     ELSE FromTransition(old, [old EXCEPT !.g = g], "Normal")

(* plan_capset *)
Capset(old, request) ==
  LET c == old.caps
      allowed == /\ request.effective \subseteq request.permitted
                 /\ request.permitted \subseteq c.permitted
                 /\ request.inheritable \subseteq c.inheritable \cup c.bounding
                 /\ \/ HasEffective(old, "SETPCAP")
                    \/ request.inheritable \subseteq c.inheritable \cup c.permitted
  IN IF ~allowed THEN Refused
     ELSE FromTransition(old,
            [old EXCEPT !.caps = [c EXCEPT !.effective = request.effective,
                                           !.permitted = request.permitted,
                                           !.inheritable = request.inheritable,
                                           !.ambient = @ \cap request.permitted
                                                         \cap request.inheritable]],
            "Normal")

(* A capability-word operation followed by try_prepare_transition.         *)
WithCaps(old, caps) ==
  IF caps = Refused THEN Refused
  ELSE FromTransition(old, [old EXCEPT !.caps = caps], "Normal")

-----------------------------------------------------------------------------
(* Exec *)

NoFcap == [absent |-> TRUE]

(* file_root_owns_current_namespace: the record's root id is the root of   *)
(* the namespace or of one of its ancestors.                               *)
FileRootOwns(ns, rootid) ==
  LET up[n \in DOMAIN Namespaces] ==
        \/ Namespaces[n].root = rootid
        \/ n # Root /\ up[Namespaces[n].parent]
  IN up[ns]

Privileged(old, traceSuppresses) == ~old.nnp /\ ~traceSuppresses

(* derive_exec_credential: [cred, sensitive, secure, dumpable, pdeath,     *)
(* personality], or Refused.                                               *)
DeriveExec(old, file, suppressed) ==
  LET ns == Namespaces[old.ns]
      root == ns.root
      isRoot(id) == root # NoId /\ id = root
      c == old.caps
      mapped == file.owner.uid \in ns.uids /\ file.owner.gid \in ns.gids
      admitted == file.honored /\ ~old.nnp /\ mapped
      euid == IF admitted /\ file.suid THEN file.owner.uid ELSE old.u.e
      egid == IF admitted /\ file.sgid THEN file.owner.gid ELSE old.g.e
      idChanged == euid # old.u.e \/ (egid # old.g.f /\ egid \notin old.groups)
      hasFcap == file.honored /\ file.fcap # NoFcap /\ FileRootOwns(old.ns, file.fcap.rootid)
      fP == IF hasFcap THEN file.fcap.permitted ELSE {}
      fI == IF hasFcap THEN file.fcap.inheritable ELSE {}
      explicit == (c.bounding \cap fP) \cup (c.inheritable \cap fI)
      compat == /\ "NOROOT" \notin c.securebits
                /\ isRoot(old.u.r) \/ isRoot(euid)
                /\ ~(hasFcap /\ ~isRoot(old.u.r) /\ isRoot(euid))
      gained == IF compat THEN c.bounding \cup c.inheritable ELSE explicit
      fileEffective == (hasFcap /\ file.fcap.effective) \/ (compat /\ isRoot(euid))
      gain == ~(gained \subseteq c.permitted)
      sensitive == idChanged \/ gain
      unsafe == sensitive /\ ~Privileged(old, suppressed)
      downgraded == unsafe /\ (old.nnp \/ ~HasEffective(old, "SETUID"))
      e == IF downgraded THEN old.u.r ELSE euid
      ge == IF downgraded THEN old.g.r ELSE egid
      kept == IF unsafe THEN gained \cap c.permitted ELSE gained
      carried == IF hasFcap \/ idChanged THEN {} ELSE c.ambient
      permitted == kept \cup carried
      caps == [effective |-> IF fileEffective THEN permitted ELSE carried,
               permitted |-> permitted, inheritable |-> c.inheritable,
               bounding |-> c.bounding,
               ambient |-> carried \cap permitted \cap c.inheritable,
               securebits |-> c.securebits \ {"KEEP_CAPS"}]
      new == [old EXCEPT !.u = [r |-> old.u.r, e |-> e, s |-> e, f |-> e],
                         !.g = [r |-> old.g.r, e |-> ge, s |-> ge, f |-> ge],
                         !.caps = caps]
      fsChanged == old.u.e # e \/ old.g.e # ge \/ old.u.f # e \/ old.g.f # ge
      nowGained == ~(permitted \subseteq c.permitted)
      secure == \/ idChanged \/ e # old.u.r \/ ge # old.g.r
                \/ ~isRoot(old.u.r) /\ (fileEffective \/ permitted \ caps.ambient # {})
      proposed == FromTransition(old, new, "ExecClearsKeepCaps")
  IN IF (hasFcap /\ file.fcap.effective /\ ~(fP \subseteq explicit)) \/ proposed = Refused
       THEN Refused
       ELSE [cred |-> proposed, sensitive |-> sensitive, secure |-> secure,
             dumpable |-> ~(\/ ~file.readable \/ old.u.e # old.u.r \/ old.g.e # old.g.r
                            \/ fsChanged \/ nowGained),
             pdeath |-> ~(secure \/ fsChanged \/ nowGained),
             personality |-> ~((admitted /\ (file.suid \/ file.sgid)) \/ gain)]

(* commoncap_exec_transition *)
CommoncapExec(old, new, suppressed) ==
  /\ old.ns = new.ns /\ old.nnp = new.nnp
  /\ Privileged(old, suppressed) \/ new.caps.permitted \subseteq old.caps.permitted

-----------------------------------------------------------------------------
(* Publication *)

(* PreparedCredential::try_into_proposed and its exec counterpart compare  *)
(* the old pointer.                                                        *)
ExactOld(p) == p.fresh

NeverStale(p, suppressed) == FALSE

(* ExecPtraceRevalidation::is_stale *)
IsStale(p, suppressed) == p.sensitive /\ ~p.suppressed /\ suppressed

Init ==
  /\ task = Credential([u |-> [r |-> 0, e |-> 0, s |-> 0, f |-> 0],
                        g |-> [r |-> 0, e |-> 0, s |-> 0, f |-> 0]],
                       {0}, FullCaps, FALSE, Root)
  /\ image = [dumpable |-> TRUE, pdeath |-> TRUE, personality |-> TRUE]
  /\ pending = NoPlan
  /\ traced = FALSE

(* What a transition of the given kind may propose for a credential.       *)
Transitions(old) ==
  {UserIds(old, r) : r \in IdRequests}
  \cup {GroupIds(old, r) : r \in GroupRequests}
  \cup {Capset(old, r) : r \in CapRequests}
  \cup {WithCaps(old, op) :
          op \in {RaiseAmbient(old.caps, k) : k \in Named}
             \cup {LowerAmbient(old.caps, k) : k \in Named}
             \cup {ClearAmbient(old.caps), ReconcileAmbient(old.caps)}
             \cup {DropBounding(old.caps, k) : k \in IF HasEffective(old, "SETPCAP")
                                                       THEN Named ELSE {}}
             \cup {SetSecurebits(old.caps, b) : b \in IF HasEffective(old, "SETPCAP")
                                                       THEN BitRequests ELSE {}}
             \cup {SetKeepCaps(old.caps, b) : b \in BOOLEAN}}
  \cup {FromTransition(old, [old EXCEPT !.nnp = TRUE], "Normal")}
  \cup {WithUserNamespace(old, ns) : ns \in DOMAIN Namespaces}

(* The slow writer prepares a transition against the current credential.   *)
Prepare ==
  /\ pending = NoPlan
  /\ \E new \in Transitions(task) \ {Refused} :
       pending' = [exec |-> FALSE, cred |-> new, fresh |-> TRUE]
  /\ UNCHANGED <<task, image, traced>>

PrepareExec ==
  /\ pending = NoPlan
  /\ \E file \in Files :
       LET p == DeriveExec(task, file, traced)
       IN /\ p # Refused
          /\ CommoncapExec(task, p.cred, traced)
          /\ pending' = [exec |-> TRUE, cred |-> p.cred, fresh |-> TRUE,
                         sensitive |-> p.sensitive, suppressed |-> traced,
                         dumpable |-> p.dumpable, pdeath |-> p.pdeath,
                         personality |-> p.personality]
  /\ UNCHANGED <<task, image, traced>>

(* A set*id or capability transition takes effect, with its image effects. *)
Installed(new) ==
  /\ task' = new
  /\ image' = IF new.ns = task.ns /\ ResetsSecurity(task, new)
                THEN [image EXCEPT !.dumpable = FALSE, !.pdeath = FALSE]
                ELSE image

Publish ==
  /\ pending # NoPlan /\ ~pending.exec /\ ExactOld(pending)
  /\ Installed(pending.cred)
  /\ pending' = NoPlan
  /\ UNCHANGED traced

PublishExec ==
  /\ pending # NoPlan /\ pending.exec /\ ExactOld(pending) /\ ~IsStale(pending, traced)
  /\ task' = pending.cred
  /\ image' = [dumpable |-> pending.dumpable,
               pdeath |-> image.pdeath /\ pending.pdeath,
               personality |-> image.personality /\ pending.personality]
  /\ pending' = NoPlan
  /\ UNCHANGED traced

(* The proposal is dropped: a stale one always ends here.                  *)
Discard ==
  /\ pending # NoPlan
  /\ pending' = NoPlan
  /\ UNCHANGED <<task, image, traced>>

(* The fast writer prepares and publishes while the proposal is pending.   *)
(* Once is enough: the overtaken proposal is stale for good.               *)
Overtake ==
  /\ pending # NoPlan /\ pending.fresh
  /\ \E new \in Transitions(task) \ {Refused} : Installed(new)
  /\ pending' = [pending EXCEPT !.fresh = FALSE]
  /\ UNCHANGED traced

(* A tracer without authority attaches, or leaves.                         *)
Trace ==
  /\ traced' = ~traced
  /\ UNCHANGED <<task, image, pending>>

Next == Prepare \/ PrepareExec \/ Publish \/ PublishExec \/ Discard \/ Overtake \/ Trace

-----------------------------------------------------------------------------
(* The published credential satisfies the capability rules, and a process  *)
(* that is still dumpable, or still armed with a parent-death signal,      *)
(* accesses files under its effective identity: no sequence of set*id      *)
(* calls and execs leaves such an image whose filesystem ids were changed  *)
(* behind it (try_new, validate and the two effects computations).         *)
CredentialSound ==
  /\ task.caps.effective \subseteq task.caps.permitted
  /\ task.caps.ambient \subseteq task.caps.permitted \cap task.caps.inheritable
  /\ task.caps.permitted \subseteq Caps
  /\ image.dumpable \/ image.pdeath => task.u.e = task.u.f /\ task.g.e = task.g.f

(* Whatever was prepared and whoever overtook it, a publication inside one *)
(* namespace never widens the bounding set, never clears no_new_privs or a *)
(* lock, and never changes a locked bit except that exec clears KEEP_CAPS. *)
(* A capability is gained only by an exec that, when it is published, is   *)
(* neither traced nor under no_new_privs, and the new image is then not    *)
(* dumpable and loses its personality flags.                               *)
PrivilegeEarned ==
  LET old == task
      new == task'
      execed == pending # NoPlan /\ pending.exec /\ pending' = NoPlan
  IN new.ns = old.ns =>
       /\ new.caps.bounding \subseteq old.caps.bounding
       /\ old.nnp => new.nnp
       /\ old.caps.securebits \cap Locks \subseteq new.caps.securebits
       /\ \A b \in Bits : LockOf[b] \in old.caps.securebits =>
            \/ (b \in old.caps.securebits) = (b \in new.caps.securebits)
            \/ execed /\ b = "KEEP_CAPS" /\ b \notin new.caps.securebits
       /\ ~(new.caps.permitted \subseteq old.caps.permitted) =>
            execed /\ ~traced /\ ~old.nnp /\ ~image'.dumpable /\ ~image'.personality
=============================================================================
