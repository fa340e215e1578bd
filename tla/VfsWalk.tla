------------------------------- MODULE VfsWalk -------------------------------
(***************************************************************************)
(* A path walk under openat2 restrictions and finite budgets (crates/vfs   *)
(* path.rs, context.rs).  The walker is the embedding kernel's: before it  *)
(* follows a link, crosses a mount, restarts or leaves the root it asks    *)
(* Openat2Policy and charges WalkBudget.                                   *)
(*                                                                         *)
(* Places: the directory above the operation root, the root, a child, and  *)
(* a directory of another mount below the child.                           *)
(***************************************************************************)
EXTENDS Integers

CONSTANTS
  FlagSets,        \* resolve bits of openat2
  Limits,          \* PathLimits
  Bytes            \* lengths of components

VARIABLES
  flags, at, budget,
  ended            \* None, "Done" or the WalkError

wvars == <<flags, at, budget, ended>>

None == "none"
Exceeded == [exceeded |-> TRUE]
Known == {"NO_XDEV", "NO_MAGIC_LINKS", "NO_SYMLINKS", "BENEATH", "IN_ROOT", "CACHED"}
Places == {"above", "root", "child", "mount"}
Inside == {"root", "child", "mount"}
Mount(place) == IF place = "mount" THEN 2 ELSE 1
Fresh == [path_bytes |-> 0, components |-> 0, symlinks |-> 0, restarts |-> 0, mount_crossings |-> 0, retries |-> 0]

(* ResolveFlags::from_bits *)
FlagsValid(f) == f \subseteq Known /\ ~({"BENEATH", "IN_ROOT"} \subseteq f)

(* PathContext::new *)
Init ==
  /\ flags \in {f \in FlagSets : FlagsValid(f)}
  /\ at = "root" /\ budget = Fresh /\ ended = None

ScopeOfBeneath == {"BENEATH"} \cap flags # {}

(* Magic links may lead anywhere, so both scopes refuse them *)
Scoped == {"BENEATH", "IN_ROOT"} \cap flags # {}

(* Openat2Policy::authorize *)
Authorize(event) ==
  CASE event.kind = "FollowSymlink" ->
         IF "NO_SYMLINKS" \in flags THEN "SymbolicLinkLoop" ELSE "Continue"
    [] event.kind = "FollowMagicLink" ->
         IF {"NO_SYMLINKS", "NO_MAGIC_LINKS"} \cap flags # {} THEN "SymbolicLinkLoop"
         ELSE IF Scoped \/ ("NO_XDEV" \in flags /\ ~event.stays) THEN "CrossDevice" ELSE "Continue"
    [] event.kind = "CrossMount" ->
         IF "NO_XDEV" \in flags THEN "CrossDevice" ELSE "Continue"
    [] event.kind \in {"AbsoluteRestart", "EscapeRoot"} ->
         IF "BENEATH" \in flags THEN "CrossDevice"
         ELSE IF "IN_ROOT" \in flags THEN "OperationRoot" ELSE "Continue"
    [] event.kind = "CacheMiss" ->
         IF "CACHED" \in flags THEN "RetryWithoutCached" ELSE "Continue"

Allows(event) == Authorize(event) \in {"Continue", "OperationRoot"}

(* WalkBudget::component: all three limits are checked before either counter
   moves; Exceeded when one is passed *)
ChargeComponent(bytes) ==
  IF \/ bytes > Limits.max_component_bytes
     \/ budget.path_bytes + bytes > Limits.max_path_bytes
     \/ budget.components + 1 > Limits.max_components THEN Exceeded
  ELSE [budget EXCEPT !.path_bytes = @ + bytes, !.components = @ + 1]

(* WalkBudget::add, for symlink, restart, mount_crossing and retry *)
Charge(counter, limit) == IF budget[counter] + 1 > limit THEN Exceeded ELSE [budget EXCEPT ![counter] = @ + 1]

Stop(why) == ended' = why /\ UNCHANGED <<flags, at, budget>>
Go(place, charged) == at' = place /\ budget' = charged /\ UNCHANGED <<flags, ended>>
Pay(place, charged) == IF charged = Exceeded THEN Stop("Limit") ELSE Go(place, charged)

(* A name below the current directory *)
Descend(bytes) ==
  /\ ended = None /\ at \in {"above", "root"}
  /\ Pay(IF at = "above" THEN "root" ELSE "child", ChargeComponent(bytes))

CrossMount ==
  /\ ended = None /\ at \in {"child", "mount"}
  /\ IF Allows([kind |-> "CrossMount"])
       THEN Pay(IF at = "child" THEN "mount" ELSE "child", Charge("mount_crossings", Limits.max_mount_crossings))
       ELSE Stop(Authorize([kind |-> "CrossMount"]))

(* "..", which at the root asks for EscapeRoot *)
Ascend(bytes) ==
  LET verdict == Authorize([kind |-> "EscapeRoot"])
  IN  /\ ended = None /\ at \in {"root", "child"}
      /\ IF at = "child" THEN Pay("root", ChargeComponent(bytes))
         ELSE IF verdict = "CrossDevice" THEN Stop(verdict)
         ELSE Pay(IF verdict = "OperationRoot" THEN "root" ELSE "above", ChargeComponent(bytes))

FollowRelative ==
  /\ ended = None
  /\ IF Allows([kind |-> "FollowSymlink"])
       THEN Pay(at, Charge("symlinks", Limits.max_symlinks))
       ELSE Stop(Authorize([kind |-> "FollowSymlink"]))

StopAfter(charged, why) == ended' = why /\ budget' = charged /\ UNCHANGED <<flags, at>>

(* An absolute target restarts at the process root, which is above; a restart
   that is refused has already counted its link *)
FollowAbsolute ==
  LET restart == Authorize([kind |-> "AbsoluteRestart"])
      followed == Charge("symlinks", Limits.max_symlinks)
  IN  /\ ended = None
      /\ IF ~Allows([kind |-> "FollowSymlink"]) THEN Stop(Authorize([kind |-> "FollowSymlink"]))
         ELSE IF followed = Exceeded THEN Stop("Limit")
         ELSE IF restart = "CrossDevice" THEN StopAfter(followed, restart)
         ELSE IF budget.restarts + 1 > Limits.max_restarts THEN StopAfter(followed, "Limit")
         ELSE Go(IF restart = "OperationRoot" THEN "root" ELSE "above", [followed EXCEPT !.restarts = @ + 1])

FollowMagic(target) ==
  LET event == [kind |-> "FollowMagicLink", stays |-> Mount(target) = Mount(at)]
  IN  /\ ended = None
      /\ IF Allows(event) THEN Pay(target, Charge("symlinks", Limits.max_symlinks)) ELSE Stop(Authorize(event))

MissCache ==
  /\ ended = None
  /\ IF Allows([kind |-> "CacheMiss"])
       THEN Pay(at, Charge("retries", Limits.max_retries))
       ELSE Stop(Authorize([kind |-> "CacheMiss"]))

Finish == ended = None /\ Stop("Done")

Next ==
  \/ \E bytes \in Bytes : Descend(bytes) \/ Ascend(bytes)
  \/ CrossMount \/ FollowRelative \/ FollowAbsolute \/ MissCache \/ Finish
  \/ \E target \in Places : FollowMagic(target)

Spec == Init /\ [][Next]_wvars

-----------------------------------------------------------------------------
(* The restrictions hold of the walk as a whole, not only of one event: a
   scoped walk is below its root after any mix of links, restarts and "..", a
   NO_XDEV walk stays on its mount, NO_SYMLINKS follows nothing; and every
   counter is within its limit, so a walk ends. *)
WalkConfined ==
  /\ "BENEATH" \in flags \/ "IN_ROOT" \in flags => at \in Inside
  /\ "NO_XDEV" \in flags => Mount(at) = Mount("root")
  /\ "NO_SYMLINKS" \in flags => budget.symlinks = 0 /\ budget.restarts = 0
  /\ budget.path_bytes <= Limits.max_path_bytes /\ budget.components <= Limits.max_components
  /\ budget.symlinks <= Limits.max_symlinks /\ budget.restarts <= Limits.max_restarts
  /\ budget.mount_crossings <= Limits.max_mount_crossings /\ budget.retries <= Limits.max_retries

(* A step of a walk that goes on spends some budget, and no step gives any
   back. *)
WalkSpends ==
  /\ ended' = None => \E counter \in DOMAIN budget : budget'[counter] > budget[counter]
  /\ \A counter \in DOMAIN budget : budget'[counter] >= budget[counter]
=============================================================================
