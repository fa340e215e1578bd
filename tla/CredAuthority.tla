--------------------------- MODULE CredAuthority ---------------------------
(***************************************************************************)
(* What one credential may do to another task (crate cred, security.rs and *)
(* the namespace walks of credential.rs): capabilities across user         *)
(* namespaces, ptrace, signals, and the scheduler calls, which actors      *)
(* repeat on one task.                                                     *)
(*                                                                         *)
(* A credential is [ns, euid, ruid, suid, effective, permitted]; a         *)
(* namespace is [parent, level, owner].                                    *)
(***************************************************************************)
EXTENDS Integers, FiniteSets

CONSTANTS Namespaces, Root,
          Actors,       \* [actor -> credential]
          Target,       \* the credential of the scheduled task
          Start,        \* its scheduling state: [policy, rt, nice, reset]
          RtLimit, NiceLimit,   \* its RLIMIT_RTPRIO and RLIMIT_NICE
          OwnNiceLimit, \* [actor -> its own RLIMIT_NICE]
          Unlimited,    \* RLIM_INFINITY
          Priorities, Nices

VARIABLES sched,
          granted       \* ghost: [rt, nice, reset] an authority left the task with,
                        \* and nobody gave up since

avars == <<sched, granted>>

Level(n) == Namespaces[n].level
Parent(n) == Namespaces[n].parent

(* ns_capable: walk from the target namespace towards the initial one.     *)
NsCapable(actor, target, cap) ==
  LET walk[n \in DOMAIN Namespaces] ==
        IF n = actor.ns THEN cap \in actor.effective
        ELSE IF Level(n) <= Level(actor.ns) \/ n = Root THEN FALSE
        ELSE IF Parent(n) = actor.ns /\ Namespaces[n].owner = actor.euid THEN TRUE
        ELSE walk[Parent(n)]
  IN walk[target]

(* credential_cap_is_subset *)
CapIsSubset(set, subset) ==
  LET walk[n \in DOMAIN Namespaces] ==
        IF Level(n) <= Level(set.ns) THEN FALSE
        ELSE (Parent(n) = set.ns /\ Namespaces[n].owner = set.euid) \/ walk[Parent(n)]
  IN IF set.ns = subset.ns
       THEN subset.permitted \subseteq set.permitted
       ELSE walk[subset.ns]

(* commoncap_ptrace_allows, with the capability set the caller selects.    *)
PtraceAllows(actor, target, kind) ==
  \/ /\ actor.ns = target.ns
     /\ target.permitted \subseteq (IF kind = "Real" THEN actor.permitted ELSE actor.effective)
  \/ NsCapable(actor, target.ns, "SYS_PTRACE")

(* authorize_signal_core: the first reason that applies, or "NotPermitted".*)
SignalReason(actor, target, isSigcont, sameGroup, sameSession) ==
  CASE sameGroup -> "SameThreadGroup"
    [] ~sameGroup /\ {actor.ruid, actor.euid} \cap {target.ruid, target.suid} # {} ->
         "CredentialMatch"
    [] OTHER ->
         IF NsCapable(actor, target.ns, "KILL") THEN "Capability"
         ELSE IF isSigcont /\ sameSession THEN "SigcontSameSession"
         ELSE "NotPermitted"

-----------------------------------------------------------------------------
(* Scheduler calls *)

NiceToRlimit(nice) == 20 - nice
RlimitAllowsNice(limit, nice) == limit <= 40 /\ nice \in -20..19 /\ NiceToRlimit(nice) <= limit

OwnerMatches(actor) == actor.euid \in {Target.ruid, Target.euid}
TargetCapable(actor) == NsCapable(actor, Target.ns, "SYS_NICE")
CallerCapable(actor) == NsCapable(actor, actor.ns, "SYS_NICE")

Realtime == {"fifo", "rr"}
IdleNice == 20
EffectiveNice(state) == IF state.policy = "idle" THEN IdleNice ELSE state.nice

RaisesNice(actor, current, nice, limit) ==
  nice < current /\ ~CallerCapable(actor) /\ ~RlimitAllowsNice(limit, nice)

(* commoncap_scheduler: a call is refused when one of its arms refuses.    *)
PolicyRefused(actor, new) ==
  \/ ~TargetCapable(actor) /\ sched.reset /\ ~new.reset
  \/ ~TargetCapable(actor) /\ sched.policy # new.policy /\ new.policy \in Realtime /\ RtLimit = 0
  \/ ~TargetCapable(actor) /\ new.policy \in Realtime /\ new.rt > sched.rt /\ new.rt > RtLimit
  \/ RaisesNice(actor, EffectiveNice(sched), new.nice, NiceLimit)
  \/ /\ ~TargetCapable(actor) /\ sched.policy = "idle" /\ new.policy # "idle"
     /\ ~RlimitAllowsNice(NiceLimit, new.nice)

ParamRefused(actor, rt) ==
  /\ sched.policy \in Realtime /\ rt > sched.rt /\ ~CallerCapable(actor)
  /\ RtLimit # Unlimited /\ rt > RtLimit

MayOperate(actor) == OwnerMatches(actor) \/ TargetCapable(actor)

Init ==
  /\ sched = Start
  /\ granted = [rt |-> Start.rt, nice |-> EffectiveNice(Start), reset |-> Start.reset]

(* The kernel stores what was authorized.  An authority for a field grants  *)
(* its new value; anyone else can only give up what was granted.            *)
Lower(a, b) == IF a < b THEN a ELSE b
Higher(a, b) == IF a > b THEN a ELSE b
Store(new, mayRt, mayNice, mayReset) ==
  LET nice == EffectiveNice(new) IN
  /\ sched' = new
  /\ granted' = [rt    |-> IF mayRt THEN new.rt ELSE Lower(granted.rt, new.rt),
                 nice  |-> IF mayNice THEN nice ELSE Higher(granted.nice, nice),
                 reset |-> IF mayReset THEN new.reset ELSE granted.reset \/ new.reset]

(* sched_setattr: the authorized policy, priority and nice are installed.  *)
(* Leaving SCHED_IDLE takes the capability in both namespaces.             *)
SetPolicy(a) ==
  \E policy \in Realtime \cup {"other", "idle"}, rt \in Priorities, nice \in Nices, reset \in BOOLEAN :
    LET new == [policy |-> policy, rt |-> IF policy \in Realtime THEN rt ELSE 0,
                nice |-> nice, reset |-> reset]
        over == NsCapable(Actors[a], Target.ns, "SYS_NICE")
    IN /\ MayOperate(Actors[a]) /\ ~PolicyRefused(Actors[a], new)
       /\ Store(new, over, CallerCapable(Actors[a]) /\ (sched.policy = "idle" => over), over)

SetParam(a) ==
  /\ sched.policy \in Realtime
  /\ \E rt \in Priorities :
       /\ MayOperate(Actors[a]) /\ ~ParamRefused(Actors[a], rt)
       /\ Store([sched EXCEPT !.rt = rt], CallerCapable(Actors[a]), FALSE, FALSE)

(* The limit of SetNice is the caller's, so it grants what that admits.    *)
SetNice(a) ==
  \E nice \in Nices :
    /\ MayOperate(Actors[a]) /\ ~RaisesNice(Actors[a], sched.nice, nice, OwnNiceLimit[a])
    /\ Store([sched EXCEPT !.nice = nice], FALSE,
             CallerCapable(Actors[a]) \/ RlimitAllowsNice(OwnNiceLimit[a], nice), FALSE)

Next == \E a \in DOMAIN Actors : SetPolicy(a) \/ SetParam(a) \/ SetNice(a)

-----------------------------------------------------------------------------
(* However calls of different actors are combined, the task's real-time    *)
(* priority and its effective nice value exceed its own limits only by a   *)
(* grant that nobody has given up since, and reset-on-fork is cleared only *)
(* with CAP_SYS_NICE over its namespace: not by leaving a class and coming *)
(* back, not by passing through SCHED_IDLE, and not by splitting a change  *)
(* into several calls (commoncap_scheduler).  A grant is a real-time       *)
(* priority or policy change with CAP_SYS_NICE over the target's namespace *)
(* (sched_setparam: over the caller's), or a nice value with CAP_SYS_NICE  *)
(* over the caller's or, for SetNice, within the caller's own limit.       *)
SchedulerBounded ==
  /\ sched.rt <= Higher(granted.rt, RtLimit)
  /\ EffectiveNice(sched) >= Lower(granted.nice, 20 - NiceLimit)
  /\ granted.reset => sched.reset

(* The walks agree with the tree: an actor is capable over a namespace     *)
(* exactly when its own is the target or an ancestor of it and it holds    *)
(* the capability or owns the child through which the path enters; so      *)
(* authority over a namespace extends to all of its descendants, and a     *)
(* credential never dominates one outside its subtree (ns_capable,         *)
(* credential_cap_is_subset).  Ptrace and signal decisions grant an actor  *)
(* nothing that they deny one of the same identity with more authority.    *)
AuthorityExact(actor, other, target, cap) ==
  LET above[n \in DOMAIN Namespaces] ==
        IF n = Root THEN {Root} ELSE {n} \cup above[Parent(n)]
      entered == {n \in above[target] : n # Root /\ Parent(n) = actor.ns}
      owns == \E n \in entered : Namespaces[n].owner = actor.euid
      stronger(x) == x.ns = actor.ns /\ x.euid = actor.euid /\ x.ruid = actor.ruid
                     /\ actor.effective \subseteq x.effective
                     /\ actor.permitted \subseteq x.permitted
  IN /\ NsCapable(actor, target, cap) <=>
          actor.ns \in above[target] /\ (cap \in actor.effective \/ owns)
     /\ \A n \in DOMAIN Namespaces :
          target \in above[n] /\ NsCapable(actor, target, cap) => NsCapable(actor, n, cap)
     /\ CapIsSubset(actor, other) => actor.ns \in above[other.ns]
     /\ CapIsSubset(actor, other) /\ CapIsSubset(other, actor) => actor.ns = other.ns
     /\ stronger(other) =>
          /\ \A kind \in {"Real", "Fs"}, t \in {actor, [other EXCEPT !.ns = target]} :
               PtraceAllows(actor, t, kind) => PtraceAllows(other, t, kind)
          /\ \A same, session \in BOOLEAN :
               LET t == [actor EXCEPT !.ns = target, !.ruid = 2, !.suid = 2]
               IN SignalReason(actor, t, TRUE, same, session) # "NotPermitted"
                    => SignalReason(other, t, TRUE, same, session) # "NotPermitted"
=============================================================================
