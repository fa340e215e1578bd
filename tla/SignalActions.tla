--------------------------- MODULE SignalActions ----------------------------
(***************************************************************************)
(* Signal dispositions of crates/signal (api/process.rs): action owners    *)
(* shared by process managers, the generation of a disposition, and the    *)
(* claim a delivery holds on an SA_RESETHAND handler between its selection *)
(* and the publication of its frame.                                       *)
(*                                                                         *)
(* The table of one signal is modelled.  Every operation runs under the    *)
(* owner's update gate, so it is one step; between ClaimDelivery and       *)
(* FinishDelivery anything may happen, an exec that gives the manager      *)
(* another owner included.                                                 *)
(***************************************************************************)
EXTENDS Integers, Sequences, FiniteSets

CONSTANTS
  Managers, Deliveries,
  MaxGeneration,   \* generations per owner (2^64 in the code)
  MaxOwners        \* bound on SharedSignalActions objects

VARIABLES
  owners,     \* SharedSignalActions: action, generation, claimed generation
  manager,    \* manager -> its owner, or 0 before it exists
  exec,       \* managers with a PreparedExecUnshare
  delivery,   \* delivery -> the owner and generation it has claimed
  wanted,     \* ghost: owner -> the action last installed
  runs        \* ghost: owner -> handler frames published for that installation

vars == <<owners, manager, exec, delivery, wanted, runs>>

Actions == {"default", "ignore", "handler", "resethand"}
NoClaim == -1
Idle == [owner |-> 0, generation |-> 0]
Fresh(action) == [action |-> action, generation |-> 0, claim |-> NoClaim]

Init ==
  /\ owners = <<Fresh("default")>>
  /\ \E m \in Managers : manager = [n \in Managers |-> IF n = m THEN 1 ELSE 0]
  /\ exec = {} /\ delivery = [d \in Deliveries |-> Idle]
  /\ wanted = <<"default">> /\ runs = <<0>>

-----------------------------------------------------------------------------
ResetClaimIsCurrent(t) == t.claim = t.generation
EffectiveAction(t) == IF ResetClaimIsCurrent(t) THEN "default" ELSE t.action

Existing == {m \in Managers : manager[m] # 0}

(* try_replace_action; an exhausted generation is an error *)
Replace(m, action) ==
  LET o == manager[m] IN
  /\ m \in Existing /\ owners[o].generation < MaxGeneration
  /\ owners' = [owners EXCEPT ![o] = [owners[o] EXCEPT !.action = action, !.generation = @ + 1]]
  /\ wanted' = [wanted EXCEPT ![o] = action] /\ runs' = [runs EXCEPT ![o] = 0]
  /\ UNCHANGED <<manager, exec, delivery>>

(* claim_delivery: a handler that is not one-shot leaves no trace, and neither
   does the default action of a handler claimed by another delivery. *)
Claimable(t) == ~ResetClaimIsCurrent(t)
ClaimDelivery(d, m) ==
  LET o == manager[m] IN
  /\ m \in Existing /\ delivery[d] = Idle
  /\ Claimable(owners[o]) /\ owners[o].action = "resethand"
  /\ owners' = [owners EXCEPT ![o].claim = owners[o].generation]
  /\ delivery' = [delivery EXCEPT ![d] =
       [owner |-> o, generation |-> owners[o].generation]]
  /\ UNCHANGED <<manager, exec, wanted, runs>>

(* finish_delivery, on the exact owner the claim came from *)
FinishedAnyGeneration(t, generation, commit) ==
  IF t.claim # generation THEN t
  ELSE [t EXCEPT !.claim = NoClaim, !.action = IF commit THEN "default" ELSE @]
Finished(t, generation, commit) ==
  IF t.claim # generation THEN t
  ELSE [t EXCEPT !.claim = NoClaim,
                 !.action = IF commit /\ t.generation = generation THEN "default" ELSE @]
FinishDelivery(d, commit) ==
  LET r == delivery[d] IN
  /\ r # Idle
  /\ owners' = [owners EXCEPT ![r.owner] = Finished(@, r.generation, commit)]
  /\ runs' = IF commit /\ owners[r.owner].generation = r.generation
             THEN [runs EXCEPT ![r.owner] = @ + 1] ELSE runs
  /\ delivery' = [delivery EXCEPT ![d] = Idle]
  /\ UNCHANGED <<manager, exec, wanted>>

(* A new process: with the parent's owner (CLONE_SIGHAND), or with a copy of
   the effective actions (try_snapshot, actions_snapshot). *)
Share(m, n) ==
  /\ m \in Existing /\ n \notin Existing
  /\ manager' = [manager EXCEPT ![n] = manager[m]]
  /\ UNCHANGED <<owners, exec, delivery, wanted, runs>>
Copied(action) ==
  /\ owners' = Append(owners, Fresh(action)) /\ wanted' = Append(wanted, action)
  /\ runs' = Append(runs, 0)
Fork(m, n) ==
  /\ m \in Existing /\ n \notin Existing /\ Len(owners) < MaxOwners
  /\ Copied(EffectiveAction(owners[manager[m]]))
  /\ manager' = [manager EXCEPT ![n] = Len(owners) + 1]
  /\ UNCHANGED <<exec, delivery>>

(* try_prepare_exec_unshare, PreparedExecUnshare::commit and its drop.  The
   owner allocated by the first is not visible before the second, which copies
   the source again. *)
PrepareExec(m) ==
  /\ m \in Existing \ exec /\ exec' = exec \union {m}
  /\ UNCHANGED <<owners, manager, delivery, wanted, runs>>
ExecSnapshot(t) == IF EffectiveAction(t) = "ignore" THEN "ignore" ELSE "default"
CommitExec(m) ==
  /\ m \in exec /\ exec' = exec \ {m} /\ Len(owners) < MaxOwners
  /\ Copied(ExecSnapshot(owners[manager[m]]))
  /\ manager' = [manager EXCEPT ![m] = Len(owners) + 1]
  /\ UNCHANGED delivery
DropExec(m) ==
  /\ m \in exec /\ exec' = exec \ {m}
  /\ UNCHANGED <<owners, manager, delivery, wanted, runs>>

Next ==
  \/ \E m \in Managers, action \in Actions : Replace(m, action)
  \/ \E d \in Deliveries : \/ \E m \in Managers : ClaimDelivery(d, m)
                           \/ \E commit \in BOOLEAN : FinishDelivery(d, commit)
  \/ \E m, n \in Managers : Share(m, n) \/ Fork(m, n)
  \/ \E m \in Managers : PrepareExec(m) \/ CommitExec(m) \/ DropExec(m)

Spec == Init /\ [][Next]_vars

-----------------------------------------------------------------------------
TypeOK ==
  /\ \A o \in 1..Len(owners) :
       owners[o] \in [action : Actions, generation : 0..MaxGeneration,
                      claim : {NoClaim} \union 0..MaxGeneration]
  /\ manager \in [Managers -> 0..Len(owners)] /\ exec \subseteq Existing
  /\ delivery \in [Deliveries -> [owner : 0..Len(owners), generation : 0..MaxGeneration]]
  /\ Len(owners) <= MaxOwners

(* An SA_RESETHAND handler runs at most once per installation, however many
   deliveries of processes that share the table race for it (claim_delivery). *)
ResetHandOnce == \A o \in 1..Len(owners) : wanted[o] = "resethand" => runs[o] <= 1

(* A claim that hides the handler belongs to a delivery that is still going to
   finish it, also after an exec gave its manager another owner: no disposition
   is left at default for good by a claim nobody holds. *)
ClaimHeld ==
  \A o \in 1..Len(owners) : ResetClaimIsCurrent(owners[o]) =>
    \E d \in Deliveries : delivery[d].owner = o /\ delivery[d].generation = owners[o].generation

(* The stored action is the one last installed, except that a one-shot handler
   that has run is default: a delivery that finishes late never resets a newer
   disposition (finish_delivery). *)
NewerDispositionKept ==
  \A o \in 1..Len(owners) : owners[o].action # wanted[o] =>
    owners[o].action = "default" /\ wanted[o] = "resethand" /\ runs[o] = 1

OneShotExact == ResetHandOnce /\ ClaimHeld /\ NewerDispositionKept
=============================================================================
