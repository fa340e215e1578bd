-------------------------- MODULE ProcessReparent --------------------------
(***************************************************************************)
(* Parents, reaper scopes and the multi-section final exit of              *)
(* crates/process/src/process.rs.                                          *)
(*                                                                         *)
(* ProcessExitAdmission::commit publishes the zombie in one topology       *)
(* section and then walks the registry in PID order, a bounded batch per   *)
(* topology section, moving the children of the exiting process to a       *)
(* reaper.  Between sections other processes fork, exit and are reaped;    *)
(* inside a section only what does not take `topology` can happen (fork,   *)
(* subreaper changes, exit rollback).  `topo` is the holder of that lock.  *)
(* A step inside a section handles one scanned registry entry.             *)
(***************************************************************************)
EXTENDS Integers, FiniteSets, FiniteSetsExt

CONSTANTS
  N,           \* PIDs are 1..N, process 1 is the root init; a PID names one object
  Scopes,      \* ReaperScope objects
  RootScope,
  Batch,       \* REPARENT_BATCH_LIMIT
  Nobody,      \* no process, no scope
  Booted,      \* processes that already run in the initial state
  Subreapers,  \* those of them that are child subreapers
  Exiters,     \* the processes whose exit is explored
  MaxToggles   \* bound on the number of set_child_subreaper calls

ASSUME ReparentAssumption ==
  /\ N \in Nat \ {0} /\ Batch \in Nat \ {0} /\ MaxToggles \in Nat
  /\ RootScope \in Scopes /\ Nobody \notin (1..N) \union Scopes
  /\ Booted \subseteq 1..N /\ 1 \in Booted

Pids == 1..N

VARIABLES
  status,        \* "none" | "admitted" | "published" | "zombie" | "reaped"
  parent,        \* Process.parent
  scope,         \* Process.reaper_scope
  isInit,        \* Process.init
  subreaper,     \* Process.child_subreaper
  hasThread,     \* live_threads # 0
  exit_prepared, \* ThreadGroup.exit_prepared
  scopeInit,     \* ReaperScope.init
  outer,         \* ReaperScope.outer_scope
  topo,          \* holder of the topology lock, or Nobody
  ex,            \* progress of the exit of each process, see ExitState
  told,          \* who has been notified of each zombie
  panicked,      \* the assertion of ScopedInitProcessAdmission::bind failed
  toggles        \* set_child_subreaper calls so far

reparentVars == <<status, parent, scope, isInit, subreaper, hasThread, exit_prepared,
          scopeInit, outer, topo, ex, told, panicked, toggles>>
treeVars == <<parent, scope, isInit, scopeInit, outer, panicked, toggles>>

InRegistry(p) == status[p] \in {"admitted", "published", "zombie"}
Published(p) == status[p] \in {"published", "zombie"}

(* The flags published and is_zombie stay set on a reaped object. *)
PublishedFlag(p) == status[p] \in {"published", "zombie", "reaped"}
IsZombie(p) == status[p] \in {"zombie", "reaped"}

(* Local state of commit_with_reparent_handoff. *)
Idle == [pc |-> "none", after |-> 0, upper |-> 0, deferred |-> Nobody,
         len |-> 0, reaper |-> Nobody, moved |-> {}, finished |-> FALSE]

Exiting(p) == ex[p].pc \in {"zombie", "between", "section", "handoff"}

(* Contract of prepare_fork and exit: the adapter serializes child admission
   and its commit against the exit of the same parent. *)
ForkInProgress(q) == \E p \in Pids : status[p] = "admitted" /\ parent[p] = q
ForkAllowed(q) == status[q] = "published" /\ ~exit_prepared[q]

-----------------------------------------------------------------------------
(* Any process tree that forks in PID order build: a scope's first process is
   its init, forked from a process of the outer scope. *)
ReparentInit ==
  /\ status = [p \in Pids |-> IF p \in Booted THEN "published" ELSE "none"]
  /\ parent \in {f \in [Pids -> Pids \union {Nobody}] : \A p \in Pids :
                  IF p \in Booted \ {1} THEN f[p] \in Booted /\ f[p] < p ELSE f[p] = Nobody}
  /\ scope \in {f \in [Pids -> Scopes] : \A p \in Pids : p \notin Booted \ {1} => f[p] = RootScope}
  /\ scopeInit = [s \in Scopes |-> LET m == {p \in Booted : scope[p] = s}
                                  IN  IF m = {} THEN Nobody ELSE Min(m)]
  /\ isInit = [p \in Pids |-> p \in Booted /\ p = scopeInit[scope[p]]]
  /\ outer = [s \in Scopes |-> IF scopeInit[s] \in {1, Nobody} THEN Nobody
                               ELSE scope[parent[scopeInit[s]]]]
  /\ subreaper = [p \in Pids |-> p \in Subreapers]
  /\ hasThread = [p \in Pids |-> p \in Booted]
  /\ exit_prepared = [p \in Pids |-> FALSE]
  /\ topo = Nobody
  /\ ex = [p \in Pids |-> Idle]
  /\ told = [p \in Pids |-> {}]
  /\ panicked = FALSE
  /\ toggles = 0

(* The object of an unpublished process is unlinked and dropped. *)
Discard(p) ==
  /\ status' = [status EXCEPT ![p] = "none"]
  /\ parent' = [parent EXCEPT ![p] = Nobody]
  /\ scope' = [scope EXCEPT ![p] = RootScope]
  /\ isInit' = [isInit EXCEPT ![p] = FALSE]

(* prepare_fork_in_reaper_scope_with_identity *)
PrepareFork(q, p, s) ==
  /\ ForkAllowed(q) /\ status[p] = "none" /\ scopeInit[s] # Nobody
  /\ status' = [status EXCEPT ![p] = "admitted"]
  /\ parent' = [parent EXCEPT ![p] = q]
  /\ scope' = [scope EXCEPT ![p] = s]
  /\ isInit' = [isInit EXCEPT ![p] = FALSE]
  /\ UNCHANGED <<subreaper, hasThread, exit_prepared, scopeInit, outer, topo, ex, told, panicked, toggles>>

(* prepare_fork_as_reaper_scope_init_with_identity *)
PrepareForkInit(q, p, s) ==
  /\ ForkAllowed(q) /\ status[p] = "none" /\ scopeInit[s] = Nobody
  /\ status' = [status EXCEPT ![p] = "admitted"]
  /\ parent' = [parent EXCEPT ![p] = q]
  /\ scope' = [scope EXCEPT ![p] = s]
  /\ isInit' = [isInit EXCEPT ![p] = TRUE]
  /\ UNCHANGED <<subreaper, hasThread, exit_prepared, scopeInit, outer, topo, ex, told, panicked, toggles>>

(* ProcessAdmission::commit / commit_with_thread / InitialProcessAdmission::commit *)
CommitFork(p, withThread) ==
  /\ status[p] = "admitted" /\ ~isInit[p]
  /\ status' = [status EXCEPT ![p] = "published"]
  /\ hasThread' = [hasThread EXCEPT ![p] = withThread]
  /\ UNCHANGED <<treeVars, subreaper, exit_prepared, topo, ex, told>>

(* Scoped commit: bind scope.init and outer_scope, then publish.  Without an
   initial thread an already bound scope is an assertion failure; with one
   it is AlreadyExists and the token rolls back (RollbackFork). *)
CommitForkInit(p, withThread) ==
  /\ status[p] = "admitted" /\ isInit[p]
  /\ \/ /\ scopeInit[scope[p]] = Nobody
        /\ scopeInit' = [scopeInit EXCEPT ![scope[p]] = p]
        /\ outer' = [outer EXCEPT ![scope[p]] = scope[parent[p]]]
        /\ status' = [status EXCEPT ![p] = "published"]
        /\ hasThread' = [hasThread EXCEPT ![p] = withThread]
        /\ UNCHANGED <<panicked, parent, scope, isInit>>
     \/ /\ scopeInit[scope[p]] # Nobody /\ ~withThread
        /\ panicked' = TRUE
        /\ Discard(p)
        /\ UNCHANGED <<scopeInit, outer, hasThread>>
  /\ UNCHANGED <<subreaper, exit_prepared, topo, ex, told, toggles>>

(* Drop for ProcessAdmission *)
RollbackFork(p) ==
  /\ status[p] = "admitted"
  /\ Discard(p)
  /\ UNCHANGED <<subreaper, hasThread, exit_prepared, scopeInit, outer, topo, ex, told,
                 panicked, toggles>>

(* Process::set_child_subreaper, an atomic store under no lock *)
SetSubreaper(p, on) ==
  /\ status[p] = "published" /\ subreaper[p] # on /\ toggles < MaxToggles
  /\ subreaper' = [subreaper EXCEPT ![p] = on]
  /\ toggles' = toggles + 1
  /\ UNCHANGED <<parent, scope, isInit, scopeInit, outer, panicked, status, hasThread, exit_prepared, topo, ex, told>>

-----------------------------------------------------------------------------
(* prepare_exit, or exit_thread of the final thread *)
PrepareExit(p) ==
  /\ topo = Nobody /\ ~ForkInProgress(p) /\ p \in Exiters
  /\ status[p] = "published" /\ ~isInit[p] /\ ~exit_prepared[p]
  /\ exit_prepared' = [exit_prepared EXCEPT ![p] = TRUE]
  /\ ex' = [ex EXCEPT ![p] = [Idle EXCEPT !.pc = IF hasThread[p] THEN "departing" ELSE "prepared"]]
  /\ hasThread' = [hasThread EXCEPT ![p] = FALSE]
  /\ UNCHANGED <<treeVars, status, subreaper, topo, told>>

(* Drop for ProcessExitAdmission *)
RollbackExit(p) ==
  /\ ex[p].pc \in {"prepared", "departing"}
  /\ exit_prepared' = [exit_prepared EXCEPT ![p] = FALSE]
  /\ hasThread' = [hasThread EXCEPT ![p] = ex[p].pc = "departing"]
  /\ ex' = [ex EXCEPT ![p] = Idle]
  /\ UNCHANGED <<treeVars, status, subreaper, topo, told>>

(* notification_parent, captured in the section that publishes the zombie *)
NotificationParent(p) == {parent[p]} \ {Nobody}

CommitExit(p) ==
  /\ topo = Nobody /\ ex[p].pc \in {"prepared", "departing"}
  /\ status' = [status EXCEPT ![p] = "zombie"]
  /\ exit_prepared' = [exit_prepared EXCEPT ![p] = FALSE]
  /\ told' = [told EXCEPT ![p] = NotificationParent(p)]
  /\ ex' = [ex EXCEPT ![p].pc = "zombie"]
  /\ UNCHANGED <<treeVars, subreaper, hasThread, topo>>

(* processes_through_current_max: the state lock alone *)
CaptureBound(p) ==
  /\ ex[p].pc = "zombie"
  /\ ex' = [ex EXCEPT ![p] = [@ EXCEPT !.pc = "between", !.upper = Max({q \in Pids : InRegistry(q)} \union {0})]]
  /\ UNCHANGED <<treeVars, status, subreaper, hasThread, exit_prepared, topo, told>>

KeepReaper(p) == ex[p].reaper

NoReaperYet(p) == Nobody

BeginSection(p) ==
  /\ topo = Nobody /\ ex[p].pc = "between"
  /\ topo' = p
  /\ ex' = [ex EXCEPT ![p] = [@ EXCEPT !.pc = "section", !.len = 0, !.reaper = NoReaperYet(p), !.moved = {}]]
  /\ UNCHANGED <<treeVars, status, subreaper, hasThread, exit_prepared, told>>

-----------------------------------------------------------------------------
EligibleUnscoped(q, s) ==
  subreaper[q] /\ hasThread[q] /\ ~exit_prepared[q] /\ ~IsZombie(q)

(* A live child subreaper of the child's scope *)
Eligible(q, s) ==
  scope[q] = s /\ subreaper[q] /\ hasThread[q] /\ ~exit_prepared[q] /\ ~IsZombie(q)

(* An object that is reaped and has finished its exit may have been freed. *)
MayBeFreed == {q \in Pids : status[q] = "reaped" /\ ex[q].pc = "done"}

FallbackSelf(child) == scopeInit[scope[child]]

Fallback(child) ==
  IF scopeInit[scope[child]] = child THEN scopeInit[outer[scope[child]]]
                                     ELSE scopeInit[scope[child]]

(* select_reaper_for_exit_locked: the nearest eligible ancestor of the exiting
   process, looked for while the walk stays in the child's scope. *)
SelectReaper(p, child, freed) ==
  LET s == scope[child]
      up == [q \in Pids |-> IF parent[q] \in freed THEN Nobody ELSE parent[q]]
      ends == {q \in Pids : Eligible(q, s) \/ scope[q] # s} \union {Nobody}
      found == [q \in Pids \union {Nobody} |->
                  IF q # Nobody /\ Eligible(q, s) THEN q ELSE Fallback(child)]
      walk[fuel \in 0..N] ==
        [q \in Pids \union {Nobody} |->
           IF q \in ends \/ fuel = 0 THEN found[q] ELSE walk[fuel - 1][up[q]]]
  IN  walk[N][up[p]]

(* The next registry entry of the cursor, or Nobody when it has finished. *)
NextRaw(p) ==
  LET rest == {q \in Pids : InRegistry(q) /\ q > ex[p].after /\ q <= ex[p].upper}
  IN  IF rest = {} THEN Nobody ELSE Min(rest)

NextChild(p) == IF ex[p].deferred # Nobody THEN ex[p].deferred ELSE NextRaw(p)

(* The state after the cursor has handed out `child`. *)
Scanned(p, child) ==
  [ex[p] EXCEPT !.deferred = Nobody, !.len = @ + 1,
                !.after = IF ex[p].deferred # Nobody THEN @ ELSE child]

(* One turn of the inner loop; topology is dropped where the loop ends. *)
Leave(e, close) == IF close \/ e.len = Batch THEN [e EXCEPT !.pc = "handoff"] ELSE e

ScanSkip(p) ==
  /\ topo = p /\ NextChild(p) # Nobody
  /\ LET child == NextChild(p)
         e == Leave(Scanned(p, child), FALSE)
     IN  /\ ~PublishedFlag(child) \/ parent[child] # p
         /\ ex' = [ex EXCEPT ![p] = e]
         /\ topo' = IF e.pc = "handoff" THEN Nobody ELSE p
  /\ UNCHANGED <<treeVars, status, subreaper, hasThread, exit_prepared, told>>

MustDefer(p, r) == ex[p].reaper # Nobody /\ ex[p].reaper # r

(* A child for another reaper than this batch's waits for the next section. *)
ScanDefer(p) ==
  /\ topo = p /\ NextChild(p) # Nobody
  /\ LET child == NextChild(p)
     IN  /\ PublishedFlag(child) /\ parent[child] = p
         /\ \E freed \in SUBSET MayBeFreed : MustDefer(p, SelectReaper(p, child, freed))
         /\ ex' = [ex EXCEPT ![p] = Leave([Scanned(p, child) EXCEPT !.deferred = child], TRUE)]
  /\ topo' = Nobody
  /\ UNCHANGED <<treeVars, status, subreaper, hasThread, exit_prepared, told>>

NotInherited(child) == FALSE

(* was_zombie: the moved child must be reported to its new parent. *)
WasZombie(child) == IsZombie(child)

ScanMove(p) ==
  /\ topo = p /\ NextChild(p) # Nobody
  /\ \E freed \in SUBSET MayBeFreed :
       LET child == NextChild(p)
           r == SelectReaper(p, child, freed)
           e == Leave([Scanned(p, child) EXCEPT
                         !.reaper = IF @ = Nobody THEN r ELSE @,
                         !.moved = @ \union {<<child, r, WasZombie(child)>>}],
                      WasZombie(child))
       IN  /\ PublishedFlag(child) /\ parent[child] = p
           /\ ~MustDefer(p, r)
           /\ parent' = [parent EXCEPT ![child] = r]
           /\ ex' = [ex EXCEPT ![p] = e]
           /\ topo' = IF e.pc = "handoff" THEN Nobody ELSE p
  /\ UNCHANGED <<status, scope, isInit, subreaper, hasThread, exit_prepared,
                 scopeInit, outer, told, panicked, toggles>>

ScanFinished(p) ==
  /\ topo = p /\ NextChild(p) = Nobody
  /\ ex' = [ex EXCEPT ![p] = [@ EXCEPT !.pc = "handoff", !.finished = TRUE]]
  /\ topo' = Nobody
  /\ UNCHANGED <<treeVars, status, subreaper, hasThread, exit_prepared, told>>

(* Outside the lock: reparent_batch, then inherited_zombie for moved zombies. *)
Handoff(p) ==
  /\ ex[p].pc = "handoff"
  /\ told' = [z \in Pids |->
                IF <<z, ex[p].reaper, TRUE>> \in ex[p].moved
                THEN told[z] \union {ex[p].reaper} ELSE told[z]]
  /\ ex' = [ex EXCEPT ![p] =
              IF ex[p].finished THEN [Idle EXCEPT !.pc = "done"]
              ELSE [@ EXCEPT !.pc = "between", !.moved = {}]]
  /\ UNCHANGED <<treeVars, status, subreaper, hasThread, exit_prepared, topo>>

(* ProcessDomain::reap, by any caller *)
ReapZombie(p) ==
  /\ topo = Nobody /\ status[p] = "zombie"
  /\ status' = [status EXCEPT ![p] = "reaped"]
  /\ UNCHANGED <<treeVars, subreaper, hasThread, exit_prepared, topo, ex, told>>

-----------------------------------------------------------------------------
ForkStep ==
  \E p \in Pids :
    \/ \E q \in Pids, s \in Scopes : PrepareFork(q, p, s) \/ PrepareForkInit(q, p, s)
    \/ \E t \in BOOLEAN : CommitFork(p, t) \/ CommitForkInit(p, t)
    \/ RollbackFork(p)
    \/ \E on \in BOOLEAN : SetSubreaper(p, on)

ExitStep(p) ==
  \/ CaptureBound(p) \/ BeginSection(p) \/ ScanSkip(p) \/ ScanDefer(p)
  \/ ScanMove(p) \/ ScanFinished(p) \/ Handoff(p)

ReparentNext ==
  \/ ForkStep
  \/ \E p \in Pids : PrepareExit(p) \/ RollbackExit(p) \/ CommitExit(p)
                     \/ ExitStep(p) \/ ReapZombie(p)

ReparentSpec == ReparentInit /\ [][ReparentNext]_reparentVars

-----------------------------------------------------------------------------
ExitState ==
  [pc : {"none", "prepared", "departing", "zombie", "between", "section", "handoff", "done"},
   after : 0..N, upper : 0..N, deferred : Pids \union {Nobody}, len : 0..Batch,
   reaper : Pids \union {Nobody}, moved : SUBSET (Pids \X Pids \X BOOLEAN), finished : BOOLEAN]

ReparentTypeOK ==
  /\ status \in [Pids -> {"none", "admitted", "published", "zombie", "reaped"}]
  /\ parent \in [Pids -> Pids \union {Nobody}]
  /\ scope \in [Pids -> Scopes]
  /\ isInit \in [Pids -> BOOLEAN] /\ subreaper \in [Pids -> BOOLEAN]
  /\ hasThread \in [Pids -> BOOLEAN] /\ exit_prepared \in [Pids -> BOOLEAN]
  /\ scopeInit \in [Scopes -> Pids \union {Nobody}]
  /\ outer \in [Scopes -> Scopes \union {Nobody}]
  /\ topo \in Pids \union {Nobody}
  /\ ex \in [Pids -> ExitState]
  /\ told \in [Pids -> SUBSET Pids]
  /\ panicked \in BOOLEAN
  /\ toggles \in 0..MaxToggles

(* A completed exit leaves no child behind: whatever was forked, moved to the
   exiting process or reaped between its sections, no registered published
   process still names it as parent, and neither does a later one. *)
NoOrphans ==
  \A p, q \in Pids : ex[p].pc = "done" /\ Published(q) => parent[q] # p

(* Reparenting never builds a cycle: no set of processes is closed under the
   parent pointers, so every walk up the tree ends. *)
AncestryAcyclic ==
  \A S \in (SUBSET Pids) \ {{}} : \E p \in S : parent[p] \notin S

(* "Reparenting never selects a child subreaper from another scope": a moved
   child lands on a process of its own scope that can still reap it, and only
   a scope's init lands on the init of the outer scope. *)
AdoptsInScope ==
  \A c \in Pids : parent'[c] # parent[c] /\ status[c] # "none" /\ status'[c] # "none" =>
    LET r == parent'[c] IN
      /\ r # Nobody /\ r # c /\ status[r] = "published"
      /\ \/ scope[r] = scope[c]
         \/ c = scopeInit[scope[c]] /\ r = scopeInit[outer[scope[c]]]

(* AdoptsInScope of every step. *)
AdoptionInScope == [][AdoptsInScope]_reparentVars

(* A zombie whose parent could reap it is known to that parent: it was the
   notification parent of the zombie's exit, or it inherited the zombie and
   was told, or the exit that moved the zombie is about to tell it. *)
ZombieKnownToParent ==
  \A z \in Pids :
    status[z] = "zombie" /\ parent[z] # Nobody /\ status[parent[z]] = "published" =>
      \/ parent[z] \in told[z]
      \/ \E p \in Pids : ex[p].pc \in {"section", "handoff"}
                         /\ <<z, parent[z], TRUE>> \in ex[p].moved

(* ProcessReparentBatch carries one reaper for all its children. *)
BatchHasOneReaper ==
  \A p \in Pids : \A m \in ex[p].moved : m[2] = ex[p].reaper

(* What an exit owes the tree, at every moment of its sections: nobody is left
   behind, no cycle is built, and each batch is handed to its one reaper. *)
TreeSound == NoOrphans /\ AncestryAcyclic /\ BatchHasOneReaper

(* "a live ancestry relation always names a process still present in this
   registry": the parent of a published process is itself registered. *)
ParentRegistered ==
  \A p \in Pids : Published(p) /\ parent[p] # Nobody => InRegistry(parent[p])
=============================================================================
