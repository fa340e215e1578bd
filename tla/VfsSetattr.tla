----------------------------- MODULE VfsSetattr -----------------------------
(***************************************************************************)
(* A chmod or chown as a MutationTransaction (crates/vfs transaction.rs)   *)
(* over one inode: the plan keeps the metadata it was made from across the *)
(* security pre-hook, the reservation keeps their generation, and commit   *)
(* revalidates, admits and publishes.  The inode store is the backend of   *)
(* the embedding kernel; any of its calls may fail.                        *)
(*                                                                         *)
(* The decisions it rests on come first: dac.rs and the two phases of a    *)
(* chmod or chown in setattr.rs.  A mode is the set of its special bits    *)
(* and, for each class of user, the accesses granted.                      *)
(***************************************************************************)
EXTENDS Integers, FiniteSets

Accesses == {"r", "w", "x"}
None == "none"                  \* an omitted id
NoChange == [none |-> TRUE]     \* an omitted mode or owner

InGroup(cred, group) == cred.group = group \/ group \in cred.groups

(* The class whose bits decide, in granted_access *)
Class(node, cred) ==
  IF cred.user = node.user THEN "u" ELSE IF InGroup(cred, node.group) THEN "g" ELSE "o"

(* capable: the capability is asked of the node's owning namespace *)
Capable(node, cred, capability) == node.ids_mapped /\ capability \in cred.capabilities

(* check_dac *)
CheckDac(node, requested, cred) ==
  \/ requested \subseteq node.mode[Class(node, cred)]
  \/ /\ node.kind = "Directory"
     /\ ("w" \notin requested /\ Capable(node, cred, "ReadSearch")) \/ Capable(node, cred, "Override")
  \/ node.kind # "Directory" /\ requested = {"r"} /\ Capable(node, cred, "ReadSearch")
  \/ /\ node.kind # "Directory" /\ Capable(node, cred, "Override")
     /\ "x" \in requested => "x" \in node.mode.u \cup node.mode.g \cup node.mode.o

(* check_directory_mutation *)
CheckDirectoryMutation(directory, cred) == CheckDac(directory, {"w", "x"}, cred)

(* check_sticky_mutation *)
CheckStickyMutation(directory, target, cred) ==
  \/ "sticky" \notin directory.mode.special
  \/ cred.user \in {directory.user, target.user}
  \/ Capable(directory, cred, "Fowner")

(* check_hardlink_source: `own` is the capability set in the caller's own
   namespace, `mapped` whether the owner is mapped there *)
CheckHardlinkSource(source, cred, protected, accessAllowed, mapped, own) ==
  LET safeShape == /\ source.kind = "Regular" /\ "suid" \notin source.mode.special
                   /\ ~("sgid" \in source.mode.special /\ "x" \in source.mode.g)
  IN  /\ source.ids_mapped
      /\ \/ ~protected
         \/ safeShape /\ accessAllowed
         \/ cred.user = source.user
         \/ mapped /\ "Fowner" \in own

DropFromMode(mode, bit) == [mode EXCEPT !.special = @ \ {bit}]
Masked(mode, umask) == [mode EXCEPT !.u = @ \ umask.u, !.g = @ \ umask.g, !.o = @ \ umask.o]

(* The creator may give a file the parent's group and set-group-id *)
MayCreateSetgid(parent, cred) == InGroup(cred, parent.group) \/ Capable(parent, cred, "Fsetid")

(* initial_create_attributes *)
InitialCreateAttributes(parent, kind, requested, umask, cred) ==
  LET inherits == "sgid" \in parent.mode.special
      drops == /\ kind # "Directory" /\ inherits
               /\ "sgid" \in requested.special /\ "x" \in requested.g
               /\ ~MayCreateSetgid(parent, cred)
      masked == Masked(IF drops THEN DropFromMode(requested, "sgid") ELSE requested, umask)
  IN  [user |-> cred.user,
       group |-> IF inherits THEN parent.group ELSE cred.group,
       mode |-> IF kind = "Directory" /\ inherits THEN [masked EXCEPT !.special = @ \cup {"sgid"}] ELSE masked]

-----------------------------------------------------------------------------
(* can_preserve_setgid *)
CanPreserveSetgid(node, group, cred) == InGroup(cred, group) \/ Capable(node, cred, "Fsetid")

(* chown_hook_mode: the implicit mode change of a chown, NoChange when there is none *)
ChownHookMode(node, cred) ==
  LET unset == DropFromMode(node.mode, "suid")
      mode == IF "x" \in unset.g \/ ~CanPreserveSetgid(node, node.group, cred)
                THEN DropFromMode(unset, "sgid") ELSE unset
  IN  IF node.kind = "Directory" \/ mode = node.mode THEN NoChange ELSE mode

(* plan_content_write_setid_cleanup of crates/cred: the mode a content write leaves *)
ContentWriteMode(node, cred) ==
  LET unset == DropFromMode(node.mode, "suid")
  IN  IF Capable(node, cred, "Fsetid") THEN node.mode
      ELSE IF "x" \in unset.g THEN DropFromMode(unset, "sgid") ELSE unset

(* check_chmod_permission *)
CheckChmodPermission(node, cred) == cred.user = node.user \/ Capable(node, cred, "Fowner")

(* check_chown_permission: an omitted id is None *)
CheckChownPermission(node, user, group, cred) ==
  \/ user = None /\ group = None
  \/ Capable(node, cred, "Chown")
  \/ /\ cred.user = node.user
     /\ user \in {None, node.user}
     /\ group \in {None, node.group} \/ InGroup(cred, group)

Denied == [error |-> "Denied"]

(* plan_chmod, plan_chown: what the pre-hook is shown *)
PlanChmod(node, mode, cred) == [op |-> "chmod", node |-> node, mode |-> mode, cred |-> cred]
PlanChown(node, user, group, cred) ==
  [op |-> "chown", node |-> node, user |-> user, group |-> group,
   hook_mode |-> ChownHookMode(node, cred), cred |-> cred]

GroupAfter(plan) == IF plan.group = None THEN plan.node.group ELSE plan.group
UserAfter(plan) == IF plan.user = None THEN plan.node.user ELSE plan.user
Preserved(plan, group, mode) ==
  IF CanPreserveSetgid(plan.node, group, plan.cred) THEN mode ELSE DropFromMode(mode, "sgid")

(* ChmodSetattrPlan::prepare; owner and mode are what is stored, committed
   what the caller reports without reading the inode again *)
PrepareChmod(plan) ==
  LET mode == Preserved(plan, plan.node.group, plan.mode)
  IN  IF ~CheckChmodPermission(plan.node, plan.cred) THEN Denied
      ELSE [owner |-> NoChange, mode |-> mode,
            committed |-> [user |-> plan.node.user, group |-> plan.node.group, mode |-> mode]]

(* ChownSetattrPlan::prepare *)
PrepareChown(plan) ==
  LET mode == IF plan.hook_mode = NoChange THEN NoChange ELSE Preserved(plan, GroupAfter(plan), plan.hook_mode)
  IN  IF \/ ~CheckChownPermission(plan.node, plan.user, plan.group, plan.cred)
         \/ plan.hook_mode # NoChange /\ ~CheckChmodPermission(plan.node, plan.cred) THEN Denied
      ELSE [owner |-> IF plan.user = None /\ plan.group = None THEN NoChange
                      ELSE [user |-> UserAfter(plan), group |-> GroupAfter(plan)],
            mode |-> mode,
            committed |-> [user |-> UserAfter(plan), group |-> GroupAfter(plan),
                           mode |-> IF mode = NoChange THEN plan.node.mode ELSE mode]]

(* The backend stores what the prepared change carries *)
Apply(node, change) ==
  LET owned == IF change.owner = NoChange THEN node
               ELSE [node EXCEPT !.user = change.owner.user, !.group = change.owner.group]
  IN  IF change.mode = NoChange THEN owned ELSE [owned EXCEPT !.mode = change.mode]

-----------------------------------------------------------------------------
(* An access that is allowed is allowed in parts; without capabilities only
   the caller's own class counts, even where another class has more; a file
   nobody may execute is executed by nobody; and capabilities mean nothing on
   a node whose ids are not mapped. *)
DacExact(node, cred) ==
  \A requested \in SUBSET Accesses :
    LET ok == CheckDac(node, requested, cred)
    IN  /\ ok => \A part \in SUBSET requested : CheckDac(node, part, cred)
        /\ cred.capabilities = {} \/ ~node.ids_mapped =>
             (ok <=> requested \subseteq node.mode[Class(node, cred)])
        /\ node.kind # "Directory" /\ "x" \in requested /\ (\A c \in {"u", "g", "o"} : "x" \notin node.mode[c]) => ~ok
        /\ ok /\ "w" \in requested /\ "w" \notin node.mode[Class(node, cred)] => "Override" \in cred.capabilities

(* A file that runs with its group's rights was made by a member of that
   group, or by a holder of Fsetid; a directory keeps the inherited bit. *)
CreateExact(parent, kind, requested, umask, cred) ==
  LET made == InitialCreateAttributes(parent, kind, requested, umask, cred)
  IN  /\ kind # "Directory" /\ "sgid" \in made.mode.special /\ "x" \in made.mode.g =>
           InGroup(cred, made.group) \/ Capable(parent, cred, "Fsetid")
      /\ kind = "Directory" /\ "sgid" \in parent.mode.special =>
           made.group = parent.group /\ "sgid" \in made.mode.special
      /\ \A c \in {"u", "g", "o"} : made.mode[c] \cap umask[c] = {}

(* Protected hardlinks only take away: a caller who neither owns the source nor
   holds Fowner over it links a file they may read and write and whose mode
   their write would leave alone.  And strangers without capabilities meet in
   a sticky directory without removing each other's names. *)
NamingExact(directory, target, cred) ==
  LET access == CheckDac(target, {"r", "w"}, cred)
      Links(protected, mapped) ==
        CheckHardlinkSource(target, cred, protected, access, mapped, cred.capabilities)
      removes == CheckDirectoryMutation(directory, cred) /\ CheckStickyMutation(directory, target, cred)
  IN  /\ \A mapped \in BOOLEAN :
           Links(TRUE, mapped) =>
             /\ Links(FALSE, mapped)
             /\ \/ CheckChmodPermission(target, cred)
                \/ access /\ ContentWriteMode(target, [cred EXCEPT !.capabilities = {}]) = target.mode
      /\ target.ids_mapped /\ CheckChmodPermission(target, cred) => Links(TRUE, TRUE)
      /\ removes /\ cred.capabilities = {} /\ "sticky" \in directory.mode.special =>
           cred.user = target.user \/ CheckChmodPermission(directory, cred)

-----------------------------------------------------------------------------
CONSTANTS
  Callers,         \* caller -> credentials
  Nodes,           \* initial metadata
  Modes,           \* ChmodRequest
  Users, Groups,   \* ids a chown may name
  MaxGeneration

VARIABLES
  node, generation,
  reservations,    \* callers the backend holds a reservation for
  calls,           \* caller -> where its system call is
  tampered         \* has the content changed since the mode was last chosen

avars == <<node, generation, reservations, calls, tampered>>

Idle == [stage |-> "Idle"]

Init ==
  /\ node \in Nodes /\ generation = 0 /\ reservations = {}
  /\ calls = [c \in DOMAIN Callers |-> Idle]
  /\ tampered = FALSE

Enter(c, plan) ==
  /\ calls[c] = Idle
  /\ calls' = [calls EXCEPT ![c] = [stage |-> "Hook", plan |-> plan, generation |-> generation]]
  /\ UNCHANGED <<node, generation, reservations, tampered>>

BeginChmod(c, mode) == Enter(c, PlanChmod(node, mode, Callers[c]))
BeginChown(c, user, group) == Enter(c, PlanChown(node, user, group, Callers[c]))

(* Consuming the plan after the hook, then MutationTransaction::prepare *)
Prepare(c) ==
  LET plan == calls[c].plan
      change == IF plan.op = "chmod" THEN PrepareChmod(plan) ELSE PrepareChown(plan)
  IN  /\ calls[c].stage = "Hook"
      /\ \/ /\ change # Denied
            /\ calls' = [calls EXCEPT ![c] = [stage |-> "Prepared", change |-> change, op |-> plan.op,
                                               generation |-> calls[c].generation]]
            /\ reservations' = reservations \cup {c}
         \/ calls' = [calls EXCEPT ![c] = Idle] /\ UNCHANGED reservations
      /\ UNCHANGED <<node, generation, tampered>>

(* The rollback of Drop, for a transaction that is not completed *)
RolledBack(c) == reservations \ {c}

(* revalidate and admit, in the order of commit *)
Revalidate(c) ==
  /\ calls[c].stage = "Prepared" /\ calls[c].generation = generation
  /\ calls' = [calls EXCEPT ![c].stage = "Revalidated"]
  /\ UNCHANGED <<node, generation, reservations, tampered>>

Admit(c) ==
  /\ calls[c].stage = "Revalidated"
  /\ calls' = [calls EXCEPT ![c].stage = "Admitted"]
  /\ UNCHANGED <<node, generation, reservations, tampered>>

(* The backend's publication attempt is clean: it happens on the generation
   the reservation names or not at all *)
Publishes(c) == calls[c].generation = generation /\ generation < MaxGeneration

(* publish, which completes the transaction *)
Publish(c) ==
  /\ calls[c].stage = "Admitted" /\ Publishes(c)
  /\ node' = Apply(node, calls[c].change)
  /\ generation' = generation + 1
  /\ reservations' = reservations \ {c}
  /\ calls' = [calls EXCEPT ![c] = Idle]
  /\ tampered' = (tampered /\ calls[c].op = "chown")

(* A content write by a caller with write access, and its set-id cleanup *)
Write(c) ==
  /\ node.kind # "Directory" /\ CheckDac(node, {"w"}, Callers[c]) /\ generation < MaxGeneration
  /\ node' = [node EXCEPT !.mode = ContentWriteMode(node, Callers[c])]
  /\ generation' = generation + 1
  /\ tampered' = (tampered \/ ~Capable(node, Callers[c], "Fsetid"))
  /\ UNCHANGED <<reservations, calls>>

(* A call of commit fails, the transaction is aborted, or it is dropped *)
Fail(c) ==
  /\ calls[c].stage \in {"Prepared", "Revalidated", "Admitted"}
  /\ reservations' = RolledBack(c)
  /\ calls' = [calls EXCEPT ![c] = Idle]
  /\ UNCHANGED <<node, generation, tampered>>

Next ==
  \E c \in DOMAIN Callers :
    \/ \E mode \in Modes : BeginChmod(c, mode)
    \/ \E user \in Users \cup {None}, group \in Groups \cup {None} : BeginChown(c, user, group)
    \/ Prepare(c) \/ Revalidate(c) \/ Admit(c) \/ Publish(c) \/ Fail(c) \/ Write(c)

Spec == Init /\ [][Next]_avars

-----------------------------------------------------------------------------
(* Every reservation is settled exactly once: the backend holds one for the
   transactions that are neither completed nor rolled back, and for no other.
   And content somebody without Fsetid wrote never runs with the rights of the
   file's owner or group until its mode is chosen again, whatever chmod or
   chown was under way when it was written. *)
ReservationsSettled ==
  /\ tampered => /\ "suid" \notin node.mode.special
                 /\ ~("sgid" \in node.mode.special /\ "x" \in node.mode.g)
  /\ reservations = {c \in DOMAIN Callers : calls[c].stage \in {"Prepared", "Revalidated", "Admitted"}}

(* No change of hands keeps set-id rights: when a file's owner or group
   changes, its set-user-id bit is gone, and its set-group-id bit if the group
   may execute it, although the bits were examined before the hook and others
   change the mode meanwhile; and a caller is told what is stored. *)
SetIdDropped ==
  /\ node.kind # "Directory" /\ <<node'.user, node'.group>> # <<node.user, node.group>> =>
       /\ "suid" \notin node'.mode.special
       /\ "x" \in node'.mode.g => "sgid" \notin node'.mode.special
  /\ \A c \in DOMAIN Callers :
       Publish(c) => calls[c].change.committed = [user |-> node'.user, group |-> node'.group, mode |-> node'.mode]
=============================================================================
