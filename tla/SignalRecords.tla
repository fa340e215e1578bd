--------------------------- MODULE SignalRecords ----------------------------
(***************************************************************************)
(* One pending queue of crates/signal (pending.rs) with the senders that   *)
(* prepare records for it and the consumers that take them out.            *)
(*                                                                         *)
(* A prepared record is charged to the per-user and then to the global     *)
(* account before the queue lock is taken; only real-time nodes are        *)
(* charged.  A consumer holds a dequeued record outside the lock until it  *)
(* consumes it or puts it back at the front (delivery Retry/Fault); a      *)
(* flush may empty the queue meanwhile.                                    *)
(* Publication, dequeue, requeue and the flushes each run under the queue  *)
(* lock; releasing a node's two charges happens outside it, one account at *)
(* a time.                                                                 *)
(***************************************************************************)
EXTENDS Integers, Sequences, FiniteSets, SequencesExt

CONSTANTS
  Senders, Consumers,
  Standard, Realtime,   \* signal numbers; the real-time ones are the larger
  UserLimit,            \* min(hard_limit, RLIMIT_SIGPENDING) of the user's account
  GlobalLimit,          \* hard_limit of the global account
  MaxId                 \* bound on publications

VARIABLES
  set,        \* signals with at least one deliverable instance
  standard,   \* signal -> the fixed slot
  realtime,   \* signal -> queue of nodes
  epoch,      \* realtime_publish_epoch
  user, global,  \* SignalQueueAccount.queued of the two accounts
  owed,       \* nodes whose user charge is released and whose global one is not yet
  sender,     \* sender -> what it is preparing
  held,       \* consumer -> the DequeuedSignal it owns; ghost `flushed` of a
              \* fallback: the queue was emptied since it was taken
  next_id,    \* ghost: publications so far, in order
  last        \* ghost: real-time signal -> kind of the last effective publication,
              \* or "revived": a superseded fallback was put back after a flush

queueVars == <<set, standard, realtime, epoch>>
vars == <<set, standard, realtime, epoch, user, global, owed, sender, held, next_id, last>>

Signos == Standard \union Realtime
Idle == [pc |-> "idle"]
Nothing == [kind |-> "none"]
Node(id, s) == [kind |-> "realtime", id |-> id, signo |-> s]
Slot(id, s) == [kind |-> "standard", id |-> id, signo |-> s]
Fallback(s, e) == [kind |-> "fallback", signo |-> s, epoch |-> e, flushed |-> FALSE]

Init ==
  /\ set = {} /\ standard = [s \in Standard |-> Nothing]
  /\ realtime = [s \in Realtime |-> <<>>] /\ epoch = [s \in Realtime |-> 0]
  /\ user = 0 /\ global = 0 /\ owed = 0
  /\ sender = [c \in Senders |-> Idle] /\ held = [c \in Consumers |-> Nothing]
  /\ next_id = 1 /\ last = [s \in Realtime |-> "none"]

-----------------------------------------------------------------------------
(* Dropping n SignalQueueCharges: _per_user first, _global afterwards. *)
ReleaseCharges(n) == user' = user - n /\ owed' = owed + n
ReleaseGlobal ==
  /\ owed > 0 /\ owed' = owed - 1 /\ global' = global - 1
  /\ UNCHANGED <<queueVars, user, sender, held, next_id, last>>

(* try_accounted of a standard signal, and unqueued: nothing is charged. *)
PrepareUncharged(c, s) ==
  /\ sender[c] = Idle
  /\ sender' = [sender EXCEPT ![c] =
       [pc |-> "ready", kind |-> IF s \in Standard THEN "standard" ELSE "fallback", signo |-> s]]
  /\ UNCHANGED <<queueVars, user, global, owed, held, next_id, last>>

(* try_accounted of a real-time signal: the per-user charge ... *)
ChargeUser(c, s) ==
  /\ sender[c] = Idle /\ user < UserLimit
  /\ user' = user + 1
  /\ sender' = [sender EXCEPT ![c] = [pc |-> "charged", kind |-> "realtime", signo |-> s]]
  /\ UNCHANGED <<queueVars, global, owed, held, next_id, last>>

(* ... the global one, or LimitExceeded with the user's charge dropped ... *)
GlobalRefusedKept(c) == user' = user /\ sender' = [sender EXCEPT ![c] = Idle] /\ global' = global
GlobalRefused(c) == user' = user - 1 /\ sender' = [sender EXCEPT ![c] = Idle] /\ global' = global
ChargeGlobal(c) ==
  /\ sender[c].pc = "charged"
  /\ \/ /\ global < GlobalLimit /\ global' = global + 1 /\ user' = user
        /\ sender' = [sender EXCEPT ![c].pc = "ready"]
     \/ global >= GlobalLimit /\ GlobalRefused(c)
  /\ UNCHANGED <<queueVars, owed, held, next_id, last>>

(* ... and a node that cannot be allocated, or a record the endpoint refuses,
   is dropped with its charges. *)
DropPrepared(c) ==
  /\ sender[c].pc = "ready"
  /\ ReleaseCharges(IF sender[c].kind = "realtime" THEN 1 ELSE 0)
  /\ sender' = [sender EXCEPT ![c] = Idle]
  /\ UNCHANGED <<queueVars, global, held, next_id, last>>

-----------------------------------------------------------------------------
(* PendingSignals::publish *)
PublishStandard(c, s) ==
  /\ sender[c].kind = "standard"
  /\ IF s \in set THEN UNCHANGED <<set, standard>>
     ELSE set' = set \union {s} /\ standard' = [standard EXCEPT ![s] = Slot(next_id, s)]
  /\ UNCHANGED <<realtime, epoch, last>>

Bumped(s) == [epoch EXCEPT ![s] = @ + 1]
PublishNode(c, s) ==
  /\ sender[c].kind = "realtime"
  /\ epoch' = Bumped(s)
  /\ set' = set \union {s}
  /\ realtime' = [realtime EXCEPT ![s] = Append(@, Node(next_id, s))]
  /\ last' = [last EXCEPT ![s] = "node"]
  /\ UNCHANGED standard

PublishFallback(c, s) ==
  /\ sender[c].kind = "fallback"
  /\ set' = set \union {s}
  /\ last' = IF s \in set THEN last ELSE [last EXCEPT ![s] = "fallback"]
  /\ UNCHANGED <<standard, realtime, epoch>>

Publish(c) ==
  /\ sender[c].pc = "ready" /\ next_id <= MaxId
  /\ LET s == sender[c].signo IN
       PublishStandard(c, s) \/ PublishNode(c, s) \/ PublishFallback(c, s)
  /\ sender' = [sender EXCEPT ![c] = Idle] /\ next_id' = next_id + 1
  /\ UNCHANGED <<user, global, owed, held>>

(* dequeue_signal: the lowest selected number; the bit of a real-time signal
   stays while its queue has more. *)
KeepsBit(s) == s \in Realtime /\ Len(realtime[s]) > 1
Dequeue(c, mask) ==
  /\ held[c] = Nothing /\ set \intersect mask # {}
  /\ LET s == CHOOSE x \in set \intersect mask : \A y \in set \intersect mask : x <= y
     IN /\ set' = IF KeepsBit(s) THEN set ELSE set \ {s}
        /\ \/ /\ s \in Standard /\ held' = [held EXCEPT ![c] = standard[s]]
              /\ standard' = [standard EXCEPT ![s] = Nothing] /\ UNCHANGED realtime
           \/ /\ s \in Realtime /\ realtime[s] # <<>>
              /\ held' = [held EXCEPT ![c] = Head(realtime[s])]
              /\ realtime' = [realtime EXCEPT ![s] = Tail(@)] /\ UNCHANGED standard
           \/ /\ s \in Realtime /\ realtime[s] = <<>>
              /\ held' = [held EXCEPT ![c] = Fallback(s, epoch[s])]
              /\ UNCHANGED <<standard, realtime>>
  /\ UNCHANGED <<epoch, user, global, owed, sender, next_id, last>>

(* into_info: the record is consumed and a node is freed. *)
Consume(c) ==
  /\ held[c] # Nothing
  /\ ReleaseCharges(IF held[c].kind = "realtime" THEN 1 ELSE 0)
  /\ held' = [held EXCEPT ![c] = Nothing]
  /\ UNCHANGED <<queueVars, global, sender, next_id, last>>

(* requeue_front: the detached standard record wins over a later one; a node
   goes back to the front; a fallback only while no node was published. *)
AtBack(q, node) == Append(q, node)
AtFront(q, node) == <<node>> \o q
Unsuperseded(r) == epoch[r.signo] = r.epoch
RequeueFront(c) ==
  LET r == held[c] IN
  /\ r # Nothing
  /\ \/ /\ r.kind = "standard" /\ standard' = [standard EXCEPT ![r.signo] = r]
        /\ set' = set \union {r.signo} /\ UNCHANGED <<realtime, last>>
     \/ /\ r.kind = "realtime"
        /\ realtime' = [realtime EXCEPT ![r.signo] = AtFront(@, r)]
        /\ set' = set \union {r.signo} /\ UNCHANGED <<standard, last>>
     \/ /\ r.kind = "fallback"
        /\ set' = IF Unsuperseded(r) THEN set \union {r.signo} ELSE set
        /\ last' = IF r.flushed /\ r.signo \in set' \ set /\ last[r.signo] = "node"
                   THEN [last EXCEPT ![r.signo] = "revived"] ELSE last
        /\ UNCHANGED <<standard, realtime>>
  /\ held' = [held EXCEPT ![c] = Nothing]
  /\ UNCHANGED <<epoch, user, global, owed, sender, next_id>>

(* take_signal / detach_signal_into: all instances of one signal; the nodes are
   freed after the lock is released. *)
TakeSignal(s) ==
  /\ s \in set /\ set' = set \ {s}
  /\ \/ /\ s \in Standard /\ standard' = [standard EXCEPT ![s] = Nothing]
        /\ UNCHANGED <<realtime, user, owed>>
     \/ /\ s \in Realtime /\ realtime' = [realtime EXCEPT ![s] = <<>>]
        /\ ReleaseCharges(Len(realtime[s])) /\ UNCHANGED standard
  /\ UNCHANGED <<epoch, global, sender, held, next_id, last>>

(* take_all: the whole queue, publication epochs included, becomes the default
   one.  flush_pending takes the queue lock alone, so a consumer may hold a
   record meanwhile. *)
Queued == UNION {{<<s, i>> : i \in 1..Len(realtime[s])} : s \in Realtime}
TakeAll ==
  /\ set' = {} /\ standard' = [s \in Standard |-> Nothing]
  /\ realtime' = [s \in Realtime |-> <<>>] /\ epoch' = [s \in Realtime |-> 0]
  /\ ReleaseCharges(Cardinality(Queued))
  /\ held' = [c \in Consumers |-> IF held[c].kind = "fallback"
                                  THEN [held[c] EXCEPT !.flushed = TRUE] ELSE held[c]]
  /\ UNCHANGED <<global, sender, next_id, last>>

Next ==
  \/ \E c \in Senders : \/ \E s \in Signos : PrepareUncharged(c, s)
                        \/ \E s \in Realtime : ChargeUser(c, s)
                        \/ ChargeGlobal(c) \/ DropPrepared(c) \/ Publish(c)
  \/ \E c \in Consumers : \/ \E mask \in SUBSET Signos : Dequeue(c, mask)
                          \/ Consume(c) \/ RequeueFront(c)
  \/ \E s \in Signos : TakeSignal(s)
  \/ TakeAll \/ ReleaseGlobal

Spec == Init /\ [][Next]_vars

-----------------------------------------------------------------------------
Records == {Nothing} \union [kind : {"realtime", "standard"}, id : 1..MaxId, signo : Signos]
             \union [kind : {"fallback"}, signo : Realtime, epoch : 0..MaxId, flushed : BOOLEAN]
TypeOK ==
  /\ set \subseteq Signos /\ standard \in [Standard -> Records]
  /\ \A s \in Realtime : \A i \in 1..Len(realtime[s]) : realtime[s][i] \in Records
  /\ epoch \in [Realtime -> 0..MaxId] /\ held \in [Consumers -> Records]
  /\ user \in 0..UserLimit /\ global \in 0..GlobalLimit /\ owed \in 0..GlobalLimit

(* A pending bit is what the queue can deliver: a standard bit owns its slot
   (dequeue_signal expects it), and queued nodes always show their bit. *)
BitsBacked ==
  /\ \A s \in Standard : s \in set <=> standard[s] # Nothing
  /\ \A s \in Realtime : realtime[s] # <<>> => s \in set

ChargedBy(c) == sender[c].pc = "ready" /\ sender[c].kind = "realtime"
Nodes ==
  Cardinality(Queued) + Cardinality({c \in Senders : ChargedBy(c)})
    + Cardinality({c \in Consumers : held[c].kind = "realtime"})
(* Both accounts count exactly the real-time nodes that exist, wherever they
   are, plus what a refused or dying charge has not handed back yet. *)
ChargesExact ==
  /\ user = Nodes + Cardinality({c \in Senders : sender[c].pc = "charged"})
  /\ global = Nodes + owed

(* Instances of one real-time signal are queued in the order of their
   publication, also after a delivery has put one back (requeue_front). *)
RealtimeInOrder ==
  \A s \in Realtime : \A i, j \in 1..Len(realtime[s]) :
    i < j => realtime[s][i].id < realtime[s][j].id

(* A pending bit without a node stands for a fallback that no node published
   later has superseded, unless a flush, which starts the publication epochs
   again at 0, ran while a consumer held it. *)
FallbackNotResurrected ==
  \A s \in Realtime : s \in set /\ realtime[s] = <<>> => last[s] \in {"fallback", "revived"}
=============================================================================
