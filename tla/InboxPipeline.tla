---------------------------- MODULE InboxPipeline ----------------------------
(***************************************************************************)
(* The way of a WhatsApp message into the bot's queue: the webhook handler *)
(* (main.py webhook), the per-lead inbox in Redis (redis_store.py          *)
(* push_inbox, drain_inbox, list_active_inboxes) and the drainer task      *)
(* (main.py _inbox_drainer_loop) that coalesces a burst into one payload.  *)
(*                                                                         *)
(* Every `await redis._cmd(...)` is one atomic step, and any other task    *)
(* may run between two of them; the EXPIRE that follows an LPUSH only      *)
(* refreshes a TTL and is folded into it.  The worker, which pops the      *)
(* queue, reads the unread buffer and takes the word, is not here: the     *)
(* queue keeps every payload ever pushed.                                  *)
(*                                                                         *)
(* Messages that the webhook's filters drop (fromMe, groups, bad phone, no *)
(* content) change no state and are not in Msg.  Redis is reachable.       *)
(***************************************************************************)
EXTENDS Naturals, Sequences, FiniteSets, SequencesExt

CONSTANTS
  Lead,        \* the leads: one (instance, phone) pair each
  Msg,         \* the messages the leads write
  LeadOf,      \* the lead that wrote each message
  WithoutId,   \* messages whose key carries no id: dedup and unread skip them
  Delivery,    \* webhook calls that Evolution makes
  MsgOf,       \* the message a webhook call delivers: several calls for one are retries
  MaxSize,     \* INBOX_MAX_SIZE: an inbox this long is drained at once
  MaxStops,    \* bound: how often the process stops or crashes
  NoLead       \* the target of a drainer that drains nothing

ASSUME PipelineAssumption ==
  /\ LeadOf \in [Msg -> Lead]
  /\ WithoutId \subseteq Msg
  /\ MsgOf \in [Delivery -> Msg]
  /\ MaxSize \in Nat \ {0}
  /\ MaxStops \in Nat
  /\ NoLead \notin Lead

VARIABLES
  \* Redis
  dedup,       \* messages whose dedup key exists
  lastFrom,    \* lastFrom[l]: who spoke last
  unread,      \* unread[l]: ids not yet marked as read
  inbox,       \* inbox[l]: the Redis list, newest message at its head
  index,       \* leads in inbox:index
  queue,       \* payloads pushed to queue:messages, oldest first; the pops are QueueWorker's
  \* the process
  up,          \* the process runs
  stops,       \* how often it stopped
  call,        \* call[d]: where the handler of delivery d is
  drainer,     \* the drainer task: [pc, listed, ready, target, items]
  \* history
  expired      \* messages whose dedup key has expired

redisVars == <<dedup, lastFrom, unread, inbox, index, queue>>
vars == <<redisVars, up, stops, call, drainer, expired>>

\* Where a handler is; "done" stands for its answer and "dead" for a crash under it.
CallPc == {"idle", "speaker", "unread", "push", "unlist", "list", "done", "dead"}
\* Where the drainer is: in a pass over listed and ready inboxes, or draining target.
DrainPc == {"pass", "delete", "unlist", "enqueue", "down"}

Payload == [lead : Lead, msgs : Seq(Msg)]

IdleDrainer == [pc |-> "pass", listed |-> {}, ready |-> {}, target |-> NoLead, items |-> <<>>]

Init ==
  /\ dedup = {}
  /\ lastFrom = [l \in Lead |-> "none"]
  /\ unread = [l \in Lead |-> {}]
  /\ inbox = [l \in Lead |-> <<>>]
  /\ index = {}
  /\ queue = <<>>
  /\ up = TRUE
  /\ stops = 0
  /\ call = [d \in Delivery |-> "idle"]
  /\ drainer = IdleDrainer
  /\ expired = {}

-----------------------------------------------------------------------------
(* The webhook handler of delivery d. *)

DLead(d) == LeadOf[MsgOf[d]]

Goto(d, from, to) == up /\ call[d] = from /\ call' = [call EXCEPT ![d] = to]

\* Faulty: the dedup key is written without the NX test.
MarkUnchecked(d) ==
  /\ MsgOf[d] \notin WithoutId
  /\ Goto(d, "idle", "speaker")
  /\ dedup' = dedup \cup {MsgOf[d]}
  /\ UNCHANGED <<lastFrom, unread, inbox, index, queue, up, stops, drainer, expired>>

\* The first await of a call is SET NX EX: the first call of a message goes on, a
\* later one is a duplicate.
MarkFirst(d) ==
  /\ MsgOf[d] \notin dedup \cup WithoutId
  /\ Goto(d, "idle", "speaker")
  /\ dedup' = dedup \cup {MsgOf[d]}
  /\ UNCHANGED <<lastFrom, unread, inbox, index, queue, up, stops, drainer, expired>>

MarkDuplicate(d) ==
  /\ MsgOf[d] \in dedup
  /\ Goto(d, "idle", "done")
  /\ UNCHANGED <<redisVars, up, stops, drainer, expired>>

\* A message without an id skips the dedup and the unread buffer.
SetLastFromLead(d) ==
  /\ IF MsgOf[d] \in WithoutId THEN Goto(d, "idle", "push") ELSE Goto(d, "speaker", "unread")
  /\ lastFrom' = [lastFrom EXCEPT ![DLead(d)] = "lead"]
  /\ UNCHANGED <<dedup, unread, inbox, index, queue, up, stops, drainer, expired>>

PushUnread(d) ==
  /\ Goto(d, "unread", "push")
  /\ unread' = [unread EXCEPT ![DLead(d)] = @ \cup {MsgOf[d]}]
  /\ UNCHANGED <<dedup, lastFrom, inbox, index, queue, up, stops, drainer, expired>>

\* push_inbox: LPUSH of the item, LREM of the key in the index, LPUSH of the key.
PushItem(d) ==
  /\ Goto(d, "push", "unlist")
  /\ inbox' = [inbox EXCEPT ![DLead(d)] = <<MsgOf[d]>> \o @]
  /\ UNCHANGED <<dedup, lastFrom, unread, index, queue, up, stops, drainer, expired>>

PushUnlist(d) ==
  /\ Goto(d, "unlist", "list")
  /\ index' = index \ {DLead(d)}
  /\ UNCHANGED <<dedup, lastFrom, unread, inbox, queue, up, stops, drainer, expired>>

PushList(d) ==
  /\ Goto(d, "list", "done")
  /\ index' = index \cup {DLead(d)}
  /\ UNCHANGED <<dedup, lastFrom, unread, inbox, queue, up, stops, drainer, expired>>

Webhook(d) ==
  \/ MarkFirst(d) \/ MarkDuplicate(d) \/ SetLastFromLead(d)
  \/ PushUnread(d) \/ PushItem(d) \/ PushUnlist(d) \/ PushList(d)

-----------------------------------------------------------------------------
(* The drainer.  listed and ready are the inboxes that its first and its    *)
(* third pass have still to visit; the ranking of the ready ones decides    *)
(* only the order, which is left open.                                      *)

\* The sleep is over: LRANGE of the index.
ListActive ==
  /\ drainer.pc = "pass" /\ drainer.listed = {} /\ drainer.ready = {}
  /\ drainer' = [drainer EXCEPT !.listed = index]
  /\ UNCHANGED <<redisVars, up, stops, call, expired>>

\* Faulty: only a long inbox is drained, the idle time and the age do not count.
InspectReadyIfLong(l) ==
  /\ drainer.pc = "pass" /\ l \in drainer.listed
  /\ Len(inbox[l]) >= MaxSize
  /\ drainer' = [drainer EXCEPT !.listed = @ \ {l}, !.ready = @ \cup {l}]
  /\ UNCHANGED <<redisVars, up, stops, call, expired>>

\* The two LINDEX and the LLEN: the inbox is idle, old or long enough.
InspectReady(l) ==
  /\ drainer.pc = "pass" /\ l \in drainer.listed
  /\ inbox[l] # <<>>
  /\ drainer' = [drainer EXCEPT !.listed = @ \ {l}, !.ready = @ \cup {l}]
  /\ UNCHANGED <<redisVars, up, stops, call, expired>>

\* It is empty, or it is none of these; a long inbox is never passed over.
InspectSkip(l) ==
  /\ drainer.pc = "pass" /\ l \in drainer.listed
  /\ Len(inbox[l]) < MaxSize
  /\ drainer' = [drainer EXCEPT !.listed = @ \ {l}]
  /\ UNCHANGED <<redisVars, up, stops, call, expired>>

\* Faulty: the list is not reversed, the newest message comes first.
DrainReadNewestFirst(l) ==
  /\ drainer.pc = "pass" /\ drainer.listed = {} /\ l \in drainer.ready
  /\ drainer' = [drainer EXCEPT !.pc = "delete", !.ready = @ \ {l},
                                !.target = l, !.items = inbox[l]]
  /\ UNCHANGED <<redisVars, up, stops, call, expired>>

\* Faulty: only the newest message is read before the key is deleted.
DrainReadNewestOnly(l) ==
  /\ drainer.pc = "pass" /\ drainer.listed = {} /\ l \in drainer.ready
  /\ drainer' = [drainer EXCEPT !.pc = "delete", !.ready = @ \ {l}, !.target = l,
                                !.items = SubSeq(inbox[l], 1, 1)]
  /\ UNCHANGED <<redisVars, up, stops, call, expired>>

\* drain_inbox, first await: LRANGE, newest first, reversed to arrival order.
DrainRead(l) ==
  /\ drainer.pc = "pass" /\ drainer.listed = {} /\ l \in drainer.ready
  /\ drainer' = [drainer EXCEPT !.pc = "delete", !.ready = @ \ {l},
                                !.target = l, !.items = Reverse(inbox[l])]
  /\ UNCHANGED <<redisVars, up, stops, call, expired>>

\* Second await: DEL of the whole key, whatever it holds by now.
DrainDelete ==
  /\ drainer.pc = "delete"
  /\ inbox' = [inbox EXCEPT ![drainer.target] = <<>>]
  /\ drainer' = [drainer EXCEPT !.pc = "unlist"]
  /\ UNCHANGED <<dedup, lastFrom, unread, index, queue, up, stops, call, expired>>

\* Faulty: the target is forgotten before the payload is built.
DrainUnlistForgetful ==
  /\ drainer.pc = "unlist"
  /\ index' = index \ {drainer.target}
  /\ drainer' = [drainer EXCEPT !.pc = IF drainer.items = <<>> THEN "pass" ELSE "enqueue",
                                !.target = NoLead]
  /\ UNCHANGED <<dedup, lastFrom, unread, inbox, queue, up, stops, call, expired>>

\* Third await: LREM of the key in the index; nothing to enqueue means `continue`.
DrainUnlist ==
  /\ drainer.pc = "unlist"
  /\ index' = index \ {drainer.target}
  /\ drainer' = IF drainer.items = <<>>
                THEN [drainer EXCEPT !.pc = "pass", !.target = NoLead]
                ELSE [drainer EXCEPT !.pc = "enqueue"]
  /\ UNCHANGED <<dedup, lastFrom, unread, inbox, queue, up, stops, call, expired>>

\* The burst is combined into one payload and LPUSHed to the global queue.
DrainEnqueue ==
  /\ drainer.pc = "enqueue"
  /\ queue' = Append(queue, [lead |-> drainer.target, msgs |-> drainer.items])
  /\ drainer' = [drainer EXCEPT !.pc = "pass", !.target = NoLead, !.items = <<>>]
  /\ UNCHANGED <<dedup, lastFrom, unread, inbox, index, up, stops, call, expired>>

DrainVisit(l) == InspectReady(l) \/ InspectSkip(l) \/ DrainRead(l)
DrainStep == DrainDelete \/ DrainUnlist \/ DrainEnqueue

-----------------------------------------------------------------------------
(* The process and the clock. *)

\* A crash, or the cancellation of the tasks at shutdown: what a task held is gone.
Stop ==
  /\ up /\ stops < MaxStops
  /\ up' = FALSE
  /\ stops' = stops + 1
  /\ call' = [d \in Delivery |-> IF call[d] \in {"idle", "done"} THEN call[d] ELSE "dead"]
  /\ drainer' = [IdleDrainer EXCEPT !.pc = "down"]
  /\ UNCHANGED <<redisVars, expired>>

Restart ==
  /\ ~up
  /\ up' = TRUE
  /\ drainer' = IdleDrainer
  /\ UNCHANGED <<redisVars, stops, call, expired>>

\* EX 300 on the dedup key: long after the call that set it.
ExpireDedup(m) ==
  /\ m \in dedup
  /\ \A d \in Delivery : MsgOf[d] = m => call[d] \in {"idle", "done", "dead"}
  /\ dedup' = dedup \ {m}
  /\ expired' = expired \cup {m}
  /\ UNCHANGED <<lastFrom, unread, inbox, index, queue, up, stops, call, drainer>>

\* EXPIRE 600 on an inbox: only an inbox that no drainer looks at gets that old.
ExpireInbox(l) ==
  /\ inbox[l] # <<>>
  /\ ~up \/ l \notin index
  /\ \A d \in Delivery : DLead(d) = l => call[d] \notin {"unlist", "list"}
  /\ drainer.target = l => drainer.pc # "delete"
  /\ inbox' = [inbox EXCEPT ![l] = <<>>]
  /\ UNCHANGED <<dedup, lastFrom, unread, index, queue, up, stops, call, drainer, expired>>

\* EXPIRE 600 on the index: every inbox in it has been drained or is older.
ExpireIndex ==
  /\ index # {}
  /\ \A l \in index : inbox[l] = <<>>
  /\ \A d \in Delivery : call[d] \notin {"unlist", "list"}
  /\ index' = {}
  /\ UNCHANGED <<dedup, lastFrom, unread, inbox, queue, up, stops, call, drainer, expired>>

Next ==
  \/ \E d \in Delivery : Webhook(d)
  \/ ListActive
  \/ \E l \in Lead : DrainVisit(l) \/ ExpireInbox(l)
  \/ DrainStep
  \/ Stop \/ Restart \/ ExpireIndex
  \/ \E m \in Msg : ExpireDedup(m)

Spec == Init /\ [][Next]_vars

(***************************************************************************)
(* asyncio runs every task that can run, and a stopped container is        *)
(* started again (railway.toml restartPolicyType).  An inbox that stays    *)
(* listed is found ready again and again: it becomes idle, or old.         *)
(***************************************************************************)
FairSpec ==
  /\ Spec
  /\ WF_vars(ListActive) /\ WF_vars(DrainStep) /\ WF_vars(Restart)
  /\ \A l \in Lead : WF_vars(DrainVisit(l)) /\ SF_vars(InspectReady(l))

-----------------------------------------------------------------------------
(* Properties *)

TypeOK ==
  /\ dedup \subseteq Msg
  /\ lastFrom \in [Lead -> {"none", "lead"}]
  /\ unread \in [Lead -> SUBSET Msg]
  /\ inbox \in [Lead -> Seq(Msg)]
  /\ index \subseteq Lead
  /\ queue \in Seq(Payload)
  /\ up \in BOOLEAN
  /\ stops \in 0..MaxStops
  /\ call \in [Delivery -> CallPc]
  /\ drainer \in [pc : DrainPc, listed : SUBSET Lead, ready : SUBSET Lead,
                  target : Lead \cup {NoLead}, items : Seq(Msg)]
  /\ expired \subseteq Msg
  /\ drainer.pc \in {"delete", "unlist", "enqueue"} => drainer.target \in Lead

\* The handler of d has passed the dedup and has not yet pushed the item.
Carrying(d) == call[d] \in {"speaker", "unread", "push"}

InInbox(m) == m \in ToSet(inbox[LeadOf[m]])

\* The drainer alone holds m: the key is gone, the payload not yet pushed.
InHand(m) == drainer.pc \in {"unlist", "enqueue"} /\ m \in ToSet(drainer.items)

InQueue(m) == \E i \in DOMAIN queue : m \in ToSet(queue[i].msgs)

\* m has been accepted and some task or some list still holds it.
Alive(m) ==
  \/ \E d \in Delivery : MsgOf[d] = m /\ Carrying(d)
  \/ InInbox(m) \/ InHand(m) \/ InQueue(m)

(***************************************************************************)
(* The dedup of main.py:528 promises that a message Evolution delivers     *)
(* twice is answered once: while its dedup key lives, a message is in at   *)
(* most one place of at most one payload, whatever retries, crashes and    *)
(* restarts come between.                                                  *)
(***************************************************************************)
Tracked(m) == m \notin expired \cup WithoutId

AtMostOnce ==
  \A i, j \in DOMAIN queue : \A a \in DOMAIN queue[i].msgs, b \in DOMAIN queue[j].msgs :
    queue[i].msgs[a] = queue[j].msgs[b] /\ Tracked(queue[i].msgs[a]) => i = j /\ a = b

(***************************************************************************)
(* The only ways a message the webhook accepted can vanish: the process    *)
(* stops under it, its TTL runs out where no drainer looks, or it was      *)
(* pushed between the LRANGE and the DEL of drain_inbox.  In particular    *)
(* the drainer never drops what it has read.                               *)
(***************************************************************************)
PushedSinceRead(m) ==
  LET list == inbox[LeadOf[m]] IN m \in ToSet(SubSeq(list, 1, Len(list) - Len(drainer.items)))

LossOnlyInWindow ==
  [][\A m \in Msg : Alive(m) /\ ~Alive(m)' =>
       \/ up /\ ~up'
       \/ ~up \/ LeadOf[m] \notin index
       \/ drainer.pc = "delete" /\ LeadOf[m] = drainer.target /\ PushedSinceRead(m)]_vars

(***************************************************************************)
(* The pipeline is a lossy FIFO channel per lead: bursts leave in arrival  *)
(* order, whole prefixes at a time, never mixed between leads, also when   *)
(* pushes, drains and crashes interleave.                                  *)
(***************************************************************************)
Waiting(l) ==
  IF drainer.pc \in {"unlist", "enqueue"} /\ drainer.target = l
  THEN drainer.items \o Reverse(inbox[l])
  ELSE Reverse(inbox[l])

Channel == INSTANCE BatchChannel WITH box <- [l \in Lead |-> Waiting(l)], out <- queue

ImplementsChannel == Channel!ChannelSpec

(***************************************************************************)
(* main.py:637: no message waits in the inbox for ever, even if the lead   *)
(* keeps writing.  An inbox that holds messages and stays in the index is  *)
(* drained.                                                                *)
(***************************************************************************)
ListedInboxIsDrained ==
  \A l \in Lead : (l \in index /\ inbox[l] # <<>>) ~> (l \notin index \/ inbox[l] = <<>>)

=============================================================================
