------------------------------- MODULE FollowUp -------------------------------
(***************************************************************************)
(* The follow-ups of one lead: a turn of the bot may ask QStash to call    *)
(* /api/trigger-followup later; the call is cancelled if the lead spoke    *)
(* last (the KillSwitch), and otherwise enqueues a turn in which the bot   *)
(* speaks first, which may schedule the next one.  main.py webhook,        *)
(* trigger_followup and _process_queued, nodes.py follow_up_strategist_node*)
(* and persist_node, qstash.py.                                            *)
(*                                                                         *)
(* Every await is a step.  A follow-up is due at any time: how long QStash *)
(* waits is the strategist's choice.  The model's answers (what the lead   *)
(* feels, which tags it writes) are free choices.  The status snapshot     *)
(* written for the panel is left out: no code of the bot reads it.  The    *)
(* 30 days after which the counter expires are longer than any delay; the  *)
(* 72 hours of last_from are not, a delay may be seven days (qstash.py:67).*)
(***************************************************************************)
EXTENDS Naturals, Sequences, FiniteSets

CONSTANTS
  MaxAttempts,     \* FOLLOWUP_MAX_ATTEMPTS
  MaxWrites,       \* bound: messages the lead writes
  MaxRedeliveries, \* bound: calls QStash repeats because it saw no answer
  MaxClears,       \* bound: how often an admin clears the counter
  MaxExpiries      \* bound: how often last_from expires

ASSUME FollowUpAssumption ==
  /\ MaxAttempts \in Nat \ {0}
  /\ {MaxWrites, MaxRedeliveries, MaxClears, MaxExpiries} \subseteq Nat

VARIABLES
  lastFrom,    \* last_from: who spoke last
  inboxed,     \* the inbox holds messages of the lead
  queue,       \* the lead's payloads in queue:messages, by kind
  attempts,    \* followup_attempts
  pending,     \* the calls QStash will make
  passed,      \* the calls that passed the KillSwitch and have not yet enqueued
  turn,        \* the turn the worker runs: [pc, kind, bought]; bought: the lead says he paid
  planned,     \* the checkpoint's schedule_minutes is set
  converted,   \* the checkpoint's has_converted
  \* history and bounds
  wrote,       \* messages the lead has written
  answered,    \* inbound turns begun
  scheduled,   \* calls ever asked of QStash
  redelivered,
  cleared,
  expiries

leadVars == <<lastFrom, inboxed, wrote>>
callVars == <<pending, passed, scheduled, redelivered>>
checkpoint == <<planned, converted>>
bounds == <<cleared, expiries>>
vars == <<leadVars, queue, attempts, callVars, turn, checkpoint, answered, bounds>>

Kind == {"inbound", "followup"}
Call == [id : Nat, seen : Nat]     \* seen: wrote when the call was asked for
\* "graph": up to the strategist; "user" and "reply": the writes of persist_node;
\* "mark", "count" and "schedule": _process_queued after the graph.
Pc == {"idle", "graph", "user", "reply", "mark", "count", "schedule"}
IsFollowUp == turn.kind = "followup"
NoTurn == [pc |-> "idle", kind |-> "inbound", bought |-> FALSE]

Init ==
  /\ lastFrom = "none" /\ inboxed = FALSE /\ wrote = 0
  /\ queue = <<>>
  /\ attempts = 0
  /\ pending = {} /\ passed = {} /\ scheduled = 0 /\ redelivered = 0
  /\ turn = NoTurn
  /\ planned = FALSE /\ converted = FALSE
  /\ answered = 0
  /\ cleared = 0 /\ expiries = 0

-----------------------------------------------------------------------------
(* The lead, the drainer and the admin. *)

\* The webhook: set_last_from "lead", then push_inbox.
LeadWrites ==
  /\ wrote < MaxWrites
  /\ wrote' = wrote + 1
  /\ lastFrom' = "lead"
  /\ inboxed' = TRUE
  /\ UNCHANGED <<queue, attempts, callVars, turn, checkpoint, answered, bounds>>

\* The drainer coalesces what is in the inbox into one payload.
Drain ==
  /\ inboxed
  /\ inboxed' = FALSE
  /\ queue' = Append(queue, "inbound")
  /\ UNCHANGED <<lastFrom, wrote, attempts, callVars, turn, checkpoint, answered, bounds>>

\* clear_lead_killswitch of the panel.
ClearKillSwitch ==
  /\ cleared < MaxClears
  /\ cleared' = cleared + 1
  /\ attempts' = 0
  /\ UNCHANGED <<leadVars, queue, callVars, turn, checkpoint, answered, expiries>>

\* 72 hours after it was written last_from expires, when no message of the lead is on its
\* way, but perhaps a call.
ExpireLastFrom ==
  /\ lastFrom # "none" /\ ~inboxed /\ "inbound" \notin {queue[i] : i \in DOMAIN queue}
  /\ turn.pc = "idle" \/ IsFollowUp
  /\ expiries < MaxExpiries /\ expiries' = expiries + 1
  /\ lastFrom' = "none"
  /\ UNCHANGED <<inboxed, wrote, queue, attempts, callVars, turn, checkpoint, answered, cleared>>

-----------------------------------------------------------------------------
(* trigger_followup. *)

\* Faulty: the skip is answered as a failure, and QStash will call again.
TriggerSkipAsFailure(c) ==
  /\ lastFrom = "lead"
  /\ UNCHANGED vars

\* GET last_from says "lead": the follow-up is cancelled.
TriggerSkip(c) ==
  /\ lastFrom = "lead"
  /\ pending' = pending \ {c}
  /\ UNCHANGED <<leadVars, queue, attempts, passed, scheduled, redelivered, turn, checkpoint, answered, bounds>>

TriggerPass(c) ==
  /\ lastFrom # "lead"
  /\ pending' = pending \ {c}
  /\ passed' = passed \cup {c}
  /\ UNCHANGED <<leadVars, queue, attempts, scheduled, redelivered, turn, checkpoint, answered, bounds>>

\* LPUSH of the payload.
TriggerEnqueue(c) ==
  /\ queue' = Append(queue, "followup")
  /\ passed' = passed \ {c}
  /\ UNCHANGED <<leadVars, attempts, pending, scheduled, redelivered, turn, checkpoint, answered, bounds>>

\* QStash sees no answer, because the process stops before the LPUSH or right after
\* it, and will call again.
TriggerUnanswered(c) ==
  /\ redelivered < MaxRedeliveries
  /\ redelivered' = redelivered + 1
  /\ passed' = passed \ {c}
  /\ pending' = pending \cup {c}
  /\ queue' \in {queue, Append(queue, "followup")}
  /\ UNCHANGED <<leadVars, attempts, scheduled, turn, checkpoint, answered, bounds>>

Trigger ==
  \/ \E c \in pending : TriggerSkip(c) \/ TriggerPass(c)
  \/ \E c \in passed : TriggerEnqueue(c)

-----------------------------------------------------------------------------
(* The worker: one turn at a time. *)

Goes(from, to) == turn.pc = from /\ turn' = [turn EXCEPT !.pc = to]

Take ==
  /\ turn.pc = "idle" /\ queue # <<>>
  /\ turn' = [NoTurn EXCEPT !.pc = "graph", !.kind = Head(queue)]
  /\ queue' = Tail(queue)
  /\ answered' = answered + (IF Head(queue) = "inbound" THEN 1 ELSE 0)
  /\ UNCHANGED <<leadVars, attempts, callVars, checkpoint, bounds>>

\* The payload is popped and never served: stale, deferred too often, or lost.
Discard ==
  /\ turn.pc = "idle" /\ queue # <<>>
  /\ queue' = Tail(queue)
  /\ UNCHANGED <<leadVars, attempts, callVars, turn, checkpoint, answered, bounds>>

\* Intent comprou: no specialist and no strategist runs, so the checkpoint keeps
\* what an earlier turn wrote.  A follow-up turn has no message to classify.
Bought ==
  /\ turn.pc = "graph" /\ ~IsFollowUp
  /\ turn' = [turn EXCEPT !.pc = "user", !.bought = TRUE]
  /\ UNCHANGED <<leadVars, queue, attempts, callVars, checkpoint, answered, bounds>>

\* The specialist writes [COMPROU]: the strategist returns early, and
\* schedule_minutes is that of the [AGENDAR] tag, if there is one.
Tagged ==
  /\ turn.pc = "graph"
  /\ turn' = [turn EXCEPT !.pc = "user", !.bought = TRUE]
  /\ converted' = TRUE
  /\ planned' \in BOOLEAN
  /\ UNCHANGED <<leadVars, queue, attempts, callVars, answered, bounds>>

\* The strategist classifies the lead, with the counter as it was; then a message
\* that engages resets it.
Classified ==
  /\ Goes("graph", "user")
  /\ converted' = FALSE
  /\ planned' \in {p \in BOOLEAN : p => attempts < MaxAttempts}
  /\ attempts' \in IF IsFollowUp THEN {attempts} ELSE {attempts, 0}
  /\ UNCHANGED <<leadVars, queue, callVars, answered, bounds>>

\* persist_node appends the lead's message ...
PersistUser ==
  /\ Goes("user", "reply")
  /\ lastFrom' = IF IsFollowUp THEN lastFrom ELSE "lead"
  /\ UNCHANGED <<inboxed, wrote, queue, attempts, callVars, checkpoint, answered, bounds>>

\* Faulty: the speaker is written with the history's name for the bot.
PersistReplyAsModel ==
  /\ Goes("reply", "mark")
  /\ lastFrom' \in {lastFrom, "model"}
  /\ UNCHANGED <<inboxed, wrote, queue, attempts, callVars, checkpoint, answered, bounds>>

\* ... and the reply, unless it is empty.
PersistReply ==
  /\ Goes("reply", "mark")
  /\ lastFrom' \in {lastFrom, "agent"}
  /\ UNCHANGED <<inboxed, wrote, queue, attempts, callVars, checkpoint, answered, bounds>>

\* After send_node, _process_queued writes it again, reply or not.
MarkAgent ==
  /\ Goes("mark", "count")
  /\ lastFrom' = "agent"
  /\ UNCHANGED <<inboxed, wrote, queue, attempts, callVars, checkpoint, answered, bounds>>

\* Faulty: no hard gate after the increment.
CountUngated ==
  /\ Goes("count", IF planned /\ ~converted THEN "schedule" ELSE "idle")
  /\ attempts' = attempts + (IF IsFollowUp THEN 1 ELSE 0)
  /\ UNCHANGED <<leadVars, queue, callVars, checkpoint, answered, bounds>>

\* increment_followup_attempts and the hard gate; then whether to call QStash.
Count ==
  /\ attempts' = attempts + (IF IsFollowUp THEN 1 ELSE 0)
  /\ LET exhausted == IsFollowUp /\ attempts' >= MaxAttempts
     IN  Goes("count", IF planned /\ ~converted /\ ~exhausted THEN "schedule" ELSE "idle")
  /\ UNCHANGED <<leadVars, queue, callVars, checkpoint, answered, bounds>>

\* Faulty: the publish is retried although it went through.
ScheduleTwice ==
  /\ Goes("schedule", "idle")
  /\ scheduled' = scheduled + 2
  /\ pending' = pending \cup {[id |-> scheduled + n, seen |-> wrote] : n \in 1..2}
  /\ UNCHANGED <<leadVars, queue, attempts, passed, redelivered, checkpoint, answered, bounds>>

\* The publish to QStash.
Schedule ==
  /\ Goes("schedule", "idle")
  /\ scheduled' = scheduled + 1
  /\ pending' = pending \cup {[id |-> scheduled + 1, seen |-> wrote]}
  /\ UNCHANGED <<leadVars, queue, attempts, passed, redelivered, checkpoint, answered, bounds>>

\* The project has follow-ups switched off, QStash is not configured, the publish fails.
ScheduleNot ==
  /\ Goes("schedule", "idle")
  /\ UNCHANGED <<leadVars, queue, attempts, callVars, checkpoint, answered, bounds>>

\* The graph raises, or the process stops: the rest of the turn does not happen.
Abort ==
  /\ turn.pc # "idle"
  /\ turn' = [turn EXCEPT !.pc = "idle"]
  /\ UNCHANGED <<leadVars, queue, attempts, callVars, checkpoint, answered, bounds>>

Turn ==
  \/ Take \/ Bought \/ Tagged \/ Classified \/ PersistUser \/ PersistReply
  \/ MarkAgent \/ Count \/ Schedule \/ ScheduleNot

Next ==
  \/ LeadWrites \/ Drain \/ ClearKillSwitch \/ ExpireLastFrom
  \/ Trigger \/ \E c \in passed : TriggerUnanswered(c)
  \/ Turn \/ Discard \/ Abort

Spec == Init /\ [][Next]_vars

\* QStash makes every call it was asked for; the handler and the worker go on.
FairSpec == Spec /\ WF_vars(Trigger) /\ WF_vars(Turn)

-----------------------------------------------------------------------------
(* Properties *)

TypeOK ==
  /\ lastFrom \in {"none", "lead", "agent"}
  /\ inboxed \in BOOLEAN
  /\ queue \in Seq(Kind)
  /\ attempts \in Nat
  /\ pending \subseteq Call /\ passed \subseteq Call
  /\ turn \in [pc : Pc, kind : Kind, bought : BOOLEAN]
  /\ planned \in BOOLEAN /\ converted \in BOOLEAN
  /\ wrote \in 0..MaxWrites /\ redelivered \in 0..MaxRedeliveries /\ cleared \in 0..MaxClears
  /\ answered \in Nat /\ scheduled \in Nat /\ expiries \in 0..MaxExpiries

(***************************************************************************)
(* Chains of follow-ups do not multiply: the follow-ups alive (scheduled,  *)
(* triggered, queued or running) are at most the inbound turns that can    *)
(* have begun one, plus the calls QStash repeated.  Several do live side   *)
(* by side: a new one cancels no older one.                                *)
(***************************************************************************)
FollowUps(q) == {i \in DOMAIN q : q[i] = "followup"}
Alive ==
  Cardinality(pending) + Cardinality(passed) + Cardinality(FollowUps(queue))
    + (IF turn.pc # "idle" /\ IsFollowUp THEN 1 ELSE 0)

ChainsBounded == Alive <= answered + redelivered

(***************************************************************************)
(* main.py:976, "defesa em profundidade": strategist and hard gate         *)
(* together never schedule a follow-up for a lead that has had MaxAttempts *)
(* of them, whatever resets, repeated calls and aborted turns do.  Only    *)
(* the turn of a purchase may, which passes neither.                       *)
(***************************************************************************)
NoScheduleWhenExhausted ==
  [][scheduled' > scheduled => attempts < MaxAttempts \/ turn.bought]_vars

(***************************************************************************)
(* A lead who says nothing more is left alone in the end.                  *)
(***************************************************************************)
FollowUpsEnd == <>[](Alive = 0)

(***************************************************************************)
(* main.py:539 "lead enviou msg, cancela follow-up pendente", README.md:20 *)
(* "KillSwitch cancels if lead replies first": no follow-up passes that    *)
(* was scheduled before the lead's last message.                           *)
(***************************************************************************)
KillSwitchCancels ==
  [][\A c \in pending : c \in passed' => c.seen = wrote]_vars

=============================================================================
