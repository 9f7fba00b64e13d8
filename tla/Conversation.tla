----------------------------- MODULE Conversation -----------------------------
(***************************************************************************)
(* What the bot remembers of a talk with one lead and what its model is    *)
(* shown: the history and the summary in Redis, the messages in the        *)
(* checkpoint of the graph, the media of a turn.  The nodes of graph.py    *)
(* from load_history to send, for turns of the lead, follow-ups, which     *)
(* have no message, and simulations of the panel on the lead's thread.     *)
(* GraphTurn.tla has the rules of the review; here it is a free choice.    *)
(***************************************************************************)
EXTENDS Integers, Sequences, FiniteSets, Functions

CONSTANTS
  Window,      \* MAX_HISTORY, messages kept in Redis
  Limit,       \* MAX_CONTEXT_FOR_LLM, messages loaded in a turn
  Threshold,   \* SUMMARIZE_THRESHOLD
  Keep,        \* SUMMARIZE_KEEP
  MaxRetries,  \* SUPERVISOR_MAX_RETRIES
  MaxTurns,    \* bound on the turns
  MaxFaults    \* bound on turns that break off or do not come, empty summaries, expiries

ASSUME ConversationAssumption ==
  /\ {Window, Limit, Threshold, Keep, MaxRetries, MaxTurns, MaxFaults} \subseteq Nat
  /\ 1 <= Keep /\ Keep <= Threshold
  /\ 2 <= Limit /\ Limit <= Window  \* a turn adds two messages to the chat

Turns == 1..MaxTurns
\* A lead's words, a medium without words ("[mídia]"), or the reply of an attempt.
Message ==
  [by : {"lead", "media"}, turn : Turns, try : {0}]
    \cup [by : {"bot"}, turn : Turns, try : 0..MaxRetries]
None == [by |-> "none", turn |-> 0, try |-> 0]

VARIABLES
  chat,      \* the chat list in Redis, oldest first
  stored,    \* the messages the summary in Redis covers; {} is no summary
  \* the checkpoint
  messages, summary, vision, reply, dispatched, mute,
  \* the running turn
  node, turn, kind, words, try,
  \* history
  received,  \* the replies the lead got
  answered,  \* the turns in which a specialist ran
  seen,      \* whose message the last specialist took for the lead's last one
  cut,       \* the turns that broke off
  dropped,   \* messages removed from the checkpoint without a summary
  unsent,    \* replies that were persisted, and then no bubble came or a flow was in their place
  faults

redisVars == <<chat, stored>>
checkpoint == <<messages, summary, vision, reply, dispatched, mute>>
run == <<turn, kind, words, try>>
history == <<received, answered, seen, cut, dropped, unsent, faults>>
vars == <<redisVars, checkpoint, node, run, history>>

Kinds == {"text", "image", "audio", "follow_up"}
Last(s, n) == SubSeq(s, IF Len(s) > n THEN Len(s) - n + 1 ELSE 1, Len(s))

AppendMessage(list, m) == Last(Append(list, m), Window)
LoadHistory == Last(chat, Limit)
UserMessage == [by |-> IF words THEN "lead" ELSE "media", turn |-> turn, try |-> 0]

Init ==
  /\ chat = << >> /\ stored = {}
  /\ messages = << >> /\ summary = {} /\ vision = 0 /\ reply = None
  /\ dispatched = FALSE /\ mute = FALSE
  /\ node = "end" /\ turn = 0 /\ kind = "text" /\ words = TRUE /\ try = 0
  /\ received = {} /\ answered = {} /\ seen = 0 /\ cut = {} /\ dropped = {}
  /\ unsent = {} /\ faults = 0

\* The input of a turn, where media may have a caption, and load_history.  The reducer
\* add_messages puts the history behind the messages that the checkpoint still has from
\* earlier turns.
Begin(k, simulated) ==
  /\ node = "end" /\ turn < MaxTurns
  /\ simulated => k = "text"
  /\ node' = "summarize"
  /\ turn' = turn + 1 /\ kind' = k /\ try' = 0
  /\ words' \in CASE k = "text" -> {TRUE} [] k = "follow_up" -> {FALSE} [] OTHER -> BOOLEAN
  /\ mute' = (mute \/ simulated)
  /\ messages' = messages \o Append(LoadHistory, UserMessage')
  /\ summary' = IF stored # {} THEN stored ELSE summary
  /\ UNCHANGED <<redisVars, vision, reply, dispatched, history>>

AfterHistory == IF kind \in {"image", "audio"} THEN "vision" ELSE "intent"

SummarizeNot ==
  /\ node = "summarize" /\ Len(messages) <= Threshold
  /\ node' = AfterHistory
  /\ UNCHANGED <<redisVars, checkpoint, run, history>>

Old == SubSeq(messages, 1, Len(messages) - Keep)

\* Faulty: messages without an id are skipped, and no message has one.
SummarizeRemovingNone ==
  /\ node = "summarize" /\ Len(messages) > Threshold
  /\ summary' = summary \cup Range(Old) /\ stored' = summary'
  /\ node' = AfterHistory
  /\ UNCHANGED <<messages, chat, vision, reply, dispatched, mute, run, history>>

\* Faulty: the earlier summary is not given to the model.
SummarizeAnew ==
  /\ node = "summarize" /\ Len(messages) > Threshold
  /\ summary' = Range(Old) /\ stored' = summary'
  /\ messages' = Last(messages, Keep)
  /\ node' = AfterHistory
  /\ UNCHANGED <<chat, vision, reply, dispatched, mute, run, history>>

Summarize ==
  /\ node = "summarize" /\ Len(messages) > Threshold
  /\ summary' = summary \cup Range(Old) /\ stored' = summary'
  /\ messages' = Last(messages, Keep)
  /\ node' = AfterHistory
  /\ UNCHANGED <<chat, vision, reply, dispatched, mute, run, history>>

\* The model answers without text: the turn goes on without any summary; that in Redis
\* stays for the next.
SummarizeEmpty ==
  /\ node = "summarize" /\ Len(messages) > Threshold
  /\ faults < MaxFaults /\ faults' = faults + 1
  /\ summary' = {} /\ messages' = Last(messages, Keep)
  /\ dropped' = dropped \cup summary \cup Range(Old)
  /\ node' = AfterHistory
  /\ UNCHANGED <<redisVars, vision, reply, dispatched, mute, run, received, answered, seen, cut, unsent>>

\* An audio that is transcribed becomes the user message.
Vision ==
  /\ node = "vision"
  /\ vision' = turn
  /\ words' \in {words} \cup (IF kind = "audio" THEN {TRUE} ELSE {})
  /\ node' = "intent"
  /\ UNCHANGED <<redisVars, messages, summary, reply, dispatched, mute, turn, kind, try, history>>

\* A turn without words is never a purchase.
DetectIntent ==
  /\ node = "intent"
  /\ node' \in IF words THEN {"reply", "persist"} ELSE {"reply"}
  /\ UNCHANGED <<redisVars, checkpoint, run, history>>

\* _inject_vision_into_history: the media replace the last human message.
LastHuman == IF vision # 0 THEN vision ELSE turn

\* Faulty: the media stay in the state.
ReplyKeepingMedia ==
  /\ node = "reply"
  /\ seen' = LastHuman /\ answered' = answered \cup {turn}
  /\ reply' = [by |-> "bot", turn |-> turn, try |-> try]
  /\ messages' = Append(messages, reply')
  /\ dispatched' \in BOOLEAN
  /\ node' = "supervisor"
  /\ UNCHANGED <<redisVars, summary, vision, mute, run, received, cut, dropped, unsent, faults>>

\* respond, close_sale or a specialist, and flow_executor behind it: a flow of the panel
\* that the reply asks for is sent, or the reply is to be.
Reply ==
  /\ node = "reply"
  /\ seen' = LastHuman /\ answered' = answered \cup {turn}
  /\ vision' = 0
  /\ reply' = [by |-> "bot", turn |-> turn, try |-> try]
  /\ messages' = Append(messages, reply')
  /\ dispatched' \in BOOLEAN
  /\ node' = "supervisor"
  /\ UNCHANGED <<redisVars, summary, mute, run, received, cut, dropped, unsent, faults>>

Approve ==
  /\ node = "supervisor" /\ node' = "persist"
  /\ UNCHANGED <<redisVars, checkpoint, run, history>>

\* The rejected reply stays among the messages.
Reject ==
  /\ node = "supervisor" /\ try < MaxRetries
  /\ reply' = None /\ try' = try + 1
  /\ node' = "reply"
  /\ UNCHANGED <<redisVars, messages, summary, vision, dispatched, mute, turn, kind, words, history>>

\* The chat with the lead's words, and with the reply behind them.
WithWords == IF words THEN AppendMessage(chat, UserMessage) ELSE chat
WithReply == IF reply = None THEN WithWords ELSE AppendMessage(WithWords, reply)

\* Faulty: what the bot has said is taken from the messages, as rejected replies are.
PersistMessages ==
  LET replies == SelectSeq(messages, LAMBDA m : m.by = "bot" /\ m.turn = turn)
  IN  /\ node = "persist"
      /\ chat' = Last(WithWords \o replies, Window)
      /\ node' = "send"
      /\ UNCHANGED <<stored, checkpoint, run, history>>

Persist ==
  /\ node = "persist"
  /\ chat' = WithReply
  /\ node' = "send"
  /\ UNCHANGED <<stored, checkpoint, run, history>>

\* In a simulation no node sends, and after a flow send_node does not; the reply, if there
\* is one, is in the chat already.
Replies == IF reply = None \/ mute THEN {} ELSE {reply}

Send ==
  /\ node = "send"
  /\ received' = received \cup (IF dispatched THEN {} ELSE Replies)
  /\ unsent' = unsent \cup (IF dispatched THEN Replies ELSE {})
  /\ node' = "end"
  /\ UNCHANGED <<redisVars, checkpoint, run, answered, seen, cut, dropped, faults>>

\* The request of every bubble fails, and the turn ends like any other.
SendFails ==
  /\ node = "send" /\ ~dispatched /\ faults < MaxFaults
  /\ faults' = faults + 1 /\ unsent' = unsent \cup Replies
  /\ node' = "end"
  /\ UNCHANGED <<redisVars, checkpoint, run, received, answered, seen, cut, dropped>>

\* A node raises or the process stops; what earlier nodes wrote stays, and of its own
\* writes those it had made.
Abort ==
  /\ node # "end" /\ faults < MaxFaults
  /\ faults' = faults + 1 /\ cut' = cut \cup {turn}
  /\ node' = "end"
  /\ stored' \in {stored} \cup (IF node = "summarize" /\ Len(messages) > Threshold
                                  THEN {summary \cup Range(Old)} ELSE {})
  /\ chat' \in {chat} \cup (IF node = "persist" THEN {WithWords} ELSE {})
  /\ UNCHANGED <<checkpoint, run, received, answered, seen, dropped, unsent>>

Expire ==
  /\ node = "end" /\ faults < MaxFaults
  /\ faults' = faults + 1
  /\ \/ chat # << >> /\ chat' = << >> /\ UNCHANGED stored
     \/ stored # {} /\ stored' = {} /\ UNCHANGED chat
  /\ UNCHANGED <<checkpoint, node, run, received, answered, seen, cut, dropped, unsent>>

Next ==
  \/ \E k \in Kinds, simulated \in BOOLEAN : Begin(k, simulated)
  \/ SummarizeNot \/ Summarize \/ SummarizeEmpty
  \/ Vision \/ DetectIntent
  \/ Reply \/ Approve \/ Reject
  \/ Persist \/ Send \/ SendFails
  \/ Abort \/ Expire

Spec == Init /\ [][Next]_vars

-----------------------------------------------------------------------------
(* Properties *)

(***************************************************************************)
(* nodes.py:1230-1231, the limits of the summary: the messages a specialist*)
(* is shown never exceed the threshold by more than the retries of its     *)
(* turn, although every turn adds the history again.  The summary itself   *)
(* must read what all the turns that broke off have piled up.              *)
(***************************************************************************)
PromptBounded ==
  /\ node = "reply" => Len(messages) <= Threshold + try
  /\ Len(messages) <= Threshold + MaxRetries + 1 + (1 + Cardinality(cut)) * (Limit + 1)

(***************************************************************************)
(* nodes.py:1248, "comprime as antigas em summary.text": what is in the    *)
(* chat is among the messages the specialist is shown or in its summary,   *)
(* also after turns that broke off and expired keys, unless the model once *)
(* summarised it to nothing.                                               *)
(***************************************************************************)
NothingForgotten ==
  node = "reply" => Range(chat) \subseteq Range(messages) \cup summary \cup dropped

(***************************************************************************)
(* state.py:102-105, media are "consumed local" and do not stay: the       *)
(* message a specialist answers is that of its turn, or a medium that no   *)
(* specialist has answered, because its turn was a purchase or broke off.  *)
(***************************************************************************)
NoMediumAnsweredTwice == [][Reply => seen' = turn \/ seen' \notin answered]_vars

(***************************************************************************)
(* nodes.py:862, the chat the bot builds on is written before anything is  *)
(* sent: a reply in it was received by the lead, unless then none of its   *)
(* bubbles came or a flow was sent in its place, the turn that wrote it    *)
(* broke off, or the thread is mute after a simulation (panel/api.py:705). *)
(* Rejected replies are not in it, whichever turn persists what.           *)
(***************************************************************************)
ChatIsWhatWasSaid ==
  \A m \in Range(chat) :
    m.by = "bot" /\ node # "send" => m \in received \cup unsent \/ m.turn \in cut \/ mute
=============================================================================
