------------------------------- MODULE Delivery -------------------------------
(***************************************************************************)
(* From a reply to the lead's phone: the review with its checks, the       *)
(* bubbles, the reading marks, reaction and quote with their cooldowns, and*)
(* the requests to Evolution with their repetition.  specialists,          *)
(* supervisor_node, persist_node and send_node of nodes.py, for the turns  *)
(* of one lead, which are answers or follow-ups.                           *)
(***************************************************************************)
EXTENDS ReplyText, Supervisor

CONSTANTS
  Raws,          \* what the model may write: tags, a text and its pieces
  LeadMessages,  \* [confirms, pays] of what the lead may write
  Facts,         \* [platform, closing, link, bought], what may be known of him
  MaxRetries,    \* SUPERVISOR_MAX_RETRIES
  MaxPosts,      \* max_attempts of a request to Evolution
  MaxWritten,    \* bound: messages of the lead
  MaxTurns,      \* bound: turns
  MaxFaults      \* bound: requests and turns that fail, keys that expire

NoReply == [text |-> "none", pieces |-> << >>, react |-> FALSE, quote |-> FALSE]
\* What load_history puts in the place of a message that a turn does not have.
NoWords == [by |-> "lead", confirms |-> FALSE, pays |-> FALSE, question |-> FALSE, placeholder |-> TRUE]

ASSUME DeliveryAssumption ==
  /\ {MaxRetries, MaxPosts, MaxWritten, MaxTurns, MaxFaults} \subseteq Nat /\ MaxPosts > 0
  /\ NoWords \notin LeadMessages /\ \A m \in LeadMessages : m.by = "lead"
  /\ \A raw \in Raws : raw.text \in DOMAIN Texts \ {"none"} /\ raw.pieces \in Seq(Piece)

VARIABLES
  messages, chat,       \* of the graph, and the persisted ones
  facts,                \* lead_facts
  step, turn, human,    \* where the turn is, its number, its message of the lead
  asked,                \* number of the lead's last message that a turn has taken
  try, reply,           \* supervisor_attempts, and the reply, or NoReply
  bubbles, next, post,  \* what is sent, the current bubble, its request
  unread, fetched,      \* numbers of the lead's messages, in Redis and in send_node
  cooling,              \* the cooldown keys that are set
  quoting,              \* the first bubble quotes
  sent, quota,          \* sent_count, and chip_quota, added up over the days
  \* the phone
  written, read,        \* how many messages the lead wrote, and which are marked
  phone,                \* the bubbles that came, as <<turn, number>>
  reactions, quotes,    \* how many came
  told,                 \* the replies of which a bubble came
  \* history
  heard,                \* what the lead wrote in the turns so far
  late,                 \* messages pushed between LRANGE and DEL, or marked in vain
  expired,              \* messages that were in the unread buffer when it expired
  rejected, final,      \* replies of the turn that were rejected; the last went on regardless
  unsent,               \* persisted replies of which no bubble came
  lost,                 \* answers of Evolution that were lost
  faults

turnVars == <<messages, chat, facts, turn, human, asked, try, reply, rejected, final>>
readVars == <<unread, fetched, read, late, expired, written>>
sendVars == <<bubbles, next, post, quoting, sent, quota>>
phoneVars == <<phone, reactions, quotes, told, cooling>>
historyVars == <<heard, unsent, lost, faults>>
vars == <<turnVars, step, readVars, sendVars, phoneVars, historyVars>>

Init ==
  /\ messages = << >> /\ chat = << >> /\ facts \in Facts
  /\ step = "end" /\ turn = 0 /\ human = NoWords /\ asked = 0 /\ try = 0 /\ reply = NoReply
  /\ rejected = 0 /\ final = FALSE
  /\ bubbles = << >> /\ next = 1 /\ post = 1 /\ quoting = FALSE /\ sent = 0 /\ quota = 0
  /\ unread = {} /\ fetched = {} /\ read = {} /\ written = 0
  /\ cooling = {} /\ phone = << >> /\ reactions = 0 /\ quotes = 0 /\ told = << >>
  /\ heard = << >> /\ late = {} /\ expired = {} /\ unsent = 0 /\ lost = 0 /\ faults = 0

Fault == faults < MaxFaults /\ faults' = faults + 1

-----------------------------------------------------------------------------
(* The reply and its review. *)

\* The webhook pushes the unread mark of a message.
LeadWrites ==
  /\ written < MaxWritten
  /\ written' = written + 1 /\ unread' = unread \cup {written'}
  /\ late' = IF step = "delete" THEN late \cup {written'} ELSE late
  /\ UNCHANGED <<turnVars, step, fetched, read, expired, sendVars, phoneVars, historyVars>>

\* Until persist, a turn's message and replies are only among the graph's messages.  What
\* lead_memory knows of the lead may be more than in the last turn, or less.
Takes(m) ==
  /\ step = "end" /\ turn < MaxTurns
  /\ step' = "reply" /\ turn' = turn + 1
  /\ human' = m /\ messages' = messages \o Append(chat, m)
  /\ rejected' = 0 /\ final' = FALSE
  /\ facts' \in Facts
  /\ UNCHANGED <<chat, try, reply, readVars, sendVars, phoneVars, unsent, lost, faults>>

\* A message that is a day old has no turn any more (main.py:817).
Answer(m) ==
  /\ written > asked /\ written \notin expired
  /\ Takes(m) /\ asked' = written /\ heard' = Append(heard, m)

\* The lead's last message had its turn, or will have none.
Silent == written = asked \/ written \in expired

FollowUp == written > 0 /\ Silent /\ Takes(NoWords) /\ UNCHANGED <<asked, heard>>

IsAnswer == human # NoWords

\* The bubbles of each text.
Chunked == {<<raw, Chunk(raw.pieces)>> : raw \in Raws}

\* respond, close_sale or a specialist.
Specialist(raw, chunks) ==
  LET tags == ParseTags(raw)
  IN  /\ step = "reply" /\ step' = "review"
      /\ reply' = [text |-> tags.text, pieces |-> raw.pieces, react |-> tags.react, quote |-> tags.quote]
      /\ bubbles' = chunks
      /\ messages' = Append(messages, [by |-> "bot", text |-> reply'.text])
      /\ UNCHANGED <<chat, facts, turn, human, asked, try, rejected, final, readVars, next, post, quoting,
                     sent, quota, phoneVars, historyVars>>

\* parse_tags has removed the tag [COMPROU], so that the check for it never fails.
Verdict == Check(reply.text, FALSE, messages, facts)

Persists(replies) ==
  /\ step' = "fetch"
  /\ chat' = chat \o (IF IsAnswer THEN <<human>> ELSE << >>) \o replies
  /\ UNCHANGED <<messages, facts, turn, human, asked, rejected, readVars, next, post, quoting, sent,
                 quota, phoneVars, historyVars>>

\* The model approves what the checks let through, also if it fails; after the last
\* attempt any reply goes on.
Approve ==
  /\ step = "review" /\ (Verdict.approved \/ try = MaxRetries)
  /\ try' = 0 /\ final' = (try = MaxRetries)
  /\ Persists(<<[by |-> "bot", text |-> reply.text]>>)
  /\ UNCHANGED <<reply, bubbles>>

Rejects == step = "review" /\ try < MaxRetries /\ try' = try + 1 /\ reply' = NoReply /\ bubbles' = << >>

\* By a check or by the model.
Reject ==
  /\ Rejects /\ rejected' = rejected + 1
  /\ step' = "reply"
  /\ UNCHANGED <<messages, chat, facts, turn, human, asked, final, readVars, next, post, quoting, sent,
                 quota, phoneVars, historyVars>>

\* By the model, without a reason or feedback: there is no retry and no answer, and the
\* attempt counts in the next turn.
RejectSilently == Rejects /\ Verdict.approved /\ Persists(<< >>) /\ UNCHANGED final

-----------------------------------------------------------------------------
(* Sending. *)

MessageId == IF IsAnswer THEN {asked} ELSE {}

\* drain_unread: the messages fetched with one command are deleted with the next, and
\* those fetched are marked, with that of the turn.
FetchUnread ==
  /\ step = "fetch" /\ step' = "delete"
  /\ fetched' = unread \cup MessageId
  /\ UNCHANGED <<turnVars, unread, read, late, expired, written, sendVars, phoneVars, historyVars>>

\* Faulty: only the message of the turn is marked.
MarkOnlyAsked ==
  /\ step = "delete" /\ step' = "react"
  /\ unread' = {} /\ fetched' = {}
  /\ \/ read' = read \cup MessageId /\ UNCHANGED late /\ UNCHANGED faults
     \/ Fault /\ late' = late \cup fetched /\ UNCHANGED read
  /\ UNCHANGED <<turnVars, expired, written, sendVars, phoneVars, heard, unsent, lost>>

MarkRead ==
  /\ step = "delete" /\ step' = "react"
  /\ unread' = {} /\ fetched' = {}
  /\ \/ read' = read \cup fetched /\ UNCHANGED late /\ UNCHANGED faults
     \/ Fault /\ late' = late \cup fetched /\ UNCHANGED read
  /\ UNCHANGED <<turnVars, expired, written, sendVars, phoneVars, heard, unsent, lost>>

Wants(tag) == tag /\ bubbles # << >> /\ IsAnswer

Reacts == Wants(reply.react) /\ "react" \notin cooling

\* The answer of the request is not looked at; if it raises the cooldown is not set,
\* whether the reaction came or not.
React ==
  /\ step = "react" /\ step' = "quote"
  /\ \/ ~Reacts /\ UNCHANGED <<cooling, reactions, faults>>
     \/ Reacts /\ reactions' = reactions + 1 /\ cooling' = cooling \cup {"react"} /\ UNCHANGED faults
     \/ /\ Reacts /\ Fault
        /\ reactions' \in {reactions, reactions + 1}
        /\ cooling' \in {cooling, cooling \cup {"react"}}
  /\ UNCHANGED <<turnVars, readVars, sendVars, phone, quotes, told, heard, unsent, lost>>

\* A question is quoted without the tag.
Quote ==
  /\ step = "quote" /\ step' = "send" /\ next' = 1 /\ post' = 1
  /\ quoting' = (Wants(reply.quote \/ human.question) /\ "quote" \notin cooling)
  /\ cooling' = IF quoting' THEN cooling \cup {"quote"} ELSE cooling
  /\ UNCHANGED <<turnVars, readVars, bubbles, sent, quota, phone, reactions, quotes, told,
                 historyVars>>

\* A bubble of the turn came.
Came == \E i \in DOMAIN phone : phone[i][1] = turn

Comes ==
  /\ phone' = Append(phone, <<turn, next>>)
  /\ told' = IF Came THEN told ELSE Append(told, reply.text)
  /\ quotes' = quotes + (IF quoting /\ next = 1 THEN 1 ELSE 0)
  /\ UNCHANGED <<reactions, cooling>>

NextBubble == next' = next + 1 /\ post' = 1

Again == IF post < MaxPosts THEN post' = post + 1 /\ next' = next ELSE NextBubble

Sending == step = "send" /\ next <= Len(bubbles)

\* Faulty: a bubble that came is repeated like one that failed.
DeliveredAgain ==
  /\ Sending /\ Comes /\ sent' = sent + 1 /\ Again
  /\ UNCHANGED <<turnVars, step, readVars, bubbles, quoting, quota, historyVars>>

Delivered ==
  /\ Sending /\ Comes /\ sent' = sent + 1 /\ NextBubble
  /\ UNCHANGED <<turnVars, step, readVars, bubbles, quoting, quota, historyVars>>

\* The bubble comes and the answer is lost: a time-out, or an exception.
AnswerLost ==
  /\ Sending /\ Fault /\ lost' = lost + 1
  /\ Comes /\ (Again \/ NextBubble)
  /\ UNCHANGED <<turnVars, step, readVars, bubbles, quoting, sent, quota, heard, unsent>>

\* A time-out, no connection, 429 or 5xx is repeated; another error, and an exception of
\* the request or of the typing before it, is not.
NotDelivered ==
  /\ Sending /\ Fault
  /\ Again \/ NextBubble
  /\ UNCHANGED <<turnVars, step, readVars, bubbles, quoting, sent, quota, phoneVars, heard, unsent, lost>>

\* What only this turn uses is gone; the next one sets it anew.  The attempts stay.
Ends ==
  /\ step' = "end" /\ reply' = NoReply
  /\ unsent' = unsent + (IF Came \/ reply = NoReply \/ step \in {"reply", "review"} THEN 0 ELSE 1)
  /\ bubbles' = << >> /\ next' = 1 /\ post' = 1 /\ quoting' = FALSE /\ sent' = 0
  /\ UNCHANGED <<messages, chat, facts, turn, human, asked, try, rejected, final>>

\* Faulty: a turn counts whatever became of its bubbles.
EndSendCounting ==
  /\ step = "send" /\ next > Len(bubbles) /\ Ends
  /\ quota' = quota + 1
  /\ UNCHANGED <<readVars, phoneVars, heard, lost, faults>>

\* The turn ends, and _process_queued counts it if something was sent.
EndSend ==
  /\ step = "send" /\ next > Len(bubbles) /\ Ends
  /\ quota' = quota + (IF sent > 0 THEN 1 ELSE 0)
  /\ UNCHANGED <<readVars, phoneVars, heard, lost, faults>>

\* The process stops, or a node raises; a command may have been carried out.
Stop ==
  /\ step # "end" /\ Fault /\ Ends
  /\ fetched' = {}
  /\ \/ UNCHANGED <<unread, late, reactions>>
     \/ step = "delete" /\ unread' = {} /\ late' = late \cup fetched /\ UNCHANGED reactions
     \/ step = "react" /\ Reacts /\ reactions' = reactions + 1 /\ UNCHANGED <<unread, late>>
  /\ UNCHANGED <<read, expired, written, quota, phone, quotes, told, cooling, heard, lost>>

Expire(key) ==
  /\ key \in cooling /\ cooling' = cooling \ {key} /\ Fault
  /\ UNCHANGED <<turnVars, step, readVars, sendVars, phone, reactions, quotes, told, heard, unsent, lost>>

\* The unread buffer lives for a day after the lead's last message, also into a follow-up.
ExpireUnread ==
  /\ step = "end" \/ (~IsAnswer /\ Silent)
  /\ unread # {} /\ unread' = {} /\ expired' = expired \cup unread /\ Fault
  /\ UNCHANGED <<turnVars, step, fetched, read, late, written, sendVars, phoneVars, heard, unsent, lost>>

Next ==
  \/ LeadWrites \/ (\E m \in LeadMessages : Answer(m)) \/ FollowUp
  \/ (\E c \in Chunked : Specialist(c[1], c[2])) \/ Approve \/ Reject \/ RejectSilently
  \/ FetchUnread \/ MarkRead \/ React \/ Quote
  \/ Delivered \/ AnswerLost \/ NotDelivered \/ EndSend
  \/ Stop \/ (\E key \in cooling : Expire(key)) \/ ExpireUnread

Spec == Init /\ [][Next]_vars

-----------------------------------------------------------------------------
(* Properties *)

(***************************************************************************)
(* supervisor.py:184, anti-repetition: a reply that goes on before the last*)
(* attempt has less than 40 % of its words in common with each of the last *)
(* replies the lead got.  Four are compared, less the rejected ones of the *)
(* turn, which are among the messages, and those that never came.          *)
(***************************************************************************)
NoEcho ==
  step = "fetch" /\ ~final /\ reply # NoReply /\ Cardinality(Texts[reply.text].words) >= 4 =>
    \A i \in DOMAIN told :
      i > Len(told) - (Lookback - rejected - unsent) => ~Similar(Texts[reply.text].words, Texts[told[i]].words, 40)

(***************************************************************************)
(* supervisor.py:289, the link of payment goes to a lead who confirms:     *)
(* before the last attempt only if he did so in one of his last three      *)
(* messages, or has had the link or bought before.  A turn that broke off  *)
(* makes an older confirmation count, because its message is not persisted *)
(* and the history is put behind it.                                       *)
(***************************************************************************)
LinkOnlyConfirmed ==
  step = "fetch" /\ ~final /\ reply # NoReply /\ Texts[reply.text].link =>
    \/ facts.bought \/ facts.link
    \/ \E i \in DOMAIN heard : heard[i].confirms /\ i > Len(heard) - (HumanLookback + faults)

(***************************************************************************)
(* tools.py:190-262: the bubbles are the whole reply in its order, at most *)
(* four of them, and all but the last keep to the length with its slack,   *)
(* unless a piece that cannot be broken is longer.                         *)
(***************************************************************************)
BubblesAreTheReply ==
  /\ FlattenSeq(bubbles) = reply.pieces
  /\ Len(bubbles) <= MaxBubbles
  /\ \A i \in 1..Len(bubbles) - 1 :
       Length(bubbles[i]) <= Slack \/ \E j \in DOMAIN bubbles[i] : bubbles[i][j].len >= Length(bubbles[i])

(***************************************************************************)
(* tools.py:290, nodes.py:1640-1735: the lead's phone shows the bubbles of *)
(* a turn in order, one of them again only for an answer that was lost; and*)
(* between two reactions, or two quotes, their key has expired, unless a   *)
(* turn stopped or a request failed in between.                            *)
(***************************************************************************)
PhoneShowsTheTurns ==
  /\ \A i \in 1..Len(phone) - 1 :
       phone[i][1] < phone[i + 1][1] \/ (phone[i][1] = phone[i + 1][1] /\ phone[i][2] <= phone[i + 1][2])
  /\ Len(phone) <= Cardinality(ToSet(phone)) + lost
  /\ reactions <= 1 + faults /\ quotes <= 1 + faults

(***************************************************************************)
(* main.py:922, the day's quota of the chip, against bans: it counts every *)
(* turn of which a bubble came, except those whose answers were all lost   *)
(* or that stopped, and no other turn.                                     *)
(***************************************************************************)
QuotaCounts ==
  LET came == Cardinality({phone[i][1] : i \in DOMAIN phone})
  IN  quota <= came /\ came <= quota + faults + (IF step = "end" THEN 0 ELSE 1)

(***************************************************************************)
(* nodes.py:1650-1664, blue ticks for the whole burst: a message the lead  *)
(* wrote is marked as read, or waits to be, unless it came between the     *)
(* LRANGE and the DEL of drain_unread, the request to mark it failed, or   *)
(* the buffer expired before any later turn came to send_node, and it      *)
(* counts as read (redis_store.py:463).                                    *)
(***************************************************************************)
ReadOrWaiting == 1..written \subseteq read \cup unread \cup late \cup expired
=============================================================================
