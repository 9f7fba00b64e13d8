--------------------------- MODULE Delivery_proofs ---------------------------
(***************************************************************************)
(* For any texts, messages, facts and bounds: what the lead's phone shows, *)
(* what is counted and marked, and what the review lets through.  The last *)
(* follows from where the graph's messages, the persisted ones and the     *)
(* lead's own view of the conversation stand to each other: the persisted  *)
(* history lies in the graph's messages just before the turn's own, and it *)
(* is behind the lead's view by no more than what failed.                  *)
(***************************************************************************)
EXTENDS Delivery, SequenceTheorems, FiniteSetTheorems, WellFoundedInduction, TLAPS

Say == {raw.text : raw \in Raws}
BotMessage == [by : {"bot"}, text : Say]
Message == LeadMessages \cup {NoWords} \cup BotMessage

\* Where a turn is being written, and where its reply is on its way.
Writing == {"reply", "review"}
Releasing == {"fetch", "delete", "react", "quote", "send"}

TypeInv ==
  /\ messages \in Seq(Message) /\ chat \in Seq(Message)
  /\ step \in {"end"} \cup Writing \cup Releasing
  /\ human \in LeadMessages \cup {NoWords}
  /\ {turn, written, rejected, sent, quota, reactions, quotes, unsent, lost, faults} \subseteq Nat
  /\ next \in Nat \ {0}
  /\ reply = NoReply \/ reply.text \in Say
  /\ step = "review" => reply # NoReply
  /\ reply = NoReply => bubbles = << >>
  /\ phone \in Seq(Nat \X Nat) /\ told \in Seq(Say) /\ heard \in Seq(LeadMessages)

-----------------------------------------------------------------------------
(* The bounds are natural numbers. *)
LEMMA Bounds ==
  /\ {MaxRetries, MaxPosts, MaxWritten, MaxTurns, MaxFaults} \subseteq Nat
  /\ Lookback \in Nat /\ Lookback > 0 /\ HumanLookback \in Nat /\ HumanLookback > 0
  BY DeliveryAssumption, SupervisorAssumption

(* Of the messages, those of the lead and the placeholder are the lead's. *)
LEMMA Authors ==
  /\ \A m \in LeadMessages : m.by = "lead" /\ m # NoWords
  /\ NoWords.by = "lead"
  /\ \A m \in BotMessage : m.by = "bot" /\ m.text \in Say
  /\ \A raw \in Raws : raw.text \in Say /\ raw.text # "none"
  /\ \A text \in Say : [by |-> "bot", text |-> text] \in BotMessage
<1>1. NoWords.by = "lead"
  BY DEF NoWords
<1>2. \A m \in BotMessage : m.by = "bot" /\ m.text \in Say
  BY DEF BotMessage
<1>3. \A raw \in Raws : raw.text \in Say /\ raw.text # "none"
  BY DeliveryAssumption DEF Say
<1>4. \A text \in Say : [by |-> "bot", text |-> text] \in BotMessage
  BY DEF BotMessage
<1> QED
  BY <1>1, <1>2, <1>3, <1>4, DeliveryAssumption

(* What a specialist answers is a reply. *)
LEMMA SpecialistReplies ==
  ASSUME NEW raw \in Raws, NEW chunks, Specialist(raw, chunks)
  PROVE  /\ reply'.text \in Say /\ reply' # NoReply /\ bubbles' = chunks
         /\ messages' = Append(messages, [by |-> "bot", text |-> reply'.text])
         /\ step = "reply" /\ step' = "review"
         /\ UNCHANGED <<chat, turn, human, asked, try, rejected, final, readVars, next, post, quoting,
                        sent, quota, phoneVars, historyVars>>
<1>1. raw.text \in Say /\ raw.text # "none"
  BY Authors
<1>2. reply' = [text |-> raw.text, pieces |-> raw.pieces, react |-> raw.react, quote |-> raw.quote]
  BY DEF Specialist, ParseTags
<1>3. reply'.text = raw.text
  BY <1>2
<1>4. reply' # NoReply
  BY <1>1, <1>3 DEF NoReply
<1> QED
  BY <1>1, <1>3, <1>4 DEF Specialist

(* What is persisted: the lead's message of the turn, if it has one, and the replies. *)
LEMMA Persisted ==
  ASSUME TypeInv, NEW bot \in Message, NEW replies \in {<< >>, <<bot>>}, Persists(replies)
  PROVE  /\ chat' \in Seq(Message)
         /\ chat' = (IF replies = << >> THEN (IF IsAnswer THEN Append(chat, human) ELSE chat)
                     ELSE Append(IF IsAnswer THEN Append(chat, human) ELSE chat, bot))
<1>1. chat \in Seq(Message) /\ human \in Message
  BY DEF TypeInv, Message
<1> DEFINE mine == IF IsAnswer THEN <<human>> ELSE << >>
           own == IF IsAnswer THEN Append(chat, human) ELSE chat
<1>2. chat \o mine = own /\ own \in Seq(Message)
  <2>1. Append(chat, human) = chat \o <<human>> /\ Append(chat, human) \in Seq(Message)
    BY <1>1, AppendIsConcat, AppendProperties
  <2>2. chat \o << >> = chat
    BY <1>1, ConcatEmptySeq
  <2> QED
    BY <1>1, <2>1, <2>2
<1>3. chat' = (chat \o mine) \o replies
  BY DEF Persists
<1> HIDE DEF mine, own
<1>4. chat' = own \o replies
  BY <1>2, <1>3
<1>5. own \o << >> = own
  BY <1>2, ConcatEmptySeq
<1>6. own \o <<bot>> = Append(own, bot) /\ Append(own, bot) \in Seq(Message)
  BY <1>2, AppendIsConcat, AppendProperties
<1>7. <<bot>> # << >>
  OBVIOUS
<1>8. chat' = (IF replies = << >> THEN own ELSE Append(own, bot)) /\ chat' \in Seq(Message)
  BY <1>2, <1>4, <1>5, <1>6, <1>7
<1> QED
  BY <1>8 DEF own

(* The initial states have the types. *)
LEMMA TypeInit == Init => TypeInv
<1> SUFFICES ASSUME Init
             PROVE  TypeInv
  OBVIOUS
<1>1. << >> \in Seq(Message) /\ << >> \in Seq(Nat \X Nat) /\ << >> \in Seq(Say) /\ << >> \in Seq(LeadMessages)
  BY EmptySeq
<1> QED
  BY <1>1 DEF Init, TypeInv, Writing, Releasing

(* What a bubble that comes does keeps the types. *)
LEMMA ComesType ==
  ASSUME TypeInv, Sending, Comes
  PROVE  /\ phone' = Append(phone, <<turn, next>>) /\ phone' \in Seq(Nat \X Nat)
         /\ told' \in Seq(Say) /\ quotes' \in Nat /\ quotes' <= quotes + 1
         /\ reply # NoReply
<1>1. bubbles # << >>
  BY DEF Sending, TypeInv
<1>2. reply # NoReply /\ reply.text \in Say
  BY <1>1 DEF TypeInv
<1>3. phone \in Seq(Nat \X Nat) /\ <<turn, next>> \in Nat \X Nat
  BY DEF TypeInv
<1>4. phone' = Append(phone, <<turn, next>>) /\ phone' \in Seq(Nat \X Nat)
  BY <1>3, AppendProperties DEF Comes
<1>5. Append(told, reply.text) \in Seq(Say)
  BY <1>2, AppendProperties DEF TypeInv
<1> QED
  BY SMTT(30), <1>2, <1>4, <1>5 DEF Comes, TypeInv

(* The attempt to send a bubble ends with the next bubble or the next request. *)
LEMMA NextType ==
  ASSUME TypeInv, Again \/ NextBubble
  PROVE  next' \in Nat \ {0} /\ next' \in {next, next + 1}
  BY SMTT(30) DEF TypeInv, Again, NextBubble

(* A turn that ends keeps the types, and what it leaves of them. *)
LEMMA EndsType ==
  ASSUME TypeInv, Ends
  PROVE  /\ step' = "end" /\ reply' = NoReply /\ bubbles' = << >> /\ next' = 1
         /\ unsent' \in Nat /\ unsent' >= unsent
  BY SMTT(30) DEF TypeInv, Ends

(* The types hold in every step of a turn that is being written. *)
LEMMA WritingType ==
  ASSUME TypeInv,
         \/ \E m \in LeadMessages : Answer(m)
         \/ FollowUp
         \/ \E c \in Chunked : Specialist(c[1], c[2])
         \/ Approve \/ Reject \/ RejectSilently
  PROVE  TypeInv'
<1>1. ASSUME NEW m \in LeadMessages \cup {NoWords}, Takes(m),
             \/ m \in LeadMessages /\ heard' = Append(heard, m)
             \/ UNCHANGED heard
      PROVE  TypeInv'
  <2>1. m \in Message /\ messages \in Seq(Message) /\ chat \in Seq(Message)
    BY DEF TypeInv, Message
  <2>2. Append(chat, m) \in Seq(Message)
    BY <2>1, AppendProperties
  <2>3. messages \o Append(chat, m) \in Seq(Message)
    BY <2>1, <2>2, ConcatProperties
  <2>4. heard' \in Seq(LeadMessages)
    <3>1. heard \in Seq(LeadMessages)
      BY DEF TypeInv
    <3>2. m \in LeadMessages => Append(heard, m) \in Seq(LeadMessages)
      BY <3>1, AppendProperties
    <3> QED
      BY <1>1, <3>1, <3>2
  <2> QED
    BY SMTT(30), <1>1, <2>3, <2>4 DEF Takes, TypeInv, Writing, readVars, sendVars, phoneVars
<1>2. ASSUME NEW m \in LeadMessages, Answer(m)
      PROVE  TypeInv'
  BY <1>1, <1>2 DEF Answer
<1>3. CASE FollowUp
  BY <1>1, <1>3 DEF FollowUp
<1>4. ASSUME NEW c \in Chunked, Specialist(c[1], c[2])
      PROVE  TypeInv'
  <2>1. PICK raw \in Raws : c = <<raw, Chunk(raw.pieces)>>
    BY DEF Chunked
  <2>2. c[1] = raw
    BY <2>1
  <2>3. Specialist(raw, c[2])
    BY <1>4, <2>2
  <2> HIDE <2>1, <2>2
  <2>4. messages' \in Seq(Message) 
    <3>1. [by |-> "bot", text |-> reply'.text] \in Message
      BY <2>3, SpecialistReplies, Authors DEF Message
    <3>2. messages \in Seq(Message)
      BY DEF TypeInv
    <3>3. messages' = Append(messages, [by |-> "bot", text |-> reply'.text])
      BY <2>3, SpecialistReplies
    <3> QED
      BY <3>1, <3>2, <3>3, AppendProperties
  <2> QED
    BY <2>3, <2>4, SpecialistReplies DEF TypeInv, Writing, readVars, phoneVars, historyVars
<1>5. CASE Approve
  <2>1. [by |-> "bot", text |-> reply.text] \in Message
    BY <1>5, Authors DEF Approve, TypeInv, Message
  <2>2. chat' \in Seq(Message)
    BY <1>5, <2>1, Persisted DEF Approve
  <2> QED
    BY <1>5, <2>2 DEF Approve, Persists, TypeInv, Releasing, readVars, phoneVars, historyVars
<1>6. CASE Reject
  BY SMTT(30), <1>6 DEF Reject, Rejects, TypeInv, Writing, readVars, phoneVars, historyVars
<1>7. CASE RejectSilently
  <2>1. chat' \in Seq(Message)
    BY <1>7, Persisted DEF RejectSilently, Message
  <2> QED
    BY <1>7, <2>1 DEF RejectSilently, Rejects, Persists, TypeInv, Releasing, readVars, phoneVars, historyVars
<1> QED
  BY <1>2, <1>3, <1>4, <1>5, <1>6, <1>7

(* The types hold in every step of a turn that is sent, or stopped. *)
LEMMA SendingType ==
  ASSUME TypeInv,
         \/ LeadWrites \/ FetchUnread \/ MarkRead \/ React \/ Quote
         \/ Delivered \/ AnswerLost \/ NotDelivered \/ EndSend
         \/ Stop \/ (\E key \in cooling : Expire(key)) \/ ExpireUnread
  PROVE  TypeInv'
<1>1. CASE LeadWrites
  BY SMTT(30), <1>1 DEF LeadWrites, TypeInv, turnVars, sendVars, phoneVars, historyVars
<1>2. CASE FetchUnread
  BY <1>2 DEF FetchUnread, TypeInv, Releasing, turnVars, sendVars, phoneVars, historyVars
<1>3. CASE MarkRead
  BY SMTT(30), <1>3 DEF MarkRead, Fault, TypeInv, Releasing, turnVars, sendVars, phoneVars
<1>4. CASE React
  <2>1. reactions' \in {reactions, reactions + 1} /\ faults' \in {faults, faults + 1}
    BY <1>4 DEF React, Fault
  <2>2. reactions' \in Nat /\ faults' \in Nat
    BY SMTT(30), <2>1 DEF TypeInv
  <2>3. step' = "quote" /\ UNCHANGED <<turnVars, readVars, sendVars, phone, quotes, told, heard, unsent, lost>>
    BY <1>4 DEF React
  <2> QED
    BY <2>2, <2>3 DEF TypeInv, Releasing, turnVars, readVars, sendVars
<1>5. CASE Quote
  BY <1>5 DEF Quote, TypeInv, Releasing, turnVars, readVars, historyVars
<1>6. CASE Delivered
  <2>1. Sending /\ Comes /\ NextBubble /\ sent' = sent + 1
    BY <1>6 DEF Delivered
  <2>2. UNCHANGED <<turnVars, step, readVars, bubbles, quoting, quota, historyVars, reactions>>
    BY <1>6 DEF Delivered, Comes
  <2>3. phone' \in Seq(Nat \X Nat) /\ told' \in Seq(Say) /\ quotes' \in Nat
    BY <2>1, ComesType
  <2>4. next' \in Nat \ {0}
    BY <2>1, NextType
  <2>5. sent' \in Nat
    BY SMTT(30), <2>1 DEF TypeInv
  <2> QED
    BY <2>2, <2>3, <2>4, <2>5 DEF TypeInv, turnVars, readVars, historyVars
<1>7. CASE AnswerLost
  <2>1. Sending /\ Comes /\ (Again \/ NextBubble) /\ Fault /\ lost' = lost + 1
    BY <1>7 DEF AnswerLost
  <2>2. UNCHANGED <<turnVars, step, readVars, bubbles, quoting, sent, quota, heard, unsent, reactions>>
    BY <1>7 DEF AnswerLost, Comes
  <2>3. phone' \in Seq(Nat \X Nat) /\ told' \in Seq(Say) /\ quotes' \in Nat
    BY <2>1, ComesType
  <2>4. next' \in Nat \ {0}
    BY <2>1, NextType
  <2>5. lost' \in Nat /\ faults' \in Nat
    <3>1. lost' = lost + 1 /\ faults' = faults + 1
      BY <1>7 DEF AnswerLost, Fault
    <3>2. lost \in Nat /\ faults \in Nat
      BY DEF TypeInv
    <3> QED
      BY <3>1, <3>2
  <2> QED
    BY <2>2, <2>3, <2>4, <2>5 DEF TypeInv, turnVars, readVars
<1>8. CASE NotDelivered
  BY SMTT(30), <1>8, NextType DEF NotDelivered, Fault, TypeInv, turnVars, readVars, phoneVars
<1>9. CASE EndSend
  <2>1. Ends /\ UNCHANGED <<readVars, phoneVars, heard, lost, faults>>
    BY <1>9 DEF EndSend
  <2>2. quota' \in Nat
    BY SMTT(30), <1>9 DEF EndSend, TypeInv
  <2>3. step' = "end" /\ reply' = NoReply /\ bubbles' = << >> /\ next' = 1 /\ unsent' \in Nat
    BY <2>1, EndsType
  <2>4. sent' = 0 /\ UNCHANGED <<messages, chat, facts, turn, human, asked, try, rejected, final>>
    BY <2>1 DEF Ends
  <2> QED
    BY <2>1, <2>2, <2>3, <2>4 DEF TypeInv, readVars, phoneVars
<1>10. CASE Stop
  <2>1. Ends /\ Fault /\ UNCHANGED <<written, quota, phone, quotes, told, cooling, heard, lost>>
    BY <1>10 DEF Stop
  <2>2. reactions' \in Nat
    BY <1>10 DEF Stop, TypeInv
  <2>3. step' = "end" /\ reply' = NoReply /\ bubbles' = << >> /\ next' = 1 /\ unsent' \in Nat
    BY <2>1, EndsType
  <2>4. sent' = 0 /\ UNCHANGED <<messages, chat, facts, turn, human, asked, try, rejected, final>>
    BY <2>1 DEF Ends
  <2>5. faults' \in Nat
    BY SMTT(30), <2>1 DEF Fault, TypeInv
  <2> QED
    BY <2>1, <2>2, <2>3, <2>4, <2>5 DEF TypeInv
<1>11. ASSUME NEW key \in cooling, Expire(key)
       PROVE  TypeInv'
  BY SMTT(30), <1>11 DEF Expire, Fault, TypeInv, turnVars, readVars, sendVars
<1>12. CASE ExpireUnread
  BY SMTT(30), <1>12 DEF ExpireUnread, Fault, TypeInv, turnVars, sendVars, phoneVars
<1> QED
  BY <1>1, <1>2, <1>3, <1>4, <1>5, <1>6, <1>7, <1>8, <1>9, <1>10, <1>11, <1>12

(* The types are kept by every step. *)
LEMMA TypeStep == TypeInv /\ [Next]_vars => TypeInv'
<1>1. CASE Next
  BY <1>1, WritingType, SendingType DEF Next
<1>2. CASE UNCHANGED vars
  BY <1>2 DEF TypeInv, vars, turnVars, readVars, sendVars, phoneVars, historyVars
<1> QED
  BY <1>1, <1>2

-----------------------------------------------------------------------------
(* The marks of reading.  What drain_unread deletes it has fetched, or it came late. *)
ReadInv == ReadOrWaiting /\ (step = "delete" => unread \subseteq fetched \cup late)

(* No step takes a mark away before it is fetched. *)
LEMMA ReadStep == TypeInv /\ ReadInv /\ [Next]_vars => ReadInv'
<1> SUFFICES ASSUME TypeInv, ReadInv, [Next]_vars
             PROVE  ReadInv'
  OBVIOUS
<1> USE DEF ReadInv, ReadOrWaiting
<1>1. CASE LeadWrites
  <2>1. 1..written' = (1..written) \cup {written'}
    BY SMTT(30), <1>1 DEF LeadWrites, TypeInv
  <2>2. unread' = unread \cup {written'} /\ late \subseteq late' /\ UNCHANGED <<read, expired, step, fetched>>
    BY <1>1 DEF LeadWrites
  <2>3. step = "delete" => late' = late \cup {written'}
    BY <1>1 DEF LeadWrites
  <2> HIDE <1>1
  <2> QED
    BY <2>1, <2>2, <2>3
<1>2. CASE FetchUnread
  BY <1>2 DEF FetchUnread
<1>3. CASE MarkRead
  BY <1>3 DEF MarkRead
<1>4. CASE Stop
  BY <1>4 DEF Stop, Ends
<1>5. ASSUME UNCHANGED <<unread, read, late, expired, written>>,
             step' # "delete" \/ UNCHANGED <<step, fetched>>
      PROVE  ReadInv'
  BY <1>5
<1>6. CASE (\E m \in LeadMessages : Answer(m)) \/ FollowUp
  BY <1>5, <1>6 DEF Answer, FollowUp, Takes, readVars
<1>7. CASE \E c \in Chunked : Specialist(c[1], c[2])
  BY <1>5, <1>7 DEF Specialist, readVars
<1>8. CASE Approve \/ RejectSilently
  BY <1>5, <1>8 DEF Approve, RejectSilently, Persists, readVars
<1>9. CASE Reject \/ React \/ Quote
  BY <1>5, <1>9 DEF Reject, React, Quote, readVars
<1>10. CASE Delivered \/ AnswerLost \/ NotDelivered
  BY <1>5, <1>10 DEF Delivered, AnswerLost, NotDelivered, readVars
<1>11. CASE EndSend
  BY <1>5, <1>11 DEF EndSend, Ends, readVars
<1>12. CASE \E key \in cooling : Expire(key)
  BY <1>5, <1>12 DEF Expire, readVars
<1>13. CASE UNCHANGED vars
  BY <1>5, <1>13 DEF vars, readVars
<1>14. CASE ExpireUnread
  BY <1>14 DEF ExpireUnread, turnVars
<1> QED
  BY <1>1, <1>2, <1>3, <1>4, <1>6, <1>7, <1>8, <1>9, <1>10, <1>11, <1>12, <1>13, <1>14 DEF Next

-----------------------------------------------------------------------------
(* The phone.  A bubble of the current turn has come only once the turn sends. *)
PlaceInv ==
  \A i \in DOMAIN phone :
    /\ phone[i][1] <= turn
    /\ phone[i][1] = turn => step \in {"send", "end"}
    /\ phone[i][1] = turn /\ step = "send" => phone[i][2] <= next

OrderInv ==
  \A i \in 1..Len(phone) - 1 :
    phone[i][1] < phone[i + 1][1] \/ (phone[i][1] = phone[i + 1][1] /\ phone[i][2] <= phone[i + 1][2])

\* The current bubble.
Here == <<turn, next>>

\* The current bubble is on the phone already only if an answer was lost.
RepeatInv ==
  /\ Len(phone) <= Cardinality(ToSet(phone)) + lost
  /\ step = "send" /\ Here \in ToSet(phone) => Len(phone) + 1 <= Cardinality(ToSet(phone)) + lost

(***************************************************************************)
(* Steps as the phone sees them: a turn begins; one is written, reviewed   *)
(* and prepared; it begins to send; a bubble comes or fails; it ends; and  *)
(* what has to do with no turn.                                            *)
(***************************************************************************)
Begins == step = "end" /\ step' = "reply" /\ turn' = turn + 1 /\ UNCHANGED <<phone, sent, quota, lost, faults>>
Prepares ==
  /\ step \in (Writing \cup Releasing) \ {"send"} /\ step' \in (Writing \cup Releasing) \ {"send"}
  /\ faults' >= faults
  /\ UNCHANGED <<phone, turn, next, sent, quota, lost>>
BeginsToSend ==
  step = "quote" /\ step' = "send" /\ next' = 1 /\ UNCHANGED <<phone, turn, sent, quota, lost, faults>>
BubbleComes ==
  /\ Sending /\ Comes
  /\ \/ NextBubble /\ sent' = sent + 1 /\ UNCHANGED <<lost, faults>>
     \/ next' \in {next, next + 1} /\ UNCHANGED sent /\ lost' = lost + 1 /\ faults' = faults + 1
  /\ UNCHANGED <<step, turn, quota>>
BubbleFails ==
  /\ Sending /\ next' \in {next, next + 1} /\ faults' = faults + 1
  /\ UNCHANGED <<step, phone, turn, sent, quota, lost>>
TurnEnds ==
  /\ step # "end" /\ step' = "end" /\ sent' = 0
  /\ \/ step = "send" /\ quota' = quota + (IF sent > 0 THEN 1 ELSE 0) /\ UNCHANGED faults
     \/ UNCHANGED quota /\ faults' = faults + 1
  /\ UNCHANGED <<phone, turn, lost>>
Elsewhere == faults' >= faults /\ UNCHANGED <<step, phone, turn, next, sent, quota, lost>>

(* Every step is one of these. *)
LEMMA Moves ==
  ASSUME TypeInv, [Next]_vars
  PROVE  Begins \/ Prepares \/ BeginsToSend \/ BubbleComes \/ BubbleFails \/ TurnEnds \/ Elsewhere
<1>0. faults \in Nat
  BY DEF TypeInv
<1>1. CASE (\E m \in LeadMessages : Answer(m)) \/ FollowUp
  <2>1. PICK m : Takes(m)
    BY <1>1 DEF Answer, FollowUp
  <2>2. Begins
    BY <2>1 DEF Takes, Begins, sendVars, phoneVars
  <2> QED
    BY <2>2
<1>2. CASE \E c \in Chunked : Specialist(c[1], c[2])
  <2>1. Prepares
    BY <1>0, <1>2 DEF Specialist, Prepares, Writing, phoneVars, historyVars
  <2> QED
    BY <2>1
<1>3. CASE Approve \/ RejectSilently
  <2>1. Prepares
    BY <1>0, <1>3 DEF Approve, RejectSilently, Rejects, Persists, Prepares, Writing, Releasing, phoneVars, historyVars
  <2> QED
    BY <2>1
<1>4. CASE Reject
  <2>1. Prepares
    BY <1>0, <1>4 DEF Reject, Rejects, Prepares, Writing, Releasing, phoneVars, historyVars
  <2> QED
    BY <2>1
<1>5. CASE FetchUnread
  <2>1. Prepares
    BY <1>0, <1>5 DEF FetchUnread, Prepares, Releasing, turnVars, sendVars, phoneVars, historyVars
  <2> QED
    BY <2>1
<1>6. CASE MarkRead
  <2>1. Prepares
    BY <1>0, <1>6 DEF MarkRead, Fault, Prepares, Releasing, turnVars, sendVars, phoneVars
  <2> QED
    BY <2>1
<1>7. CASE React
  <2>1. Prepares
    BY <1>0, <1>7 DEF React, Fault, Prepares, Releasing, turnVars, sendVars
  <2> QED
    BY <2>1
<1>8. CASE Quote
  <2>1. BeginsToSend
    BY <1>8 DEF Quote, BeginsToSend, turnVars, historyVars
  <2> QED
    BY <2>1
<1>9. CASE Delivered
  <2>1. BubbleComes
    BY <1>9 DEF Delivered, BubbleComes, turnVars, historyVars
  <2> QED
    BY <2>1
<1>10. CASE AnswerLost
  <2>1. next' \in {next, next + 1} /\ faults' = faults + 1
    BY <1>10 DEF AnswerLost, Again, NextBubble, Fault
  <2>2. BubbleComes
    BY <1>10, <2>1 DEF AnswerLost, BubbleComes, turnVars
  <2> QED
    BY <2>2
<1>11. CASE NotDelivered
  <2>1. next' \in {next, next + 1} /\ faults' = faults + 1
    BY <1>11 DEF NotDelivered, Again, NextBubble, Fault
  <2>2. BubbleFails
    BY <1>11, <2>1 DEF NotDelivered, BubbleFails, turnVars, phoneVars
  <2> QED
    BY <2>2
<1>12. CASE EndSend
  <2>1. TurnEnds
    BY <1>12 DEF EndSend, Ends, TurnEnds, phoneVars
  <2> QED
    BY <2>1
<1>13. CASE Stop
  <2>1. TurnEnds
    BY <1>13 DEF Stop, Ends, Fault, TurnEnds
  <2> QED
    BY <2>1
<1>14. CASE LeadWrites \/ (\E key \in cooling : Expire(key)) \/ ExpireUnread \/ UNCHANGED vars
  <2>1. Elsewhere
    BY <1>0, <1>14 DEF LeadWrites, Expire, ExpireUnread, Fault, Elsewhere, vars, turnVars, sendVars, phoneVars, historyVars
  <2> QED
    BY <2>1
<1> QED
  BY <1>1, <1>2, <1>3, <1>4, <1>5, <1>6, <1>7, <1>8, <1>9, <1>10, <1>11, <1>12, <1>13, <1>14 DEF Next

(* A sequence has finitely many members. *)
LEMMA MembersFinite ==
  ASSUME NEW S, NEW s \in Seq(S)
  PROVE  IsFiniteSet(ToSet(s)) /\ Cardinality(ToSet(s)) \in Nat
<1>1. Len(s) \in Nat /\ DOMAIN s = 1..Len(s) /\ s \in [1..Len(s) -> S]
  BY LenProperties
<1>2. s \in Surjection(1..Len(s), ToSet(s))
  BY <1>1 DEF ToSet, Surjection
<1>3. IsFiniteSet(1..Len(s))
  BY <1>1, FS_Interval
<1> QED
  BY <1>2, <1>3, FS_Surjection, FS_CardinalityType

(* A bubble that comes is the last on the phone. *)
LEMMA PhoneGrows ==
  ASSUME TypeInv, Sending, Comes
  PROVE  /\ phone \in Seq(Nat \X Nat) /\ Len(phone) \in Nat /\ DOMAIN phone = 1..Len(phone)
         /\ \A i \in 1..Len(phone) : phone[i][1] \in Nat /\ phone[i][2] \in Nat
         /\ Len(phone') = Len(phone) + 1 /\ DOMAIN phone' = 1..Len(phone')
         /\ \A i \in 1..Len(phone) : phone'[i] = phone[i]
         /\ phone'[Len(phone) + 1] = Here
<1>1. phone \in Seq(Nat \X Nat) /\ Here \in Nat \X Nat
  BY DEF TypeInv, Here
<1>2. phone' = Append(phone, Here)
  BY DEF Comes, Here
<1>3. \A i \in 1..Len(phone) : phone[i] \in Nat \X Nat
  BY <1>1, ElementOfSeq
<1>4. /\ phone' \in Seq(Nat \X Nat) /\ Len(phone') = Len(phone) + 1
      /\ \A i \in 1..Len(phone) : phone'[i] = phone[i]
      /\ phone'[Len(phone) + 1] = Here
  BY <1>1, <1>2, AppendProperties
<1>5. Len(phone) \in Nat /\ DOMAIN phone = 1..Len(phone) /\ DOMAIN phone' = 1..Len(phone')
  BY <1>1, <1>4, LenProperties
<1>6. \A i \in 1..Len(phone) : phone[i][1] \in Nat /\ phone[i][2] \in Nat
  BY <1>3
<1> QED
  BY <1>1, <1>4, <1>5, <1>6

(* Turns are numbered upwards, and their bubbles too. *)
LEMMA PlaceStep == TypeInv /\ PlaceInv /\ [Next]_vars => PlaceInv'
<1> SUFFICES ASSUME TypeInv, PlaceInv, [Next]_vars
             PROVE  PlaceInv'
  OBVIOUS
<1> USE DEF PlaceInv
<1>1. turn \in Nat /\ next \in Nat /\ next \in Nat \ {0} /\ phone \in Seq(Nat \X Nat)
  BY DEF TypeInv
<1>2. \A i \in DOMAIN phone : phone[i][1] \in Nat /\ phone[i][2] \in Nat
  BY <1>1, ElementOfSeq, LenProperties
<1>3. CASE Begins
  BY <1>1, <1>2, <1>3 DEF Begins
<1>4. CASE Prepares
  BY <1>4 DEF Prepares, Writing, Releasing
<1>5. CASE BeginsToSend
  BY <1>5 DEF BeginsToSend
<1>6. CASE BubbleComes
  <2>1. /\ Sending /\ Comes /\ next' \in Nat /\ next' >= next /\ step = "send" /\ UNCHANGED <<step, turn>>
    BY <1>1, <1>6 DEF BubbleComes, NextBubble, Sending
  <2>2. /\ DOMAIN phone = 1..Len(phone) /\ Len(phone) \in Nat
        /\ DOMAIN phone' = 1..Len(phone) + 1
        /\ \A i \in 1..Len(phone) : phone'[i] = phone[i]
        /\ phone'[Len(phone) + 1] = <<turn, next>>
    BY <2>1, PhoneGrows DEF Here
  <2> HIDE <1>6
  <2>3. ASSUME NEW i \in DOMAIN phone'
        PROVE  phone'[i][1] <= turn' /\ (phone'[i][1] = turn' => phone'[i][2] <= next')
    <3>1. CASE i \in 1..Len(phone)
      BY <1>1, <1>2, <2>1, <2>2, <3>1
    <3>2. CASE i = Len(phone) + 1
      BY <1>1, <2>1, <2>2, <3>2
    <3> QED
      BY <2>2, <3>1, <3>2
  <2> QED
    BY <2>1, <2>3
<1>7. CASE BubbleFails
  BY <1>1, <1>2, <1>7 DEF BubbleFails, Sending
<1>8. CASE TurnEnds
  BY <1>8 DEF TurnEnds
<1>9. CASE Elsewhere
  BY <1>9 DEF Elsewhere
<1> QED
  BY <1>3, <1>4, <1>5, <1>6, <1>7, <1>8, <1>9, Moves

(* What comes belongs behind what has come. *)
LEMMA OrderStep == TypeInv /\ PlaceInv /\ OrderInv /\ [Next]_vars => OrderInv'
<1> SUFFICES ASSUME TypeInv, PlaceInv, OrderInv, [Next]_vars
             PROVE  OrderInv'
  OBVIOUS
<1> USE DEF OrderInv
<1>1. CASE BubbleComes
  <2>1. Sending /\ Comes /\ step = "send"
    BY <1>1 DEF BubbleComes, Sending
  <2>2. /\ DOMAIN phone = 1..Len(phone) /\ Len(phone) \in Nat /\ Len(phone') = Len(phone) + 1
        /\ \A i \in 1..Len(phone) : phone'[i] = phone[i] /\ phone[i][1] \in Nat /\ phone[i][2] \in Nat
        /\ phone'[Len(phone) + 1] = <<turn, next>>
    BY <2>1, PhoneGrows DEF Here
  <2>3. \A i \in 1..Len(phone) : phone[i][1] < turn \/ (phone[i][1] = turn /\ phone[i][2] <= next)
    <3>1. turn \in Nat
      BY DEF TypeInv
    <3> QED
      BY <2>1, <2>2, <3>1 DEF PlaceInv
  <2> HIDE <1>1
  <2> SUFFICES ASSUME NEW i \in 1..Len(phone)
               PROVE  \/ phone'[i][1] < phone'[i + 1][1]
                      \/ phone'[i][1] = phone'[i + 1][1] /\ phone'[i][2] <= phone'[i + 1][2]
    BY <2>2
  <2>4. CASE i = Len(phone)
    BY <2>2, <2>3, <2>4
  <2>5. CASE i \in 1..Len(phone) - 1
    BY <2>2, <2>5
  <2> QED
    BY <2>2, <2>4, <2>5
<1>2. CASE UNCHANGED phone
  BY <1>2
<1> QED
  BY <1>1, <1>2, Moves DEF Begins, Prepares, BeginsToSend, BubbleFails, TurnEnds, Elsewhere

(* The different bubbles that came, when one comes. *)
LEMMA BubblesGrow ==
  ASSUME TypeInv, Sending, Comes
  PROVE  /\ IsFiniteSet(ToSet(phone)) /\ Cardinality(ToSet(phone)) \in Nat
         /\ ToSet(phone') = ToSet(phone) \cup {Here}
         /\ Cardinality(ToSet(phone')) =
              Cardinality(ToSet(phone)) + (IF Here \in ToSet(phone) THEN 0 ELSE 1)
<1>1. /\ phone \in Seq(Nat \X Nat) /\ DOMAIN phone = 1..Len(phone) /\ Len(phone) \in Nat
      /\ DOMAIN phone' = 1..Len(phone) + 1
      /\ \A i \in 1..Len(phone) : phone'[i] = phone[i]
      /\ phone'[Len(phone) + 1] = Here
  BY PhoneGrows
<1>2. 1..Len(phone) + 1 = (1..Len(phone)) \cup {Len(phone) + 1}
  BY <1>1
<1>3. ToSet(phone') = ToSet(phone) \cup {Here}
  <2>1. ToSet(phone) = {phone[i] : i \in 1..Len(phone)}
    BY <1>1 DEF ToSet
  <2>2. ToSet(phone') = {phone'[i] : i \in (1..Len(phone)) \cup {Len(phone) + 1}}
    BY <1>1, <1>2 DEF ToSet
  <2>3. Len(phone) + 1 \notin 1..Len(phone)
    BY <1>1
  <2> QED
    BY <1>1, <2>1, <2>2, <2>3, Zenon
<1>4. IsFiniteSet(ToSet(phone))
  BY <1>1, MembersFinite
<1> QED
  BY <1>3, <1>4, FS_AddElement, FS_CardinalityType

(* After an answer that arrived, the next bubble is one that never came. *)
LEMMA RepeatStep == TypeInv /\ PlaceInv /\ RepeatInv /\ [Next]_vars => RepeatInv'
<1> SUFFICES ASSUME TypeInv, PlaceInv, RepeatInv, [Next]_vars
             PROVE  RepeatInv'
  OBVIOUS
<1>1. phone \in Seq(Nat \X Nat) /\ Len(phone) \in Nat /\ lost \in Nat /\ next \in Nat /\ turn \in Nat
  BY LenProperties DEF TypeInv
<1>2. IsFiniteSet(ToSet(phone)) /\ Cardinality(ToSet(phone)) \in Nat
  BY <1>1, MembersFinite, FS_CardinalityType
<1>3. step = "send" => <<turn, next + 1>> \notin ToSet(phone)
  <2> SUFFICES ASSUME step = "send", NEW i \in DOMAIN phone, phone[i] = <<turn, next + 1>>
               PROVE  FALSE
    BY DEF ToSet
  <2>1. phone[i][1] = turn /\ phone[i][2] = next + 1
    OBVIOUS
  <2> QED
    BY <1>1, <2>1 DEF PlaceInv
<1>4. CASE BubbleComes
  <2>1. /\ Len(phone') = Len(phone) + 1
        /\ ToSet(phone') = ToSet(phone) \cup {<<turn, next>>}
        /\ Cardinality(ToSet(phone')) =
             Cardinality(ToSet(phone)) + (IF <<turn, next>> \in ToSet(phone) THEN 0 ELSE 1)
    BY <1>4, PhoneGrows, BubblesGrow DEF BubbleComes, Here
  <2>2. step = "send" /\ UNCHANGED <<step, turn>>
    BY <1>4 DEF BubbleComes, Sending
  <2>3. CASE next' = next + 1 /\ lost' = lost
    <3>1. <<turn', next'>> \notin ToSet(phone')
      BY <1>1, <1>3, <2>1, <2>2, <2>3
    <3> QED
      BY <1>1, <1>2, <2>1, <2>2, <2>3, <3>1 DEF RepeatInv, Here
  <2>4. CASE lost' = lost + 1
    BY <1>1, <1>2, <2>1, <2>2, <2>4 DEF RepeatInv, Here
  <2> QED
    BY <1>4, <2>3, <2>4 DEF BubbleComes, NextBubble
<1>5. CASE BubbleFails
  <2>1. step = "send" /\ next' \in {next, next + 1} /\ UNCHANGED <<step, phone, turn, lost>>
    BY <1>5 DEF BubbleFails, Sending
  <2> HIDE <1>5
  <2>2. CASE next' = next
    BY <2>1, <2>2 DEF RepeatInv, Here
  <2>3. CASE next' = next + 1
    BY <1>3, <2>1, <2>3 DEF RepeatInv, Here
  <2> QED
    BY <2>1, <2>2, <2>3
<1>6. CASE BeginsToSend
  <2>1. <<turn, 1>> \notin ToSet(phone)
    <3> SUFFICES ASSUME NEW i \in DOMAIN phone, phone[i] = <<turn, 1>>
                 PROVE  FALSE
      BY DEF ToSet
    <3>1. phone[i][1] = turn
      OBVIOUS
    <3> QED
      BY <1>6, <3>1 DEF PlaceInv, BeginsToSend
  <2> QED
    BY <1>6, <2>1 DEF BeginsToSend, RepeatInv, Here
<1>7. CASE UNCHANGED <<phone, lost>> /\ step' # "send"
  BY <1>7 DEF RepeatInv
<1>8. CASE Elsewhere
  BY <1>8 DEF Elsewhere, RepeatInv, Here
<1> QED
  BY <1>4, <1>5, <1>6, <1>7, <1>8, Moves DEF Begins, Prepares, TurnEnds

(***************************************************************************)
(* A key that is not set is paid for with a fault, and so is a quote that  *)
(* is about to come although its key has expired meanwhile.                *)
(***************************************************************************)
Quotes == step = "send" /\ quoting /\ next = 1
CoolInv ==
  /\ reactions <= 1 + faults /\ ("react" \notin cooling => reactions <= faults)
  /\ quotes <= 1 + faults
  /\ "quote" \notin cooling \/ Quotes => quotes <= faults
  /\ "quote" \notin cooling /\ Quotes => quotes + 1 <= faults

(* A reaction or a quote needs its key unset, which cost a fault if it was set before. *)
LEMMA CoolStep == TypeInv /\ CoolInv /\ [Next]_vars => CoolInv'
<1> SUFFICES ASSUME TypeInv, CoolInv, [Next]_vars
             PROVE  CoolInv'
  OBVIOUS
<1> USE DEF CoolInv
<1>1. {reactions, quotes, faults} \subseteq Nat /\ next \in Nat \ {0}
  BY DEF TypeInv
<1>2. ASSUME UNCHANGED <<reactions, quotes, cooling>>, faults' \in {faults, faults + 1},
             step' # "send" \/ (step' = step /\ quoting' = quoting /\ next' = next)
      PROVE  CoolInv'
  BY <1>1, <1>2 DEF Quotes
<1>3. CASE (\E m \in LeadMessages : Answer(m)) \/ FollowUp
  BY <1>2, <1>3 DEF Answer, FollowUp, Takes, phoneVars
<1>4. CASE \E c \in Chunked : Specialist(c[1], c[2])
  BY <1>2, <1>4 DEF Specialist, phoneVars, historyVars
<1>5. CASE Approve \/ RejectSilently
  BY <1>2, <1>5 DEF Approve, RejectSilently, Persists, phoneVars, historyVars
<1>6. CASE Reject \/ FetchUnread
  BY <1>2, <1>6 DEF Reject, FetchUnread, phoneVars, historyVars
<1>7. CASE MarkRead
  BY <1>2, <1>7 DEF MarkRead, Fault, phoneVars
<1>8. CASE React
  <2>1. step' = "quote" /\ quotes' = quotes
    BY <1>8 DEF React
  <2>2. CASE UNCHANGED <<cooling, reactions, faults>>
    BY <1>2, <2>1, <2>2
  <2>3. CASE Reacts /\ reactions' = reactions + 1 /\ cooling' = cooling \cup {"react"} /\ UNCHANGED faults
    BY <1>1, <2>1, <2>3 DEF Reacts, Quotes
  <2>4. CASE /\ Reacts /\ Fault
             /\ reactions' \in {reactions, reactions + 1}
             /\ cooling' \in {cooling, cooling \cup {"react"}}
    BY <1>1, <2>1, <2>4 DEF Reacts, Fault, Quotes
  <2> QED
    BY <1>8, <2>2, <2>3, <2>4 DEF React
<1>9. CASE Quote
  <2>1. quoting' => "quote" \notin cooling /\ cooling' = cooling \cup {"quote"}
    BY <1>9 DEF Quote
  <2>2. ~quoting' => cooling' = cooling
    BY <1>9 DEF Quote
  <2>3. UNCHANGED <<reactions, quotes, faults>>
    BY <1>9 DEF Quote, historyVars
  <2> HIDE <1>9
  <2> QED
    BY <1>1, <2>1, <2>2, <2>3 DEF Quotes
<1>10. CASE Delivered
  <2>1. step = "send" /\ next' = next + 1 /\ UNCHANGED <<faults, reactions, cooling>>
    BY <1>10 DEF Delivered, Sending, Comes, NextBubble, historyVars
  <2>2. quotes' = quotes + (IF quoting /\ next = 1 THEN 1 ELSE 0)
    BY <1>10 DEF Delivered, Comes
  <2> HIDE <1>10
  <2> QED
    BY <1>1, <2>1, <2>2 DEF Quotes
<1>11. CASE AnswerLost
  <2>1. /\ step = "send" /\ next' \in {next, next + 1} /\ faults' = faults + 1
        /\ UNCHANGED <<reactions, cooling, step, quoting>>
    BY <1>11 DEF AnswerLost, Sending, Fault, Comes, Again, NextBubble
  <2>2. quotes' = quotes + (IF quoting /\ next = 1 THEN 1 ELSE 0)
    BY <1>11 DEF AnswerLost, Comes
  <2> HIDE <1>11
  <2> QED
    BY <1>1, <2>1, <2>2 DEF Quotes
<1>12. CASE NotDelivered
  <2>1. /\ next' \in {next, next + 1} /\ faults' = faults + 1
        /\ UNCHANGED <<reactions, cooling, quotes, step, quoting>>
    BY <1>12 DEF NotDelivered, Fault, Again, NextBubble, phoneVars
  <2> HIDE <1>12
  <2> QED
    BY <1>1, <2>1 DEF Quotes
<1>13. CASE EndSend
  BY <1>2, <1>13 DEF EndSend, Ends, phoneVars
<1>14. CASE Stop
  <2>1. step' = "end" /\ faults' = faults + 1 /\ UNCHANGED <<quotes, cooling>>
    BY <1>14 DEF Stop, Ends, Fault
  <2>2. reactions' = reactions \/ (reactions' = reactions + 1 /\ "react" \notin cooling)
    BY <1>14 DEF Stop, Reacts
  <2> HIDE <1>14
  <2> QED
    BY <1>1, <2>1, <2>2 DEF Quotes
<1>15. ASSUME NEW key \in cooling, Expire(key)
       PROVE  CoolInv'
  <2>1. /\ faults' = faults + 1 /\ cooling' \subseteq cooling
        /\ UNCHANGED <<reactions, quotes, step, quoting, next>>
    BY <1>15 DEF Expire, Fault, sendVars
  <2> HIDE <1>15
  <2> QED
    BY <1>1, <2>1 DEF Quotes
<1>16. CASE LeadWrites \/ UNCHANGED vars
  BY <1>2, <1>16 DEF LeadWrites, vars, turnVars, sendVars, phoneVars, historyVars
<1>17. CASE ExpireUnread
  <2>1. /\ faults' = faults + 1 /\ cooling' = cooling
        /\ UNCHANGED <<reactions, quotes, step, quoting, next>>
    BY <1>17 DEF ExpireUnread, Fault, turnVars, sendVars, phoneVars
  <2> HIDE <1>17
  <2> QED
    BY <1>1, <2>1 DEF Quotes
<1> QED
  BY <1>3, <1>4, <1>5, <1>6, <1>7, <1>8, <1>9, <1>10, <1>11, <1>12, <1>13, <1>14, <1>15, <1>16, <1>17 DEF Next

(***************************************************************************)
(* The quota.  While a turn is open, the turns that came may be one ahead  *)
(* of it for the turn itself: of which nothing was counted yet, although a *)
(* bubble came, and something was if no answer was lost.                   *)
(***************************************************************************)
Turns == {phone[i][1] : i \in DOMAIN phone}
QuotaInv ==
  /\ quota <= Cardinality(Turns)
  /\ step = "end" => Cardinality(Turns) <= quota + faults
  /\ step # "end" /\ turn \notin Turns => sent = 0 /\ Cardinality(Turns) <= quota + faults
  /\ step # "end" /\ turn \in Turns =>
       /\ quota + 1 <= Cardinality(Turns)
       /\ Cardinality(Turns) <= quota + faults + (IF sent > 0 THEN 1 ELSE 0)
  /\ step = "end" => sent = 0

(* The turns that came are finite in number. *)
LEMMA TurnsFinite ==
  ASSUME TypeInv
  PROVE  IsFiniteSet(Turns) /\ Cardinality(Turns) \in Nat
<1>1. phone \in Seq(Nat \X Nat)
  BY DEF TypeInv
<1>2. Len(phone) \in Nat /\ DOMAIN phone = 1..Len(phone)
  BY <1>1, LenProperties
<1> DEFINE first == [i \in 1..Len(phone) |-> phone[i][1]]
<1>3. first \in Surjection(1..Len(phone), Turns)
  BY <1>2 DEF Surjection, Turns
<1>4. IsFiniteSet(1..Len(phone))
  BY <1>2, FS_Interval
<1> QED
  BY <1>3, <1>4, FS_Surjection, FS_CardinalityType

(* The first bubble of a turn adds the turn, and its end counts it. *)
LEMMA QuotaStep == TypeInv /\ PlaceInv /\ QuotaInv /\ [Next]_vars => QuotaInv'
<1> SUFFICES ASSUME TypeInv, PlaceInv, QuotaInv, [Next]_vars
             PROVE  QuotaInv'
  OBVIOUS
<1> USE DEF QuotaInv
<1>1. {quota, sent, faults, turn} \subseteq Nat /\ Cardinality(Turns) \in Nat /\ IsFiniteSet(Turns)
  BY TurnsFinite DEF TypeInv
<1>2. turn + 1 \notin Turns
  <2> SUFFICES ASSUME NEW i \in DOMAIN phone, phone[i][1] = turn + 1
               PROVE  FALSE
    BY DEF Turns
  <2> QED
    BY <1>1 DEF PlaceInv
<1>3. step \notin {"send", "end"} => turn \notin Turns
  BY DEF PlaceInv, Turns
<1>4. UNCHANGED phone => Turns' = Turns
  BY DEF Turns
<1>5. CASE Begins
  BY <1>1, <1>2, <1>4, <1>5 DEF Begins
<1>6. CASE Prepares
  <2>1. faults' \in Nat
    BY TypeStep DEF TypeInv
  <2> QED
    BY <1>1, <1>3, <1>4, <1>6, <2>1 DEF Prepares, Writing, Releasing
<1>7. CASE BeginsToSend
  BY <1>1, <1>4, <1>7 DEF BeginsToSend
<1>8. CASE BubbleComes
  <2>1. Sending /\ Comes /\ step = "send" /\ UNCHANGED <<step, turn, quota>>
    BY <1>8 DEF BubbleComes, Sending
  <2>2. Turns' = Turns \cup {turn}
    <3>1. /\ Len(phone) \in Nat /\ DOMAIN phone = 1..Len(phone) /\ DOMAIN phone' = 1..Len(phone) + 1
          /\ \A i \in 1..Len(phone) : phone'[i] = phone[i]
          /\ phone'[Len(phone) + 1] = <<turn, next>>
      BY <2>1, PhoneGrows DEF Here
    <3>2. \A t : t \in Turns' <=> t \in Turns \/ t = turn
      BY <3>1 DEF Turns
    <3> QED
      BY <3>2
  <2>3. Cardinality(Turns \cup {turn}) = Cardinality(Turns) + (IF turn \in Turns THEN 0 ELSE 1)
    BY <1>1, FS_AddElement
  <2>4. \/ sent' = sent + 1 /\ UNCHANGED faults
        \/ UNCHANGED sent /\ faults' = faults + 1
    BY <1>8 DEF BubbleComes
  <2> HIDE <1>8
  <2> QED
    BY <1>1, <2>1, <2>2, <2>3, <2>4
<1>9. CASE BubbleFails
  BY <1>1, <1>4, <1>9 DEF BubbleFails
<1>10. CASE TurnEnds
  BY <1>1, <1>4, <1>10 DEF TurnEnds
<1>11. CASE Elsewhere
  <2>1. faults' \in Nat
    BY TypeStep DEF TypeInv
  <2> QED
    BY <1>1, <1>4, <1>11, <2>1 DEF Elsewhere
<1> QED
  BY <1>5, <1>6, <1>7, <1>8, <1>9, <1>10, <1>11, Moves

-----------------------------------------------------------------------------
(* How many messages of one come after place i. *)
After(who, s, i) == Cardinality({j \in By(who, s) : j > i})

(* A person's messages are finitely many places of the history. *)
LEMMA ByFinite ==
  ASSUME NEW s \in Seq(Message), NEW who
  PROVE  /\ By(who, s) \subseteq 1..Len(s) /\ IsFiniteSet(By(who, s))
         /\ \A T \in SUBSET By(who, s) : IsFiniteSet(T) /\ Cardinality(T) \in Nat
<1>1. Len(s) \in Nat /\ DOMAIN s = 1..Len(s)
  BY LenProperties
<1>2. By(who, s) \subseteq 1..Len(s)
  BY <1>1 DEF By
<1>3. IsFiniteSet(1..Len(s))
  BY <1>1, FS_Interval
<1>4. IsFiniteSet(By(who, s))
  BY <1>2, <1>3, FS_Subset
<1>5. ASSUME NEW T \in SUBSET By(who, s)
      PROVE  IsFiniteSet(T) /\ Cardinality(T) \in Nat
  BY <1>4, FS_Subset, FS_CardinalityType
<1> QED
  BY <1>2, <1>4, <1>5

(* How many of one come after a place is a number. *)
LEMMA AfterType ==
  ASSUME NEW s \in Seq(Message), NEW who, NEW i
  PROVE  After(who, s, i) \in Nat
<1>1. {j \in By(who, s) : j > i} \in SUBSET By(who, s)
  OBVIOUS
<1> QED
  BY <1>1, ByFinite DEF After

(* A message more is the newest, and all others have one more of its author after them. *)
LEMMA ByAppend ==
  ASSUME NEW s \in Seq(Message), NEW m \in Message, NEW who
  PROVE  /\ By(who, Append(s, m)) = By(who, s) \cup (IF m.by = who THEN {Len(s) + 1} ELSE {})
         /\ \A i \in By(who, s) : i \in 1..Len(s) /\ Append(s, m)[i] = s[i]
<1>1. /\ Len(s) \in Nat /\ DOMAIN s = 1..Len(s)
      /\ DOMAIN Append(s, m) = 1..Len(s) + 1
      /\ \A i \in 1..Len(s) : Append(s, m)[i] = s[i]
      /\ Append(s, m)[Len(s) + 1] = m
  <2>1. Append(s, m) \in Seq(Message) /\ Len(Append(s, m)) = Len(s) + 1
    BY AppendProperties
  <2> QED
    BY <2>1, AppendProperties, LenProperties
<1>2. \A i : i \in By(who, Append(s, m)) <=> i \in By(who, s) \/ (i = Len(s) + 1 /\ m.by = who)
  BY <1>1 DEF By
<1> QED
  BY <1>1, <1>2 DEF By

(* And so it is counted: one more after every place up to here, none after its own. *)
LEMMA AfterAppend ==
  ASSUME NEW s \in Seq(Message), NEW m \in Message, NEW who, NEW i \in 0..Len(s)
  PROVE  /\ After(who, Append(s, m), i) = After(who, s, i) + (IF m.by = who THEN 1 ELSE 0)
         /\ After(who, Append(s, m), Len(s) + 1) = 0
<1>1. By(who, s) \subseteq 1..Len(s) /\ Len(s) \in Nat
  BY ByFinite, LenProperties
<1>2. By(who, Append(s, m)) = By(who, s) \cup (IF m.by = who THEN {Len(s) + 1} ELSE {})
  BY ByAppend
<1> DEFINE old == {j \in By(who, s) : j > i}
<1>3. IsFiniteSet(old)
  <2>1. old \in SUBSET By(who, s)
    OBVIOUS
  <2> QED
    BY <2>1, ByFinite
<1>4. {j \in By(who, Append(s, m)) : j > i} = IF m.by = who THEN old \cup {Len(s) + 1} ELSE old
  BY <1>1, <1>2
<1>5. Len(s) + 1 \notin old
  BY <1>1
<1>6. {j \in By(who, Append(s, m)) : j > Len(s) + 1} = {}
  BY <1>1, <1>2
<1> HIDE DEF old
<1>7. Cardinality(old \cup {Len(s) + 1}) = Cardinality(old) + 1 /\ Cardinality(old) \in Nat
  BY <1>3, <1>5, FS_AddElement, FS_CardinalityType
<1>8. After(who, s, i) = Cardinality(old)
  BY DEF After, old
<1>9. After(who, Append(s, m), i) = IF m.by = who THEN Cardinality(old \cup {Len(s) + 1}) ELSE Cardinality(old)
  BY <1>4 DEF After
<1>10. After(who, Append(s, m), Len(s) + 1) = 0
  BY <1>6, FS_EmptySet DEF After
<1> QED
  BY <1>7, <1>8, <1>9, <1>10

-----------------------------------------------------------------------------
(***************************************************************************)
(* While a turn is written the graph's messages end with the persisted     *)
(* ones, the turn's message and its drafts.                                *)
(***************************************************************************)
Drafts == rejected + (IF step = "review" THEN 1 ELSE 0)
Base == Len(messages) - (Drafts + 1 + Len(chat))
DraftInv ==
  step \in Writing =>
    /\ Base >= 0
    /\ \A i \in 1..Len(chat) : messages[Base + i] = chat[i]
    /\ messages[Base + Len(chat) + 1] = human
    /\ \A i \in 1..Drafts : messages[Base + Len(chat) + 1 + i].by = "bot"
    /\ step = "review" => messages[Len(messages)].text = reply.text

(***************************************************************************)
(* Steps as the history sees them: a turn takes its message, is written,   *)
(* rejected or persisted; all others leave the messages alone.             *)
(***************************************************************************)
TakesOne == \E m \in LeadMessages \cup {NoWords} :
              Takes(m) /\ IF m = NoWords THEN UNCHANGED heard ELSE heard' = Append(heard, m)
Writes ==
  /\ step = "reply" /\ step' = "review" /\ reply'.text \in Say /\ reply' # NoReply
  /\ messages' = Append(messages, [by |-> "bot", text |-> reply'.text])
  /\ UNCHANGED <<chat, turn, human, rejected, final, phone, told, heard, unsent, faults>>
Sends ==
  /\ faults' \in {faults, faults + 1}
  /\ \/ UNCHANGED <<step, reply>>
     \/ step \in Releasing /\ step' \in Releasing \ {"fetch"} /\ UNCHANGED reply
     \/ step \in Releasing /\ step' = "end"
     \/ step \in Writing /\ step' = "end" /\ faults' = faults + 1
  /\ UNCHANGED <<messages, chat, facts, turn, human, rejected, final, heard>>

(* Every step is one of these. *)
LEMMA HistoryMoves ==
  ASSUME TypeInv, [Next]_vars
  PROVE  TakesOne \/ Writes \/ Approve \/ Reject \/ RejectSilently \/ Sends
<1>1. CASE (\E m \in LeadMessages : Answer(m)) \/ FollowUp
  <2>1. TakesOne
    BY <1>1, Authors DEF Answer, FollowUp, TakesOne
  <2> QED
    BY <2>1
<1>2. ASSUME NEW c \in Chunked, Specialist(c[1], c[2])
      PROVE  Writes
  <2>1. PICK raw \in Raws : c = <<raw, Chunk(raw.pieces)>>
    BY DEF Chunked
  <2>2. c[1] = raw
    BY <2>1
  <2>3. Specialist(raw, c[2])
    BY <1>2, <2>2
  <2> HIDE <2>1, <2>2
  <2> QED
    BY <2>3, SpecialistReplies DEF Writes, phoneVars, historyVars
<1>3. CASE FetchUnread
  <2>1. Sends
    BY <1>3 DEF FetchUnread, Sends, Releasing, turnVars, historyVars
  <2> QED
    BY <2>1
<1>4. CASE MarkRead
  <2>1. Sends
    BY <1>4 DEF MarkRead, Fault, Sends, Releasing, turnVars
  <2> QED
    BY <2>1
<1>5. CASE React
  <2>1. faults' \in {faults, faults + 1}
    BY <1>5 DEF React, Fault
  <2>2. Sends
    BY <1>5, <2>1 DEF React, Sends, Releasing, turnVars
  <2> QED
    BY <2>2
<1>6. CASE Quote
  <2>1. Sends
    BY <1>6 DEF Quote, Sends, Releasing, turnVars, historyVars
  <2> QED
    BY <2>1
<1>7. CASE Delivered
  <2>1. Sends
    BY <1>7 DEF Delivered, Sends, turnVars, historyVars
  <2> QED
    BY <2>1
<1>8. CASE AnswerLost
  <2>1. Sends
    BY <1>8 DEF AnswerLost, Fault, Sends, turnVars
  <2> QED
    BY <2>1
<1>9. CASE NotDelivered
  <2>1. Sends
    BY <1>9 DEF NotDelivered, Fault, Sends, turnVars
  <2> QED
    BY <2>1
<1>10. CASE EndSend
  <2>1. Sends
    BY <1>10 DEF EndSend, Ends, Sends, Releasing
  <2> QED
    BY <2>1
<1>11. CASE Stop
  <2>1. step \in Writing \cup Releasing
    BY <1>11 DEF Stop, TypeInv
  <2>2. Sends
    BY <1>11, <2>1 DEF Stop, Ends, Fault, Sends
  <2> QED
    BY <2>2
<1>12. CASE LeadWrites \/ (\E key \in cooling : Expire(key)) \/ ExpireUnread \/ UNCHANGED vars
  <2>1. Sends
    BY <1>12 DEF LeadWrites, Expire, ExpireUnread, Fault, Sends, vars, turnVars, historyVars
  <2> QED
    BY <2>1
<1> QED
  BY <1>1, <1>2, <1>3, <1>4, <1>5, <1>6, <1>7, <1>8, <1>9, <1>10, <1>11, <1>12 DEF Next

(* A draft is put at the end, and nothing else moves while the turn is written. *)
LEMMA DraftStep == TypeInv /\ DraftInv /\ [Next]_vars => DraftInv'
<1> SUFFICES ASSUME TypeInv, DraftInv, [Next]_vars
             PROVE  DraftInv'
  OBVIOUS
<1>1. /\ messages \in Seq(Message) /\ chat \in Seq(Message) /\ rejected \in Nat
      /\ Len(messages) \in Nat /\ Len(chat) \in Nat
  BY LenProperties DEF TypeInv
<1>2. ASSUME NEW m \in LeadMessages \cup {NoWords}, Takes(m)
      PROVE  DraftInv'
  <2> DEFINE added == Append(chat, m)
  <2>1. added \in Seq(Message) /\ Len(added) = Len(chat) + 1 /\ added[Len(chat) + 1] = m
        /\ \A i \in 1..Len(chat) : added[i] = chat[i]
    <3>1. m \in Message
      BY DEF Message
    <3> QED
      BY <1>1, <3>1, AppendProperties
  <2>2. messages' = messages \o added /\ chat' = chat /\ human' = m /\ rejected' = 0 /\ step' = "reply"
    BY <1>2 DEF Takes
  <2> HIDE <1>2 DEF added
  <2>3. /\ Len(messages') = Len(messages) + Len(added)
        /\ \A i \in 1..Len(messages) + Len(added) :
             messages'[i] = IF i <= Len(messages) THEN messages[i] ELSE added[i - Len(messages)]
    BY <1>1, <2>1, <2>2, ConcatProperties
  <2>4. Drafts' = 0 /\ Base' = Len(messages)
    BY <1>1, <2>1, <2>2, <2>3 DEF Drafts, Base
  <2>5. \A i \in 1..Len(chat) + 1 : messages'[Len(messages) + i] = added[i]
    BY <1>1, <2>1, <2>3
  <2> QED
    BY <1>1, <2>1, <2>2, <2>4, <2>5 DEF DraftInv
<1>3. CASE Writes
  <2>1. /\ step = "reply" /\ step' = "review" /\ reply'.text \in Say
        /\ messages' = Append(messages, [by |-> "bot", text |-> reply'.text])
        /\ UNCHANGED <<chat, human, rejected>>
    BY <1>3 DEF Writes
  <2> HIDE <1>3
  <2>2. PICK bot : bot = [by |-> "bot", text |-> reply'.text]
    OBVIOUS
  <2>3. bot \in Message /\ bot.by = "bot" /\ bot.text = reply'.text
    BY <2>1, <2>2, Authors DEF Message
  <2>4. messages' = Append(messages, bot)
    BY <2>1, <2>2
  <2> HIDE <2>2
  <2>5. /\ Len(messages') = Len(messages) + 1 /\ messages'[Len(messages) + 1] = bot
        /\ \A i \in 1..Len(messages) : messages'[i] = messages[i]
    BY <1>1, <2>3, <2>4, AppendProperties
  <2>6. Drafts = rejected /\ Drafts' = rejected + 1 /\ Base' = Base /\ Base = Len(messages) - (rejected + 1 + Len(chat))
    BY <1>1, <2>1, <2>5 DEF Drafts, Base
  <2>7. /\ Base >= 0 /\ messages[Base + Len(chat) + 1] = human
        /\ \A i \in 1..Len(chat) : messages[Base + i] = chat[i]
        /\ \A i \in 1..rejected : messages[Base + Len(chat) + 1 + i].by = "bot"
    BY <2>1, <2>6 DEF DraftInv, Writing
  <2>8. Base \in Nat /\ Base + Len(chat) + 1 + rejected = Len(messages)
    BY <1>1, <2>6, <2>7
  <2>9. ASSUME NEW i \in 1..Len(chat)
        PROVE  messages'[Base + i] = chat[i]
    <3>1. Base + i \in 1..Len(messages)
      BY <1>1, <2>8
    <3> QED
      BY <2>5, <2>7, <3>1
  <2>10. messages'[Base + Len(chat) + 1] = human
    BY <1>1, <2>5, <2>7, <2>8
  <2>11. ASSUME NEW i \in 1..rejected + 1
         PROVE  messages'[Base + Len(chat) + 1 + i].by = "bot"
    <3>1. CASE i = rejected + 1
      <4>1. Base + Len(chat) + 1 + i = Len(messages) + 1
        BY <1>1, <2>8, <3>1
      <4> QED
        BY <2>3, <2>5, <4>1
    <3>2. CASE i \in 1..rejected
      <4>1. Base + Len(chat) + 1 + i \in 1..Len(messages)
        BY <1>1, <2>8, <3>2
      <4> QED
        BY <2>5, <2>7, <3>2, <4>1
    <3> QED
      BY <1>1, <3>1, <3>2
  <2>12. messages'[Len(messages')].text = reply'.text
    BY <2>3, <2>5
  <2>13. chat' = chat /\ human' = human /\ Drafts' = rejected + 1 /\ Base' = Base /\ Base >= 0
    BY <2>1, <2>6, <2>7
  <2>14. \A i \in 1..Len(chat') : messages'[Base' + i] = chat'[i]
    BY <2>9, <2>13
  <2>15. \A i \in 1..Drafts' : messages'[Base' + Len(chat') + 1 + i].by = "bot"
    BY <2>11, <2>13
  <2>16. messages'[Base' + Len(chat') + 1] = human'
    BY <2>10, <2>13
  <2> QED
    BY <2>12, <2>13, <2>14, <2>15, <2>16 DEF DraftInv
<1>4. CASE Approve \/ RejectSilently
  BY <1>4 DEF Approve, RejectSilently, Persists, DraftInv, Writing
<1>5. CASE Reject
  <2>1. /\ step = "review" /\ step' = "reply" /\ rejected' = rejected + 1
        /\ UNCHANGED <<messages, chat, human>>
    BY <1>5 DEF Reject, Rejects
  <2>2. Drafts' = Drafts /\ Base' = Base
    BY <1>1, <2>1 DEF Drafts, Base
  <2> QED
    BY <2>1, <2>2 DEF DraftInv, Writing
<1>6. CASE Sends
  <2>1. CASE UNCHANGED <<step, reply>>
    BY <1>6, <2>1 DEF Sends, DraftInv, Drafts, Base
  <2>2. CASE step' \notin Writing
    BY <2>2 DEF DraftInv
  <2> QED
    BY <1>6, <2>1, <2>2 DEF Sends, Writing, Releasing
<1> QED
  BY <1>2, <1>3, <1>4, <1>5, <1>6, HistoryMoves DEF TakesOne

(***************************************************************************)
(* What the lead wrote and what is persisted of it: a turn that broke off  *)
(* before it persisted its message is a fault, and the message of the turn *)
(* that is being written is not persisted yet.                             *)
(***************************************************************************)
Lag == IF step \in Writing /\ IsAnswer THEN 1 ELSE 0
HeardInv ==
  /\ \A i \in By("lead", messages) :
       messages[i] # NoWords => \E k \in DOMAIN heard : heard[k] = messages[i]
  /\ \A j \in By("lead", chat) : \E k \in DOMAIN heard :
       heard[k] = chat[j] /\ Len(heard) - k <= After("lead", chat, j) + faults + Lag
  /\ Len(heard) <= After("lead", chat, 0) + faults + Lag
  /\ Lag = 1 => Len(heard) > 0 /\ heard[Len(heard)] = human

(* The message of a turn that is persisted comes after all others of the lead. *)
LEMMA HeardPersists ==
  ASSUME TypeInv, HeardInv, step = "review", UNCHANGED heard, faults' = faults, step' = "fetch",
         NEW bot \in Message, bot.by = "bot",
         chat' = (IF IsAnswer THEN Append(chat, human) ELSE chat) \/
         chat' = Append(IF IsAnswer THEN Append(chat, human) ELSE chat, bot)
  PROVE  /\ Lag' = 0
         /\ \A j \in By("lead", chat') : \E k \in DOMAIN heard :
              heard[k] = chat'[j] /\ Len(heard) - k <= After("lead", chat', j) + faults
         /\ Len(heard) <= After("lead", chat', 0) + faults
<1> DEFINE own == IF IsAnswer THEN Append(chat, human) ELSE chat
<1>1. /\ chat \in Seq(Message) /\ Len(chat) \in Nat /\ human \in Message /\ faults \in Nat
      /\ heard \in Seq(LeadMessages) /\ Len(heard) \in Nat /\ DOMAIN heard = 1..Len(heard)
      /\ human.by = "lead"
  BY LenProperties, Authors DEF TypeInv, Message
<1>2. Lag = (IF IsAnswer THEN 1 ELSE 0) /\ Lag' = 0
  BY DEF Lag, Writing
<1>3. own \in Seq(Message) /\ Len(own) \in Nat
  BY <1>1, AppendProperties, LenProperties
<1>4. /\ \A j \in By("lead", own) : \E k \in DOMAIN heard :
           heard[k] = own[j] /\ Len(heard) - k <= After("lead", own, j) + faults
      /\ Len(heard) <= After("lead", own, 0) + faults
  <2>1. CASE ~IsAnswer
    <3>1. own = chat /\ Lag = 0
      BY <1>2, <2>1
    <3> HIDE DEF own
    <3>2. \A j : After("lead", chat, j) \in Nat
      BY <1>1, AfterType
    <3> QED
      BY <1>1, <3>1, <3>2 DEF HeardInv
  <2>2. CASE IsAnswer
    <3>1. own = Append(chat, human) /\ Lag = 1
      BY <1>2, <2>2
    <3> HIDE DEF own
    <3>2. By("lead", own) = By("lead", chat) \cup {Len(chat) + 1} /\ own[Len(chat) + 1] = human
      BY <1>1, <3>1, ByAppend, AppendProperties
    <3>3. \A j \in By("lead", chat) : j \in 1..Len(chat) /\ own[j] = chat[j]
      BY <1>1, <3>1, ByAppend
    <3>4. \A j \in 0..Len(chat) : After("lead", own, j) = After("lead", chat, j) + 1
      BY <1>1, <3>1, AfterAppend
    <3>5. After("lead", own, Len(chat) + 1) = 0
      <4>1. 0 \in 0..Len(chat)
        BY <1>1
      <4> QED
        BY <1>1, <3>1, <4>1, AfterAppend
    <3>6. \A j \in 0..Len(chat) : After("lead", chat, j) \in Nat
      BY <1>1, AfterType
    <3>7. ASSUME NEW j \in By("lead", chat)
          PROVE  \E k \in DOMAIN heard :
                   heard[k] = own[j] /\ Len(heard) - k <= After("lead", own, j) + faults
      <4>1. PICK k \in DOMAIN heard : heard[k] = chat[j] /\ Len(heard) - k <= After("lead", chat, j) + faults + Lag
        BY DEF HeardInv
      <4>2. j \in 0..Len(chat) /\ own[j] = chat[j]
        BY <1>1, <3>3
      <4>3. Len(heard) - k <= After("lead", own, j) + faults
        BY <1>1, <3>1, <3>4, <3>6, <4>1, <4>2
      <4> QED
        BY <4>1, <4>2, <4>3
    <3>8. \E k \in DOMAIN heard :
            heard[k] = own[Len(chat) + 1] /\ Len(heard) - k <= After("lead", own, Len(chat) + 1) + faults
      <4>1. Len(heard) \in DOMAIN heard /\ heard[Len(heard)] = human
        BY <1>1, <3>1 DEF HeardInv
      <4>2. Len(heard) - Len(heard) <= 0 + faults
        BY <1>1
      <4> QED
        BY <3>2, <3>5, <4>1, <4>2
    <3>9. Len(heard) <= After("lead", own, 0) + faults
      <4>1. Len(heard) <= After("lead", chat, 0) + faults + 1
        BY <3>1 DEF HeardInv
      <4> QED
        BY <1>1, <3>4, <3>6, <4>1
    <3> QED
      BY <3>2, <3>7, <3>8, <3>9
  <2> QED
    BY <2>1, <2>2
<1>5. chat' = own \/ chat' = Append(own, bot)
  OBVIOUS
<1> HIDE DEF own
<1>6. CASE chat' = Append(own, bot)
  <2>1. By("lead", chat') = By("lead", own)
    <3>1. By("lead", Append(own, bot)) = By("lead", own) \cup {}
      BY <1>3, ByAppend
    <3> QED
      BY <1>6, <3>1
  <2>2. \A j \in By("lead", own) : j \in 0..Len(own) /\ chat'[j] = own[j]
    BY <1>3, <1>6, ByAppend
  <2>3. \A j \in 0..Len(own) : After("lead", chat', j) = After("lead", own, j)
    <3>1. \A j \in 0..Len(own) : After("lead", own, j) \in Nat
      BY <1>3, AfterType
    <3> QED
      BY <1>3, <1>6, <3>1, AfterAppend
  <2>4. 0 \in 0..Len(own)
    BY <1>3
  <2> QED
    BY <1>2, <1>4, <2>1, <2>2, <2>3, <2>4
<1> QED
  BY <1>2, <1>4, <1>5, <1>6

(* A turn that persists its message makes up for it, another is a fault. *)
LEMMA HeardStep == TypeInv /\ HeardInv /\ [Next]_vars => HeardInv'
<1> SUFFICES ASSUME TypeInv, HeardInv, [Next]_vars
             PROVE  HeardInv'
  OBVIOUS
<1>1. /\ messages \in Seq(Message) /\ chat \in Seq(Message) /\ heard \in Seq(LeadMessages)
      /\ Len(messages) \in Nat /\ Len(chat) \in Nat /\ Len(heard) \in Nat
      /\ DOMAIN messages = 1..Len(messages) /\ DOMAIN chat = 1..Len(chat) /\ DOMAIN heard = 1..Len(heard)
      /\ faults \in Nat
  BY LenProperties DEF TypeInv
<1>2. Lag \in {0, 1} /\ \A j : After("lead", chat, j) \in Nat
  BY <1>1, AfterType DEF Lag
<1>3. ASSUME NEW m \in LeadMessages \cup {NoWords}, Takes(m),
             IF m = NoWords THEN UNCHANGED heard ELSE heard' = Append(heard, m)
      PROVE  HeardInv'
  <2> DEFINE added == Append(chat, m)
  <2>1. m \in Message /\ (m # NoWords => m \in LeadMessages)
    BY DEF Message
  <2>2. /\ added \in Seq(Message) /\ Len(added) = Len(chat) + 1 /\ added[Len(chat) + 1] = m
        /\ \A i \in 1..Len(chat) : added[i] = chat[i]
    BY <1>1, <2>1, AppendProperties
  <2>3. /\ messages' = messages \o added /\ chat' = chat /\ human' = m /\ faults' = faults
        /\ step = "end" /\ step' = "reply"
    BY <1>3 DEF Takes
  <2> HIDE DEF added
  <2>4. /\ messages' \in Seq(Message) /\ Len(messages') = Len(messages) + Len(chat) + 1
        /\ \A i \in 1..Len(messages) + Len(chat) + 1 :
             messages'[i] = IF i <= Len(messages) THEN messages[i] ELSE added[i - Len(messages)]
    <3>1. /\ messages \o added \in Seq(Message) /\ Len(messages \o added) = Len(messages) + Len(added)
          /\ \A i \in 1..Len(messages) + Len(added) :
               (messages \o added)[i] = IF i <= Len(messages) THEN messages[i] ELSE added[i - Len(messages)]
      BY <1>1, <2>2, ConcatProperties
    <3>2. Len(messages) + Len(added) = Len(messages) + Len(chat) + 1
      BY <1>1, <2>2
    <3> QED
      BY <2>3, <3>1, <3>2
  <2>5. DOMAIN messages' = 1..Len(messages) + Len(chat) + 1
    BY <2>4, LenProperties
  <2> DEFINE lag == IF m # NoWords THEN 1 ELSE 0
  <2>6. Lag = 0 /\ Lag' = lag /\ lag \in {0, 1} /\ (lag = 1 => m # NoWords)
    BY <2>3 DEF Lag, Writing, IsAnswer
  <2>7. /\ DOMAIN heard' = 1..Len(heard') /\ Len(heard') = Len(heard) + lag
        /\ \A k \in 1..Len(heard) : k \in DOMAIN heard' /\ heard'[k] = heard[k]
        /\ m # NoWords => heard'[Len(heard) + 1] = m
    <3>1. CASE m = NoWords
      BY <1>1, <1>3, <2>6, <3>1
    <3>2. CASE m # NoWords
      <4>0. m \in LeadMessages /\ heard' = Append(heard, m)
        BY <1>3, <2>1, <3>2
      <4>1. /\ heard' \in Seq(LeadMessages) /\ Len(heard') = Len(heard) + 1
            /\ \A k \in 1..Len(heard) : heard'[k] = heard[k]
            /\ heard'[Len(heard) + 1] = m
        BY <1>1, <4>0, AppendProperties
      <4>2. DOMAIN heard' = 1..Len(heard')
        BY <4>1, LenProperties
      <4> QED
        BY <1>1, <2>6, <3>2, <4>1, <4>2
    <3> QED
      BY <3>1, <3>2
  <2> HIDE <1>3 DEF lag
  <2>8. ASSUME NEW i \in By("lead", messages'), messages'[i] # NoWords
        PROVE  \E k \in DOMAIN heard' : heard'[k] = messages'[i]
    <3>1. i \in 1..Len(messages) + Len(chat) + 1 /\ messages'[i].by = "lead"
      BY <2>5 DEF By
    <3>2. CASE i <= Len(messages)
      <4>1. messages'[i] = messages[i] /\ i \in By("lead", messages)
        BY <1>1, <2>4, <3>1, <3>2 DEF By
      <4> QED
        BY <1>1, <2>7, <2>8, <4>1 DEF HeardInv
    <3>3. CASE i \in Len(messages) + 1..Len(messages) + Len(chat)
      <4>1. messages'[i] = added[i - Len(messages)]
        BY <1>1, <2>4, <3>1, <3>3
      <4>2. i - Len(messages) \in 1..Len(chat)
        BY <1>1, <3>3
      <4>3. messages'[i] = chat[i - Len(messages)]
        BY <2>2, <4>1, <4>2
      <4>4. i - Len(messages) \in By("lead", chat)
        BY <1>1, <3>1, <4>2, <4>3 DEF By
      <4> QED
        BY <1>1, <2>7, <4>3, <4>4 DEF HeardInv
    <3>4. CASE i = Len(messages) + Len(chat) + 1
      <4>1. messages'[i] = added[i - Len(messages)]
        BY SMTT(30), <1>1, <2>4, <3>1, <3>4
      <4>2. i - Len(messages) = Len(chat) + 1
        BY <1>1, <3>4
      <4>3. messages'[i] = m
        BY <2>2, <4>1, <4>2
      <4> QED
        BY <1>1, <2>7, <2>8, <4>3 DEF lag
    <3> QED
      BY SMTT(30), <1>1, <3>1, <3>2, <3>3, <3>4
  <2>9. ASSUME NEW j \in By("lead", chat)
        PROVE  \E k \in DOMAIN heard' :
                 heard'[k] = chat[j] /\ Len(heard') - k <= After("lead", chat, j) + faults + lag
    <3>1. PICK k \in DOMAIN heard : heard[k] = chat[j] /\ Len(heard) - k <= After("lead", chat, j) + faults + Lag
      BY DEF HeardInv
    <3>2. Len(heard') - k <= After("lead", chat, j) + faults + lag
      BY <1>1, <1>2, <2>6, <2>7, <3>1
    <3> QED
      BY <1>1, <2>7, <3>1, <3>2
  <2>10. Len(heard') <= After("lead", chat, 0) + faults + lag
    <3>1. Len(heard) <= After("lead", chat, 0) + faults + Lag
      BY DEF HeardInv
    <3> QED
      BY <1>1, <1>2, <2>6, <2>7, <3>1
  <2>11. lag = 1 => Len(heard') > 0 /\ heard'[Len(heard')] = human'
    BY <1>1, <2>3, <2>6, <2>7
  <2>12. By("lead", chat)' = By("lead", chat) /\ \A j : After("lead", chat, j)' = After("lead", chat, j)
    BY <2>3
  <2> QED
    BY <2>3, <2>6, <2>8, <2>9, <2>10, <2>11, <2>12 DEF HeardInv
<1>4. CASE Writes
  <2>1. PICK bot : bot = [by |-> "bot", text |-> reply'.text]
    OBVIOUS
  <2>2. bot \in Message /\ bot.by = "bot"
    BY <1>4, <2>1, Authors DEF Writes, Message
  <2>3. messages' = Append(messages, bot) /\ Lag' = Lag /\ UNCHANGED <<chat, human, heard, faults>>
    BY <1>4, <2>1 DEF Writes, Lag, Writing, IsAnswer
  <2> HIDE <1>4, <2>1
  <2>4. By("lead", Append(messages, bot)) = By("lead", messages) \cup {}
    BY ZenonT(40), <1>1, <2>2, ByAppend
  <2>5. \A i \in By("lead", messages) : messages'[i] = messages[i]
    BY <1>1, <2>2, <2>3, ByAppend
  <2>6. By("lead", messages)' = By("lead", messages)
    BY <2>3, <2>4
  <2> QED
    BY ZenonT(40), <2>3, <2>5, <2>6 DEF HeardInv, After
<1>5. CASE Approve \/ RejectSilently
  <2>1. PICK bot : bot = [by |-> "bot", text |-> reply.text]
    OBVIOUS
  <2>2. reply.text \in Say /\ step = "review"
    BY <1>5 DEF Approve, RejectSilently, Rejects, TypeInv
  <2>3. bot \in Message /\ bot.by = "bot"
    BY <2>1, <2>2, Authors DEF Message
  <2>4. Persists(<<bot>>) \/ Persists(<< >>)
    BY <1>5, <2>1 DEF Approve, RejectSilently
  <2>5. step' = "fetch" /\ UNCHANGED <<messages, heard, faults>>
    BY <2>4 DEF Persists, historyVars
  <2>6. \/ chat' = (IF IsAnswer THEN Append(chat, human) ELSE chat)
        \/ chat' = Append(IF IsAnswer THEN Append(chat, human) ELSE chat, bot)
    BY <2>3, <2>4, Persisted
  <2>7. /\ Lag' = 0
        /\ \A j \in By("lead", chat') : \E k \in DOMAIN heard :
             heard[k] = chat'[j] /\ Len(heard) - k <= After("lead", chat', j) + faults
        /\ Len(heard) <= After("lead", chat', 0) + faults
    BY <2>2, <2>3, <2>5, <2>6, HeardPersists
  <2>8. \A j : After("lead", chat', j) \in Nat
    BY TypeStep, AfterType DEF TypeInv
  <2>9. \A j : After("lead", chat', j) + faults + 0 = After("lead", chat', j) + faults
    BY <1>1, <2>8
  <2>10. By("lead", chat)' = By("lead", chat') /\ \A j : After("lead", chat, j)' = After("lead", chat', j)
    BY DEF By, After
  <2> QED
    BY <2>5, <2>7, <2>9, <2>10 DEF HeardInv
<1>6. CASE Reject
  <2>1. step = "review" /\ step' = "reply" /\ UNCHANGED <<messages, chat, human, heard, faults>>
    BY <1>6 DEF Reject, Rejects, historyVars
  <2>2. Lag' = Lag
    BY <2>1 DEF Lag, Writing, IsAnswer
  <2> QED
    BY <2>1, <2>2 DEF HeardInv, After
<1>7. CASE Sends
  <2>1. UNCHANGED <<messages, chat, human, heard>> /\ faults' \in {faults, faults + 1}
    BY <1>7 DEF Sends
  <2>2. PICK lag \in {0, 1} : Lag' = lag
    BY DEF Lag
  <2>3. lag = Lag \/ (Lag = 1 /\ lag = 0 /\ faults' = faults + 1)
    <3>1. step' \in Writing => step' = step
      BY <1>7 DEF Sends, Writing, Releasing
    <3>2. step \in Writing => step' = step \/ (step' = "end" /\ faults' = faults + 1)
      BY <1>7 DEF Sends, Writing, Releasing
    <3>3. "end" \notin Writing
      BY DEF Writing
    <3> QED
      BY <2>1, <2>2, <3>1, <3>2, <3>3 DEF Lag, IsAnswer
  <2> HIDE <1>7
  <2>4. /\ By("lead", messages)' = By("lead", messages) /\ By("lead", chat)' = By("lead", chat)
        /\ \A j : After("lead", chat, j)' = After("lead", chat, j)
    BY <2>1 DEF By, After
  <2>5. PICK old \in {0, 1} : Lag = old
    BY DEF Lag
  <2>6. PICK failed \in Nat : faults' = failed
    BY <1>1, <2>1
  <2>7. faults + old <= failed + lag
    BY <1>1, <2>1, <2>3, <2>5, <2>6
  <2>8. ASSUME NEW j \in By("lead", chat)
        PROVE  \E k \in DOMAIN heard :
                 heard[k] = chat[j] /\ Len(heard) - k <= After("lead", chat, j) + failed + lag
    <3>1. PICK k \in DOMAIN heard : heard[k] = chat[j] /\ Len(heard) - k <= After("lead", chat, j) + faults + old
      BY <2>5 DEF HeardInv
    <3>2. Len(heard) - k <= After("lead", chat, j) + failed + lag
      BY <1>1, <1>2, <2>7, <3>1
    <3> QED
      BY <3>1, <3>2
  <2>9. Len(heard) <= After("lead", chat, 0) + failed + lag
    <3>1. Len(heard) <= After("lead", chat, 0) + faults + old
      BY <2>5 DEF HeardInv
    <3> QED
      BY <1>1, <1>2, <2>7, <3>1
  <2> QED
    BY <1>2, <2>1, <2>2, <2>3, <2>4, <2>6, <2>8, <2>9 DEF HeardInv
<1> QED
  BY <1>3, <1>4, <1>5, <1>6, <1>7, HistoryMoves DEF TakesOne

(***************************************************************************)
(* What the lead was told and what is persisted of it: every reply of      *)
(* which a bubble came is persisted, and behind it are no more replies than*)
(* the lead saw after it, those that never came and the one on its way.    *)
(***************************************************************************)
Owed == IF step \in Releasing /\ reply # NoReply /\ ~Came THEN 1 ELSE 0
ToldInv ==
  /\ \A i \in DOMAIN told : \E j \in By("bot", chat) :
       chat[j].text = told[i] /\ After("bot", chat, j) <= Len(told) - i + unsent + Owed
  /\ step \in Releasing /\ reply # NoReply =>
       \E j \in By("bot", chat) : chat[j].text = reply.text /\ After("bot", chat, j) = 0

(* The lead's own message moves none of the replies. *)
LEMMA HumanPersists ==
  ASSUME TypeInv
  PROVE  LET own == IF IsAnswer THEN Append(chat, human) ELSE chat
         IN  /\ own \in Seq(Message) /\ By("bot", own) = By("bot", chat)
             /\ \A j \in By("bot", chat) :
                  own[j] = chat[j] /\ After("bot", own, j) = After("bot", chat, j)
<1> DEFINE own == IF IsAnswer THEN Append(chat, human) ELSE chat
<1>1. /\ chat \in Seq(Message) /\ Len(chat) \in Nat /\ human \in Message /\ human.by = "lead"
  BY LenProperties, Authors DEF TypeInv, Message
<1>2. CASE own = chat
  BY <1>1, <1>2
<1>3. CASE own = Append(chat, human)
  <2> HIDE DEF own
  <2>1. own \in Seq(Message)
    BY <1>1, <1>3, AppendProperties
  <2>2. By("bot", Append(chat, human)) = By("bot", chat) \cup {}
    BY ZenonT(40), <1>1, ByAppend
  <2>3. \A j \in By("bot", chat) : j \in 0..Len(chat) /\ own[j] = chat[j]
    BY <1>1, <1>3, ByAppend
  <2>4. \A j \in 0..Len(chat) : After("bot", own, j) = After("bot", chat, j)
    <3>1. \A j : After("bot", chat, j) \in Nat
      BY <1>1, AfterType
    <3> QED
      BY <1>1, <1>3, <3>1, AfterAppend
  <2>5. By("bot", own) = By("bot", chat)
    BY <1>3, <2>2
  <2> QED
    BY <2>1, <2>3, <2>4, <2>5 DEF own
<1> QED
  BY <1>2, <1>3

(* A reply is persisted before its first bubble comes, and only the last one is owed. *)
LEMMA ToldStep == TypeInv /\ PlaceInv /\ ToldInv /\ [Next]_vars => ToldInv'
<1> SUFFICES ASSUME TypeInv, PlaceInv, ToldInv, [Next]_vars
             PROVE  ToldInv'
  OBVIOUS
<1>1. /\ chat \in Seq(Message) /\ Len(chat) \in Nat /\ unsent \in Nat
      /\ told \in Seq(Say) /\ Len(told) \in Nat /\ DOMAIN told = 1..Len(told)
  BY LenProperties DEF TypeInv
<1>2. \A j : After("bot", chat, j) \in Nat
  BY <1>1, AfterType
<1>3. UNCHANGED chat => By("bot", chat)' = By("bot", chat) /\ \A j : After("bot", chat, j)' = After("bot", chat, j)
  BY DEF By, After
<1>4. UNCHANGED <<phone, turn>> => Came' = Came
  BY DEF Came
<1>5. ASSUME UNCHANGED <<chat, told, unsent>>,
             \/ step \notin Releasing /\ step' \notin Releasing
             \/ UNCHANGED <<reply, phone, turn>> /\ (step \in Releasing <=> step' \in Releasing)
      PROVE  ToldInv'
  <2>1. Owed' = Owed
    BY <1>4, <1>5 DEF Owed
  <2> QED
    BY <1>3, <1>5, <2>1 DEF ToldInv
<1>6. CASE (\E m \in LeadMessages : Answer(m)) \/ FollowUp
  BY <1>5, <1>6 DEF Answer, FollowUp, Takes, Releasing, phoneVars
<1>7. CASE \E c \in Chunked : Specialist(c[1], c[2])
  BY <1>5, <1>7 DEF Specialist, Releasing, phoneVars, historyVars
<1>8. CASE Reject
  BY <1>5, <1>8 DEF Reject, Rejects, Releasing, phoneVars, historyVars
<1>9. CASE LeadWrites \/ (\E key \in cooling : Expire(key)) \/ ExpireUnread \/ UNCHANGED vars
  BY <1>5, <1>9 DEF LeadWrites, Expire, ExpireUnread, vars, turnVars, phoneVars, historyVars
<1>10. CASE FetchUnread \/ Quote
  BY <1>5, <1>10 DEF FetchUnread, Quote, Releasing, turnVars, phoneVars, historyVars
<1>11. CASE MarkRead \/ React
  BY <1>5, <1>11 DEF MarkRead, React, Releasing, turnVars, phoneVars
<1>12. CASE NotDelivered
  BY <1>5, <1>12 DEF NotDelivered, Releasing, turnVars, phoneVars
<1>13. CASE Approve
  <2> DEFINE own == IF IsAnswer THEN Append(chat, human) ELSE chat
  <2>1. PICK bot : bot = [by |-> "bot", text |-> reply.text]
    OBVIOUS
  <2>2. step = "review" /\ reply # NoReply /\ reply' = reply /\ Persists(<<bot>>)
    BY <1>13, <2>1 DEF Approve, TypeInv
  <2>3. bot \in Message /\ bot.by = "bot" /\ bot.text = reply.text
    BY <2>1, <2>2, Authors DEF TypeInv, Message
  <2> HIDE <1>13, <2>1
  <2>4. <<bot>> \in {<< >>, <<bot>>} /\ <<bot>> # << >>
    OBVIOUS
  <2>5. chat' = Append(own, bot)
    BY <2>2, <2>3, <2>4, Persisted
  <2>6. /\ own \in Seq(Message) /\ By("bot", own) = By("bot", chat)
        /\ \A j \in By("bot", chat) :
             own[j] = chat[j] /\ After("bot", own, j) = After("bot", chat, j)
    BY HumanPersists
  <2> HIDE DEF own
  <2>7. Len(own) \in Nat /\ \A j \in By("bot", own) : j \in 0..Len(own)
    BY <2>6, ByFinite, LenProperties
  <2>8. /\ By("bot", chat') = By("bot", chat) \cup {Len(own) + 1}
        /\ \A j \in By("bot", chat) : chat'[j] = chat[j]
        /\ chat'[Len(own) + 1] = bot
    BY <2>3, <2>5, <2>6, ByAppend, AppendProperties
  <2>9. /\ \A j \in By("bot", chat) : After("bot", chat', j) = After("bot", chat, j) + 1
        /\ After("bot", chat', Len(own) + 1) = 0
    <3>1. 0 \in 0..Len(own)
      BY <2>7
    <3>2. \A j \in 0..Len(own) : After("bot", chat', j) = After("bot", own, j) + 1
      BY <2>3, <2>5, <2>6, AfterAppend
    <3>3. After("bot", chat', Len(own) + 1) = 0
      BY <2>3, <2>5, <2>6, <3>1, AfterAppend
    <3> QED
      BY <2>6, <2>7, <3>2, <3>3
  <2>10. Owed = 0 /\ Owed' = 1
    <3>1. step' = "fetch" /\ UNCHANGED <<phone, turn>>
      BY <2>2 DEF Persists, phoneVars
    <3>2. ~Came
      BY <2>2 DEF PlaceInv, Came
    <3> QED
      BY <1>4, <2>2, <3>1, <3>2 DEF Owed, Releasing
  <2>11. UNCHANGED <<told, unsent>>
    BY <2>2 DEF Persists, phoneVars, historyVars
  <2>12. ASSUME NEW i \in DOMAIN told
         PROVE  \E j \in By("bot", chat') :
                  chat'[j].text = told[i] /\ After("bot", chat', j) <= Len(told) - i + unsent + 1
    <3>1. PICK j \in By("bot", chat) : chat[j].text = told[i] /\ After("bot", chat, j) <= Len(told) - i + unsent + 0
      BY <2>10 DEF ToldInv
    <3>2. After("bot", chat', j) <= Len(told) - i + unsent + 1
      BY <1>1, <1>2, <2>9, <3>1
    <3> QED
      BY <2>8, <3>1, <3>2
  <2>13. By("bot", chat)' = By("bot", chat') /\ \A j : After("bot", chat, j)' = After("bot", chat', j)
    BY DEF By, After
  <2> QED
    BY <2>2, <2>3, <2>8, <2>9, <2>10, <2>11, <2>12, <2>13 DEF ToldInv
<1>14. CASE RejectSilently
  <2> DEFINE own == IF IsAnswer THEN Append(chat, human) ELSE chat
  <2>1. step = "review" /\ reply' = NoReply /\ Persists(<< >>)
    BY <1>14 DEF RejectSilently, Rejects
  <2>2. chat' = own
    <3>1. NoWords \in Message
      BY DEF Message
    <3> QED
      BY <2>1, <3>1, Persisted
  <2>3. /\ By("bot", own) = By("bot", chat)
        /\ \A j \in By("bot", chat) :
             own[j] = chat[j] /\ After("bot", own, j) = After("bot", chat, j)
    BY HumanPersists
  <2> HIDE DEF own
  <2>4. UNCHANGED <<told, unsent>> /\ Owed' = Owed
    BY <2>1 DEF Persists, Owed, Releasing, phoneVars, historyVars
  <2>5. By("bot", chat)' = By("bot", own) /\ \A j : After("bot", chat, j)' = After("bot", own, j)
    BY <2>2 DEF By, After
  <2> QED
    BY <2>1, <2>2, <2>3, <2>4, <2>5 DEF ToldInv
<1>15. CASE Delivered \/ AnswerLost
  <2>1. Sending /\ Comes /\ step = "send" /\ UNCHANGED <<step, chat, reply, turn, unsent>>
    BY <1>15 DEF Delivered, AnswerLost, Sending, turnVars, historyVars
  <2>2. reply # NoReply /\ reply.text \in Say
    BY <2>1, ComesType DEF TypeInv
  <2> HIDE <1>15
  <2>3. Owed = (IF Came THEN 0 ELSE 1) /\ Owed' = 0
    <3>1. Came'
      <4>1. phone'[Len(phone) + 1] = <<turn, next>> /\ Len(phone) + 1 \in DOMAIN phone'
        BY <2>1, PhoneGrows DEF Here
      <4> QED
        BY <2>1, <4>1 DEF Came
    <3> QED
      BY <2>1, <2>2, <3>1 DEF Owed, Releasing
  <2>4. CASE Came
    <3>1. told' = told /\ Owed = 0
      BY <2>1, <2>3, <2>4 DEF Comes
    <3> QED
      BY <1>3, <2>1, <2>3, <3>1 DEF ToldInv
  <2>5. CASE ~Came
    <3>1. told' = Append(told, reply.text) /\ Owed = 1
      BY <2>1, <2>3, <2>5 DEF Comes
    <3>2. /\ Len(told') = Len(told) + 1 /\ DOMAIN told' = 1..Len(told) + 1
          /\ \A i \in 1..Len(told) : told'[i] = told[i]
          /\ told'[Len(told) + 1] = reply.text
      <4>1. /\ told' \in Seq(Say) /\ Len(told') = Len(told) + 1
            /\ \A i \in 1..Len(told) : told'[i] = told[i]
            /\ told'[Len(told) + 1] = reply.text
        BY <1>1, <2>2, <3>1, AppendProperties
      <4> QED
        BY <4>1, LenProperties
    <3>3. ASSUME NEW i \in 1..Len(told)
          PROVE  \E j \in By("bot", chat) :
                   chat[j].text = told'[i] /\ After("bot", chat, j) <= Len(told') - i + unsent + 0
      <4>1. PICK j \in By("bot", chat) : chat[j].text = told[i] /\ After("bot", chat, j) <= Len(told) - i + unsent + 1
        BY <1>1, <3>1 DEF ToldInv
      <4>2. After("bot", chat, j) <= Len(told') - i + unsent + 0
        BY <1>1, <1>2, <3>2, <4>1
      <4> QED
        BY <3>2, <4>1, <4>2
    <3>4. \E j \in By("bot", chat) :
            chat[j].text = told'[Len(told) + 1]
            /\ After("bot", chat, j) <= Len(told') - (Len(told) + 1) + unsent + 0
      <4>1. PICK j \in By("bot", chat) : chat[j].text = reply.text /\ After("bot", chat, j) = 0
        BY <2>1, <2>2 DEF ToldInv, Releasing
      <4>2. 0 <= Len(told') - (Len(told) + 1) + unsent + 0
        BY <1>1, <3>2
      <4> QED
        BY <3>2, <4>1, <4>2
    <3>5. \A i \in DOMAIN told' : i \in 1..Len(told) \/ i = Len(told) + 1
      BY <1>1, <3>2
    <3>6. \A i \in DOMAIN told' : \E j \in By("bot", chat) :
            chat[j].text = told'[i] /\ After("bot", chat, j) <= Len(told') - i + unsent + 0
      BY <3>3, <3>4, <3>5
    <3> QED
      BY <1>3, <2>1, <2>3, <3>6 DEF ToldInv
  <2> QED
    BY <2>4, <2>5
<1>16. CASE EndSend \/ Stop
  <2>1. Ends /\ step # "end" /\ UNCHANGED <<chat, told>>
    BY <1>16 DEF EndSend, Stop, Ends, phoneVars
  <2>2. step' = "end" /\ Owed' = 0
    BY <2>1 DEF Ends, Owed, Releasing
  <2>3. unsent' = unsent + Owed /\ Owed \in {0, 1}
    BY <2>1 DEF Ends, Owed, Releasing, Writing, TypeInv
  <2> HIDE <1>16
  <2>4. PICK owed \in {0, 1} : Owed = owed
    BY <2>3
  <2>5. ASSUME NEW i \in DOMAIN told
        PROVE  \E j \in By("bot", chat) :
                 chat[j].text = told[i] /\ After("bot", chat, j) <= Len(told) - i + (unsent + owed) + 0
    <3>1. PICK j \in By("bot", chat) : chat[j].text = told[i] /\ After("bot", chat, j) <= Len(told) - i + unsent + owed
      BY <2>4 DEF ToldInv
    <3>2. After("bot", chat, j) <= Len(told) - i + (unsent + owed) + 0
      BY <1>1, <1>2, <3>1
    <3> QED
      BY <3>1, <3>2
  <2> QED
    BY <1>3, <2>1, <2>2, <2>3, <2>4, <2>5 DEF ToldInv, Releasing
<1> QED
  BY <1>6, <1>7, <1>8, <1>9, <1>10, <1>11, <1>12, <1>13, <1>14, <1>15, <1>16 DEF Next

-----------------------------------------------------------------------------
(***************************************************************************)
(* What the review lets through has passed the check of repetition and the *)
(* check of the link, since the first check that fails is the verdict.     *)
(***************************************************************************)
LEMMA Approval ==
  ASSUME NEW p, NEW tagged, NEW history, NEW known, Check(p, tagged, history, known).approved
  PROVE  CheckRepetition(p, history).approved /\ CheckLink(p, history, known).approved
<1> DEFINE checks == <<CheckRepetition(p, history), CheckFraud(tagged, history, known),
                       CheckPlatformFirst(p, known), CheckLink(p, history, known), CheckPunctuation(p)>>
           failing == {i \in 1..Len(checks) : ~checks[i].approved}
<1>1. Len(checks) = 5 /\ checks[1] = CheckRepetition(p, history) /\ checks[4] = CheckLink(p, history, known)
  OBVIOUS
<1>2. SelectInSeq(checks, LAMBDA v : ~v.approved) = IF failing # {} THEN Min(failing) ELSE 0
  BY DEF SelectInSeq
<1>3. Check(p, tagged, history, known) =
        IF SelectInSeq(checks, LAMBDA v : ~v.approved) = 0 THEN Passed
        ELSE checks[SelectInSeq(checks, LAMBDA v : ~v.approved)]
  BY DEF Check
<1> SUFFICES ASSUME failing # {}
             PROVE  FALSE
  BY <1>1
<1>4. failing \subseteq 1..5
  BY <1>1
<1>5. \A i \in failing : ~checks[i].approved
  OBVIOUS
<1> HIDE DEF checks, failing
<1>6. \E i \in failing : \A j \in failing : i <= j
  <2>1. CASE 1 \in failing
    BY <1>4, <2>1
  <2>2. CASE 1 \notin failing /\ 2 \in failing
    BY <1>4, <2>2
  <2>3. CASE 1 \notin failing /\ 2 \notin failing /\ 3 \in failing
    BY <1>4, <2>3
  <2>4. CASE 1 \notin failing /\ 2 \notin failing /\ 3 \notin failing /\ 4 \in failing
    BY <1>4, <2>4
  <2>5. CASE 1 \notin failing /\ 2 \notin failing /\ 3 \notin failing /\ 4 \notin failing
    <3>1. \A i \in failing : i = 5
      BY <1>4, <2>5
    <3> QED
      BY <3>1
  <2> QED
    BY <2>1, <2>2, <2>3, <2>4, <2>5
<1>7. Min(failing) \in failing
  BY <1>6 DEF Min
<1>8. Check(p, tagged, history, known) = checks[Min(failing)]
  BY <1>2, <1>3, <1>4, <1>7
<1> QED
  BY <1>5, <1>7, <1>8

(* A reply of four words and more that passes is near to none of the others. *)
LEMMA NotRepeated ==
  ASSUME NEW p \in DOMAIN Texts, NEW history, CheckRepetition(p, history).approved,
         Cardinality(Texts[p].words) >= 4, NEW i \in OthersOf(p, history)
  PROVE  ~Similar(Texts[p].words, Texts[history[i].text].words, 40)
<1> DEFINE near(percent) == \E j \in OthersOf(p, history) :
                              Similar(Texts[p].words, Texts[history[j].text].words, percent)
<1>1. Cardinality(Texts[p].words) \in Nat
  BY SupervisorAssumption, FS_CardinalityType
<1>2. CheckRepetition(p, history) =
        CASE Cardinality(Texts[p].words) < 4 -> Passed
          [] Cardinality(Texts[p].words) >= 4 /\ near(55) -> Failed("critical")
          [] Cardinality(Texts[p].words) >= 4 /\ ~near(55) /\ near(40) -> Failed("warning")
          [] OTHER -> Passed
  BY DEF CheckRepetition
<1>3. ~Failed("critical").approved /\ ~Failed("warning").approved
  BY DEF Failed
<1> HIDE DEF near
<1>4. ~near(40)
  <2>1. CASE near(55)
    BY <1>1, <1>2, <1>3, <2>1
  <2>2. CASE ~near(55) /\ near(40)
    BY <1>1, <1>2, <1>3, <2>2
  <2> QED
    BY <2>1, <2>2
<1> QED
  BY <1>4 DEF near

(* A link that passes is for a lead who had it, who bought, or who has just confirmed. *)
LEMMA LinkConfirmed ==
  ASSUME NEW p, NEW history, NEW known, CheckLink(p, history, known).approved, Texts[p].link,
         ~known.bought, ~known.link
  PROVE  \E i \in Newest(By("lead", history), HumanLookback) : history[i].confirms
  BY DEF CheckLink, Failed

-----------------------------------------------------------------------------
(* Where the review finds the persisted history, the turn's message and its drafts. *)
LEMMA Places ==
  ASSUME TypeInv, DraftInv, step = "review"
  PROVE  /\ messages \in Seq(Message) /\ chat \in Seq(Message) /\ Base \in Nat /\ Len(chat) \in Nat /\ rejected \in Nat
         /\ Len(messages) = Base + Len(chat) + 2 + rejected
         /\ DOMAIN messages = 1..Len(messages) /\ DOMAIN chat = 1..Len(chat)
         /\ \A j \in 1..Len(chat) : Base + j \in 1..Len(messages) /\ messages[Base + j] = chat[j]
         /\ messages[Base + Len(chat) + 1] = human /\ human.by = "lead"
         /\ \A n \in Base + Len(chat) + 2..Len(messages) : messages[n].by = "bot"
         /\ messages[Len(messages)].text = reply.text
<1>1. /\ messages \in Seq(Message) /\ chat \in Seq(Message) /\ rejected \in Nat
      /\ Len(messages) \in Nat /\ Len(chat) \in Nat
      /\ DOMAIN messages = 1..Len(messages) /\ DOMAIN chat = 1..Len(chat)
      /\ human.by = "lead"
  BY LenProperties, Authors DEF TypeInv
<1>2. Drafts = rejected + 1 /\ Base = Len(messages) - (rejected + 2 + Len(chat))
  BY <1>1 DEF Drafts, Base
<1>3. /\ Base >= 0 /\ messages[Base + Len(chat) + 1] = human
      /\ \A i \in 1..Len(chat) : messages[Base + i] = chat[i]
      /\ \A i \in 1..rejected + 1 : messages[Base + Len(chat) + 1 + i].by = "bot"
      /\ messages[Len(messages)].text = reply.text
  BY <1>2 DEF DraftInv, Writing
<1>4. Base \in Nat /\ Len(messages) = Base + Len(chat) + 2 + rejected
  BY <1>1, <1>2, <1>3
<1>5. ASSUME NEW n \in Base + Len(chat) + 2..Len(messages)
      PROVE  messages[n].by = "bot"
  <2>1. n - (Base + Len(chat) + 1) \in 1..rejected + 1
    BY <1>1, <1>4
  <2>2. Base + Len(chat) + 1 + (n - (Base + Len(chat) + 1)) = n
    BY <1>1, <1>4
  <2> QED
    BY <1>3, <2>1, <2>2
<1>6. \A j \in 1..Len(chat) : Base + j \in 1..Len(messages)
  BY <1>1, <1>4
<1> QED
  BY <1>1, <1>3, <1>4, <1>5, <1>6

(* Shifted by the same distance, the members of a set are still as many. *)
LEMMA ShiftIn ==
  ASSUME NEW S \in SUBSET Int, NEW T, IsFiniteSet(T), NEW d \in Int, \A n \in S : n + d \in T
  PROVE  IsFiniteSet(S) /\ Cardinality(S) <= Cardinality(T)
<1> DEFINE f == [n \in S |-> n + d]
<1>1. f \in Injection(S, T)
  BY DEF Injection, IsInjective
<1> QED
  BY <1>1, FS_Injection

(* Of the lead's messages the graph has all that are persisted, and that of the turn. *)
LEMMA LeadsInGraph ==
  ASSUME TypeInv, DraftInv, step = "review",
         NEW j \in 0..Len(chat), NEW i \in 0..Base + j
  PROVE  After("lead", messages, i) >= After("lead", chat, j) + 1
<1>1. /\ messages \in Seq(Message) /\ chat \in Seq(Message) /\ Base \in Nat /\ Len(chat) \in Nat /\ rejected \in Nat
      /\ Len(messages) = Base + Len(chat) + 2 + rejected
      /\ DOMAIN messages = 1..Len(messages) /\ DOMAIN chat = 1..Len(chat)
      /\ \A n \in 1..Len(chat) : Base + n \in 1..Len(messages) /\ messages[Base + n] = chat[n]
      /\ messages[Base + Len(chat) + 1] = human /\ human.by = "lead"
  BY Places
<1> DEFINE S == {n \in By("lead", chat) : n > j}
           T == {n \in By("lead", messages) : n > i}
           own == Base + Len(chat) + 1
<1>2. IsFiniteSet(T) /\ Cardinality(T) \in Nat /\ IsFiniteSet(S) /\ Cardinality(S) \in Nat
  <2>1. T \in SUBSET By("lead", messages) /\ S \in SUBSET By("lead", chat)
    OBVIOUS
  <2> QED
    BY <1>1, <2>1, ByFinite
<1>3. own \in T
  BY <1>1 DEF By
<1>4. \A n \in S : n \in Int /\ n + Base \in T \ {own}
  BY <1>1 DEF By
<1> HIDE DEF S, T
<1>5. IsFiniteSet(T \ {own}) /\ Cardinality(T \ {own}) = Cardinality(T) - 1
  BY <1>2, <1>3, FS_RemoveElement
<1>6. Cardinality(S) <= Cardinality(T \ {own})
  <2>1. S \in SUBSET Int /\ Base \in Int
    BY <1>1, <1>4
  <2> HIDE DEF own
  <2> QED
    BY <1>4, <1>5, <2>1, ShiftIn
<1> QED
  BY <1>2, <1>5, <1>6 DEF After, S, T

(* The confirmation that lets a link through is recent in what the lead wrote. *)
LEMMA ConfirmedRecently ==
  ASSUME TypeInv, DraftInv, HeardInv, step = "review",
         NEW i \in Newest(By("lead", messages), HumanLookback), messages[i].confirms
  PROVE  \E k \in DOMAIN heard : heard[k].confirms /\ k > Len(heard) - (HumanLookback + faults)
<1>1. /\ messages \in Seq(Message) /\ chat \in Seq(Message) /\ Base \in Nat /\ Len(chat) \in Nat /\ rejected \in Nat
      /\ Len(messages) = Base + Len(chat) + 2 + rejected
      /\ DOMAIN messages = 1..Len(messages) /\ DOMAIN chat = 1..Len(chat)
      /\ \A n \in 1..Len(chat) : Base + n \in 1..Len(messages) /\ messages[Base + n] = chat[n]
      /\ messages[Base + Len(chat) + 1] = human /\ human.by = "lead"
      /\ \A n \in Base + Len(chat) + 2..Len(messages) : messages[n].by = "bot"
  BY Places
<1>2. /\ heard \in Seq(LeadMessages) /\ Len(heard) \in Nat /\ DOMAIN heard = 1..Len(heard) /\ faults \in Nat
      /\ HumanLookback \in Nat /\ HumanLookback > 0
  BY LenProperties, Bounds DEF TypeInv
<1>3. /\ i \in By("lead", messages) /\ i \in 1..Len(messages) /\ messages[i].by = "lead"
      /\ After("lead", messages, i) < HumanLookback
      /\ messages[i] # NoWords
  <2>1. i \in By("lead", messages) /\ Cardinality({n \in By("lead", messages) : n > i}) < HumanLookback
    BY DEF Newest
  <2>2. messages[i] # NoWords
    BY DEF NoWords
  <2> QED
    BY <1>1, <2>1, <2>2 DEF By, After
<1>4. /\ \A j : After("lead", chat, j) \in Nat /\ After("lead", messages, j) \in Nat
      /\ Lag = (IF IsAnswer THEN 1 ELSE 0)
  BY <1>1, AfterType DEF Lag, Writing
<1>5. PICK lag \in {0, 1} : Lag = lag
  BY <1>4
<1>6. CASE i = Base + Len(chat) + 1
  <2>1. Lag = 1 /\ messages[i] = human
    BY <1>1, <1>3, <1>4, <1>6 DEF IsAnswer
  <2>2. Len(heard) \in DOMAIN heard /\ heard[Len(heard)] = human
    BY <1>2, <2>1 DEF HeardInv
  <2>3. Len(heard) > Len(heard) - (HumanLookback + faults)
    BY <1>2
  <2> QED
    BY <2>1, <2>2, <2>3
<1>7. CASE i \in Base + 1..Base + Len(chat)
  <2>1. PICK j \in 1..Len(chat) : i = Base + j
    <3>1. i - Base \in 1..Len(chat) /\ i = Base + (i - Base)
      BY <1>1, <1>7
    <3> QED
      BY <3>1
  <2>2. messages[i] = chat[j] /\ j \in By("lead", chat)
    BY <1>1, <1>3, <2>1 DEF By
  <2>3. PICK k \in DOMAIN heard : heard[k] = chat[j] /\ Len(heard) - k <= After("lead", chat, j) + faults + lag
    BY <1>5, <2>2 DEF HeardInv
  <2>4. After("lead", messages, i) >= After("lead", chat, j) + 1
    <3>1. j \in 0..Len(chat) /\ i \in 0..Base + j
      BY <1>1, <2>1
    <3> QED
      BY <3>1, LeadsInGraph
  <2>5. k > Len(heard) - (HumanLookback + faults)
    BY SMTT(30), <1>2, <1>3, <1>4, <2>3, <2>4
  <2> QED
    BY <2>2, <2>3, <2>5
<1>8. CASE i \in 1..Base
  <2>1. After("lead", messages, i) >= After("lead", chat, 0) + 1
    <3>1. 0 \in 0..Len(chat) /\ i \in 0..Base + 0
      BY <1>1, <1>8
    <3> QED
      BY <3>1, LeadsInGraph
  <2>2. Len(heard) <= After("lead", chat, 0) + faults + lag
    BY <1>5 DEF HeardInv
  <2>3. PICK k \in DOMAIN heard : heard[k] = messages[i]
    BY <1>3 DEF HeardInv
  <2>4. k > Len(heard) - (HumanLookback + faults)
    BY <1>2, <1>3, <1>4, <2>1, <2>2, <2>3
  <2> QED
    BY <2>3, <2>4
<1>9. i \notin Base + Len(chat) + 2..Len(messages)
  BY <1>1, <1>3
<1> QED
  BY <1>1, <1>3, <1>6, <1>7, <1>8, <1>9

(* Of what the bot wrote before the newest draft, the graph has no more than what is
   persisted and the drafts that were rejected. *)
LEMMA OthersInGraph ==
  ASSUME TypeInv, DraftInv, step = "review", NEW j \in 1..Len(chat)
  PROVE  LET others == {n \in By("bot", messages) : n > Base + j} \ {Len(messages)}
         IN  IsFiniteSet(others) /\ Cardinality(others) <= After("bot", chat, j) + rejected
<1>1. /\ messages \in Seq(Message) /\ chat \in Seq(Message) /\ Base \in Nat /\ Len(chat) \in Nat /\ rejected \in Nat
      /\ Len(messages) = Base + Len(chat) + 2 + rejected
      /\ DOMAIN messages = 1..Len(messages) /\ DOMAIN chat = 1..Len(chat)
      /\ \A n \in 1..Len(chat) : Base + n \in 1..Len(messages) /\ messages[Base + n] = chat[n]
      /\ messages[Base + Len(chat) + 1] = human /\ human.by = "lead"
  BY Places
<1> DEFINE others == {n \in By("bot", messages) : n > Base + j} \ {Len(messages)}
           S == {n \in others : n <= Base + Len(chat)}
           D == Base + Len(chat) + 2..Base + Len(chat) + 1 + rejected
           T == {n \in By("bot", chat) : n > j}
<1>2. IsFiniteSet(others) /\ IsFiniteSet(T) /\ Cardinality(T) \in Nat
  <2>1. others \in SUBSET By("bot", messages) /\ T \in SUBSET By("bot", chat)
    OBVIOUS
  <2> QED
    BY <1>1, <2>1, ByFinite
<1>3. IsFiniteSet(D) /\ Cardinality(D) = rejected
  <2>1. PICK a \in Int, b \in Int : a = Base + Len(chat) + 2 /\ b = Base + Len(chat) + 1 + rejected
    BY <1>1
  <2>2. D = a..b
    BY <2>1
  <2>3. rejected = IF a > b THEN 0 ELSE b - a + 1
    BY <1>1, <2>1
  <2> QED
    BY <2>2, <2>3, FS_Interval
<1>4. others \subseteq S \cup D
  <2> SUFFICES ASSUME NEW n \in others, n \notin S
               PROVE  n \in D
    OBVIOUS
  <2>1. n \in 1..Len(messages) /\ n # Len(messages) /\ messages[n].by = "bot" /\ n > Base + Len(chat)
    BY <1>1 DEF By
  <2>2. n # Base + Len(chat) + 1
    BY <1>1, <2>1
  <2>3. PICK before \in Nat : before = Base + Len(chat)
    BY <1>1
  <2>4. Len(messages) = before + 2 + rejected /\ rejected \in Nat
    BY <1>1, <2>3
  <2>5. n \in before + 2..before + 1 + rejected
    BY <2>1, <2>2, <2>3, <2>4
  <2> QED
    BY <2>3, <2>5
<1>5. \A n \in S : n \in Int /\ n + (-Base) \in T
  <2> SUFFICES ASSUME NEW n \in S
               PROVE  n \in Int /\ n - Base \in T
    BY <1>1
  <2>1. n \in 1..Len(messages) /\ messages[n].by = "bot" /\ n > Base + j /\ n <= Base + Len(chat)
    BY <1>1 DEF By
  <2>2. n - Base \in 1..Len(chat) /\ Base + (n - Base) = n /\ n - Base > j
    BY <1>1, <2>1
  <2>3. chat[n - Base].by = "bot"
    BY <1>1, <2>1, <2>2
  <2> QED
    BY <1>1, <2>1, <2>2, <2>3 DEF By
<1> HIDE DEF others, S, D, T
<1>6. IsFiniteSet(S) /\ Cardinality(S) <= Cardinality(T)
  <2>1. S \in SUBSET Int /\ -Base \in Int
    BY <1>1, <1>5
  <2> QED
    BY <1>2, <1>5, <2>1, ShiftIn
<1>7. /\ IsFiniteSet(S \cup D)
      /\ Cardinality(S \cup D) = Cardinality(S) + Cardinality(D) - Cardinality(S \cap D)
  BY <1>3, <1>6, FS_Union
<1>8. Cardinality(S \cap D) \in Nat /\ Cardinality(S) \in Nat /\ Cardinality(S \cup D) \in Nat
  <2>1. IsFiniteSet(S \cap D)
    BY <1>6, FS_Intersection
  <2> QED
    BY <1>6, <1>7, <2>1, FS_CardinalityType
<1>9. Cardinality(others) <= Cardinality(S \cup D) /\ Cardinality(others) \in Nat
  BY <1>2, <1>4, <1>7, FS_Subset, FS_CardinalityType
<1>10. Cardinality(others) <= Cardinality(T) + rejected
  BY <1>1, <1>2, <1>3, <1>6, <1>7, <1>8, <1>9
<1> QED
  BY <1>2, <1>10 DEF After, others, T

(* The reply under review is its own newest look-alike, and so is not compared. *)
LEMMA SelfIsNewest ==
  ASSUME TypeInv, DraftInv, step = "review"
  PROVE  LET alike == Alike(reply.text, messages)
         IN  /\ Len(messages) \in Newest(alike, 1)
             /\ \A n \in Newest(alike, 1) : n = Len(messages)
<1>1. /\ messages \in Seq(Message) /\ Base \in Nat /\ Len(chat) \in Nat /\ rejected \in Nat
      /\ Len(messages) = Base + Len(chat) + 2 + rejected
      /\ DOMAIN messages = 1..Len(messages)
      /\ \A n \in Base + Len(chat) + 2..Len(messages) : messages[n].by = "bot"
      /\ messages[Len(messages)].text = reply.text
  BY Places
<1> DEFINE alike == Alike(reply.text, messages)
           last == Len(messages)
<1>2. last \in Nat /\ last \in Base + Len(chat) + 2..last /\ last \in 1..last
  BY <1>1
<1>3. last \in alike
  BY <1>1, <1>2 DEF Alike, By
<1>4. alike \in SUBSET By("bot", messages) /\ \A n \in alike : n \in 1..last
  BY <1>1 DEF Alike, By
<1> HIDE DEF alike
<1>5. {n \in alike : n > last} = {}
  BY <1>2, <1>4
<1>6. last \in Newest(alike, 1)
  <2>1. Cardinality({n \in alike : n > last}) = 0
    BY <1>5, FS_EmptySet
  <2> QED
    BY <1>3, <2>1 DEF Newest
<1>7. ASSUME NEW n \in Newest(alike, 1)
      PROVE  n = last
  <2> DEFINE later == {k \in alike : k > n}
  <2>1. n \in alike /\ Cardinality(later) < 1
    BY DEF Newest
  <2>2. later \in SUBSET By("bot", messages)
    BY <1>4
  <2>3. IsFiniteSet(later) /\ Cardinality(later) \in Nat
    BY <1>1, <2>2, ByFinite
  <2>4. last \notin later
    <3> HIDE DEF later
    <3>1. later = {}
      BY <2>1, <2>3, FS_EmptySet
    <3> QED
      BY <3>1
  <2>5. n \in 1..last
    BY <1>4, <2>1
  <2> QED
    BY <1>2, <1>3, <2>4, <2>5
<1> QED
  BY <1>6, <1>7 DEF alike

-----------------------------------------------------------------------------
(* What is released is what was approved, as it was then, but for the faults. *)
LEMMA StaysReleased ==
  ASSUME TypeInv, [Next]_vars, step' = "fetch"
  PROVE  \/ Approve \/ reply' = NoReply
         \/ /\ faults' \in {faults, faults + 1}
            /\ UNCHANGED <<step, reply, final, told, unsent, rejected, facts, heard>>
<1> DEFINE Kept == /\ faults' \in {faults, faults + 1}
                   /\ UNCHANGED <<step, reply, final, told, unsent, rejected, facts, heard>>
<1>1. CASE Approve \/ RejectSilently
  BY <1>1 DEF RejectSilently, Rejects
<1>2. CASE LeadWrites
  <2>1. Kept
    BY <1>2 DEF LeadWrites, turnVars, phoneVars, historyVars
  <2> QED
    BY <2>1
<1>3. CASE (\E key \in cooling : Expire(key)) \/ ExpireUnread
  <2>1. Kept
    BY <1>3 DEF Expire, ExpireUnread, Fault, turnVars, phoneVars
  <2> QED
    BY <2>1
<1>4. CASE UNCHANGED vars
  <2>1. Kept
    BY <1>4 DEF vars, turnVars, phoneVars, historyVars
  <2> QED
    BY <2>1
<1>5. ~((\E m \in LeadMessages : Answer(m)) \/ FollowUp \/ Reject)
  BY DEF Answer, FollowUp, Takes, Reject
<1>6. ~(\E c \in Chunked : Specialist(c[1], c[2]))
  BY DEF Specialist
<1>7. ~(FetchUnread \/ MarkRead \/ React \/ Quote)
  BY DEF FetchUnread, MarkRead, React, Quote
<1>8. ~(Delivered \/ AnswerLost \/ NotDelivered)
  BY DEF Delivered, AnswerLost, NotDelivered, Sending
<1>9. ~(EndSend \/ Stop)
  BY DEF EndSend, Stop, Ends
<1> QED
  BY <1>1, <1>2, <1>3, <1>4, <1>5, <1>6, <1>7, <1>8, <1>9 DEF Next

(* Only an approval releases a reply, and then the check has compared it with these. *)
LEMMA EchoStep == TypeInv /\ DraftInv /\ ToldInv /\ NoEcho /\ [Next]_vars => NoEcho'
<1> SUFFICES ASSUME TypeInv, DraftInv, ToldInv, NoEcho, [Next]_vars,
                    step' = "fetch", ~final', reply' # NoReply,
                    Cardinality(Texts[reply'.text].words) >= 4,
                    NEW i \in DOMAIN told', i > Len(told') - (Lookback - rejected' - unsent')
             PROVE  ~Similar(Texts[reply'.text].words, Texts[told'[i]].words, 40)
  BY DEF NoEcho
<1>1. CASE UNCHANGED <<step, reply, final, told, unsent, rejected>>
  BY <1>1 DEF NoEcho
<1>2. CASE Approve
  <2>1. step = "review" /\ reply' = reply /\ Verdict.approved
    BY <1>2 DEF Approve
  <2>2. UNCHANGED <<told, unsent, rejected>>
    BY <1>2 DEF Approve, Persists, phoneVars, historyVars
  <2> HIDE <1>2
  <2>3. /\ messages \in Seq(Message) /\ Base \in Nat /\ Len(chat) \in Nat /\ rejected \in Nat
        /\ DOMAIN messages = 1..Len(messages) /\ DOMAIN chat = 1..Len(chat) /\ chat \in Seq(Message)
        /\ \A j \in 1..Len(chat) : Base + j \in 1..Len(messages) /\ messages[Base + j] = chat[j]
        /\ Len(messages) = Base + Len(chat) + 2 + rejected
    BY <2>1, Places
  <2>4. /\ Len(told) \in Nat /\ DOMAIN told = 1..Len(told) /\ unsent \in Nat /\ Lookback \in Nat
        /\ reply.text \in DOMAIN Texts
    BY <2>1, LenProperties, Bounds, DeliveryAssumption DEF TypeInv, Say
  <2>5. Owed = 0
    BY <2>1 DEF Owed, Releasing
  <2>6. PICK j \in By("bot", chat) : chat[j].text = told[i] /\ After("bot", chat, j) <= Len(told) - i + unsent + 0
    BY <2>2, <2>5 DEF ToldInv
  <2>7. j \in 1..Len(chat) /\ chat[j].by = "bot" /\ After("bot", chat, j) \in Nat
    BY <2>3, AfterType DEF By
  <2> DEFINE place == Base + j
             compared == By("bot", messages) \ Newest(Alike(reply.text, messages), 1)
             later == {n \in compared : n > place}
             others == {n \in By("bot", messages) : n > place} \ {Len(messages)}
  <2>8. place \in By("bot", messages) /\ place < Len(messages) /\ messages[place].text = told[i]
    BY <2>3, <2>6, <2>7 DEF By
  <2>9. place \in compared
    BY <2>1, <2>3, <2>8, SelfIsNewest
  <2>10. later \subseteq others
    BY <2>1, SelfIsNewest
  <2>11. IsFiniteSet(others) /\ Cardinality(others) <= After("bot", chat, j) + rejected
    BY <2>1, <2>7, OthersInGraph
  <2> HIDE DEF place, later, others
  <2>12. Cardinality(later) <= Cardinality(others) /\ Cardinality(later) \in Nat /\ Cardinality(others) \in Nat
    BY <2>10, <2>11, FS_Subset, FS_CardinalityType
  <2>13. Cardinality(later) < Lookback
    BY SMTT(30), <2>2, <2>3, <2>4, <2>6, <2>7, <2>11, <2>12
  <2>14. place \in OthersOf(reply.text, messages)
    BY <2>9, <2>13 DEF OthersOf, Newest, later
  <2>15. CheckRepetition(reply.text, messages).approved
    BY <2>1, Approval DEF Verdict
  <2> QED
    BY <2>1, <2>2, <2>4, <2>8, <2>14, <2>15, NotRepeated
<1> QED
  BY <1>1, <1>2, StaysReleased

(* Only an approval releases a link, and then a confirmation is among the recent ones. *)
LEMMA LinkStep == TypeInv /\ DraftInv /\ HeardInv /\ LinkOnlyConfirmed /\ [Next]_vars => LinkOnlyConfirmed'
<1> SUFFICES ASSUME TypeInv, DraftInv, HeardInv, LinkOnlyConfirmed, [Next]_vars,
                    step' = "fetch", ~final', reply' # NoReply, Texts[reply'.text].link,
                    ~facts'.bought, ~facts'.link
             PROVE  \E k \in DOMAIN heard' :
                      heard'[k].confirms /\ k > Len(heard') - (HumanLookback + faults')
  BY DEF LinkOnlyConfirmed
<1>1. CASE UNCHANGED <<step, reply, final, facts, heard>> /\ faults' \in {faults, faults + 1}
  <2>1. PICK k \in DOMAIN heard : heard[k].confirms /\ k > Len(heard) - (HumanLookback + faults)
    BY <1>1 DEF LinkOnlyConfirmed
  <2>2. Len(heard) \in Nat /\ DOMAIN heard = 1..Len(heard) /\ faults \in Nat /\ HumanLookback \in Nat
    BY LenProperties, Bounds DEF TypeInv
  <2>3. k > Len(heard) - (HumanLookback + faults')
    BY <1>1, <2>1, <2>2
  <2> QED
    BY <1>1, <2>1, <2>3
<1>2. CASE Approve
  <2>1. step = "review" /\ reply' = reply /\ Verdict.approved /\ UNCHANGED <<facts, heard, faults>>
    BY <1>2 DEF Approve, Persists, historyVars
  <2>2. CheckLink(reply.text, messages, facts).approved
    BY <2>1, Approval DEF Verdict
  <2>3. \E i \in Newest(By("lead", messages), HumanLookback) : messages[i].confirms
    BY <2>1, <2>2, LinkConfirmed
  <2> QED
    BY <2>1, <2>3, ConfirmedRecently
<1> QED
  BY <1>1, <1>2, StaysReleased

-----------------------------------------------------------------------------
(***************************************************************************)
(* The bubbles of a text.  What ReplyText makes of a sequence it makes with*)
(* folds, element by element.  The proofs are by induction over natural    *)
(* numbers, which is that a set of them has a least element: a fold has a  *)
(* value at each set of places, of which Max takes away the last; these    *)
(* values are those of a step, one place after the other; and so a fact    *)
(* that holds of no element and is kept by a step holds of the whole.      *)
(***************************************************************************)

(* A set of natural numbers has a least element. *)
LEMMA LeastNatural ==
  ASSUME NEW S, S \subseteq Nat, S # {}
  PROVE  \E n \in S : \A m \in S : n <= m
<1> DEFINE R == OpToRel(<, Nat)
<1>1. IsWellFoundedOn(R, Nat)
  BY Zenon, NatLessThanWellFounded
<1>2. \A m, n \in Nat : m < n => <<m, n>> \in R
  BY DEF OpToRel
<1> HIDE DEF R
<1>3. PICK x \in S : \A y \in S : ~ (<<y, x>> \in R)
  BY <1>1, WFMin
<1>4. ASSUME NEW y \in S PROVE x <= y
  <2>1. x \in Nat /\ y \in Nat /\ ~ (y < x)
    BY <1>2, <1>3
  <2> QED
    BY <2>1
<1> QED
  BY <1>4

(* Induction, for a set of natural numbers up to n. *)
LEMMA UpTo ==
  ASSUME NEW n \in Nat, NEW S, 0 \in S, \A k \in Nat : k < n /\ k \in S => k + 1 \in S
  PROVE  \A k \in 0..n : k \in S
<1> DEFINE Out == {k \in Nat : k <= n /\ k \notin S}
<1> SUFFICES ASSUME Out # {} PROVE FALSE
  OBVIOUS
<1>1. PICK k \in Out : \A m \in Out : k <= m
  BY LeastNatural
<1>2. k \in Nat /\ k # 0 /\ k <= n /\ k \notin S
  BY <1>1
<1>3. k - 1 \in Nat /\ k - 1 < n /\ k - 1 \notin Out
  BY <1>1, <1>2
<1>4. k - 1 \in S /\ (k - 1) + 1 = k
  BY <1>3
<1> QED
  BY <1>2, <1>3, <1>4

(* A non-empty set of numbers up to n has a greatest one, which Max finds. *)
LEMMA MaxIn ==
  ASSUME NEW n \in Nat, NEW s, s \subseteq 1..n, s # {}
  PROVE  Max(s) \in s /\ \A y \in s : Max(s) >= y
<1> DEFINE T == {n - x : x \in s}
<1>0. \A x \in s : x \in Int /\ n - x \in Nat /\ n - x \in T
  OBVIOUS
<1>1. T \subseteq Nat /\ T # {}
  BY <1>0
<1>2. PICK t \in T : \A m \in T : t <= m
  BY <1>1, LeastNatural
<1>3. PICK x \in s : t = n - x
  OBVIOUS
<1> HIDE DEF T
<1>4. \A y \in s : t <= n - y
  BY <1>0, <1>2
<1>6. \A y \in s : x >= y
  BY <1>0, <1>3, <1>4
<1> QED
  BY <1>6 DEF Max

\* What a fold makes of each set of numbers up to n: G adds the greatest one.
Folds(F, n, base, G) ==
  /\ F[{}] = base
  /\ \A s \in SUBSET (1..n) : s # {} => F[s] = G[<<F[s \ {Max(s)}], Max(s)>>]

(* There is one, whatever G does. *)
LEMMA FoldExists ==
  ASSUME NEW n \in Nat, NEW A, NEW base \in A, NEW G \in [A \X (1..n) -> A]
  PROVE  \E F \in [SUBSET (1..n) -> A] : Folds(F, n, base, G)
<1> DEFINE S == {k \in 0..n : \E F \in [SUBSET (1..k) -> A] : Folds(F, k, base, G)}
<1>1. 0 \in S
  <2> DEFINE F == [s \in SUBSET (1..0) |-> base]
  <2>1. 1..0 = {}
    OBVIOUS
  <2>2. \A s \in SUBSET (1..0) : s = {}
    BY <2>1
  <2>3. F \in [SUBSET (1..0) -> A] /\ F[{}] = base
    OBVIOUS
  <2>4. Folds(F, 0, base, G)
    BY <2>2, <2>3 DEF Folds
  <2> HIDE DEF F
  <2>5. \E H \in [SUBSET (1..0) -> A] : Folds(H, 0, base, G)
    BY <2>3, <2>4, Zenon
  <2>6. 0 \in 0..n
    OBVIOUS
  <2> QED
    BY <2>5, <2>6, Zenon
<1>2. ASSUME NEW k \in Nat, k < n, k \in S PROVE k + 1 \in S
  <2>1. PICK F \in [SUBSET (1..k) -> A] : Folds(F, k, base, G)
    BY <1>2
  <2> DEFINE H == [s \in SUBSET (1..(k + 1)) |-> IF k + 1 \in s THEN G[<<F[s \ {k + 1}], k + 1>>] ELSE F[s]]
  <2>2. \A s \in SUBSET (1..(k + 1)) : s \ {k + 1} \in SUBSET (1..k) /\ (k + 1 \notin s => s \in SUBSET (1..k))
    OBVIOUS
  <2>3. k + 1 \in 1..n /\ k + 1 \in 0..n
    BY <1>2
  <2>4. H \in [SUBSET (1..(k + 1)) -> A]
    BY <2>2, <2>3
  <2>5. \A s \in SUBSET (1..(k + 1)) : k + 1 \notin s => H[s] = F[s]
    OBVIOUS
  <2>6. ASSUME NEW s \in SUBSET (1..(k + 1)), k + 1 \in s
        PROVE  H[s] = G[<<H[s \ {Max(s)}], Max(s)>>]
    <3>1. Max(s) = k + 1
      <4>1. k + 1 \in Nat /\ s \subseteq 1..(k + 1) /\ s # {}
        BY <2>6
      <4>2. Max(s) \in s /\ \A y \in s : Max(s) >= y
        BY <4>1, MaxIn
      <4>3. Max(s) \in 1..(k + 1) /\ Max(s) >= k + 1
        BY <2>6, <4>1, <4>2
      <4> QED
        BY <4>3
    <3>2. H[s \ {k + 1}] = F[s \ {k + 1}]
      BY <2>5
    <3> QED
      BY <2>6, <3>1, <3>2
  <2>7. ASSUME NEW s \in SUBSET (1..(k + 1)), k + 1 \notin s, s # {}
        PROVE  H[s] = G[<<H[s \ {Max(s)}], Max(s)>>]
    <3>1. s \in SUBSET (1..k)
      BY <2>2, <2>7
    <3>2. H[s] = F[s] /\ H[s \ {Max(s)}] = F[s \ {Max(s)}]
      BY <2>5, <2>7
    <3> QED
      BY <2>1, <2>7, <3>1, <3>2 DEF Folds
  <2>8. H[{}] = base
    BY <2>1, <2>5 DEF Folds
  <2> HIDE DEF H
  <2>9. Folds(H, k + 1, base, G)
    BY <2>6, <2>7, <2>8 DEF Folds
  <2> QED
    BY <2>3, <2>4, <2>9
<1> HIDE DEF S
<1>3. n \in S
  BY <1>1, <1>2, UpTo
<1> QED
  BY <1>3 DEF S

(* The numbers up to k + 1 are those up to k and k + 1, the greatest. *)
LEMMA Chain ==
  /\ 1..0 = {}
  /\ \A k \in Nat : 1..(k + 1) # {} /\ Max(1..(k + 1)) = k + 1 /\ (1..(k + 1)) \ {k + 1} = 1..k
<1>1. ASSUME NEW k \in Nat PROVE Max(1..(k + 1)) = k + 1
  <2>1. k + 1 \in Nat /\ k + 1 \in 1..(k + 1)
    OBVIOUS
  <2>2. Max(1..(k + 1)) \in 1..(k + 1) /\ \A y \in 1..(k + 1) : Max(1..(k + 1)) >= y
    BY <2>1, MaxIn
  <2>3. Max(1..(k + 1)) >= k + 1
    BY <2>1, <2>2
  <2> QED
    BY <2>2, <2>3
<1>2. ASSUME NEW k \in Nat PROVE (1..(k + 1)) \ {k + 1} = 1..k /\ 1..(k + 1) # {}
  <2>1. \A x : x \in (1..(k + 1)) \ {k + 1} <=> x \in 1..k
    OBVIOUS
  <2>2. k + 1 \in 1..(k + 1)
    OBVIOUS
  <2> QED
    BY <2>1, <2>2
<1>3. 1..0 = {}
  OBVIOUS
<1> QED
  BY <1>1, <1>2, <1>3


(* A set that has the empty sequence, and with a sequence all that are one longer, has
   all sequences. *)
LEMMA SeqUpTo ==
  ASSUME NEW T, NEW P, << >> \in P, \A s \in Seq(T), x \in T : s \in P => Append(s, x) \in P
  PROVE  \A s \in Seq(T) : s \in P
<1> SUFFICES ASSUME NEW n \in Nat
             PROVE  \A s \in Seq(T) : Len(s) = n => s \in P
  <2> SUFFICES ASSUME NEW s \in Seq(T) PROVE s \in P
    OBVIOUS
  <2>1. Len(s) \in Nat
    BY LenProperties
  <2> QED
    BY <2>1
<1> DEFINE S == {k \in 0..n : \A s \in Seq(T) : Len(s) = k => s \in P}
<1>1. 0 \in S
  <2>1. ASSUME NEW s \in Seq(T), Len(s) = 0 PROVE s = << >>
    BY <2>1, EmptySeq
  <2> QED
    BY <2>1
<1>2. ASSUME NEW k \in Nat, k < n, k \in S PROVE k + 1 \in S
  <2>1. ASSUME NEW s \in Seq(T), Len(s) = k + 1 PROVE s \in P
    <3>1. s # << >>
      BY <1>2, <2>1, EmptySeq
    <3>2. PICK t \in Seq(T), x \in T : s = Append(t, x)
      BY <3>1, SequenceEmptyOrAppend
    <3>3. Len(s) = Len(t) + 1 /\ Len(t) \in Nat
      BY <3>2, AppendProperties, LenProperties
    <3>4. Len(t) = k
      BY <1>2, <2>1, <3>3
    <3>5. t \in P
      BY <1>2, <3>4
    <3> QED
      BY <3>2, <3>5
  <2>2. k + 1 \in 0..n
    BY <1>2
  <2> QED
    BY <2>1, <2>2
<1> HIDE DEF S
<1>3. \A k \in 0..n : k \in S
  BY <1>1, <1>2, UpTo
<1>4. n \in 0..n
  OBVIOUS
<1> QED
  BY <1>3, <1>4 DEF S

\* The same for a fold over a sequence with the function H, also if F is only known to
\* do so while it stays in A.
FoldsOver(F, seq, base, A, H) ==
  /\ F[{}] = base
  /\ \A s \in SUBSET DOMAIN seq :
       s # {} /\ F[s \ {Max(s)}] \in A => F[s] = H[<<F[s \ {Max(s)}], seq[Max(s)]>>]

(* There is one again. *)
LEMMA FoldOverExists ==
  ASSUME NEW T, NEW seq \in Seq(T), NEW A, NEW base \in A, NEW H \in [A \X T -> A]
  PROVE  \E F \in [SUBSET DOMAIN seq -> A] : FoldsOver(F, seq, base, A, H)
<1> DEFINE n == Len(seq)
           G == [p \in A \X (1..n) |-> H[<<p[1], seq[p[2]]>>]]
<1>1. n \in Nat /\ DOMAIN seq = 1..n /\ \A i \in 1..n : seq[i] \in T
  BY LenProperties, ElementOfSeq
<1> HIDE DEF n
<1>2. G \in [A \X (1..n) -> A]
  <2> SUFFICES ASSUME NEW a \in A, NEW i \in 1..n PROVE H[<<a, seq[i]>>] \in A
    OBVIOUS
  <2> QED
    BY <1>1
<1>3. \A a \in A, i \in 1..n : G[<<a, i>>] = H[<<a, seq[i]>>]
  OBVIOUS
<1> HIDE DEF G
<1>4. PICK F \in [SUBSET (1..n) -> A] : Folds(F, n, base, G)
  BY <1>1, <1>2, FoldExists, Zenon
<1>5. ASSUME NEW s \in SUBSET (1..n), s # {}
      PROVE  F[s] = H[<<F[s \ {Max(s)}], seq[Max(s)]>>]
  <2>1. Max(s) \in 1..n /\ s \ {Max(s)} \in SUBSET (1..n)
    BY <1>1, <1>5, MaxIn
  <2>2. F[s] = G[<<F[s \ {Max(s)}], Max(s)>>]
    BY <1>4, <1>5 DEF Folds
  <2>3. F[s \ {Max(s)}] \in A
    BY <2>1
  <2> QED
    BY <1>3, <2>1, <2>2, <2>3
<1>6. FoldsOver(F, seq, base, A, H)
  BY <1>1, <1>4, <1>5 DEF Folds, FoldsOver
<1> QED
  BY <1>1, <1>6

\* v is what H makes of a sequence, element by element.
Result(v, seq, base, A, H) ==
  \E r \in [0..Len(seq) -> A] :
     /\ r[0] = base /\ r[Len(seq)] = v
     /\ \A k \in Nat : k < Len(seq) => r[k + 1] = H[<<r[k], seq[k + 1]>>]

(* A fold makes it, if its result stays in A. *)
LEMMA FoldResult ==
  ASSUME NEW T, NEW seq \in Seq(T), NEW A, NEW base \in A, NEW H \in [A \X T -> A],
         NEW F, FoldsOver(F, seq, base, A, H)
  PROVE  Result(F[DOMAIN seq], seq, base, A, H)
<1> DEFINE n == Len(seq)
           r == [k \in 0..n |-> F[1..k]]
           S == {k \in 0..n : r[k] \in A}
<1>1. n \in Nat /\ DOMAIN seq = 1..n /\ \A i \in 1..n : seq[i] \in T
  BY LenProperties, ElementOfSeq
<1> HIDE DEF n
<1>2. r[0] = base
  BY <1>1, Chain DEF FoldsOver
<1>3. ASSUME NEW k \in Nat, k < n, r[k] \in A
      PROVE  r[k + 1] = H[<<r[k], seq[k + 1]>>] /\ r[k + 1] \in A
  <2>1. k \in 0..n /\ k + 1 \in 0..n /\ k + 1 \in 1..n /\ 1..(k + 1) \in SUBSET DOMAIN seq
    BY <1>1, <1>3
  <2>2. 1..(k + 1) # {} /\ Max(1..(k + 1)) = k + 1 /\ (1..(k + 1)) \ {k + 1} = 1..k
    BY Chain
  <2>3. r[k] = F[1..k] /\ r[k + 1] = F[1..(k + 1)]
    BY <2>1
  <2>4. F[1..(k + 1)] = H[<<F[1..k], seq[k + 1]>>]
    BY <1>3, <2>1, <2>2, <2>3, Zenon DEF FoldsOver
  <2>5. seq[k + 1] \in T
    BY <1>1, <2>1
  <2> QED
    BY <1>3, <2>3, <2>4, <2>5
<1> HIDE DEF r
<1>4. 0 \in S
  BY <1>1, <1>2
<1>5. ASSUME NEW k \in Nat, k < n, k \in S PROVE k + 1 \in S
  <2>1. k + 1 \in 0..n
    BY <1>1, <1>5
  <2> QED
    BY <1>3, <1>5, <2>1
<1> HIDE DEF S
<1>6. \A k \in 0..n : k \in S
  BY <1>1, <1>4, <1>5, UpTo
<1>7. \A k \in 0..n : r[k] \in A
  BY <1>6 DEF S
<1>8. \A k \in Nat : k < n => r[k + 1] = H[<<r[k], seq[k + 1]>>]
  <2> SUFFICES ASSUME NEW k \in Nat, k < n PROVE r[k + 1] = H[<<r[k], seq[k + 1]>>]
    OBVIOUS
  <2>1. k \in 0..n
    BY <1>1
  <2> QED
    BY <1>3, <1>7, <2>1
<1>9. r \in [0..n -> A]
  BY <1>7 DEF r
<1>10. r[n] = F[DOMAIN seq]
  BY <1>1 DEF r
<1> QED
  BY <1>2, <1>8, <1>9, <1>10 DEF Result, n

(* Of one more element H makes one step more. *)
LEMMA ResultStep ==
  ASSUME NEW T, NEW seq \in Seq(T), NEW x \in T, NEW A, NEW base, NEW H,
         NEW v, NEW w, Result(v, seq, base, A, H), Result(w, Append(seq, x), base, A, H)
  PROVE  w = H[<<v, x>>] /\ v \in A /\ w \in A
<1> DEFINE n == Len(seq)
           t == Append(seq, x)
<1>1. n \in Nat /\ Len(t) = n + 1 /\ t[n + 1] = x /\ \A i \in 1..n : t[i] = seq[i]
  BY LenProperties, AppendProperties
<1> HIDE DEF n, t
<1>2. PICK r \in [0..n -> A] :
         /\ r[0] = base /\ r[n] = v
         /\ \A k \in Nat : k < n => r[k + 1] = H[<<r[k], seq[k + 1]>>]
  BY DEF Result, n
<1>3. PICK q \in [0..n + 1 -> A] :
         /\ q[0] = base /\ q[n + 1] = w
         /\ \A k \in Nat : k < n + 1 => q[k + 1] = H[<<q[k], t[k + 1]>>]
  BY <1>1 DEF Result, t
<1> DEFINE S == {k \in 0..n : r[k] = q[k]}
<1>4. 0 \in S
  BY <1>1, <1>2, <1>3
<1>5. ASSUME NEW k \in Nat, k < n, k \in S PROVE k + 1 \in S
  <2>1. k + 1 \in 0..n /\ k + 1 \in 1..n /\ k < n + 1
    BY <1>1, <1>5
  <2>2. r[k + 1] = q[k + 1]
    BY <1>1, <1>2, <1>3, <1>5, <2>1
  <2> QED
    BY <2>1, <2>2
<1> HIDE DEF S
<1>6. \A k \in 0..n : k \in S
  BY <1>1, <1>4, <1>5, UpTo
<1>7. n \in S /\ n < n + 1 /\ n \in 0..n /\ n + 1 \in 0..n + 1
  BY <1>1, <1>6
<1>8. q[n] = v
  BY <1>2, <1>7 DEF S
<1> QED
  BY <1>1, <1>2, <1>3, <1>7, <1>8

(* Of no element it makes none. *)
LEMMA ResultEmpty ==
  ASSUME NEW A, NEW base, NEW H, NEW v, Result(v, << >>, base, A, H)
  PROVE  v = base
<1>1. Len(<< >>) = 0
  OBVIOUS
<1> QED
  BY <1>1 DEF Result

(* The last of a sequence that is not empty, and what is before it. *)
LEMMA FrontLast ==
  ASSUME NEW T, NEW s \in Seq(T), s # << >>
  PROVE  Front(s) \in Seq(T) /\ Last(s) \in T /\ s = Append(Front(s), Last(s))
<1>1. Len(s) \in Nat /\ Len(s) # 0 /\ \A i \in 1..Len(s) : s[i] \in T
  BY LenProperties, ElementOfSeq, EmptySeq
<1>2. Last(s) \in T
  BY <1>1 DEF Last
<1>3. Front(s) \in Seq(T)
  <2>1. \A i \in 1..Len(s) - 1 : s[i] \in T
    BY <1>1
  <2> QED
    BY <1>1, <2>1, SubSeqProperties DEF Front
<1>4. s = SubSeq(s, 1, Len(s) - 1) \o <<s[Len(s)]>>
  <2>1. 1 \in 1..Len(s) /\ Len(s) \in 1..Len(s)
    BY <1>1
  <2> QED
    BY <2>1, SubSeqRecursiveSecond, SubSeqFull
<1>5. Append(Front(s), Last(s)) = Front(s) \o <<Last(s)>>
  BY <1>2, <1>3, AppendIsConcat
<1> QED
  BY <1>2, <1>3, <1>4, <1>5 DEF Front, Last


(* The groups with the last one longer are groups again. *)
LEMMA JoinType ==
  ASSUME NEW T, NEW groups \in Seq(T), groups # << >>, NEW g, Last(groups) \o g \in T
  PROVE  Join(groups, g) \in Seq(T)
  BY FrontLast, AppendProperties DEF Join

(* The greatest of some places in a sequence is one. *)
LEMMA GreatestIn ==
  ASSUME NEW T, NEW seq \in Seq(T), NEW s \in SUBSET DOMAIN seq, s # {}
  PROVE  Max(s) \in DOMAIN seq /\ seq[Max(s)] \in T /\ s \ {Max(s)} \in SUBSET DOMAIN seq
<1>1. DOMAIN seq = 1..Len(seq) /\ Len(seq) \in Nat
  BY LenProperties
<1>2. Max(s) \in s
  BY <1>1, MaxIn
<1> QED
  BY <1>1, <1>2, ElementOfSeq

(* A split is such a fold of SplitStep. *)
LEMMA SplitResult ==
  ASSUME NEW T, NEW at, NEW pieces \in Seq(Piece), \A p \in Piece : <<p>> \in T,
         \A g \in T, p \in Piece : p.before \notin at => g \o <<p>> \in T
  PROVE  Result(Split(pieces, at), pieces, << >>, Seq(T), [p \in Seq(T) \X Piece |-> SplitStep(p[1], p[2], at)])
<1> DEFINE A == Seq(T)
           H == [p \in A \X Piece |-> SplitStep(p[1], p[2], at)]
           iter[s \in SUBSET DOMAIN pieces] ==
             IF s = {} THEN << >>
             ELSE LET x == Max(s) IN SplitStep(iter[s \ {x}], pieces[x], at)
<1>1. Split(pieces, at) = iter[DOMAIN pieces]
  BY DEF Split, FoldLeft, MapThenFoldSet
<1>2. \A groups \in A, piece \in Piece : SplitStep(groups, piece, at) \in A
  <2> SUFFICES ASSUME NEW groups \in A, NEW piece \in Piece PROVE SplitStep(groups, piece, at) \in A
    OBVIOUS
  <2>1. Append(groups, <<piece>>) \in A
    BY AppendProperties
  <2>2. CASE groups # << >> /\ piece.before \notin at
    BY <2>2, FrontLast, JoinType DEF SplitStep
  <2> QED
    BY <2>1, <2>2 DEF SplitStep
<1>3. H \in [A \X Piece -> A]
  BY <1>2
<1>4. << >> \in A
  BY EmptySeq
<1>5. \A a \in A, x \in Piece : H[<<a, x>>] = SplitStep(a, x, at)
  OBVIOUS
<1> HIDE DEF A, H, iter
<1>6. PICK F \in [SUBSET DOMAIN pieces -> A] : FoldsOver(F, pieces, << >>, A, H)
  BY <1>3, <1>4, FoldOverExists, Zenon
<1>7. ASSUME NEW s \in SUBSET DOMAIN pieces, s # {}
      PROVE  Max(s) \in DOMAIN pieces /\ pieces[Max(s)] \in Piece /\ s \ {Max(s)} \in SUBSET DOMAIN pieces
  BY <1>7, GreatestIn
<1>8. F = [s \in SUBSET DOMAIN pieces |->
             IF s = {} THEN << >> ELSE LET x == Max(s) IN SplitStep(F[s \ {x}], pieces[x], at)]
  BY <1>5, <1>6, <1>7 DEF FoldsOver
<1>9. iter = [s \in SUBSET DOMAIN pieces |->
                IF s = {} THEN << >> ELSE LET x == Max(s) IN SplitStep(iter[s \ {x}], pieces[x], at)]
  BY <1>8 DEF iter
<1>10. FoldsOver(iter, pieces, << >>, A, H)
  BY ZenonT(60), <1>5, <1>7, <1>9 DEF FoldsOver
<1>11. Result(iter[DOMAIN pieces], pieces, << >>, A, H)
  BY <1>3, <1>4, <1>10, FoldResult
<1> QED
  BY <1>1, <1>11 DEF A, H

(* Filling, of FillStep. *)
LEMMA FillResult ==
  ASSUME NEW T, NEW groups \in Seq(T), \A a, b \in T : Length(a) + 1 + Length(b) <= MaxChars => a \o b \in T
  PROVE  Result(Fill(groups), groups, << >>, Seq(T), [p \in Seq(T) \X T |-> FillStep(p[1], p[2])])
<1> DEFINE A == Seq(T)
           H == [p \in A \X T |-> FillStep(p[1], p[2])]
           iter[s \in SUBSET DOMAIN groups] ==
             IF s = {} THEN << >>
             ELSE LET x == Max(s) IN FillStep(iter[s \ {x}], groups[x])
<1>1. Fill(groups) = iter[DOMAIN groups]
  BY DEF Fill, FoldLeft, MapThenFoldSet
<1>2. \A b \in A, g \in T : FillStep(b, g) \in A
  <2> SUFFICES ASSUME NEW b \in A, NEW g \in T PROVE FillStep(b, g) \in A
    OBVIOUS
  <2>1. Append(b, g) \in A
    BY AppendProperties
  <2>2. CASE b # << >> /\ Length(Last(b)) + 1 + Length(g) <= MaxChars
    <3>1. Last(b) \o g \in T
      BY <2>2, FrontLast
    <3>2. Join(b, g) \in A
      BY <2>2, <3>1, JoinType
    <3> QED
      BY <2>1, <3>2 DEF FillStep
  <2> QED
    BY <2>1, <2>2 DEF FillStep
<1>3. H \in [A \X T -> A]
  BY <1>2
<1>4. << >> \in A
  BY EmptySeq
<1>5. \A a \in A, x \in T : H[<<a, x>>] = FillStep(a, x)
  OBVIOUS
<1> HIDE DEF A, H, iter
<1>6. PICK F \in [SUBSET DOMAIN groups -> A] : FoldsOver(F, groups, << >>, A, H)
  BY <1>3, <1>4, FoldOverExists, Zenon
<1>7. ASSUME NEW s \in SUBSET DOMAIN groups, s # {}
      PROVE  Max(s) \in DOMAIN groups /\ groups[Max(s)] \in T /\ s \ {Max(s)} \in SUBSET DOMAIN groups
  BY <1>7, GreatestIn
<1>8. F = [s \in SUBSET DOMAIN groups |->
             IF s = {} THEN << >> ELSE LET x == Max(s) IN FillStep(F[s \ {x}], groups[x])]
  BY <1>5, <1>6, <1>7 DEF FoldsOver
<1>9. iter = [s \in SUBSET DOMAIN groups |->
                IF s = {} THEN << >> ELSE LET x == Max(s) IN FillStep(iter[s \ {x}], groups[x])]
  BY <1>8 DEF iter
<1>10. FoldsOver(iter, groups, << >>, A, H)
  BY ZenonT(60), <1>5, <1>7, <1>9 DEF FoldsOver
<1>11. Result(iter[DOMAIN groups], groups, << >>, A, H)
  BY <1>3, <1>4, <1>10, FoldResult
<1> QED
  BY <1>1, <1>11 DEF A, H

(* Merging, of MergeStep. *)
LEMMA MergeShortResult ==
  ASSUME NEW T, NEW groups \in Seq(T), \A a, b \in T : Length(a) + 1 + Length(b) <= Slack => a \o b \in T
  PROVE  Result(MergeShort(groups), groups, << >>, Seq(T), [p \in Seq(T) \X T |-> MergeStep(p[1], p[2])])
<1> DEFINE A == Seq(T)
           H == [p \in A \X T |-> MergeStep(p[1], p[2])]
           iter[s \in SUBSET DOMAIN groups] ==
             IF s = {} THEN << >>
             ELSE LET x == Max(s) IN MergeStep(iter[s \ {x}], groups[x])
<1>1. MergeShort(groups) = iter[DOMAIN groups]
  BY DEF MergeShort, FoldLeft, MapThenFoldSet
<1>2. \A b \in A, g \in T : MergeStep(b, g) \in A
  <2> SUFFICES ASSUME NEW b \in A, NEW g \in T PROVE MergeStep(b, g) \in A
    OBVIOUS
  <2>1. Append(b, g) \in A
    BY AppendProperties
  <2>2. CASE b # << >> /\ Length(Last(b)) + 1 + Length(g) <= Slack
    <3>1. Last(b) \o g \in T
      BY <2>2, FrontLast
    <3>2. Join(b, g) \in A
      BY <2>2, <3>1, JoinType
    <3> QED
      BY <2>1, <3>2 DEF MergeStep
  <2> QED
    BY <2>1, <2>2 DEF MergeStep
<1>3. H \in [A \X T -> A]
  BY <1>2
<1>4. << >> \in A
  BY EmptySeq
<1>5. \A a \in A, x \in T : H[<<a, x>>] = MergeStep(a, x)
  OBVIOUS
<1> HIDE DEF A, H, iter
<1>6. PICK F \in [SUBSET DOMAIN groups -> A] : FoldsOver(F, groups, << >>, A, H)
  BY <1>3, <1>4, FoldOverExists, Zenon
<1>7. ASSUME NEW s \in SUBSET DOMAIN groups, s # {}
      PROVE  Max(s) \in DOMAIN groups /\ groups[Max(s)] \in T /\ s \ {Max(s)} \in SUBSET DOMAIN groups
  BY <1>7, GreatestIn
<1>8. F = [s \in SUBSET DOMAIN groups |->
             IF s = {} THEN << >> ELSE LET x == Max(s) IN MergeStep(F[s \ {x}], groups[x])]
  BY <1>5, <1>6, <1>7 DEF FoldsOver
<1>9. iter = [s \in SUBSET DOMAIN groups |->
                IF s = {} THEN << >> ELSE LET x == Max(s) IN MergeStep(iter[s \ {x}], groups[x])]
  BY <1>8 DEF iter
<1>10. FoldsOver(iter, groups, << >>, A, H)
  BY ZenonT(60), <1>5, <1>7, <1>9 DEF FoldsOver
<1>11. Result(iter[DOMAIN groups], groups, << >>, A, H)
  BY <1>3, <1>4, <1>10, FoldResult
<1> QED
  BY <1>1, <1>11 DEF A, H

(* How long the pieces are with one more. *)
LEMMA LengthResult ==
  ASSUME NEW b \in Seq(Piece)
  PROVE  Result(Length(b), b, Len(b) - 1, Int, [p \in Int \X Piece |-> p[1] + p[2].len])
<1> DEFINE base == Len(b) - 1
           H == [p \in Int \X Piece |-> p[1] + p[2].len]
           iter[s \in SUBSET DOMAIN b] ==
             IF s = {} THEN base
             ELSE LET x == Max(s) IN iter[s \ {x}] + b[x].len
<1>1. Length(b) = iter[DOMAIN b]
  BY DEF Length, FoldLeft, MapThenFoldSet
<1>2. \A p \in Piece : p.len \in Int
  BY DEF Piece
<1>3. H \in [Int \X Piece -> Int]
  BY <1>2
<1>4. base \in Int
  BY LenProperties
<1>5. \A a \in Int, x \in Piece : H[<<a, x>>] = a + x.len
  OBVIOUS
<1> HIDE DEF base, H, iter
<1>6. PICK F \in [SUBSET DOMAIN b -> Int] : FoldsOver(F, b, base, Int, H)
  BY <1>3, <1>4, FoldOverExists, Zenon
<1>7. ASSUME NEW s \in SUBSET DOMAIN b, s # {}
      PROVE  Max(s) \in DOMAIN b /\ b[Max(s)] \in Piece /\ s \ {Max(s)} \in SUBSET DOMAIN b
  BY <1>7, GreatestIn
<1>8. F = [s \in SUBSET DOMAIN b |-> IF s = {} THEN base ELSE LET x == Max(s) IN F[s \ {x}] + b[x].len]
  BY <1>5, <1>6, <1>7 DEF FoldsOver
<1>9. iter = [s \in SUBSET DOMAIN b |-> IF s = {} THEN base ELSE LET x == Max(s) IN iter[s \ {x}] + b[x].len]
  BY <1>8 DEF iter
<1>10. FoldsOver(iter, b, base, Int, H)
  BY ZenonT(60), <1>5, <1>7, <1>9 DEF FoldsOver
<1>11. Result(iter[DOMAIN b], b, base, Int, H)
  BY <1>3, <1>4, <1>10, FoldResult
<1> QED
  BY <1>1, <1>11 DEF base, H

(* No pieces have a length of -1: they have one space less than pieces. *)
LEMMA LengthEmpty == Length(<< >>) = -1
<1>1. << >> \in Seq(Piece) /\ Len(<< >>) - 1 = -1
  BY EmptySeq
<1> QED
  BY <1>1, LengthResult, ResultEmpty

(* A fold that begins one higher ends one higher. *)
LEMMA ResultShift ==
  ASSUME NEW seq \in Seq(Piece), NEW base \in Int, NEW v,
         Result(v, seq, base, Int, [p \in Int \X Piece |-> p[1] + p[2].len])
  PROVE  v \in Int /\ Result(v + 1, seq, base + 1, Int, [p \in Int \X Piece |-> p[1] + p[2].len])
<1> DEFINE n == Len(seq)
           H == [p \in Int \X Piece |-> p[1] + p[2].len]
<1>1. n \in Nat /\ \A i \in 1..n : seq[i] \in Piece
  BY LenProperties, ElementOfSeq
<1>2. \A p \in Piece : p.len \in Int
  BY DEF Piece
<1>3. \A a \in Int, x \in Piece : H[<<a, x>>] = a + x.len
  OBVIOUS
<1> HIDE DEF n, H
<1>4. PICK r \in [0..n -> Int] :
         /\ r[0] = base /\ r[n] = v
         /\ \A k \in Nat : k < n => r[k + 1] = H[<<r[k], seq[k + 1]>>]
  BY DEF Result, n, H
<1> DEFINE q == [k \in 0..n |-> r[k] + 1]
<1>5. q \in [0..n -> Int] /\ q[0] = base + 1 /\ q[n] = v + 1 /\ v \in Int
  BY <1>1, <1>4
<1>6. ASSUME NEW k \in Nat, k < n PROVE q[k + 1] = H[<<q[k], seq[k + 1]>>]
  <2>1. k \in 0..n /\ k + 1 \in 0..n /\ k + 1 \in 1..n
    BY <1>1, <1>6
  <2>2. r[k] \in Int /\ seq[k + 1] \in Piece /\ r[k + 1] = r[k] + seq[k + 1].len
    BY <1>1, <1>3, <1>4, <1>6, <2>1
  <2>3. q[k] = r[k] + 1 /\ q[k + 1] = r[k + 1] + 1
    BY <2>1
  <2>4. H[<<q[k], seq[k + 1]>>] = q[k] + seq[k + 1].len
    BY <1>3, <2>2, <2>3
  <2> QED
    BY <1>2, <2>2, <2>3, <2>4
<1> HIDE DEF q
<1> QED
  BY <1>5, <1>6 DEF Result, n, H

(* A piece more is a space and the piece longer. *)
LEMMA LengthAppend ==
  ASSUME NEW b \in Seq(Piece), NEW p \in Piece
  PROVE  Length(b) \in Int /\ Length(Append(b, p)) = Length(b) + 1 + p.len
<1> DEFINE H == [q \in Int \X Piece |-> q[1] + q[2].len]
           c == Append(b, p)
<1>1. c \in Seq(Piece) /\ Len(c) - 1 = (Len(b) - 1) + 1 /\ Len(b) - 1 \in Int
  BY AppendProperties, LenProperties
<1>2. H \in [Int \X Piece -> Int] /\ \A a \in Int, x \in Piece : H[<<a, x>>] = a + x.len
  BY DEF Piece
<1>3. Length(b) \in Int /\ Result(Length(b) + 1, b, (Len(b) - 1) + 1, Int, H)
  BY <1>1, LengthResult, ResultShift
<1>4. Result(Length(c), c, (Len(b) - 1) + 1, Int, H)
  BY <1>1, LengthResult
<1>5. (Len(b) - 1) + 1 \in Int
  BY <1>1
<1> DEFINE base == (Len(b) - 1) + 1
           u == Length(b) + 1
           w == Length(c)
           A == Int
<1>6. /\ Result(u, b, base, A, H) /\ Result(w, Append(b, p), base, A, H)
      /\ base \in A /\ H \in [A \X Piece -> A]
  BY <1>2, <1>3, <1>4, <1>5
<1> HIDE DEF H, c, base, u, w, A
<1>7. w = H[<<u, p>>]
  BY <1>6, ResultStep
<1>8. Length(c) = H[<<Length(b) + 1, p>>]
  BY <1>7 DEF u, w
<1> QED
  BY <1>2, <1>3, <1>8 DEF c

(* And so are more of them. *)
LEMMA LengthConcat ==
  ASSUME NEW a \in Seq(Piece), NEW b \in Seq(Piece)
  PROVE  /\ Length(a) \in Int /\ Length(b) \in Int
         /\ a \o b \in Seq(Piece) /\ Length(a \o b) = Length(a) + 1 + Length(b)
<1> DEFINE P == {s \in Seq(Piece) : Length(a \o s) = Length(a) + 1 + Length(s)}
<1>1. \A s \in Seq(Piece) : a \o s \in Seq(Piece)
  BY ConcatProperties
<1>2. \A s \in Seq(Piece) : Length(s) \in Int
  <2> TAKE s \in Seq(Piece)
  <2> PICK p : p \in Piece
    <3>1. [len |-> 1, before |-> "comma"] \in Piece
      BY DEF Piece, Boundary
    <3> QED
      BY <3>1
  <2> QED
    BY LengthAppend
<1>3. << >> \in P
  <2>1. a \o << >> = a /\ << >> \in Seq(Piece)
    BY ConcatEmptySeq, EmptySeq
  <2> QED
    BY <1>2, <2>1, LengthEmpty
<1>4. ASSUME NEW s \in Seq(Piece), NEW p \in Piece, s \in P PROVE Append(s, p) \in P
  <2>1. Append(s, p) \in Seq(Piece) /\ Append(s, p) = s \o <<p>> /\ <<p>> \in Seq(Piece)
    BY AppendProperties, AppendIsConcat
  <2>2. a \o Append(s, p) = Append(a \o s, p)
    <3>1. a \o (s \o <<p>>) = (a \o s) \o <<p>>
      BY <2>1, ConcatAssociative
    <3>2. Append(a \o s, p) = (a \o s) \o <<p>>
      BY <1>1, AppendIsConcat
    <3> QED
      BY <2>1, <3>1, <3>2
  <2>3. Length(Append(a \o s, p)) = Length(a \o s) + 1 + p.len /\ Length(Append(s, p)) = Length(s) + 1 + p.len
    BY <1>1, LengthAppend
  <2>4. p.len \in Int
    BY DEF Piece
  <2>5. Length(a \o s) = Length(a) + 1 + Length(s)
    BY <1>4
  <2>6. Length(a) \in Int /\ Length(s) \in Int /\ Length(a \o s) \in Int
    BY <1>1, <1>2
  <2> DEFINE la == Length(a)
             ls == Length(s)
             las == Length(a \o s)
             lp == Length(Append(s, p))
             lap == Length(a \o Append(s, p))
  <2>7. las = la + 1 + ls /\ lap = las + 1 + p.len /\ lp = ls + 1 + p.len
    BY <2>2, <2>3, <2>5
  <2>8. {la, ls, las, p.len} \subseteq Int
    BY <2>4, <2>6
  <2> HIDE DEF la, ls, las, lp, lap
  <2>9. lap = la + 1 + lp
    BY SMTT(30), <2>7, <2>8
  <2> QED
    BY <2>1, <2>9 DEF la, lp, lap
<1> HIDE DEF P
<1>5. b \in P
  BY <1>3, <1>4, SeqUpTo
<1> QED
  BY <1>1, <1>2, <1>5 DEF P

(* FlattenSeq is a fold of concatenation. *)
LEMMA FlattenResult ==
  ASSUME NEW T, NEW ss \in Seq(Seq(T))
  PROVE  Result(FlattenSeq(ss), ss, << >>, Seq(T), [p \in Seq(T) \X Seq(T) |-> p[1] \o p[2]])
<1> DEFINE n == Len(ss)
           A == Seq(T)
           H == [p \in A \X A |-> p[1] \o p[2]]
           flatten[i \in 1..n] == IF i = 1 THEN ss[i] ELSE flatten[i - 1] \o ss[i]
<1>1. n \in Nat /\ (\A i \in 1..n : ss[i] \in A) /\ (n = 0 => ss = << >>)
  BY LenProperties, ElementOfSeq, EmptySeq
<1>2. FlattenSeq(ss) = IF n = 0 THEN << >> ELSE flatten[n]
  BY <1>1 DEF FlattenSeq
<1>3. /\ \A a, b \in A : a \o b \in A /\ << >> \o b = b
      /\ << >> \in A
  BY ConcatProperties, ConcatEmptySeq, EmptySeq
<1>4. H \in [A \X A -> A] /\ \A a, b \in A : H[<<a, b>>] = a \o b
  BY <1>3
<1> HIDE DEF n, H, flatten, A
<1>5. \E F \in [SUBSET DOMAIN ss -> A] : FoldsOver(F, ss, << >>, A, H)
  BY <1>3, <1>4, FoldOverExists, Zenon DEF A
<1>6. \E F : Result(F[DOMAIN ss], ss, << >>, A, H)
  <2>1. ASSUME NEW F, FoldsOver(F, ss, << >>, A, H) PROVE Result(F[DOMAIN ss], ss, << >>, A, H)
    BY <1>3, <1>4, <2>1, FoldResult DEF A
  <2> QED
    BY <1>5, <2>1
<1>7. PICK r \in [0..n -> A] :
         r[0] = << >> /\ \A k \in Nat : k < n => r[k + 1] = H[<<r[k], ss[k + 1]>>]
  BY <1>6 DEF Result, n
<1>8. ASSUME NEW i \in 1..n PROVE r[i] = (IF i = 1 THEN ss[i] ELSE r[i - 1] \o ss[i])
  <2>1. i - 1 \in Nat /\ i - 1 < n /\ (i - 1) + 1 = i /\ i - 1 \in 0..n /\ (i = 1 => i - 1 = 0)
    BY <1>1
  <2>2. r[i] = r[i - 1] \o ss[i] /\ r[i - 1] \in A /\ ss[i] \in A
    BY <1>1, <1>4, <1>7, <2>1
  <2> QED
    BY <1>3, <1>7, <2>1, <2>2
<1> DEFINE f == [i \in 1..n |-> r[i]]
<1>9. f = [i \in 1..n |-> IF i = 1 THEN ss[i] ELSE f[i - 1] \o ss[i]]
  <2>1. ASSUME NEW i \in 1..n PROVE f[i] = (IF i = 1 THEN ss[i] ELSE f[i - 1] \o ss[i])
    <3>1. i # 1 => i - 1 \in 1..n
      BY <1>1
    <3> QED
      BY <1>8, <3>1
  <2> QED
    BY <2>1
<1>10. flatten = [i \in 1..n |-> IF i = 1 THEN ss[i] ELSE flatten[i - 1] \o ss[i]]
  BY <1>9 DEF flatten
<1> HIDE DEF f
<1> DEFINE q == [k \in 0..n |-> IF k = 0 THEN << >> ELSE flatten[k]]
           S == {k \in 0..n : q[k] \in A}
<1>11. q[0] = << >>
  BY <1>1
<1>12. ASSUME NEW k \in Nat, k < n, q[k] \in A
       PROVE  q[k + 1] = H[<<q[k], ss[k + 1]>>] /\ q[k + 1] \in A
  <2>1. k + 1 \in 1..n /\ (k + 1) - 1 = k /\ k \in 0..n /\ k + 1 \in 0..n /\ (k + 1 = 1 <=> k = 0)
    BY <1>1, <1>12
  <2>2. q[k + 1] = (IF k = 0 THEN ss[k + 1] ELSE flatten[k] \o ss[k + 1])
    <3>1. flatten[k + 1] = (IF k + 1 = 1 THEN ss[k + 1] ELSE flatten[(k + 1) - 1] \o ss[k + 1])
      BY <1>10, <2>1, Zenon
    <3>2. q[k + 1] = flatten[k + 1]
      BY <2>1
    <3> QED
      BY <2>1, <3>1, <3>2, Zenon
  <2>3. q[k] = (IF k = 0 THEN << >> ELSE flatten[k]) /\ ss[k + 1] \in A
    BY <1>1, <2>1
  <2>4. q[k + 1] = q[k] \o ss[k + 1]
    BY <1>3, <2>2, <2>3
  <2> HIDE DEF q
  <2>5. q[k] \in A /\ ss[k + 1] \in A
    BY <1>12, <2>3
  <2> QED
    BY ZenonT(60), <1>3, <1>4, <2>4, <2>5
<1> HIDE DEF q
<1>13. 0 \in S
  BY <1>1, <1>3, <1>11
<1>14. ASSUME NEW k \in Nat, k < n, k \in S PROVE k + 1 \in S
  <2>1. k + 1 \in 0..n
    BY <1>1, <1>14
  <2> QED
    BY <1>12, <1>14, <2>1
<1> HIDE DEF S
<1>15. \A k \in 0..n : k \in S
  BY <1>1, <1>13, <1>14, UpTo
<1>16. \A k \in 0..n : q[k] \in A
  BY <1>15 DEF S
<1>17. \A k \in Nat : k < n => q[k + 1] = H[<<q[k], ss[k + 1]>>]
  <2> TAKE k \in Nat
  <2>1. k < n => k \in 0..n
    BY <1>1
  <2> QED
    BY <1>12, <1>16, <2>1
<1>18. q \in [0..n -> A]
  BY <1>16 DEF q
<1>19. q[n] = FlattenSeq(ss)
  BY <1>1, <1>2 DEF q
<1> QED
  BY <1>11, <1>17, <1>18, <1>19 DEF Result, n, H, A

(* Of nothing it makes nothing. *)
LEMMA FlattenEmpty == FlattenSeq(<< >>) = << >>
  BY DEF FlattenSeq

(* One more sequence is put behind the others. *)
LEMMA FlattenAppend ==
  ASSUME NEW T, NEW ss \in Seq(Seq(T)), NEW s \in Seq(T)
  PROVE  FlattenSeq(ss) \in Seq(T) /\ FlattenSeq(Append(ss, s)) = FlattenSeq(ss) \o s
<1> DEFINE A == Seq(T)
           H == [p \in A \X A |-> p[1] \o p[2]]
           v == FlattenSeq(ss)
           w == FlattenSeq(Append(ss, s))
<1>1. Append(ss, s) \in Seq(A)
  BY AppendProperties
<1>2. Result(v, ss, << >>, A, H) /\ Result(w, Append(ss, s), << >>, A, H)
  BY <1>1, FlattenResult
<1>3. \A a, b \in A : H[<<a, b>>] = a \o b
  OBVIOUS
<1> HIDE DEF A, H, v, w
<1>4. ss \in Seq(A) /\ s \in A
  BY DEF A
<1>5. w = H[<<v, s>>] /\ v \in A
  BY <1>2, <1>4, ResultStep
<1>6. w = v \o s
  BY <1>3, <1>4, <1>5
<1> QED
  BY <1>5, <1>6 DEF A, v, w

(* The elements stay what they are. *)
LEMMA FlattenType ==
  ASSUME NEW T, NEW ss \in Seq(Seq(T))
  PROVE  FlattenSeq(ss) \in Seq(T)
<1>1. << >> \in Seq(T)
  BY EmptySeq
<1> QED
  BY <1>1, FlattenAppend

(* What two sequences of sequences are together is what each of them is, one after the other. *)
LEMMA FlattenConcat ==
  ASSUME NEW T, NEW ss \in Seq(Seq(T)), NEW tt \in Seq(Seq(T))
  PROVE  ss \o tt \in Seq(Seq(T)) /\ FlattenSeq(ss \o tt) = FlattenSeq(ss) \o FlattenSeq(tt)
<1> DEFINE A == Seq(T)
           P == {t \in Seq(A) : FlattenSeq(ss \o t) = FlattenSeq(ss) \o FlattenSeq(t)}
<1>1. \A t \in Seq(A) : ss \o t \in Seq(A) /\ FlattenSeq(t) \in A
  BY ConcatProperties, FlattenType
<1>2. FlattenSeq(ss) \in A
  BY FlattenType
<1>3. << >> \in P
  <2>1. ss \o << >> = ss /\ FlattenSeq(ss) \o << >> = FlattenSeq(ss) /\ << >> \in Seq(A)
    BY <1>2, ConcatEmptySeq, EmptySeq
  <2> QED
    BY <2>1, FlattenEmpty
<1>4. ASSUME NEW t \in Seq(A), NEW s \in A, t \in P PROVE Append(t, s) \in P
  <2>1. Append(t, s) \in Seq(A) /\ Append(t, s) = t \o <<s>> /\ <<s>> \in Seq(A)
    BY AppendProperties, AppendIsConcat
  <2>2. ss \o Append(t, s) = Append(ss \o t, s)
    <3>1. ss \o (t \o <<s>>) = (ss \o t) \o <<s>>
      BY SMTT(30), <2>1, ConcatAssociative
    <3>2. Append(ss \o t, s) = (ss \o t) \o <<s>>
      BY <1>1, AppendIsConcat
    <3> QED
      BY <2>1, <3>1, <3>2
  <2>3. FlattenSeq(Append(ss \o t, s)) = FlattenSeq(ss \o t) \o s /\ FlattenSeq(Append(t, s)) = FlattenSeq(t) \o s
    BY <1>1, FlattenAppend
  <2>4. FlattenSeq(ss \o t) = FlattenSeq(ss) \o FlattenSeq(t)
    BY <1>4
  <2>5. (FlattenSeq(ss) \o FlattenSeq(t)) \o s = FlattenSeq(ss) \o (FlattenSeq(t) \o s)
    BY SMTT(30), <1>1, <1>2, ConcatAssociative
  <2>6. FlattenSeq(ss \o Append(t, s)) = FlattenSeq(ss) \o FlattenSeq(Append(t, s))
    BY <2>2, <2>3, <2>4, <2>5
  <2> QED
    BY <2>1, <2>6
<1> HIDE DEF P
<1>5. tt \in P
  BY <1>3, <1>4, SeqUpTo
<1> QED
  BY <1>1, <1>5 DEF P

(* One sequence stays itself. *)
LEMMA FlattenSingle ==
  ASSUME NEW T, NEW s \in Seq(T)
  PROVE  <<s>> \in Seq(Seq(T)) /\ FlattenSeq(<<s>>) = s
<1> DEFINE e == << >>
<1>1. e \in Seq(Seq(T)) /\ Append(e, s) = <<s>> /\ e \o s = s /\ FlattenSeq(e) = e
  BY EmptySeq, ConcatEmptySeq, FlattenEmpty
<1>2. Append(e, s) \in Seq(Seq(T))
  BY <1>1, AppendProperties
<1> HIDE DEF e
<1>3. FlattenSeq(Append(e, s)) = FlattenSeq(e) \o s
  BY <1>1, FlattenAppend
<1> QED
  BY <1>1, <1>2, <1>3

(* Joined to the last or put behind it, a sequence is at the end. *)
LEMMA FlattenJoin ==
  ASSUME NEW T, NEW groups \in Seq(Seq(T)), groups # << >>, NEW g \in Seq(T)
  PROVE  FlattenSeq(Join(groups, g)) = FlattenSeq(groups) \o g
<1> DEFINE f == Front(groups)
           l == Last(groups)
<1>1. f \in Seq(Seq(T)) /\ l \in Seq(T) /\ groups = Append(f, l)
  BY FrontLast
<1>2. l \o g \in Seq(T)
  BY <1>1, ConcatProperties
<1>3. FlattenSeq(Append(f, l \o g)) = FlattenSeq(f) \o (l \o g) /\ FlattenSeq(f) \in Seq(T)
  BY <1>1, <1>2, FlattenAppend
<1>4. FlattenSeq(Append(f, l)) = FlattenSeq(f) \o l
  BY <1>1, FlattenAppend
<1>5. Join(groups, g) = Append(f, l \o g)
  BY DEF Join
<1> DEFINE h == FlattenSeq(f)
<1> HIDE DEF f, l, h
<1>6. (h \o l) \o g = h \o (l \o g)
  <2>1. h \in Seq(T) /\ l \in Seq(T) /\ g \in Seq(T)
    BY <1>1, <1>3 DEF h
  <2> QED
    BY SMTT(30), <2>1, ConcatAssociative
<1> QED
  BY <1>1, <1>3, <1>4, <1>5, <1>6 DEF h

(* Splitting keeps the pieces and their order. *)
LEMMA SplitKeeps ==
  ASSUME NEW T, T \subseteq Seq(Piece), NEW at, \A p \in Piece : <<p>> \in T,
         \A g \in T, p \in Piece : p.before \notin at => g \o <<p>> \in T
  PROVE  \A pieces \in Seq(Piece) : Split(pieces, at) \in Seq(T) /\ FlattenSeq(Split(pieces, at)) = pieces
<1> DEFINE A == Seq(T)
           H == [p \in A \X Piece |-> SplitStep(p[1], p[2], at)]
           P == {s \in Seq(Piece) : Split(s, at) \in A /\ FlattenSeq(Split(s, at)) = s}
<1>1. \A s \in Seq(Piece) : Result(Split(s, at), s, << >>, A, H)
  BY SplitResult
<1>2. \A a \in A, p \in Piece : H[<<a, p>>] = SplitStep(a, p, at)
  OBVIOUS
<1>3. A \subseteq Seq(Seq(Piece))
  BY SeqMonotonic
<1> HIDE DEF A, H
<1>4. << >> \in P
  <2>1. << >> \in Seq(Piece) /\ << >> \in A
    BY EmptySeq DEF A
  <2>2. Split(<< >>, at) = << >>
    BY <1>1, <2>1, ResultEmpty
  <2> QED
    BY <2>1, <2>2, FlattenEmpty
<1>5. ASSUME NEW s \in Seq(Piece), NEW p \in Piece, s \in P PROVE Append(s, p) \in P
  <2> DEFINE v == Split(s, at)
             t == Append(s, p)
             w == Split(t, at)
  <2>1. t \in Seq(Piece) /\ t = s \o <<p>> /\ <<p>> \in Seq(Piece)
    BY AppendProperties, AppendIsConcat
  <2>2. Result(v, s, << >>, A, H) /\ Result(w, t, << >>, A, H)
    BY <1>1, <2>1
  <2> HIDE DEF v, w
  <2>3. w = H[<<v, p>>] /\ v \in A /\ w \in A
    BY <2>2, ResultStep
  <2>4. w = SplitStep(v, p, at) /\ v \in Seq(Seq(Piece)) /\ FlattenSeq(v) = s
    BY <1>2, <1>3, <1>5, <2>3 DEF v
  <2>5. FlattenSeq(Append(v, <<p>>)) = s \o <<p>>
    BY <2>1, <2>4, FlattenAppend
  <2>6. v # << >> => FlattenSeq(Join(v, <<p>>)) = s \o <<p>>
    BY <2>1, <2>4, FlattenJoin
  <2>7. FlattenSeq(w) = t
    BY <2>1, <2>4, <2>5, <2>6 DEF SplitStep
  <2> HIDE DEF t
  <2>8. t \in P
    BY <2>1, <2>3, <2>7 DEF w
  <2> QED
    BY <2>8 DEF t
<1> HIDE DEF P
<1>6. \A s \in Seq(Piece) : s \in P
  BY <1>4, <1>5, SeqUpTo
<1> QED
  BY <1>6 DEF P, A

(* So does joining what fits. *)
LEMMA FillKeeps ==
  ASSUME NEW T, T \subseteq Seq(Piece),
         \A a, b \in T : Length(a) + 1 + Length(b) <= MaxChars => a \o b \in T
  PROVE  \A groups \in Seq(T) : Fill(groups) \in Seq(T) /\ FlattenSeq(Fill(groups)) = FlattenSeq(groups)
<1> DEFINE A == Seq(T)
           H == [p \in A \X T |-> FillStep(p[1], p[2])]
           P == {s \in A : Fill(s) \in A /\ FlattenSeq(Fill(s)) = FlattenSeq(s)}
<1>1. \A s \in A : Result(Fill(s), s, << >>, A, H)
  BY FillResult
<1>2. \A a \in A, g \in T : H[<<a, g>>] = FillStep(a, g)
  OBVIOUS
<1>3. A \subseteq Seq(Seq(Piece))
  BY SeqMonotonic
<1> HIDE DEF A, H
<1>4. << >> \in P
  <2>1. << >> \in A
    BY EmptySeq DEF A
  <2>2. Fill(<< >>) = << >>
    BY <1>1, <2>1, ResultEmpty
  <2> QED
    BY <2>1, <2>2
<1>5. ASSUME NEW s \in Seq(T), NEW g \in T, s \in P PROVE Append(s, g) \in P
  <2> DEFINE v == Fill(s)
             t == Append(s, g)
             w == Fill(t)
  <2>1. t \in A
    BY AppendProperties DEF A
  <2>2. Result(v, s, << >>, A, H) /\ Result(w, t, << >>, A, H)
    BY <1>1, <2>1 DEF A
  <2> HIDE DEF v, w
  <2>3. w = H[<<v, g>>] /\ v \in A /\ w \in A
    BY <2>2, ResultStep
  <2>4. w = FillStep(v, g) /\ v \in Seq(Seq(Piece)) /\ FlattenSeq(v) = FlattenSeq(s)
    BY <1>2, <1>3, <1>5, <2>3 DEF v
  <2>5. s \in Seq(Seq(Piece)) /\ g \in Seq(Piece)
    BY <1>3 DEF A
  <2>6. FlattenSeq(Append(v, g)) = FlattenSeq(s) \o g /\ FlattenSeq(t) = FlattenSeq(s) \o g
    BY <2>4, <2>5, FlattenAppend
  <2>7. v # << >> => FlattenSeq(Join(v, g)) = FlattenSeq(s) \o g
    BY <2>4, <2>5, FlattenJoin
  <2>8. FlattenSeq(w) = FlattenSeq(t)
    BY <2>4, <2>6, <2>7 DEF FillStep
  <2> HIDE DEF t
  <2>9. t \in P
    BY <2>1, <2>3, <2>8 DEF w
  <2> QED
    BY <2>9 DEF t
<1> HIDE DEF P
<1>6. \A s \in Seq(T) : s \in P
  BY <1>4, <1>5, SeqUpTo
<1> QED
  BY <1>6 DEF P, A

(* And joining what is short. *)
LEMMA MergeShortKeeps ==
  ASSUME NEW T, T \subseteq Seq(Piece),
         \A a, b \in T : Length(a) + 1 + Length(b) <= Slack => a \o b \in T
  PROVE  \A groups \in Seq(T) : MergeShort(groups) \in Seq(T) /\ FlattenSeq(MergeShort(groups)) = FlattenSeq(groups)
<1> DEFINE A == Seq(T)
           H == [p \in A \X T |-> MergeStep(p[1], p[2])]
           P == {s \in A : MergeShort(s) \in A /\ FlattenSeq(MergeShort(s)) = FlattenSeq(s)}
<1>1. \A s \in A : Result(MergeShort(s), s, << >>, A, H)
  BY MergeShortResult
<1>2. \A a \in A, g \in T : H[<<a, g>>] = MergeStep(a, g)
  OBVIOUS
<1>3. A \subseteq Seq(Seq(Piece))
  BY SeqMonotonic
<1> HIDE DEF A, H
<1>4. << >> \in P
  <2>1. << >> \in A
    BY EmptySeq DEF A
  <2>2. MergeShort(<< >>) = << >>
    BY <1>1, <2>1, ResultEmpty
  <2> QED
    BY <2>1, <2>2
<1>5. ASSUME NEW s \in Seq(T), NEW g \in T, s \in P PROVE Append(s, g) \in P
  <2> DEFINE v == MergeShort(s)
             t == Append(s, g)
             w == MergeShort(t)
  <2>1. t \in A
    BY AppendProperties DEF A
  <2>2. Result(v, s, << >>, A, H) /\ Result(w, t, << >>, A, H)
    BY <1>1, <2>1 DEF A
  <2> HIDE DEF v, w
  <2>3. w = H[<<v, g>>] /\ v \in A /\ w \in A
    BY <2>2, ResultStep
  <2>4. w = MergeStep(v, g) /\ v \in Seq(Seq(Piece)) /\ FlattenSeq(v) = FlattenSeq(s)
    BY <1>2, <1>3, <1>5, <2>3 DEF v
  <2>5. s \in Seq(Seq(Piece)) /\ g \in Seq(Piece)
    BY <1>3 DEF A
  <2>6. FlattenSeq(Append(v, g)) = FlattenSeq(s) \o g /\ FlattenSeq(t) = FlattenSeq(s) \o g
    BY <2>4, <2>5, FlattenAppend
  <2>7. v # << >> => FlattenSeq(Join(v, g)) = FlattenSeq(s) \o g
    BY <2>4, <2>5, FlattenJoin
  <2>8. FlattenSeq(w) = FlattenSeq(t)
    BY <2>4, <2>6, <2>7 DEF MergeStep
  <2> HIDE DEF t
  <2>9. t \in P
    BY <2>1, <2>3, <2>8 DEF w
  <2> QED
    BY <2>9 DEF t
<1> HIDE DEF P
<1>6. \A s \in Seq(T) : s \in P
  BY <1>4, <1>5, SeqUpTo
<1> QED
  BY <1>6 DEF P, A

\* m has, for each of the groups, parts in U that are together the group.
Divides(m, groups, U) ==
  /\ m = [i \in DOMAIN groups |-> m[i]]
  /\ \A i \in DOMAIN groups : m[i] \in Seq(U) /\ FlattenSeq(m[i]) = groups[i]

(* Then the parts of all are together the groups. *)
LEMMA FlattenParts ==
  ASSUME NEW U, U \subseteq Seq(Piece), NEW groups \in Seq(Seq(Piece)), NEW m, Divides(m, groups, U)
  PROVE  FlattenSeq(m) \in Seq(U) /\ FlattenSeq(FlattenSeq(m)) = FlattenSeq(groups)
<1> DEFINE n == Len(groups)
           B == Seq(U)
           parts(k) == SubSeq(m, 1, k)
           firsts(k) == SubSeq(groups, 1, k)
           S == {k \in 0..n : FlattenSeq(FlattenSeq(parts(k))) = FlattenSeq(firsts(k))}
<1>0. m \in Seq(B) /\ Len(m) = n
  <2>1. DOMAIN groups = 1..n /\ n \in Nat
    BY LenProperties
  <2> HIDE DEF B, n
  <2>2. m = [i \in 1..n |-> m[i]] /\ \A i \in 1..n : m[i] \in B
    BY <2>1 DEF B, Divides
  <2>3. m \in [1..n -> B]
    BY <2>1, <2>2
  <2> QED
    BY <2>1, <2>3
<1>1. /\ n \in Nat /\ n = Len(m)
      /\ \A i \in 1..n : m[i] \in Seq(U) /\ groups[i] \in Seq(Piece) /\ FlattenSeq(m[i]) = groups[i]
  <2>1. DOMAIN groups = 1..n /\ n \in Nat
    BY LenProperties
  <2> QED
    BY <1>0, <2>1, ElementOfSeq DEF Divides
<1>2. Seq(U) \subseteq Seq(Seq(Piece))
  BY SeqMonotonic
<1>3. \A k \in 0..n : parts(k) \in Seq(Seq(U)) /\ firsts(k) \in Seq(Seq(Piece))
  <2> SUFFICES ASSUME NEW k \in 0..n
               PROVE  parts(k) \in Seq(Seq(U)) /\ firsts(k) \in Seq(Seq(Piece))
    OBVIOUS
  <2>1. k \in Int /\ \A i \in 1..k : m[i] \in Seq(U) /\ groups[i] \in Seq(Piece)
    BY <1>1
  <2> QED
    BY <2>1, SubSeqProperties
<1>4. 0 \in S
  <2>1. parts(0) = << >> /\ firsts(0) = << >>
    BY SubSeqEmpty
  <2>2. 0 \in 0..n
    BY <1>1
  <2> QED
    BY <2>1, <2>2, FlattenEmpty
<1>5. ASSUME NEW k \in Nat, k < n, k \in S PROVE k + 1 \in S
  <2> DEFINE p == parts(k)
             q == firsts(k)
             x == m[k + 1]
             y == groups[k + 1]
  <2>1. k + 1 \in 1..n /\ k + 1 \in 0..n /\ k \in 0..n /\ (k + 1) - 1 = k /\ 1 \in 1..n /\ k + 1 \in 1..(k + 1)
    BY <1>1, <1>5
  <2>2. parts(k + 1) = p \o <<x>> /\ firsts(k + 1) = q \o <<y>>
    <3>1. k + 1 \in 1..n
      BY <2>1
    <3> QED
      BY <1>0, <1>1, <2>1, SubSeqRecursiveSecond
  <2>3. p \in Seq(Seq(U)) /\ q \in Seq(Seq(Piece)) /\ x \in Seq(U) /\ y \in Seq(Piece) /\ FlattenSeq(x) = y
    BY <1>1, <1>3, <2>1
  <2>4. FlattenSeq(FlattenSeq(p)) = FlattenSeq(q)
    BY <1>5
  <2> HIDE DEF p, q, x, y
  <2>5. FlattenSeq(Append(p, x)) = FlattenSeq(p) \o x /\ FlattenSeq(p) \in Seq(U)
    BY <2>3, FlattenAppend
  <2>6. FlattenSeq(Append(q, y)) = FlattenSeq(q) \o y
    BY <2>3, FlattenAppend
  <2>7. FlattenSeq(FlattenSeq(p) \o x) = FlattenSeq(FlattenSeq(p)) \o FlattenSeq(x)
    BY <1>2, <2>3, <2>5, FlattenConcat
  <2>8. FlattenSeq(FlattenSeq(parts(k + 1))) = FlattenSeq(firsts(k + 1))
    <3>1. p \o <<x>> = Append(p, x) /\ q \o <<y>> = Append(q, y)
      BY <2>3, AppendIsConcat
    <3> QED
      BY <2>2, <2>3, <2>4, <2>5, <2>6, <2>7, <3>1
  <2> QED
    BY <2>1, <2>8
<1> HIDE DEF S
<1>6. \A k \in 0..n : k \in S
  BY <1>1, <1>4, <1>5, UpTo
<1>7. FlattenSeq(FlattenSeq(parts(n))) = FlattenSeq(firsts(n))
  BY <1>1, <1>6 DEF S
<1>8. parts(n) = m /\ firsts(n) = groups
  BY <1>0, <1>1, SubSeqFull
<1> QED
  BY <1>0, <1>7, <1>8, FlattenType

\* Bubbles that keep to a limit, but for a piece that cannot be broken.
Upto(limit) == {b \in Seq(Piece) : Length(b) <= limit \/ Len(b) = 1}

(* The limits are numbers, in their order. *)
LEMMA Limits == MaxChars \in Nat /\ Slack \in Nat /\ MaxChars <= Slack
  BY DEF MaxChars, Slack

(* What fits is joined. *)
LEMMA UptoJoins ==
  ASSUME NEW limit \in Int
  PROVE  /\ Upto(limit) \subseteq Seq(Piece)
         /\ \A a, b \in Upto(limit) : Length(a) + 1 + Length(b) <= limit => a \o b \in Upto(limit)
<1>1. \A a, b \in Seq(Piece) : a \o b \in Seq(Piece) /\ Length(a \o b) = Length(a) + 1 + Length(b)
  BY LengthConcat
<1> QED
  BY <1>1 DEF Upto

(* A split of any kind keeps the pieces and their order. *)
LEMMA SplitAll ==
  ASSUME NEW at, NEW pieces \in Seq(Piece)
  PROVE  Split(pieces, at) \in Seq(Seq(Piece)) /\ FlattenSeq(Split(pieces, at)) = pieces
<1> DEFINE T == Seq(Piece)
<1>1. \A p \in Piece : <<p>> \in T
  OBVIOUS
<1>2. \A g \in T, p \in Piece : g \o <<p>> \in T
  BY <1>1, ConcatProperties
<1> HIDE DEF T
<1>3. T \subseteq Seq(Piece)
  BY DEF T
<1>4. \A ps \in Seq(Piece) : Split(ps, at) \in Seq(T) /\ FlattenSeq(Split(ps, at)) = ps
  BY <1>1, <1>2, <1>3, SplitKeeps
<1> QED
  BY <1>4 DEF T

(* At every boundary: single pieces. *)
LEMMA SplitSingles ==
  ASSUME NEW limit \in Int, NEW pieces \in Seq(Piece)
  PROVE  /\ Split(pieces, Boundary) \in Seq(Upto(limit))
         /\ FlattenSeq(Split(pieces, Boundary)) = pieces
<1> DEFINE T == {b \in Seq(Piece) : Len(b) = 1}
<1>1. \A p \in Piece : <<p>> \in T /\ p.before \in Boundary
  BY DEF Piece
<1>2. T \subseteq Seq(Piece) /\ T \subseteq Upto(limit)
  BY DEF Upto
<1> HIDE DEF T
<1>3. \A g \in T, p \in Piece : p.before \notin Boundary => g \o <<p>> \in T
  BY <1>1
<1>4. \A ps \in Seq(Piece) : Split(ps, Boundary) \in Seq(T) /\ FlattenSeq(Split(ps, Boundary)) = ps
  BY <1>1, <1>2, <1>3, SplitKeeps
<1>5. Seq(T) \subseteq Seq(Upto(limit))
  BY <1>2, SeqMonotonic
<1> QED
  BY <1>4, <1>5

(* Filled, groups that keep to a limit do so still. *)
LEMMA FillUpto ==
  ASSUME NEW groups \in Seq(Upto(MaxChars))
  PROVE  Fill(groups) \in Seq(Upto(MaxChars)) /\ FlattenSeq(Fill(groups)) = FlattenSeq(groups)
<1> DEFINE T == Upto(MaxChars)
<1>1. T \subseteq Seq(Piece) /\ \A a, b \in T : Length(a) + 1 + Length(b) <= MaxChars => a \o b \in T
  BY Limits, UptoJoins
<1> HIDE DEF T
<1>2. \A gs \in Seq(T) : Fill(gs) \in Seq(T) /\ FlattenSeq(Fill(gs)) = FlattenSeq(gs)
  BY <1>1, FillKeeps
<1> QED
  BY <1>2 DEF T

(* Filling groups of any length keeps them. *)
LEMMA FillAll ==
  ASSUME NEW groups \in Seq(Seq(Piece))
  PROVE  Fill(groups) \in Seq(Seq(Piece)) /\ FlattenSeq(Fill(groups)) = FlattenSeq(groups)
<1> DEFINE T == Seq(Piece)
<1>1. T \subseteq Seq(Piece) /\ \A a, b \in T : a \o b \in T
  BY ConcatProperties
<1> HIDE DEF T
<1>2. \A gs \in Seq(T) : Fill(gs) \in Seq(T) /\ FlattenSeq(Fill(gs)) = FlattenSeq(gs)
  BY <1>1, FillKeeps
<1> QED
  BY <1>2 DEF T

(* Merged, bubbles keep to the limit with its slack. *)
LEMMA MergeUpto ==
  ASSUME NEW groups \in Seq(Upto(Slack))
  PROVE  MergeShort(groups) \in Seq(Upto(Slack)) /\ FlattenSeq(MergeShort(groups)) = FlattenSeq(groups)
<1> DEFINE T == Upto(Slack)
<1>1. T \subseteq Seq(Piece) /\ \A a, b \in T : Length(a) + 1 + Length(b) <= Slack => a \o b \in T
  BY Limits, UptoJoins
<1> HIDE DEF T
<1>2. \A gs \in Seq(T) : MergeShort(gs) \in Seq(T) /\ FlattenSeq(MergeShort(gs)) = FlattenSeq(gs)
  BY <1>1, MergeShortKeeps
<1> QED
  BY <1>2 DEF T

(* What is not too long is a bubble. *)
LEMMA Whole ==
  ASSUME NEW b \in Seq(Piece), Length(b) <= MaxChars
  PROVE  <<b>> \in Seq(Upto(MaxChars)) /\ FlattenSeq(<<b>>) = b
<1>1. b \in Upto(MaxChars)
  BY DEF Upto
<1>2. <<b>> \in Seq(Upto(MaxChars))
  BY <1>1
<1> QED
  BY <1>2, FlattenSingle

(* Split at the commas, each group is within the limit or a single piece. *)
LEMMA AtCommasParts ==
  ASSUME NEW groups \in Seq(Seq(Piece))
  PROVE  AtCommas(groups) \in Seq(Upto(MaxChars)) /\ FlattenSeq(AtCommas(groups)) = FlattenSeq(groups)
<1> DEFINE U == Upto(MaxChars)
           m == [i \in DOMAIN groups |->
                   IF Length(groups[i]) <= MaxChars THEN <<groups[i]>> ELSE Split(groups[i], Boundary)]
<1>1. ASSUME NEW i \in DOMAIN groups PROVE m[i] \in Seq(U) /\ FlattenSeq(m[i]) = groups[i]
  <2>1. groups[i] \in Seq(Piece)
    BY LenProperties, ElementOfSeq
  <2>2. CASE Length(groups[i]) <= MaxChars
    BY <2>1, <2>2, Whole
  <2>3. CASE ~(Length(groups[i]) <= MaxChars)
    BY <2>1, <2>3, Limits, SplitSingles
  <2> QED
    BY <2>2, <2>3
<1>2. U \subseteq Seq(Piece)
  BY Limits, UptoJoins
<1>3. Divides(m, groups, U)
  BY <1>1 DEF Divides
<1>4. AtCommas(groups) = FlattenSeq(m)
  BY DEF AtCommas
<1> HIDE DEF m, U
<1>6. FlattenSeq(m) \in Seq(U) /\ FlattenSeq(FlattenSeq(m)) = FlattenSeq(groups)
  BY <1>1, <1>2, <1>3, FlattenParts
<1> QED
  BY <1>4, <1>6 DEF U

(* So are the parts of a long text. *)
LEMMA SplitSmartParts ==
  ASSUME NEW pieces \in Seq(Piece)
  PROVE  SplitSmart(pieces) \in Seq(Upto(MaxChars)) /\ FlattenSeq(SplitSmart(pieces)) = pieces
<1> DEFINE U == Upto(MaxChars)
           sentences == Split(pieces, {"paragraph", "sentence"})
           chunks == Fill(sentences)
           refined(chunk) == Fill(AtCommas(Split(chunk, Boundary \ {"comma"})))
           m == [i \in DOMAIN chunks |->
                   IF Length(chunks[i]) <= MaxChars THEN <<chunks[i]>> ELSE refined(chunks[i])]
<1>1. SplitSmart(pieces) = IF Length(pieces) <= MaxChars THEN <<pieces>> ELSE FlattenSeq(m)
  BY DEF SplitSmart
<1>2. sentences \in Seq(Seq(Piece)) /\ FlattenSeq(sentences) = pieces
  BY SplitAll
<1> HIDE DEF sentences
<1>3. chunks \in Seq(Seq(Piece)) /\ FlattenSeq(chunks) = pieces
  BY <1>2, FillAll
<1> HIDE DEF chunks
<1>4. ASSUME NEW i \in DOMAIN chunks PROVE m[i] \in Seq(U) /\ FlattenSeq(m[i]) = chunks[i]
  <2>1. chunks[i] \in Seq(Piece)
    BY <1>3, LenProperties, ElementOfSeq
  <2>2. CASE Length(chunks[i]) <= MaxChars
    BY <2>1, <2>2, Whole
  <2>3. CASE ~(Length(chunks[i]) <= MaxChars)
    <3> DEFINE s == Split(chunks[i], Boundary \ {"comma"})
    <3>1. s \in Seq(Seq(Piece)) /\ FlattenSeq(s) = chunks[i]
      BY <2>1, SplitAll
    <3> HIDE DEF s
    <3>2. AtCommas(s) \in Seq(U) /\ FlattenSeq(AtCommas(s)) = chunks[i]
      BY <3>1, AtCommasParts
    <3>3. Fill(AtCommas(s)) \in Seq(U) /\ FlattenSeq(Fill(AtCommas(s))) = chunks[i]
      BY <3>2, FillUpto
    <3> QED
      BY <2>3, <3>3 DEF s
  <2> QED
    BY <2>2, <2>3
<1>5. U \subseteq Seq(Piece)
  BY Limits, UptoJoins
<1>6. Divides(m, chunks, U)
  BY <1>4 DEF Divides
<1>7. Length(pieces) <= MaxChars => <<pieces>> \in Seq(U) /\ FlattenSeq(<<pieces>>) = pieces
  BY Whole
<1> HIDE DEF m, U
<1>9. FlattenSeq(m) \in Seq(U) /\ FlattenSeq(FlattenSeq(m)) = FlattenSeq(chunks)
  BY <1>3, <1>5, <1>6, FlattenParts
<1> QED
  BY <1>1, <1>3, <1>7, <1>9 DEF U

(* And of a paragraph. *)
LEMMA ParagraphParts ==
  ASSUME NEW pieces \in Seq(Piece)
  PROVE  Paragraph(pieces) \in Seq(Upto(MaxChars)) /\ FlattenSeq(Paragraph(pieces)) = pieces
<1> DEFINE U == Upto(MaxChars)
           sentences == Split(pieces, {"paragraph", "sentence"})
           m == [i \in DOMAIN sentences |-> SplitSmart(sentences[i])]
<1>1. Paragraph(pieces) \in {FlattenSeq(m), SplitSmart(pieces)}
  BY DEF Paragraph
<1>2. sentences \in Seq(Seq(Piece)) /\ FlattenSeq(sentences) = pieces
  BY SplitAll
<1> HIDE DEF sentences
<1>3. ASSUME NEW i \in DOMAIN sentences PROVE m[i] \in Seq(U) /\ FlattenSeq(m[i]) = sentences[i]
  <2>1. sentences[i] \in Seq(Piece)
    BY <1>2, LenProperties, ElementOfSeq
  <2> QED
    BY <2>1, SplitSmartParts
<1>4. U \subseteq Seq(Piece)
  BY Limits, UptoJoins
<1>5. Divides(m, sentences, U)
  BY <1>3 DEF Divides
<1> HIDE DEF m, U
<1>7. FlattenSeq(m) \in Seq(U) /\ FlattenSeq(FlattenSeq(m)) = FlattenSeq(sentences)
  BY <1>2, <1>4, <1>5, FlattenParts
<1> QED
  BY <1>1, <1>2, <1>7, SplitSmartParts DEF U

(* The bubbles of a paragraph each. *)
LEMMA ParagraphsParts ==
  ASSUME NEW paragraphs \in Seq(Seq(Piece))
  PROVE  /\ FlattenSeq([i \in DOMAIN paragraphs |-> Paragraph(paragraphs[i])]) \in Seq(Upto(MaxChars))
         /\ FlattenSeq(FlattenSeq([i \in DOMAIN paragraphs |-> Paragraph(paragraphs[i])])) = FlattenSeq(paragraphs)
<1> DEFINE U == Upto(MaxChars)
           m == [i \in DOMAIN paragraphs |-> Paragraph(paragraphs[i])]
<1>1. ASSUME NEW i \in DOMAIN paragraphs PROVE m[i] \in Seq(U) /\ FlattenSeq(m[i]) = paragraphs[i]
  <2>1. paragraphs[i] \in Seq(Piece)
    BY LenProperties, ElementOfSeq
  <2> QED
    BY <2>1, ParagraphParts
<1>2. U \subseteq Seq(Piece)
  BY Limits, UptoJoins
<1>3. Divides(m, paragraphs, U)
  BY <1>1 DEF Divides
<1> HIDE DEF m, U
<1>5. FlattenSeq(m) \in Seq(U) /\ FlattenSeq(FlattenSeq(m)) = FlattenSeq(paragraphs)
  BY <1>1, <1>2, <1>3, FlattenParts
<1> QED
  BY <1>5 DEF m, U

(* The limit on their number. *)
LEMMA CapParts ==
  ASSUME NEW bs \in Seq(Upto(Slack))
  PROVE  /\ FlattenSeq(Cap(bs)) = FlattenSeq(bs)
         /\ Len(Cap(bs)) <= MaxBubbles /\ Cap(bs) \in Seq(Seq(Piece))
         /\ \A i \in 1..Len(Cap(bs)) - 1 : Cap(bs)[i] \in Upto(Slack)
<1> DEFINE n == Len(bs)
           first == SubSeq(bs, 1, MaxBubbles - 1)
           rest == SubSeq(bs, MaxBubbles, n)
<1>1. n \in Nat /\ \A i \in 1..n : bs[i] \in Upto(Slack)
  BY LenProperties, ElementOfSeq
<1>2. Upto(Slack) \subseteq Seq(Piece) /\ bs \in Seq(Seq(Piece))
  <2>1. Upto(Slack) \subseteq Seq(Piece)
    BY Limits, UptoJoins
  <2> QED
    BY <2>1, SeqMonotonic
<1>3. MaxBubbles = 4
  BY DEF MaxBubbles
<1>4. CASE n <= MaxBubbles
  <2>1. Cap(bs) = bs
    BY <1>4 DEF Cap
  <2>2. \A i \in 1..n - 1 : i \in 1..n
    BY <1>1
  <2> QED
    BY <1>1, <1>2, <1>4, <2>1, <2>2
<1>5. CASE ~(n <= MaxBubbles)
  <2>1. Cap(bs) = Append(first, FlattenSeq(rest))
    BY <1>5 DEF Cap
  <2>2. first \in Seq(Upto(Slack)) /\ Len(first) = 3
    <3>1. \A i \in 1..MaxBubbles - 1 : bs[i] \in Upto(Slack)
      BY <1>1, <1>3, <1>5
    <3> QED
      BY <1>3, <3>1, SubSeqProperties
  <2>3. rest \in Seq(Seq(Piece)) /\ first \in Seq(Seq(Piece))
    <3>1. \A i \in MaxBubbles..n : bs[i] \in Seq(Piece)
      BY <1>1, <1>2, <1>3
    <3> QED
      BY <1>1, <1>2, <1>3, <2>2, <3>1, SubSeqProperties, SeqMonotonic
  <2>4. first \o rest = bs
    <3>1. 1 \in 1..n + 1 /\ 3 \in 1 - 1..n /\ n \in 3..n /\ MaxBubbles - 1 = 3 /\ MaxBubbles = 3 + 1
      BY <1>1, <1>3, <1>5
    <3>2. SubSeq(bs, 1, 3) \o SubSeq(bs, 3 + 1, n) = SubSeq(bs, 1, n)
      BY <3>1, ConcatAdjacentSubSeq
    <3>3. SubSeq(bs, 1, n) = bs
      BY SubSeqFull
    <3> QED
      BY <3>1, <3>2, <3>3
  <2> HIDE DEF first, rest
  <2>5. FlattenSeq(rest) \in Seq(Piece)
    BY <2>3, FlattenType
  <2>6. FlattenSeq(Append(first, FlattenSeq(rest))) = FlattenSeq(first) \o FlattenSeq(rest)
    BY <2>3, <2>5, FlattenAppend
  <2>7. FlattenSeq(first \o rest) = FlattenSeq(first) \o FlattenSeq(rest)
    BY <2>3, FlattenConcat
  <2> DEFINE r == FlattenSeq(rest)
             c == Append(first, r)
             B == Seq(Piece)
  <2>8. c \in Seq(Seq(Piece)) /\ Len(c) = 4 /\ \A i \in 1..3 : c[i] = first[i]
    <3>1. first \in Seq(B) /\ r \in B
      BY <2>3, <2>5
    <3> HIDE DEF B, r
    <3>2. c \in Seq(B) /\ Len(c) = Len(first) + 1 /\ \A i \in 1..Len(first) : c[i] = first[i]
      BY <3>1, AppendProperties
    <3> QED
      BY <2>2, <3>2 DEF B
  <2>9. \A i \in 1..3 : first[i] \in Upto(Slack)
    BY <2>2, ElementOfSeq
  <2> QED
    BY <1>3, <2>1, <2>4, <2>6, <2>7, <2>8, <2>9
<1> QED
  BY <1>4, <1>5

(* The bubbles are the text in its order, at most four of them, and all but the last keep
   to the length. *)
LEMMA ChunkParts ==
  ASSUME NEW pieces \in Seq(Piece)
  PROVE  /\ FlattenSeq(Chunk(pieces)) = pieces
         /\ Len(Chunk(pieces)) <= MaxBubbles
         /\ \A i \in 1..Len(Chunk(pieces)) - 1 :
              \/ Length(Chunk(pieces)[i]) <= Slack
              \/ \E j \in DOMAIN Chunk(pieces)[i] : Chunk(pieces)[i][j].len >= Length(Chunk(pieces)[i])
<1> DEFINE paragraphs == Split(pieces, {"paragraph"})
           parts == FlattenSeq([i \in DOMAIN paragraphs |-> Paragraph(paragraphs[i])])
           merged == MergeShort(parts)
           c == Cap(merged)
<1>1. paragraphs \in Seq(Seq(Piece)) /\ FlattenSeq(paragraphs) = pieces
  BY SplitAll
<1>2. Chunk(pieces) = c
  BY DEF Chunk
<1> HIDE DEF paragraphs
<1>3. parts \in Seq(Upto(MaxChars)) /\ FlattenSeq(parts) = pieces
  BY <1>1, ParagraphsParts
<1> HIDE DEF parts
<1>4. parts \in Seq(Upto(Slack))
  <2>1. \A b \in Seq(Piece) : Length(b) \in Int
    BY LengthConcat
  <2>2. Upto(MaxChars) \subseteq Upto(Slack)
    BY <2>1, Limits DEF Upto
  <2> QED
    BY <1>3, <2>2, SeqMonotonic
<1>5. merged \in Seq(Upto(Slack)) /\ FlattenSeq(merged) = pieces
  BY <1>3, <1>4, MergeUpto
<1> HIDE DEF merged
<1>6. /\ FlattenSeq(c) = pieces /\ Len(c) <= MaxBubbles
      /\ \A i \in 1..Len(c) - 1 : c[i] \in Upto(Slack)
  BY <1>5, CapParts
<1> HIDE DEF c
<1>7. ASSUME NEW b \in Upto(Slack)
      PROVE  Length(b) <= Slack \/ \E j \in DOMAIN b : b[j].len >= Length(b)
  <2> SUFFICES ASSUME Len(b) = 1 PROVE \E j \in DOMAIN b : b[j].len >= Length(b)
    BY DEF Upto
  <2>1. b \in Seq(Piece) /\ 1 \in DOMAIN b /\ b[1] \in Piece
    BY LenProperties, ElementOfSeq DEF Upto
  <2>2. Length(b) = b[1].len
    <3> DEFINE e == << >>
               p == b[1]
    <3>1. b = Append(e, p) /\ e \in Seq(Piece)
      BY <2>1
    <3>2. Length(e) = -1
      BY LengthEmpty
    <3>3. p \in Piece /\ p.len \in Int
      BY <2>1 DEF Piece
    <3> HIDE DEF e, p
    <3>4. Length(b) = Length(e) + 1 + p.len
      BY <3>1, <3>3, LengthAppend
    <3> QED
      BY <3>2, <3>3, <3>4 DEF p
  <2>3. b[1].len \in Int
    BY <2>1 DEF Piece
  <2> QED
    BY <2>1, <2>2, <2>3
<1> QED
  BY <1>2, <1>6, <1>7

-----------------------------------------------------------------------------
(* What is sent is the reply, chunked, or there is neither. *)
BubbleInv ==
  \/ reply = NoReply /\ bubbles = << >>
  \/ reply.pieces \in Seq(Piece) /\ bubbles = Chunk(reply.pieces)

(* Only a specialist writes a reply, and its bubbles with it. *)
LEMMA BubbleStep == BubbleInv /\ [Next]_vars => BubbleInv'
<1> SUFFICES ASSUME BubbleInv, [Next]_vars
             PROVE  BubbleInv'
  OBVIOUS
<1>1. ASSUME UNCHANGED <<reply, bubbles>> PROVE BubbleInv'
  BY <1>1 DEF BubbleInv
<1>2. ASSUME reply' = NoReply, bubbles' = << >> PROVE BubbleInv'
  BY <1>2 DEF BubbleInv
<1>3. ASSUME NEW c \in Chunked, Specialist(c[1], c[2])
      PROVE  BubbleInv'
  <2>1. PICK raw \in Raws : c = <<raw, Chunk(raw.pieces)>>
    BY <1>3 DEF Chunked
  <2>2. reply'.pieces = raw.pieces /\ bubbles' = Chunk(raw.pieces)
    BY <1>3, <2>1 DEF Specialist
  <2>3. raw.pieces \in Seq(Piece)
    BY DeliveryAssumption
  <2> QED
    BY <2>2, <2>3 DEF BubbleInv
<1>4. CASE (\E m \in LeadMessages : Answer(m)) \/ FollowUp
  BY <1>1, <1>4 DEF Answer, FollowUp, Takes, sendVars
<1>5. CASE Approve
  BY <1>1, <1>5 DEF Approve
<1>6. CASE Reject \/ RejectSilently
  BY <1>2, <1>6 DEF Reject, RejectSilently, Rejects
<1>7. CASE EndSend \/ Stop
  BY <1>2, <1>7 DEF EndSend, Stop, Ends
<1>8. CASE LeadWrites \/ FetchUnread \/ MarkRead \/ React \/ (\E key \in cooling : Expire(key)) \/ ExpireUnread
  BY <1>1, <1>8 DEF LeadWrites, FetchUnread, MarkRead, React, Expire, ExpireUnread, turnVars, sendVars
<1>9. CASE Quote \/ Delivered \/ AnswerLost \/ NotDelivered
  BY <1>1, <1>9 DEF Quote, Delivered, AnswerLost, NotDelivered, turnVars
<1>10. CASE UNCHANGED vars
  BY <1>1, <1>10 DEF vars, turnVars, sendVars
<1> QED
  BY <1>3, <1>4, <1>5, <1>6, <1>7, <1>8, <1>9, <1>10 DEF Next

-----------------------------------------------------------------------------
PhoneInv == TypeInv /\ PlaceInv /\ OrderInv /\ RepeatInv /\ CoolInv /\ QuotaInv
ReviewInv == TypeInv /\ PlaceInv /\ DraftInv /\ HeardInv /\ ToldInv /\ NoEcho /\ LinkOnlyConfirmed

(* Nothing has come, been said or been written yet. *)
LEMMA NothingYet == Init => PhoneInv /\ ReviewInv /\ ReadInv
<1> SUFFICES ASSUME Init
             PROVE  PhoneInv /\ ReviewInv /\ ReadInv
  OBVIOUS
<1>1. TypeInv
  BY TypeInit
<1>2. Len(phone) = 0 /\ DOMAIN phone = {} /\ DOMAIN told = {} /\ DOMAIN heard = {} /\ Len(heard) = 0
  <2>1. phone = << >> /\ told = << >> /\ heard = << >>
    BY DEF Init
  <2> QED
    BY <2>1
<1>3. By("lead", messages) = {} /\ By("lead", chat) = {}
  BY DEF Init, By
<1>4. After("lead", chat, 0) = 0
  <2>1. {j \in By("lead", chat) : j > 0} = {}
    BY <1>3
  <2> QED
    BY <2>1, FS_EmptySet DEF After
<1>5. /\ step = "end" /\ unread = {} /\ read = {} /\ late = {} /\ expired = {} /\ written = 0
      /\ lost = 0 /\ faults = 0 /\ reactions = 0 /\ quotes = 0 /\ quota = 0 /\ sent = 0
  BY DEF Init
<1>6. ReadInv
  BY <1>5 DEF ReadInv, ReadOrWaiting
<1>7. PlaceInv /\ OrderInv
  BY <1>2 DEF PlaceInv, OrderInv
<1>8. ToSet(phone) = {} /\ Turns = {}
  BY <1>2 DEF ToSet, Turns
<1>9. Cardinality(ToSet(phone)) = 0 /\ Cardinality(Turns) = 0
  BY <1>8, FS_EmptySet
<1>10. RepeatInv /\ QuotaInv
  BY <1>2, <1>5, <1>9 DEF RepeatInv, QuotaInv
<1>11. CoolInv
  BY <1>5 DEF CoolInv, Quotes
<1>12. DraftInv /\ NoEcho /\ LinkOnlyConfirmed
  BY <1>5 DEF DraftInv, NoEcho, LinkOnlyConfirmed, Writing
<1>13. HeardInv
  <2>1. Lag = 0
    BY <1>5 DEF Lag, Writing
  <2> QED
    BY <1>2, <1>3, <1>4, <1>5, <2>1 DEF HeardInv
<1>14. ToldInv
  BY <1>2, <1>5 DEF ToldInv, Releasing
<1> QED
  BY <1>1, <1>6, <1>7, <1>10, <1>11, <1>12, <1>13, <1>14 DEF PhoneInv, ReviewInv

(* What is about the phone holds in every state. *)
LEMMA PhoneHolds == Spec => []PhoneInv
<1>1. Init => PhoneInv
  BY NothingYet
<1>2. PhoneInv /\ [Next]_vars => PhoneInv'
  BY TypeStep, PlaceStep, OrderStep, RepeatStep, CoolStep, QuotaStep DEF PhoneInv
<1> QED
  BY <1>1, <1>2, PTL DEF Spec

(* And what the review rests on. *)
LEMMA ReviewHolds == Spec => []ReviewInv
<1>1. Init => ReviewInv
  BY NothingYet
<1>2. ReviewInv /\ [Next]_vars => ReviewInv'
  BY TypeStep, PlaceStep, DraftStep, HeardStep, ToldStep, EchoStep, LinkStep DEF ReviewInv
<1> QED
  BY <1>1, <1>2, PTL DEF Spec

(***************************************************************************)
(* nodes.py:1650-1664: every message of the lead is marked as read or waits*)
(* to be, unless drain_unread deleted its mark unseen or the request to    *)
(* mark it failed.                                                         *)
(***************************************************************************)
THEOREM MarksAreKept == Spec => []ReadOrWaiting
<1>1. Init => TypeInv /\ ReadInv
  BY NothingYet, TypeInit
<1>2. TypeInv /\ ReadInv /\ [Next]_vars => (TypeInv /\ ReadInv)'
  BY TypeStep, ReadStep
<1>3. TypeInv /\ ReadInv => ReadOrWaiting
  BY DEF ReadInv
<1> QED
  BY <1>1, <1>2, <1>3, PTL DEF Spec

(***************************************************************************)
(* nodes.py:1640-1735: the phone shows the bubbles of a turn in order, one *)
(* of them again only for an answer that was lost, and no more reactions   *)
(* and quotes than one and the failures that explain them.                 *)
(***************************************************************************)
THEOREM BubblesComeInOrder == Spec => []PhoneShowsTheTurns
<1>1. PhoneInv => PhoneShowsTheTurns
  BY DEF PhoneInv, OrderInv, RepeatInv, CoolInv, PhoneShowsTheTurns
<1> QED
  BY <1>1, PhoneHolds, PTL

(***************************************************************************)
(* main.py:922: the day's quota counts no turn of which nothing came, and  *)
(* misses only the turns that failed and the one that is sending.          *)
(***************************************************************************)
THEOREM QuotaIsSound == Spec => []QuotaCounts
<1>1. PhoneInv => QuotaCounts
  <2> SUFFICES ASSUME PhoneInv
               PROVE  QuotaCounts
    OBVIOUS
  <2>1. {quota, faults, sent} \subseteq Nat /\ Cardinality(Turns) \in Nat
    BY TurnsFinite DEF PhoneInv, TypeInv
  <2>2. QuotaInv
    BY DEF PhoneInv
  <2>3. quota <= Cardinality(Turns)
    BY <2>2 DEF QuotaInv
  <2>4. Cardinality(Turns) <= quota + faults + (IF step = "end" THEN 0 ELSE 1)
    BY <2>1, <2>2 DEF QuotaInv
  <2> QED
    BY <2>3, <2>4 DEF QuotaCounts, Turns
<1> QED
  BY <1>1, PhoneHolds, PTL

(***************************************************************************)
(* supervisor.py:184: what goes on before the last attempt is near to none *)
(* of the last replies the lead got.                                       *)
(***************************************************************************)
THEOREM RepliesAreNew == Spec => []NoEcho
<1>1. ReviewInv => NoEcho
  BY DEF ReviewInv
<1> QED
  BY <1>1, ReviewHolds, PTL

(***************************************************************************)
(* supervisor.py:289: the link goes to a lead who confirmed lately, had it *)
(* or bought before.                                                       *)
(***************************************************************************)
THEOREM LinkIsWanted == Spec => []LinkOnlyConfirmed
<1>1. ReviewInv => LinkOnlyConfirmed
  BY DEF ReviewInv
<1> QED
  BY <1>1, ReviewHolds, PTL

(***************************************************************************)
(* tools.py:190-262: whatever the pieces of a reply, its bubbles are the   *)
(* whole of it in its order, at most four, and all but the last keep to the*)
(* length unless they are a single piece.                                  *)
(***************************************************************************)
THEOREM BubblesAreWhole == Spec => []BubblesAreTheReply
<1>1. Init => BubbleInv
  BY DEF Init, BubbleInv
<1>2. BubbleInv /\ [Next]_vars => BubbleInv'
  BY BubbleStep
<1>3. BubbleInv => BubblesAreTheReply
  <2>1. ASSUME reply = NoReply, bubbles = << >> PROVE BubblesAreTheReply
    <3>1. FlattenSeq(bubbles) = reply.pieces
      BY <2>1, FlattenEmpty DEF NoReply
    <3>2. Len(bubbles) = 0 /\ 1..Len(bubbles) - 1 = {}
      BY <2>1
    <3> QED
      BY <3>1, <3>2 DEF BubblesAreTheReply, MaxBubbles
  <2>2. ASSUME reply.pieces \in Seq(Piece), bubbles = Chunk(reply.pieces) PROVE BubblesAreTheReply
    BY <2>2, ChunkParts, Zenon DEF BubblesAreTheReply
  <2> QED
    BY <2>1, <2>2 DEF BubbleInv
<1> QED
  BY <1>1, <1>2, <1>3, PTL DEF Spec
=============================================================================
