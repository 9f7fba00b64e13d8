-------------------------- MODULE Conversation_proofs --------------------------
(***************************************************************************)
(* For any limits of the history, the summary and the retries: the chat in *)
(* Redis is what was released, the prompt is bounded and complete, and no  *)
(* medium is answered twice.  The first needs to know what a reply in the  *)
(* checkpoint is between two turns, because a purchase persists it once    *)
(* more; the second how much a turn that broke off leaves to the next one; *)
(* the third how the summaries in Redis and in the checkpoint differ.      *)
(***************************************************************************)
EXTENDS Conversation, SequenceTheorems, FiniteSetTheorems, TLAPS

Nodes == {"end", "summarize", "vision", "intent", "reply", "supervisor", "persist", "send"}

TypeOK ==
  /\ node \in Nodes /\ turn \in 0..MaxTurns /\ (node # "end" => turn \in Turns)
  /\ try \in 0..MaxRetries
  /\ chat \in Seq(Message) /\ messages \in Seq(Message)
  /\ reply \in Message \cup {None} /\ received \subseteq Message /\ unsent \subseteq Message
  /\ cut \subseteq Turns

\* The lead got it, or he could not: no bubble came or a flow did, the turn that wrote it broke
\* off, or the thread is mute.
Settled(m) == m \in received \cup unsent \/ m.turn \in cut \/ mute

\* What may be in the chat; the reply that is being sent is there before it is settled.
Said == {m \in Message : m.by = "bot" => Settled(m) \/ (node = "send" /\ m = reply)}

SaidInv ==
  /\ chat \in Seq(Said)
  /\ reply # None => Settled(reply) \/ (node \in {"supervisor", "persist", "send"} /\ reply.turn = turn)

\* What is left after k turns that did not get to the summary, and what the one under way
\* may have added.
Left(k) == Threshold + MaxRetries + 1 + k * (Limit + 1)

PromptInv ==
  /\ \A t \in cut : t < turn \/ (t = turn /\ node = "end")
  /\ node = "end" => Len(messages) <= Left(Cardinality(cut))
  /\ node = "summarize" => Len(messages) <= Left(Cardinality(cut) + 1)
  /\ node \in {"vision", "intent"} => Len(messages) <= Threshold
  /\ node = "reply" => Len(messages) <= Threshold + try
  /\ node = "supervisor" => Len(messages) <= Threshold + try + 1
  /\ node \in {"persist", "send"} => Len(messages) <= Threshold + MaxRetries + 1

\* What a specialist is shown or was cut from.
Covered == Range(messages) \cup summary \cup dropped

\* The turn that ended added two messages at most, which the next one loads.
CoverInv ==
  /\ stored \subseteq Covered
  /\ stored # {} => summary \subseteq stored \cup dropped
  /\ \A i \in 1..Len(chat) : i <= Len(chat) - 2 \/ node \notin {"end", "send"} => chat[i] \in Covered

MediaInv ==
  /\ answered \subseteq 1..turn
  /\ node \in {"summarize", "vision"} => turn \notin answered
  /\ vision # 0 => vision \notin answered

-----------------------------------------------------------------------------
(* Sequences and messages. *)

\* The limits are natural numbers, and the summary keeps no more than the threshold.
LEMMA Limits ==
  /\ Window \in Nat /\ Limit \in Nat /\ Threshold \in Nat /\ Keep \in Nat
  /\ MaxRetries \in Nat /\ MaxTurns \in Nat
  /\ 2 <= Limit /\ Limit <= Window /\ 1 <= Keep /\ Keep <= Threshold
BY ConversationAssumption

\* The last n elements.
LEMMA LastSeq ==
  ASSUME NEW S, NEW s \in Seq(S), NEW n \in Nat
  PROVE  /\ Last(s, n) \in Seq(S)
         /\ Len(Last(s, n)) = IF Len(s) > n THEN n ELSE Len(s)
         /\ \A i \in 1..Len(Last(s, n)) : Last(s, n)[i] = s[i + Len(s) - Len(Last(s, n))]
<1> DEFINE first == IF Len(s) > n THEN Len(s) - n + 1 ELSE 1
<1>1. Len(s) \in Nat /\ first \in 1..Len(s) + 1
  OBVIOUS
<1>2. \A i \in first..Len(s) : s[i] \in S
  BY <1>1, ElementOfSeq
<1>3. /\ SubSeq(s, first, Len(s)) \in Seq(S)
      /\ Len(SubSeq(s, first, Len(s))) = IF first <= Len(s) THEN Len(s) - first + 1 ELSE 0
      /\ \A i \in 1..Len(s) - first + 1 : SubSeq(s, first, Len(s))[i] = s[first + i - 1]
  <2> HIDE DEF first
  <2> QED
    BY <1>1, <1>2, SubSeqProperties
<1>4. Last(s, n) = SubSeq(s, first, Len(s))
  BY Zenon DEF Last
<1>5. (IF first <= Len(s) THEN Len(s) - first + 1 ELSE 0) = IF Len(s) > n THEN n ELSE Len(s)
  <2>1. CASE Len(s) > n
    BY <1>1, <2>1
  <2>2. CASE ~(Len(s) > n)
    <3>1. first = 1
      BY <2>2
    <3> QED
      BY <1>1, <2>2, <3>1
  <2> QED
    BY <2>1, <2>2
<1> HIDE DEF first
<1>6. /\ Last(s, n) \in Seq(S)
      /\ Len(Last(s, n)) = IF first <= Len(s) THEN Len(s) - first + 1 ELSE 0
      /\ \A i \in 1..Len(s) - first + 1 : Last(s, n)[i] = s[first + i - 1]
  BY <1>3, <1>4
<1>7. ASSUME NEW i \in 1..Len(Last(s, n))
      PROVE  Last(s, n)[i] = s[i + Len(s) - Len(Last(s, n))]
  <2>1. Len(Last(s, n)) = Len(s) - first + 1
    BY <1>1, <1>6, <1>7
  <2>2. i \in 1..Len(s) - first + 1 /\ first + i - 1 = i + Len(s) - Len(Last(s, n))
    BY <1>1, <2>1, <1>7
  <2> QED
    BY <1>6, <2>2
<1> QED
  BY <1>5, <1>6, <1>7

\* A message added to the history.
LEMMA AppendSeq ==
  ASSUME NEW S, NEW list \in Seq(S), NEW m \in S
  PROVE  AppendMessage(list, m) \in Seq(S)
<1>1. Append(list, m) \in Seq(S)
  BY AppendProperties
<1> QED
  BY <1>1, LastSeq, Limits DEF AppendMessage

\* The lead's message of a turn is a message, and not the bot's.
LEMMA LeadSays ==
  ASSUME turn \in Turns
  PROVE  UserMessage \in Message /\ UserMessage.by # "bot"
BY DEF UserMessage, Message

\* The reply of an attempt is a message.
LEMMA BotSays ==
  ASSUME turn \in Turns, try \in 0..MaxRetries
  PROVE  [by |-> "bot", turn |-> turn, try |-> try] \in Message
BY DEF Message

\* None is no message.
LEMMA NoneIsNoMessage == None \notin Message
BY DEF None, Message

-----------------------------------------------------------------------------
(* Types. *)

\* The types hold at the start.
LEMMA TypeInit == Init => TypeOK
BY Limits, NoneIsNoMessage DEF Init, TypeOK, Nodes, Turns

\* The turn of the next one begins with the history and the lead's message.
LEMMA BeginAdds ==
  ASSUME TypeOK, NEW k \in Kinds, NEW simulated \in BOOLEAN, Begin(k, simulated)
  PROVE  /\ turn' = turn + 1 /\ turn' \in Turns
         /\ messages' \in Seq(Message)
         /\ Len(messages') <= Len(messages) + Limit + 1
<1>1. turn' = turn + 1 /\ turn' \in Turns
  BY Limits DEF Begin, TypeOK, Turns
<1>2. UserMessage' \in Message
  BY <1>1 DEF UserMessage, Message
<1>3. LoadHistory \in Seq(Message) /\ Len(LoadHistory) <= Limit
  BY LastSeq, Limits DEF TypeOK, LoadHistory
<1>4. /\ Append(LoadHistory, UserMessage') \in Seq(Message)
      /\ Len(Append(LoadHistory, UserMessage')) = Len(LoadHistory) + 1
  BY <1>2, <1>3, AppendProperties
<1> DEFINE history_ == Append(LoadHistory, UserMessage')
<1>5. messages' = messages \o history_
  BY DEF Begin
<1> HIDE DEF history_
<1>6. messages' \in Seq(Message) /\ Len(messages') = Len(messages) + Len(history_)
  BY <1>4, <1>5, ConcatProperties DEF TypeOK, history_
<1> QED
  BY <1>1, <1>3, <1>4, <1>6, Limits DEF TypeOK, history_

\* The types are kept by every step.
LEMMA TypeStep == TypeOK /\ [Next]_vars => TypeOK'
<1> SUFFICES ASSUME TypeOK, [Next]_vars
             PROVE  TypeOK'
  OBVIOUS
<1> USE DEF Nodes, redisVars, run, history, checkpoint
<1>1. ASSUME NEW k \in Kinds, NEW simulated \in BOOLEAN, Begin(k, simulated) PROVE TypeOK'
  <2>1. /\ turn' \in Turns /\ messages' \in Seq(Message)
    BY <1>1, BeginAdds
  <2>2. /\ node' = "summarize" /\ try' = 0
        /\ UNCHANGED <<chat, reply, received, unsent, cut>>
    BY <1>1 DEF Begin
  <2> QED
    BY <2>1, <2>2, Limits DEF TypeOK, Turns
<1>2. ASSUME SummarizeNot \/ DetectIntent \/ Approve \/ Vision PROVE TypeOK'
  <2>1. UNCHANGED <<turn, try, chat, messages, reply, received, unsent, cut>> /\ node # "end"
    BY <1>2 DEF SummarizeNot, DetectIntent, Approve, Vision
  <2>2. node' \in Nodes
    BY <1>2 DEF SummarizeNot, DetectIntent, Approve, Vision, AfterHistory
  <2> QED
    BY <2>1, <2>2 DEF TypeOK
<1>3. ASSUME Summarize \/ SummarizeEmpty PROVE TypeOK'
  <2>1. /\ UNCHANGED <<turn, try, chat, reply, received, unsent, cut>> /\ node # "end"
        /\ messages' = Last(messages, Keep)
    BY <1>3 DEF Summarize, SummarizeEmpty
  <2>2. node' \in Nodes
    BY <1>3 DEF Summarize, SummarizeEmpty, AfterHistory
  <2>3. messages' \in Seq(Message)
    BY <2>1, LastSeq, Limits DEF TypeOK
  <2> QED
    BY <2>1, <2>2, <2>3 DEF TypeOK
<1>4. CASE Reply
  <2>1. [by |-> "bot", turn |-> turn, try |-> try] \in Message
    BY <1>4, BotSays DEF Reply, TypeOK
  <2>2. messages' \in Seq(Message) /\ reply' \in Message
    BY <1>4, <2>1, AppendProperties DEF Reply, TypeOK
  <2>3. UNCHANGED <<turn, try, chat, received, unsent, cut>> /\ node # "end" /\ node' \in Nodes
    BY <1>4 DEF Reply
  <2> QED
    BY <2>2, <2>3 DEF TypeOK
<1>5. CASE Reject
  BY <1>5, Limits DEF Reject, TypeOK
<1>6. CASE Persist
  <2>1. UserMessage \in Message
    BY <1>6, LeadSays DEF Persist, TypeOK
  <2>2. WithWords \in Seq(Message)
    BY <2>1, AppendSeq DEF TypeOK, WithWords
  <2>3. WithReply \in Seq(Message)
    BY <2>2, AppendSeq DEF TypeOK, WithReply
  <2>4. chat' \in Seq(Message)
    BY <1>6, <2>3 DEF Persist
  <2>5. UNCHANGED <<turn, try, messages, reply, received, unsent, cut>> /\ node # "end" /\ node' \in Nodes
    BY <1>6 DEF Persist
  <2> QED
    BY <2>4, <2>5 DEF TypeOK
<1>7. CASE Send \/ SendFails
  <2>1. /\ received' \subseteq received \cup ({reply} \ {None})
        /\ unsent' \subseteq unsent \cup ({reply} \ {None})
    BY <1>7 DEF Send, SendFails, Replies
  <2>2. UNCHANGED <<turn, try, chat, messages, reply, cut>> /\ node' \in Nodes /\ node' = "end"
    BY <1>7 DEF Send, SendFails
  <2> QED
    BY <2>1, <2>2 DEF TypeOK
<1>8. CASE Abort
  <2>1. node = "persist" => WithWords \in Seq(Message)
    BY AppendSeq, LeadSays DEF TypeOK, WithWords
  <2>2. chat' \in Seq(Message)
    BY <1>8, <2>1 DEF Abort, TypeOK
  <2> QED
    BY <1>8, <2>2 DEF Abort, TypeOK
<1>9. CASE Expire
  <2>1. chat' \in Seq(Message)
    <3>1. << >> \in Seq(Message)
      OBVIOUS
    <3>2. chat' = << >> \/ chat' = chat
      BY <1>9 DEF Expire
    <3> QED
      BY <3>1, <3>2 DEF TypeOK
  <2> QED
    BY <1>9, <2>1 DEF Expire, TypeOK
<1>10. CASE UNCHANGED vars
  BY <1>10 DEF vars, TypeOK
<1> QED
  BY <1>1, <1>2, <1>3, <1>4, <1>5, <1>6, <1>7, <1>8, <1>9, <1>10 DEF Next

-----------------------------------------------------------------------------
(* What is in the chat. *)

\* A sequence over a set is one over a larger set.
LEMMA SeqOver ==
  ASSUME NEW S, NEW T, S \subseteq T, NEW s \in Seq(S)
  PROVE  s \in Seq(T)
OBVIOUS

\* What is settled stays settled.
LEMMA SettledStays ==
  ASSUME [Next]_vars, NEW m, Settled(m)
  PROVE  m \in received' \cup unsent' \/ m.turn \in cut' \/ mute'
<1> USE DEF history, checkpoint
<1>1. received \subseteq received' /\ unsent \subseteq unsent' /\ cut \subseteq cut'
  BY DEF Next, vars, Begin, SummarizeNot, Summarize, SummarizeEmpty, Vision, DetectIntent, Reply, Approve,
     Reject, Persist, Send, SendFails, Abort, Expire
<1>2. mute => mute'
  <2>1. ASSUME NEW k \in Kinds, NEW simulated \in BOOLEAN, Begin(k, simulated) PROVE mute => mute'
    BY <2>1, Zenon DEF Begin
  <2>2. CASE \A k \in Kinds, simulated \in BOOLEAN : ~Begin(k, simulated)
    <3>1. mute' = mute
      BY <2>2 DEF Next, vars, SummarizeNot, Summarize, SummarizeEmpty, Vision, DetectIntent, Reply, Approve,
         Reject, Persist, Send, SendFails, Abort, Expire
    <3> QED
      BY <3>1, Zenon
  <2> QED
    BY <2>1, <2>2, Zenon
<1> QED
  BY <1>1, <1>2, Zenon DEF Settled

\* A step that neither writes the chat nor ends a turn leaves the chat what it was.
LEMMA SaidKept ==
  ASSUME [Next]_vars, SaidInv, chat' = chat, node # "send"
  PROVE  chat' \in Seq(Said')
<1>1. Said \subseteq Said'
  BY SettledStays, Zenon DEF Said, Settled
<1> QED
  BY <1>1, SeqOver DEF SaidInv

\* The chat holds at the start.
LEMMA SaidInit == Init => SaidInv
<1> SUFFICES ASSUME Init PROVE SaidInv
  OBVIOUS
<1>1. chat = << >> /\ reply = None
  BY DEF Init
<1>2. << >> \in Seq(Said)
  OBVIOUS
<1> QED
  BY <1>1, <1>2 DEF SaidInv

\* The chat is kept by every step.
LEMMA SaidStep == TypeOK /\ SaidInv /\ [Next]_vars => SaidInv'
<1> SUFFICES ASSUME TypeOK, SaidInv, [Next]_vars
             PROVE  SaidInv'
  OBVIOUS
<1> USE DEF history, checkpoint, run, redisVars
<1> DEFINE SettledNext(m) == m \in received' \cup unsent' \/ m.turn \in cut' \/ mute'
<1>1. \A m : Settled(m) => SettledNext(m)
  BY SettledStays, Zenon
<1>2. SaidInv' <=> /\ chat' \in Seq(Said')
                   /\ reply' # None => \/ SettledNext(reply')
                                       \/ node' \in {"supervisor", "persist", "send"} /\ reply'.turn = turn'
  BY Zenon DEF SaidInv, Settled, None
<1>3. Said' = {m \in Message : m.by = "bot" => SettledNext(m) \/ (node' = "send" /\ m = reply')}
  BY Zenon DEF Said, Settled
<1> HIDE DEF SettledNext
\* The reply of the turn is settled or its own; a step that keeps it keeps that.
<1>4. ASSUME UNCHANGED <<chat, reply, turn>>, node # "send",
             node \in {"supervisor", "persist"} => node' \in {"supervisor", "persist", "send"}
      PROVE  SaidInv'
  BY <1>1, <1>2, <1>4, SaidKept DEF SaidInv
<1>5. ASSUME NEW k \in Kinds, NEW simulated \in BOOLEAN, Begin(k, simulated) PROVE SaidInv'
  <2>1. chat' = chat /\ reply' = reply /\ node = "end"
    BY <1>5 DEF Begin
  <2> QED
    BY <2>1, <1>1, <1>2, SaidKept DEF SaidInv
<1>6. ASSUME SummarizeNot \/ Summarize \/ SummarizeEmpty \/ Vision \/ DetectIntent \/ Approve PROVE SaidInv'
  BY <1>6, <1>4 DEF SummarizeNot, Summarize, SummarizeEmpty, Vision, DetectIntent, Approve
<1>7. CASE Reply
  <2>1. chat' = chat /\ node = "reply" /\ node' = "supervisor" /\ reply'.turn = turn'
    BY <1>7 DEF Reply
  <2> QED
    BY <2>1, <1>2, SaidKept
<1>8. CASE Reject
  <2>1. chat' = chat /\ node = "supervisor" /\ reply' = None
    BY <1>8 DEF Reject
  <2> QED
    BY <2>1, <1>2, SaidKept
\* What persist writes, all of it or the first part.
<1>9. ASSUME node = "persist", turn' = turn, Said \subseteq Said'
      PROVE  /\ WithWords \in Seq(Said')
             /\ (reply # None => reply \in Said') => WithReply \in Seq(Said')
  <2>1. UserMessage \in Message /\ UserMessage.by # "bot"
    BY <1>9, LeadSays DEF TypeOK
  <2>2. chat \in Seq(Said') /\ UserMessage \in Said'
    BY <1>3, <1>9, <2>1, SeqOver DEF SaidInv
  <2>3. WithWords \in Seq(Said')
    BY <2>2, AppendSeq DEF WithWords
  <2> QED
    BY <2>3, AppendSeq DEF WithReply
<1>15. CASE Persist
  <2>1. node = "persist" /\ node' = "send" /\ reply' = reply /\ turn' = turn /\ chat' = WithReply
    BY <1>15 DEF Persist
  <2>2. Said \subseteq Said'
    BY <1>1, <1>3, <2>1 DEF Said
  <2>3. reply # None => reply \in Said'
    BY <1>3, <2>1 DEF TypeOK
  <2>4. chat' \in Seq(Said')
    BY <1>9, <2>1, <2>2, <2>3
  <2> QED
    BY <2>1, <2>4, <1>1, <1>2 DEF SaidInv
<1>10. ASSUME node = "send", node' = "end", UNCHANGED <<chat, reply, turn>>,
              reply # None => SettledNext(reply)
       PROVE  SaidInv'
  <2>1. Said \subseteq Said'
    BY <1>1, <1>3, <1>10, NoneIsNoMessage DEF Said
  <2>2. chat' \in Seq(Said')
    BY <1>10, <2>1, SeqOver DEF SaidInv
  <2> QED
    BY <1>2, <1>10, <2>2
<1>11. CASE Send \/ SendFails
  <2>1. node = "send" /\ node' = "end" /\ UNCHANGED <<chat, reply, turn, mute>>
    BY <1>11 DEF Send, SendFails
  <2>2. reply # None => mute \/ reply \in received' \cup unsent'
    BY <1>11 DEF Send, SendFails, Replies
  <2>3. reply # None => SettledNext(reply)
    BY <2>1, <2>2, Zenon DEF SettledNext
  <2> QED
    BY <2>1, <2>3, <1>10
<1>12. CASE Abort
  <2>1. UNCHANGED <<reply, turn>> /\ node' = "end" /\ node # "end" /\ turn \in cut'
    BY <1>12 DEF Abort
  <2>2. reply # None => SettledNext(reply)
    BY <2>1, <1>1 DEF SaidInv, SettledNext
  <2>3. CASE chat' = chat /\ node = "send"
    BY <2>1, <2>2, <2>3, <1>10
  <2>4. CASE chat' = chat /\ node # "send"
    BY <2>1, <2>2, <2>4, <1>2, SaidKept
  <2>5. CASE chat' = WithWords /\ node = "persist"
    <3>1. Said \subseteq Said'
      BY <1>1, <1>3, <2>5 DEF Said
    <3>2. chat' \in Seq(Said')
      BY <1>9, <2>1, <2>5, <3>1
    <3> QED
      BY <3>2, <2>1, <2>2, <1>2
  <2> QED
    BY <1>12, <2>3, <2>4, <2>5 DEF Abort
<1>13. CASE Expire
  <2>1. UNCHANGED <<reply, turn>> /\ node = "end" /\ node' = "end" /\ (chat' = << >> \/ chat' = chat)
    BY <1>13 DEF Expire
  <2>2. << >> \in Seq(Said')
    OBVIOUS
  <2>3. chat' \in Seq(Said')
    BY <2>1, <2>2, SaidKept
  <2> QED
    BY <2>1, <2>3, <1>1, <1>2 DEF SaidInv
<1>14. CASE UNCHANGED vars
  <2>1. UNCHANGED <<chat, reply, turn, node>>
    BY <1>14 DEF vars
  <2>2. Said \subseteq Said'
    BY <1>1, <1>3, <2>1 DEF Said
  <2>3. chat' \in Seq(Said')
    BY <2>1, <2>2, SeqOver DEF SaidInv
  <2> QED
    BY <2>1, <2>3, <1>1, <1>2 DEF SaidInv
<1> QED
  BY <1>5, <1>6, <1>7, <1>8, <1>11, <1>12, <1>13, <1>14, <1>15 DEF Next

(* nodes.py:862: for any limits, a reply in the chat the bot builds on is one the lead received, *)
(* or of which no bubble came or a flow was sent in its place, or its turn broke off, or the     *)
(* thread is mute after a simulation: none that was rejected. *)
THEOREM ChatWasSaid == Spec => []ChatIsWhatWasSaid
<1>1. SaidInv => ChatIsWhatWasSaid
  <2> SUFFICES ASSUME SaidInv, NEW i \in DOMAIN chat, chat[i].by = "bot", node # "send"
               PROVE  Settled(chat[i])
    BY Zenon DEF ChatIsWhatWasSaid, Settled, Range
  <2>1. chat[i] \in Said
    BY ElementOfSeq DEF SaidInv
  <2> QED
    BY <2>1 DEF Said
<1> QED
  BY <1>1, TypeInit, TypeStep, SaidInit, SaidStep, PTL DEF Spec

-----------------------------------------------------------------------------
(* What the model is shown. *)

\* What is left grows with every turn that broke off, by one history and one message.
LEMMA LeftGrows ==
  ASSUME NEW k \in Nat
  PROVE  /\ Left(k) \in Nat /\ Left(k) >= Threshold + MaxRetries + 1
         /\ Left(k + 1) = Left(k) + Limit + 1 /\ Left(k + 1) \in Nat
<1>1. /\ Limit + 1 \in Nat /\ Threshold \in Nat /\ MaxRetries \in Nat /\ Limit \in Nat
  BY Limits
<1>2. k * (Limit + 1) \in Nat /\ (k + 1) * (Limit + 1) = k * (Limit + 1) + Limit + 1
  BY <1>1
<1> QED
  BY <1>1, <1>2 DEF Left

\* The turns that broke off are finitely many.
LEMMA CutSize == TypeOK => IsFiniteSet(cut) /\ Cardinality(cut) \in Nat
<1> SUFFICES ASSUME TypeOK PROVE IsFiniteSet(cut) /\ Cardinality(cut) \in Nat
  OBVIOUS
<1>1. IsFiniteSet(Turns)
  BY FS_Interval, Limits DEF Turns
<1>2. IsFiniteSet(cut)
  BY <1>1, FS_Subset DEF TypeOK
<1> QED
  BY <1>2, FS_CardinalityType

\* The prompt is bounded at the start.
LEMMA PromptInit == Init => PromptInv
<1> SUFFICES ASSUME Init PROVE PromptInv
  OBVIOUS
<1>1. cut = {} /\ node = "end" /\ messages = << >>
  BY DEF Init
<1>2. Cardinality(cut) = 0 /\ Len(messages) = 0
  BY <1>1, FS_EmptySet
<1>3. 0 <= Left(Cardinality(cut))
  BY <1>2, LeftGrows, Limits
<1> QED
  BY <1>1, <1>2, <1>3 DEF PromptInv

\* The prompt stays bounded in every step.
LEMMA PromptStep == TypeOK /\ PromptInv /\ [Next]_vars => PromptInv'
<1> SUFFICES ASSUME TypeOK, PromptInv, [Next]_vars
             PROVE  PromptInv'
  OBVIOUS
<1> USE DEF history, checkpoint, run, redisVars
<1> DEFINE c == Cardinality(cut)
<1>1. c \in Nat /\ Len(messages) \in Nat /\ try \in 0..MaxRetries
  BY CutSize DEF TypeOK
<1> HIDE DEF c
<1>2. /\ Left(c) \in Nat /\ Left(c) >= Threshold + MaxRetries + 1
      /\ Left(c + 1) = Left(c) + Limit + 1 /\ Left(c + 1) \in Nat
  BY <1>1, LeftGrows, Zenon
<1>4. ASSUME NEW k \in Kinds, NEW simulated \in BOOLEAN, Begin(k, simulated) PROVE PromptInv'
  <2>1. /\ turn' = turn + 1 /\ Len(messages') <= Len(messages) + Limit + 1 /\ Len(messages') \in Nat
    BY <1>4, BeginAdds
  <2>2. node = "end" /\ node' = "summarize" /\ cut' = cut
    BY <1>4 DEF Begin
  <2>3. \A t \in cut' : t < turn'
    BY <2>1, <2>2 DEF PromptInv, TypeOK, Turns
  <2>4. Len(messages') <= Left(Cardinality(cut') + 1)
    <3>1. Len(messages) <= Left(c)
      BY <2>2 DEF PromptInv, c
    <3>2. Cardinality(cut') = c
      BY <2>2 DEF c
    <3> QED
      BY <3>1, <3>2, <2>1, <1>1, <1>2, Limits
  <2> QED
    BY <2>2, <2>3, <2>4 DEF PromptInv
\* Within a turn.
<1>5. ASSUME UNCHANGED <<cut, turn>>, node # "end", node' \notin {"end", "summarize"},
             /\ node' \in {"vision", "intent"} => Len(messages') <= Threshold
             /\ node' = "reply" => Len(messages') <= Threshold + try'
             /\ node' = "supervisor" => Len(messages') <= Threshold + try' + 1
             /\ node' \in {"persist", "send"} => Len(messages') <= Threshold + MaxRetries + 1
      PROVE  PromptInv'
  BY <1>5 DEF PromptInv
<1>6. CASE SummarizeNot
  BY <1>6, <1>5 DEF SummarizeNot, AfterHistory
<1>7. CASE Summarize \/ SummarizeEmpty
  <2>1. Len(messages') <= Threshold
    <3>1. messages' = Last(messages, Keep)
      BY <1>7 DEF Summarize, SummarizeEmpty
    <3> QED
      BY <3>1, LastSeq, Limits DEF TypeOK
  <2> QED
    BY <1>7, <2>1, <1>5 DEF Summarize, SummarizeEmpty, AfterHistory
<1>8. CASE Vision
  BY <1>8, <1>5 DEF Vision, PromptInv
<1>9. CASE DetectIntent
  <2>1. UNCHANGED <<cut, turn, messages, try>> /\ node = "intent" /\ node' \in {"reply", "persist"}
    BY <1>9 DEF DetectIntent
  <2>2. Len(messages') <= Threshold
    BY <2>1 DEF PromptInv
  <2>3. Len(messages') <= Threshold + try' /\ Len(messages') <= Threshold + MaxRetries + 1
    BY <2>1, <2>2, <1>1, Limits
  <2> QED
    BY <2>1, <2>3, <1>5
<1>10. CASE Reply
  <2>1. /\ UNCHANGED <<cut, turn, try>> /\ node = "reply" /\ node' = "supervisor"
        /\ reply' = [by |-> "bot", turn |-> turn, try |-> try] /\ messages' = Append(messages, reply')
    BY <1>10 DEF Reply
  <2>2. Len(messages') = Len(messages) + 1
    BY <2>1, BotSays, AppendProperties DEF TypeOK
  <2>3. Len(messages') <= Threshold + try' + 1
    BY <2>1, <2>2, <1>1, Limits DEF PromptInv
  <2> QED
    BY <2>1, <2>3, <1>5
<1>11. CASE Approve
  <2>1. UNCHANGED <<cut, turn, messages, try>> /\ node = "supervisor" /\ node' = "persist"
    BY <1>11 DEF Approve
  <2>2. Len(messages') <= Threshold + MaxRetries + 1
    BY <2>1, <1>1, Limits DEF PromptInv
  <2> QED
    BY <2>1, <2>2, <1>5
<1>12. CASE Reject
  <2>1. UNCHANGED <<cut, turn, messages>> /\ try' = try + 1 /\ node = "supervisor" /\ node' = "reply"
    BY <1>12 DEF Reject
  <2>2. Len(messages') <= Threshold + try'
    BY <2>1, <1>1, Limits DEF PromptInv
  <2> QED
    BY <2>1, <2>2, <1>5
<1>13. CASE Persist
  <2>1. UNCHANGED <<cut, turn, messages>> /\ node = "persist" /\ node' = "send"
    BY <1>13 DEF Persist
  <2> QED
    BY <2>1, <1>5 DEF PromptInv
\* The turn ends.
<1>14. CASE Send \/ SendFails
  <2>1. UNCHANGED <<cut, turn, messages>> /\ node = "send" /\ node' = "end"
    BY <1>14 DEF Send, SendFails
  <2>2. Len(messages) <= Left(Cardinality(cut))
    BY <2>1, <1>1, <1>2, Limits DEF PromptInv, c
  <2> QED
    BY <2>1, <2>2 DEF PromptInv
<1>15. CASE Abort
  <2>1. UNCHANGED <<turn, messages>> /\ node # "end" /\ node' = "end" /\ cut' = cut \cup {turn}
    BY <1>15 DEF Abort
  <2>2. turn \notin cut
    BY <2>1 DEF PromptInv, TypeOK, Turns
  <2>3. Cardinality(cut') = c + 1
    BY <2>1, <2>2, CutSize, FS_AddElement DEF c
  <2>4. Len(messages) <= Left(c + 1)
    BY <2>1, <1>1, <1>2, Limits DEF PromptInv, TypeOK, Nodes, c
  <2>5. \A t \in cut' : t < turn' \/ t = turn'
    BY <2>1 DEF PromptInv
  <2> QED
    BY <2>1, <2>3, <2>4, <2>5 DEF PromptInv
<1>16. CASE Expire \/ UNCHANGED vars
  <2>1. UNCHANGED <<cut, turn, messages, node, try>>
    BY <1>16 DEF Expire, vars
  <2> QED
    BY <2>1 DEF PromptInv
<1> QED
  BY <1>4, <1>6, <1>7, <1>8, <1>9, <1>10, <1>11, <1>12, <1>13, <1>14, <1>15, <1>16 DEF Next

(* nodes.py:1230-1231: for any limits and numbers of turns and failures, the prompt of a *)
(* specialist keeps to the threshold, and what the summary must read grows only with the *)
(* turns that broke off. *)
THEOREM PromptStaysBounded == Spec => []PromptBounded
<1>1. TypeOK /\ PromptInv => PromptBounded
  <2> SUFFICES ASSUME TypeOK, PromptInv PROVE PromptBounded
    OBVIOUS
  <2> DEFINE c == Cardinality(cut)
  <2>1. c \in Nat /\ Len(messages) \in Nat /\ try \in 0..MaxRetries
    BY CutSize DEF TypeOK
  <2> HIDE DEF c
  <2>2. /\ Left(c) \in Nat /\ Left(c) >= Threshold + MaxRetries + 1
        /\ Left(c + 1) = Left(c) + Limit + 1 /\ Left(c + 1) \in Nat
    BY <2>1, LeftGrows, Zenon
  <2>3. Len(messages) <= Left(c + 1)
    BY <2>1, <2>2, Limits DEF PromptInv, TypeOK, Nodes, c
  <2>4. Left(c + 1) = Threshold + MaxRetries + 1 + (1 + c) * (Limit + 1)
    BY <2>1, Limits DEF Left
  <2>5. node = "reply" => Len(messages) <= Threshold + try
    BY DEF PromptInv
  <2> QED
    BY <2>3, <2>4, <2>5 DEF PromptBounded, c
<1> QED
  BY <1>1, TypeInit, TypeStep, PromptInit, PromptStep, PTL DEF Spec

-----------------------------------------------------------------------------
(* What the model knows. *)

\* The summary and the messages that are kept have them all.
LEMMA OldAndLast ==
  ASSUME TypeOK, Len(messages) > Threshold
  PROVE  Range(messages) = Range(Old) \cup Range(Last(messages, Keep))
<1> DEFINE k == Len(messages) - Keep
<1>1. k \in 1 - 1..Len(messages) /\ Len(messages) \in Nat /\ Len(messages) > Keep /\ k + 1 = Len(messages) - Keep + 1
  BY Limits DEF TypeOK
<1>2. Last(messages, Keep) = SubSeq(messages, k + 1, Len(messages))
  BY <1>1, Zenon DEF Last
<1>3. Old = SubSeq(messages, 1, k)
  BY Zenon DEF Old
<1> HIDE DEF k
<1>4. Old \o Last(messages, Keep) = SubSeq(messages, 1, Len(messages))
  <2>1. /\ messages \in Seq(Message) /\ 1 \in 1..Len(messages) + 1
        /\ Len(messages) \in k..Len(messages)
    BY <1>1 DEF TypeOK
  <2>2. SubSeq(messages, 1, k) \o SubSeq(messages, k + 1, Len(messages)) = SubSeq(messages, 1, Len(messages))
    BY <2>1, <1>1, ConcatAdjacentSubSeq
  <2> QED
    BY <2>2, <1>2, <1>3
<1>5. Old \o Last(messages, Keep) = messages
  BY <1>4, SubSeqFull DEF TypeOK
<1>6. Old \in Seq(Message) /\ Last(messages, Keep) \in Seq(Message)
  <2>1. \A i \in 1..k : messages[i] \in Message
    BY <1>1, ElementOfSeq DEF TypeOK
  <2> QED
    BY <2>1, <1>1, <1>3, SubSeqProperties, LastSeq, Limits DEF TypeOK
<1> QED
  BY <1>5, <1>6, RangeConcatenation, ZenonT(40)

\* A turn begins with the last two messages of the chat, and with all it had.
LEMMA BeginLoads ==
  ASSUME TypeOK, NEW k \in Kinds, NEW simulated \in BOOLEAN, Begin(k, simulated)
  PROVE  /\ Range(messages) \subseteq Range(messages')
         /\ \A i \in 1..Len(chat) : i > Len(chat) - 2 => chat[i] \in Range(messages')
<1>1. turn' \in Turns
  BY BeginAdds
<1>2. UserMessage' \in Message
  BY <1>1 DEF UserMessage, Message
<1>3. LoadHistory \in Seq(Message)
  BY LastSeq, Limits DEF TypeOK, LoadHistory
<1>4. LoadHistory \o <<UserMessage'>> \in Seq(Message) /\ <<UserMessage'>> \in Seq(Message)
  BY <1>2, <1>3
<1>5. messages' = messages \o (LoadHistory \o <<UserMessage'>>)
  BY <1>2, <1>3, AppendIsConcat DEF Begin
<1>6. Range(messages') = Range(messages) \cup (Range(LoadHistory) \cup Range(<<UserMessage'>>))
  <2>1. Range(LoadHistory \o <<UserMessage'>>) = Range(LoadHistory) \cup Range(<<UserMessage'>>)
    BY <1>3, <1>4, RangeConcatenation, ZenonT(40)
  <2>2. messages \in Seq(Message)
    BY DEF TypeOK
  <2>3. Range(messages') = Range(messages) \cup Range(LoadHistory \o <<UserMessage'>>)
    BY <1>4, <1>5, <2>2, RangeConcatenation, ZenonT(40)
  <2> QED
    BY <2>1, <2>3
<1>7. ASSUME NEW i \in 1..Len(chat), i > Len(chat) - 2
      PROVE  chat[i] \in Range(LoadHistory)
  <2> DEFINE j == i - Len(chat) + Len(LoadHistory)
  <2>1. /\ Len(LoadHistory) = IF Len(chat) > Limit THEN Limit ELSE Len(chat)
        /\ \A h \in 1..Len(LoadHistory) : LoadHistory[h] = chat[h + Len(chat) - Len(LoadHistory)]
    BY LastSeq, Limits DEF TypeOK, LoadHistory
  <2>2. Len(chat) \in Nat /\ Len(LoadHistory) \in Nat
    BY <1>3 DEF TypeOK
  <2>3. j \in 1..Len(LoadHistory) /\ j + Len(chat) - Len(LoadHistory) = i
    BY <1>7, <2>1, <2>2, Limits
  <2>4. LoadHistory[j] = chat[i]
    BY <2>1, <2>3
  <2>5. j \in DOMAIN LoadHistory
    BY <2>3, <1>3
  <2> HIDE DEF j
  <2> QED
    BY <2>4, <2>5, Zenon DEF Range
<1> QED
  BY <1>6, <1>7

\* The messages written at the start are none.
LEMMA CoverInit == Init => CoverInv
BY DEF Init, CoverInv, Covered

\* All but the last n messages of a history are covered.
CoveredBut(n, list) == \A i \in 1..Len(list) : i <= Len(list) - n => list[i] \in Covered

\* A message that is added need not be covered yet.
LEMMA AppendCovers ==
  ASSUME NEW n \in {0, 1}, NEW list \in Seq(Message), CoveredBut(n, list), NEW m \in Message
  PROVE  AppendMessage(list, m) \in Seq(Message) /\ CoveredBut(n + 1, AppendMessage(list, m))
<1> DEFINE longer == Append(list, m)
           new == AppendMessage(list, m)
<1>1. /\ longer \in Seq(Message) /\ Len(longer) = Len(list) + 1
      /\ \A i \in 1..Len(list) : longer[i] = list[i]
  BY AppendProperties
<1>2. new = Last(longer, Window)
  BY Zenon DEF AppendMessage
<1> HIDE DEF longer, new
<1>3. /\ new \in Seq(Message) /\ Len(new) \in Nat /\ Len(longer) \in Nat
      /\ Len(new) <= Len(longer)
      /\ \A i \in 1..Len(new) : new[i] = longer[i + Len(longer) - Len(new)]
  <2>1. Window \in Nat /\ Len(longer) \in Nat
    BY <1>1, Limits
  <2>2. /\ Last(longer, Window) \in Seq(Message)
        /\ Len(Last(longer, Window)) = IF Len(longer) > Window THEN Window ELSE Len(longer)
        /\ \A i \in 1..Len(Last(longer, Window)) :
             Last(longer, Window)[i] = longer[i + Len(longer) - Len(Last(longer, Window))]
    BY <1>1, <2>1, LastSeq
  <2>3. Len(Last(longer, Window)) <= Len(longer)
    BY <2>1, <2>2
  <2>4. Len(Last(longer, Window)) \in Nat
    BY <2>2
  <2> QED
    BY <1>2, <2>1, <2>2, <2>3, <2>4
<1>4. ASSUME NEW i \in 1..Len(new), i <= Len(new) - (n + 1)
      PROVE  new[i] \in Covered
  <2> DEFINE j == i + Len(longer) - Len(new)
  <2>1. new[i] = longer[j] /\ j \in 1..Len(list) /\ j <= Len(list) - n
    <3>1. Len(list) \in Nat /\ i \in Nat /\ 1 <= i /\ i <= Len(new) - (n + 1) /\ n \in Nat
      BY <1>3, <1>4
    <3>2. j \in 1..Len(list) /\ j <= Len(list) - n
      BY <3>1, <1>1, <1>3
    <3> QED
      BY <3>2, <1>3
  <2> HIDE DEF j
  <2>2. longer[j] = list[j] /\ list[j] \in Covered
    BY <2>1, <1>1 DEF CoveredBut
  <2> QED
    BY <2>1, <2>2
<1> QED
  BY <1>3, <1>4 DEF new, CoveredBut

\* What persist writes, all of it or the first part.
LEMMA PersistCovers ==
  ASSUME TypeOK, CoverInv, node = "persist"
  PROVE  CoveredBut(2, WithWords) /\ CoveredBut(2, WithReply)
<1>1. UserMessage \in Message /\ chat \in Seq(Message) /\ CoveredBut(0, chat)
  BY LeadSays DEF TypeOK, CoverInv, CoveredBut
<1>2. WithWords \in Seq(Message) /\ (CoveredBut(0, WithWords) \/ CoveredBut(1, WithWords))
  <2>1. AppendMessage(chat, UserMessage) \in Seq(Message) /\ CoveredBut(0 + 1, AppendMessage(chat, UserMessage))
    BY <1>1, AppendCovers
  <2> QED
    BY <1>1, <2>1 DEF WithWords
<1>3. CoveredBut(1, WithWords) /\ CoveredBut(2, WithWords)
  BY <1>2 DEF CoveredBut
<1>4. ASSUME reply # None
      PROVE  CoveredBut(2, AppendMessage(WithWords, reply))
  <2>1. reply \in Message
    BY <1>4 DEF TypeOK
  <2>2. CoveredBut(1 + 1, AppendMessage(WithWords, reply))
    BY <1>2, <1>3, <2>1, AppendCovers
  <2> QED
    BY <2>2
<1> QED
  BY <1>3, <1>4 DEF WithReply

\* A step that leaves the chat and Redis alone and covers no less.
LEMMA CoverKept ==
  ASSUME CoverInv, chat' = chat, stored' = stored,
         Covered \subseteq Covered', stored' # {} => summary' \subseteq stored' \cup dropped',
         node \in {"end", "send"} => node' \in {"end", "send"}
  PROVE  CoverInv'
BY DEF CoverInv

\* What is covered stays covered in every step.
LEMMA CoverStep == TypeOK /\ CoverInv /\ [Next]_vars => CoverInv'
<1> SUFFICES ASSUME TypeOK, CoverInv, [Next]_vars
             PROVE  CoverInv'
  OBVIOUS
<1> USE DEF history, checkpoint, run, redisVars
<1>1. ASSUME NEW k \in Kinds, NEW simulated \in BOOLEAN, Begin(k, simulated) PROVE CoverInv'
  <2>1. /\ UNCHANGED <<chat, stored, dropped>> /\ node = "end" /\ node' = "summarize"
        /\ summary' = IF stored # {} THEN stored ELSE summary
    BY <1>1 DEF Begin
  <2>2. /\ Range(messages) \subseteq Range(messages')
        /\ \A i \in 1..Len(chat) : i > Len(chat) - 2 => chat[i] \in Range(messages')
    BY <1>1, BeginLoads
  <2>3. Covered \subseteq Covered'
    BY <2>1, <2>2 DEF CoverInv, Covered
  <2>4. ASSUME NEW i \in 1..Len(chat)
        PROVE  chat[i] \in Covered'
    <3>1. CASE i <= Len(chat) - 2
      BY <3>1, <2>1, <2>3 DEF CoverInv
    <3>2. CASE i > Len(chat) - 2
      BY <3>2, <2>2 DEF Covered
    <3> QED
      BY <3>1, <3>2 DEF TypeOK
  <2>5. stored' \subseteq Covered' /\ (stored' # {} => summary' \subseteq stored' \cup dropped')
    BY <2>1, <2>3 DEF CoverInv
  <2> QED
    BY <2>1, <2>4, <2>5 DEF CoverInv
<1>2. CASE SummarizeNot \/ Vision \/ DetectIntent \/ Approve \/ Reject
  <2>1. UNCHANGED <<chat, stored, messages, summary, dropped>> /\ node \notin {"end", "send"}
    BY <1>2 DEF SummarizeNot, Vision, DetectIntent, Approve, Reject
  <2>2. Covered' = Covered
    BY <2>1 DEF Covered
  <2> QED
    BY <2>1, <2>2, CoverKept DEF CoverInv
<1>3. CASE Summarize \/ SummarizeEmpty
  <2>1. /\ chat' = chat /\ messages' = Last(messages, Keep) /\ Len(messages) > Threshold
        /\ node \notin {"end", "send"} /\ node' \notin {"end", "send"}
    BY <1>3 DEF Summarize, SummarizeEmpty, AfterHistory
  <2>2. Range(messages) = Range(Old) \cup Range(messages')
    BY <2>1, OldAndLast
  <2>3. \/ /\ summary' = summary \cup Range(Old) /\ stored' = summary' /\ dropped' = dropped
        \/ /\ summary' = {} /\ stored' = stored /\ dropped' = dropped \cup summary \cup Range(Old)
    BY <1>3 DEF Summarize, SummarizeEmpty
  <2>4. Covered \subseteq Covered'
    BY <2>2, <2>3 DEF Covered
  <2>5. stored' \subseteq Covered' /\ (stored' # {} => summary' \subseteq stored' \cup dropped')
    BY <2>3, <2>4 DEF CoverInv, Covered
  <2>6. \A i \in 1..Len(chat') : chat'[i] \in Covered'
    BY <2>1, <2>4 DEF CoverInv
  <2> QED
    BY <2>5, <2>6 DEF CoverInv
<1>4. CASE Reply
  <2>1. /\ UNCHANGED <<chat, stored, summary, dropped>> /\ node = "reply"
        /\ reply' = [by |-> "bot", turn |-> turn, try |-> try] /\ messages' = Append(messages, reply')
    BY <1>4 DEF Reply
  <2>2. messages' = messages \o <<reply'>> /\ reply' \in Message
    BY <2>1, BotSays, AppendIsConcat DEF TypeOK
  <2>3. <<reply'>> \in Seq(Message) /\ messages \in Seq(Message)
    BY <2>2 DEF TypeOK
  <2>4. Range(messages') = Range(messages) \cup Range(<<reply'>>)
    BY <2>2, <2>3, RangeConcatenation, ZenonT(40)
  <2>5. Covered \subseteq Covered'
    BY <2>1, <2>4 DEF Covered
  <2> QED
    BY <2>1, <2>5, CoverKept DEF CoverInv
<1>5. CASE Persist
  <2>1. node = "persist" /\ node' = "send" /\ UNCHANGED <<stored, messages, summary, dropped>> /\ chat' = WithReply
    BY <1>5 DEF Persist
  <2>2. Covered' = Covered
    BY <2>1 DEF Covered
  <2>3. \A i \in 1..Len(chat') : i <= Len(chat') - 2 => chat'[i] \in Covered'
    BY <2>1, <2>2, PersistCovers DEF CoveredBut
  <2> QED
    BY <2>1, <2>2, <2>3 DEF CoverInv
<1>6. CASE Send \/ SendFails
  <2>1. UNCHANGED <<chat, stored, messages, summary, dropped>> /\ node = "send" /\ node' = "end"
    BY <1>6 DEF Send, SendFails
  <2>2. Covered' = Covered
    BY <2>1 DEF Covered
  <2> QED
    BY <2>1, <2>2, CoverKept DEF CoverInv
<1>7. CASE Abort
  <2>1. /\ UNCHANGED <<messages, summary, dropped>> /\ node' = "end"
        /\ (chat' = chat \/ (chat' = WithWords /\ node = "persist"))
    BY <1>7 DEF Abort
  <2>2. Covered' = Covered
    BY <2>1 DEF Covered
  <2>3. stored' = stored \/ (stored' = summary \cup Range(Old) /\ Len(messages) > Threshold)
    BY <1>7 DEF Abort
  <2>4. stored' \subseteq Covered' /\ (stored' # {} => summary' \subseteq stored' \cup dropped')
    <3>1. CASE stored' = stored
      BY <3>1, <2>1, <2>2 DEF CoverInv
    <3>2. CASE stored' = summary \cup Range(Old) /\ Len(messages) > Threshold
      BY <3>2, <2>1, <2>2, OldAndLast DEF Covered
    <3> QED
      BY <2>3, <3>1, <3>2
  <2>5. \A i \in 1..Len(chat') : i <= Len(chat') - 2 => chat'[i] \in Covered'
    BY <2>1, <2>2, PersistCovers DEF CoverInv, CoveredBut
  <2> QED
    BY <2>1, <2>4, <2>5 DEF CoverInv
<1>8. CASE Expire
  <2>1. /\ UNCHANGED <<messages, summary, dropped>> /\ node = "end" /\ node' = "end"
        /\ (chat' = chat \/ chat' = << >>) /\ (stored' = stored \/ stored' = {})
    BY <1>8 DEF Expire
  <2>2. Covered' = Covered
    BY <2>1 DEF Covered
  <2>3. stored' \subseteq Covered' /\ (stored' # {} => summary' \subseteq stored' \cup dropped')
    BY <2>1, <2>2 DEF CoverInv
  <2>4. chat' = chat \/ chat' = << >>
    BY <1>8 DEF Expire
  <2>5. \A i \in 1..Len(chat') : i <= Len(chat') - 2 => chat'[i] \in Covered'
    BY <2>1, <2>2, <2>4 DEF CoverInv
  <2> QED
    BY <2>1, <2>3, <2>5 DEF CoverInv
<1>9. CASE UNCHANGED vars
  <2>1. UNCHANGED <<chat, stored, messages, summary, dropped, node>>
    BY <1>9 DEF vars
  <2>2. Covered' = Covered
    BY <2>1 DEF Covered
  <2> QED
    BY <2>1, <2>2, CoverKept DEF CoverInv
<1> QED
  BY <1>1, <1>2, <1>3, <1>4, <1>5, <1>6, <1>7, <1>8, <1>9 DEF Next

\* Where the specialist is called, no message of the chat is waiting for the next turn.
LEMMA CoverShows == CoverInv /\ TypeOK => NothingForgotten
<1> SUFFICES ASSUME CoverInv, TypeOK, node = "reply"
             PROVE  Range(chat) \subseteq Covered
  BY DEF NothingForgotten, Covered
<1>1. \A i \in 1..Len(chat) : chat[i] \in Covered
  BY DEF CoverInv
<1>2. DOMAIN chat = 1..Len(chat)
  BY DEF TypeOK
<1> QED
  BY <1>1, <1>2 DEF Range

\* nodes.py:1248: in every state of every run the specialist is shown, as a message or in
\* the summary, all that the chat keeps, but for what was once summarised to nothing.
THEOREM ChatIsShown == Spec => []NothingForgotten
<1>1. Init => TypeOK /\ CoverInv
  BY TypeInit, CoverInit
<1>2. TypeOK /\ CoverInv /\ [Next]_vars => TypeOK' /\ CoverInv'
  BY TypeStep, CoverStep
<1>3. CoverInv /\ TypeOK => NothingForgotten
  BY CoverShows
<1> QED
  BY <1>1, <1>2, <1>3, PTL DEF Spec

-----------------------------------------------------------------------------
(* The media: one that waits for a specialist has not been answered, because the turn it came *)
(* in is answered only after the media are taken out of the checkpoint.                       *)

\* No turn has run.
LEMMA MediaInit == Init => MediaInv
BY DEF Init, MediaInv

\* Vision takes the media of a turn that is not answered, and a reply leaves none behind.
LEMMA MediaStep == TypeOK /\ MediaInv /\ [Next]_vars => MediaInv'
<1> SUFFICES ASSUME TypeOK, MediaInv, [Next]_vars
             PROVE  MediaInv'
  OBVIOUS
<1> USE Limits DEF MediaInv
<1>0. turn \in Nat
  BY DEF TypeOK
<1>1. ASSUME NEW k \in Kinds, NEW simulated \in BOOLEAN, Begin(k, simulated)
      PROVE  MediaInv'
  <2>1. turn' = turn + 1 /\ node' = "summarize" /\ UNCHANGED <<vision, answered>>
    BY <1>1 DEF Begin, history
  <2>2. turn + 1 \notin answered /\ answered \subseteq 1..(turn + 1)
    BY <1>0
  <2> QED
    BY <2>1, <2>2
<1>2. CASE SummarizeNot \/ Summarize \/ SummarizeEmpty
  BY <1>2 DEF SummarizeNot, Summarize, SummarizeEmpty, AfterHistory, checkpoint, run, history
<1>3. CASE Vision
  BY <1>3 DEF Vision, history
<1>4. CASE Reply
  <2>1. answered' = answered \cup {turn} /\ vision' = 0 /\ turn' = turn /\ node' = "supervisor"
    BY <1>4 DEF Reply, run
  <2>2. turn \in 1..turn
    BY <1>4, <1>0 DEF Reply, TypeOK, Turns
  <2> QED
    BY <2>1, <2>2
<1>5. CASE DetectIntent \/ Approve \/ Reject
  BY <1>5 DEF DetectIntent, Approve, Reject, checkpoint, run, history
<1>6. CASE Persist \/ Send \/ SendFails
  BY <1>6 DEF Persist, Send, SendFails, checkpoint, run, history
<1>7. CASE Abort \/ Expire
  BY <1>7 DEF Abort, Expire, checkpoint, run
<1>8. CASE UNCHANGED vars
  BY <1>8 DEF vars, checkpoint, run, history
<1> QED
  BY <1>1, <1>2, <1>3, <1>4, <1>5, <1>6, <1>7, <1>8 DEF Next

\* state.py:102-105: no step of any run has a specialist answer a medium that one has answered.
THEOREM MediaAreConsumed == Spec => NoMediumAnsweredTwice
<1>1. Init => TypeOK /\ MediaInv
  BY TypeInit, MediaInit
<1>2. TypeOK /\ MediaInv /\ [Next]_vars => TypeOK' /\ MediaInv'
  BY TypeStep, MediaStep
<1>3. MediaInv => [Reply => seen' = turn \/ seen' \notin answered]_vars
  BY DEF MediaInv, Reply, LastHuman
<1> QED
  BY <1>1, <1>2, <1>3, PTL DEF Spec, NoMediumAnsweredTwice
==============================================================================
