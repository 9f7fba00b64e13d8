----------------------------- MODULE Graph_proofs -----------------------------
(***************************************************************************)
(* Two nodes' worth of the graph that keep to themselves: the loop between *)
(* specialists and supervisor (GraphTurn), and the decision of the         *)
(* strategist after a turn (Strategist).                                   *)
(***************************************************************************)
EXTENDS GraphTurn, Strategist, WellFoundedInduction, TLAPS

-----------------------------------------------------------------------------
(***************************************************************************)
(* The safety properties of GraphTurn, for every bound on retries, runs    *)
(* and turns.  None of them is inductive: each rests on where the turn is. *)
(* Until the reply has been let through, the rejections of this turn are   *)
(* among the attempts that the checkpoint counts; and a checkpoint that    *)
(* holds feedback holds a rejection, so the route back to a specialist is  *)
(* open until a review has cleared it.                                     *)
(***************************************************************************)

BeforeRelease == {"intent", "specialist", "flow", "supervisor"}
AfterRelease == {"persist", "send"}

CountedInv ==
  /\ rejections <= MaxRetries
  /\ pc \in BeforeRelease => rejections <= state.attempts

\* Feedback is that of a rejection.
RejectedInv == state.feedback => ~state.approved

OwnInv ==
  /\ pc \in {"flow", "supervisor"} => state.reply \in {0, turn}
  /\ pc \in AfterRelease => purchase \/ state.reply = 0 \/ (state.reply = turn /\ passed)

CleanInv ==
  pc \in AfterRelease => purchase \/ (~state.feedback /\ (state.reply = 0 \/ state.attempts = 0))

IInv == TypeOK /\ CountedInv /\ RejectedInv /\ OwnInv /\ CleanInv

-----------------------------------------------------------------------------
(* The bounds are natural numbers. *)
LEMMA Bounds == MaxRetries \in Nat /\ MaxRuns \in Nat /\ MaxTurns \in Nat /\ MaxRuns > 0
  BY GraphAssumption

(* What the nodes make of the checkpoint keeps its type. *)
LEMMA WriteReply ==
  ASSUME NEW s \in State, NEW r \in 0..MaxTurns, NEW f \in BOOLEAN
  PROVE  [s EXCEPT !.reply = r, !.flow = f] \in State
  BY DEF State

\* So does what the supervisor makes of it when it lets the reply through,
LEMMA WriteReview ==
  ASSUME NEW s \in State, NEW v \in BOOLEAN, NEW f \in BOOLEAN, NEW a \in 0..MaxRetries
  PROVE  [s EXCEPT !.approved = v, !.feedback = f, !.attempts = a] \in State
  BY DEF State

\* when it does not,
LEMMA WriteRejection ==
  ASSUME NEW s \in State, NEW v \in BOOLEAN, NEW f \in BOOLEAN,
         NEW a \in 0..MaxRetries, NEW r \in 0..MaxTurns
  PROVE  [s EXCEPT !.approved = v, !.feedback = f, !.attempts = a, !.reply = r] \in State
  BY DEF State

\* and what the first turn starts with.
LEMMA FirstState ==
  ASSUME NEW f \in BOOLEAN
  PROVE  [reply |-> 0, flow |-> f, dispatched |-> f,
          attempts |-> 0, feedback |-> f, approved |-> f] \in State
  BY Bounds DEF State

(* The initial states satisfy the invariant. *)
LEMMA InvInit == TurnInit => IInv
<1> SUFFICES ASSUME TurnInit
             PROVE  IInv
  OBVIOUS
<1> USE Bounds DEF TurnInit
<1>1. state \in State
  BY FirstState, Zenon
<1>2. TypeOK
  <2>1. pc \in Pc /\ out \subseteq {"flow", "reply"}
    BY DEF Pc
  <2>2. turn \in 0..MaxTurns /\ runs \in 0..MaxRuns /\ rejections \in Nat
    OBVIOUS
  <2>3. purchase \in BOOLEAN /\ passed \in BOOLEAN
    BY Zenon
  <2> QED
    BY <1>1, <2>1, <2>2, <2>3, Zenon DEF TypeOK
<1>3. CountedInv
  BY DEF CountedInv
<1>4. RejectedInv
  BY DEF RejectedInv
<1>5. OwnInv
  BY DEF OwnInv, AfterRelease
<1>6. CleanInv
  BY DEF CleanInv, AfterRelease
<1> QED
  BY <1>2, <1>3, <1>4, <1>5, <1>6 DEF IInv

(* Every node, and every way a turn breaks off, preserves the invariant. *)
LEMMA InvStep == IInv /\ [TurnNext]_turnVars => IInv'
<1> SUFFICES ASSUME IInv, [TurnNext]_turnVars
             PROVE  IInv'
  OBVIOUS
<1> USE Bounds
<1> USE DEF IInv, TypeOK, CountedInv, RejectedInv, OwnInv, CleanInv, Pc, State,
            BeforeRelease, AfterRelease, history, Goes
<1>1. CASE Start
  <2>1. TypeOK'
    <3>1. pc' \in Pc
      BY <1>1 DEF Start
    <3>2. state' \in State
      BY <1>1 DEF Start
    <3>3. turn' \in 0..MaxTurns /\ runs' \in 0..MaxRuns /\ rejections' \in Nat
      BY <1>1 DEF Start
    <3>4. purchase' \in BOOLEAN /\ passed' \in BOOLEAN
      BY <1>1, Zenon DEF Start
    <3>5. out' \subseteq {"flow", "reply"}
      BY <1>1 DEF Start
    <3> QED
      BY <3>1, <3>2, <3>3, <3>4, <3>5, Zenon
  <2>2. CountedInv'
    BY <1>1 DEF Start
  <2>3. RejectedInv'
    BY <1>1 DEF Start
  <2>4. OwnInv'
    BY <1>1 DEF Start
  <2>5. CleanInv'
    BY <1>1 DEF Start
  <2> QED
    BY <2>1, <2>2, <2>3, <2>4, <2>5 DEF IInv
<1>2. CASE Purchase
  BY <1>2 DEF Purchase
<1>3. CASE Converse
  BY <1>3 DEF Converse
<1>4. CASE Specialist
  <2>1. TypeOK'
    <3>1. pc' \in Pc
      BY <1>4 DEF Specialist
    <3>2. state' \in State
      <4>1. PICK given \in {0, turn}, tag \in BOOLEAN :
              state' = [state EXCEPT !.reply = given, !.flow = state.flow \/ tag]
        BY <1>4 DEF Specialist
      <4>2. given \in 0..MaxTurns
        OBVIOUS
      <4>3. (state.flow \/ tag) \in BOOLEAN
        BY Zenon
      <4> HIDE DEF State
      <4>4. state \in State
        BY DEF State
      <4> QED
        BY <4>1, <4>2, <4>3, <4>4, WriteReply
    <3>3. turn' \in 0..MaxTurns /\ runs' \in 0..MaxRuns /\ rejections' \in Nat
      BY <1>4 DEF Specialist
    <3>4. purchase' \in BOOLEAN /\ passed' \in BOOLEAN
      BY <1>4, Zenon DEF Specialist
    <3>5. out' \subseteq {"flow", "reply"}
      BY <1>4 DEF Specialist
    <3> QED
      BY <3>1, <3>2, <3>3, <3>4, <3>5, Zenon
  <2>2. CountedInv'
    BY <1>4 DEF Specialist
  <2>3. RejectedInv'
    BY <1>4 DEF Specialist
  <2>4. OwnInv'
    BY <1>4 DEF Specialist
  <2>5. CleanInv'
    BY <1>4 DEF Specialist
  <2> QED
    BY <2>1, <2>2, <2>3, <2>4, <2>5 DEF IInv
<1>5. CASE Flow
  <2>1. CASE FlowSent
    BY <2>1 DEF FlowSent
  <2>2. CASE FlowFails
    BY <2>2 DEF FlowFails
  <2>3. CASE FlowGone
    BY <2>3 DEF FlowGone
  <2> QED
    BY <1>5, <2>1, <2>2, <2>3 DEF Flow
<1>6. CASE Supervisor
  <2>1. CASE SkipReview
    BY <2>1 DEF SkipReview, RouteAfterSupervisor
  <2>2. CASE Approve
    <3>1. TypeOK'
      <4>1. pc' \in Pc
        BY <2>2 DEF Approve, RouteAfterSupervisor
      <4>2. state' \in State
        <5>1. state \in State /\ 0 \in 0..MaxRetries
          OBVIOUS
        <5>2. state' = [state EXCEPT !.approved = TRUE, !.feedback = FALSE, !.attempts = 0]
          BY <2>2 DEF Approve
        <5> HIDE DEF State
        <5> QED
          BY <5>1, <5>2, WriteReview
      <4>3. turn' \in 0..MaxTurns /\ runs' \in 0..MaxRuns /\ rejections' \in Nat
        BY <2>2 DEF Approve, RouteAfterSupervisor
      <4>4. purchase' \in BOOLEAN /\ passed' \in BOOLEAN
        BY <2>2, Zenon DEF Approve, RouteAfterSupervisor
      <4>5. out' \subseteq {"flow", "reply"}
        BY <2>2 DEF Approve, RouteAfterSupervisor
      <4> QED
        BY <4>1, <4>2, <4>3, <4>4, <4>5, Zenon
    <3>2. CountedInv'
      BY <2>2 DEF Approve, RouteAfterSupervisor
    <3>3. RejectedInv'
      BY <2>2 DEF Approve, RouteAfterSupervisor
    <3>4. OwnInv'
      BY <2>2 DEF Approve, RouteAfterSupervisor
    <3>5. CleanInv'
      BY <2>2 DEF Approve, RouteAfterSupervisor
    <3> QED
      BY <3>1, <3>2, <3>3, <3>4, <3>5 DEF IInv
  <2>3. CASE Reject
    <3>1. TypeOK'
      <4>1. pc' \in Pc
        BY <2>3 DEF Reject, RouteAfterSupervisor
      <4>2. state' \in State
        <5>1. state \in State /\ state.attempts + 1 \in 0..MaxRetries /\ 0 \in 0..MaxTurns
          BY <2>3 DEF Reject
        <5>2. PICK told \in BOOLEAN :
                state' = [state EXCEPT !.approved = FALSE, !.feedback = told,
                                       !.attempts = state.attempts + 1, !.reply = 0]
          BY <2>3 DEF Reject
        <5> HIDE DEF State
        <5> QED
          BY <5>1, <5>2, WriteRejection
      <4>3. turn' \in 0..MaxTurns /\ runs' \in 0..MaxRuns /\ rejections' \in Nat
        BY <2>3 DEF Reject, RouteAfterSupervisor
      <4>4. purchase' \in BOOLEAN /\ passed' \in BOOLEAN
        BY <2>3, Zenon DEF Reject, RouteAfterSupervisor
      <4>5. out' \subseteq {"flow", "reply"}
        BY <2>3 DEF Reject, RouteAfterSupervisor
      <4> QED
        BY <4>1, <4>2, <4>3, <4>4, <4>5, Zenon
    <3>2. CountedInv'
      BY <2>3 DEF Reject, RouteAfterSupervisor
    <3>3. RejectedInv'
      BY <2>3 DEF Reject, RouteAfterSupervisor
    <3>4. OwnInv'
      BY <2>3 DEF Reject, RouteAfterSupervisor
    <3>5. CleanInv'
      BY <2>3 DEF Reject, RouteAfterSupervisor
    <3> QED
      BY <3>1, <3>2, <3>3, <3>4, <3>5 DEF IInv
  <2>4. CASE GiveUp
    <3>1. TypeOK'
      <4>1. pc' \in Pc
        BY <2>4 DEF GiveUp, RouteAfterSupervisor
      <4>2. state' \in State
        <5>1. state \in State /\ 0 \in 0..MaxRetries
          OBVIOUS
        <5>2. state' = [state EXCEPT !.approved = FALSE, !.feedback = FALSE, !.attempts = 0]
          BY <2>4 DEF GiveUp
        <5> HIDE DEF State
        <5> QED
          BY <5>1, <5>2, WriteReview
      <4>3. turn' \in 0..MaxTurns /\ runs' \in 0..MaxRuns /\ rejections' \in Nat
        BY <2>4 DEF GiveUp, RouteAfterSupervisor
      <4>4. purchase' \in BOOLEAN /\ passed' \in BOOLEAN
        BY <2>4, Zenon DEF GiveUp, RouteAfterSupervisor
      <4>5. out' \subseteq {"flow", "reply"}
        BY <2>4 DEF GiveUp, RouteAfterSupervisor
      <4> QED
        BY <4>1, <4>2, <4>3, <4>4, <4>5, Zenon
    <3>2. CountedInv'
      BY <2>4 DEF GiveUp, RouteAfterSupervisor
    <3>3. RejectedInv'
      BY <2>4 DEF GiveUp, RouteAfterSupervisor
    <3>4. OwnInv'
      BY <2>4 DEF GiveUp, RouteAfterSupervisor
    <3>5. CleanInv'
      BY <2>4 DEF GiveUp, RouteAfterSupervisor
    <3> QED
      BY <3>1, <3>2, <3>3, <3>4, <3>5 DEF IInv
  <2> QED
    BY <1>6, <2>1, <2>2, <2>3, <2>4 DEF Supervisor
<1>7. CASE Persist
  BY <1>7 DEF Persist
<1>8. CASE Send
  <2>1. CASE SendNothing
    BY <2>1 DEF SendNothing
  <2>2. CASE SendReply
    BY <2>2 DEF SendReply
  <2> QED
    BY <1>8, <2>1, <2>2 DEF Send
<1>9. CASE Abort
  BY <1>9 DEF Abort
<1>10. CASE UNCHANGED turnVars
  BY <1>10 DEF turnVars
<1> QED
  BY <1>1, <1>2, <1>3, <1>4, <1>5, <1>6, <1>7, <1>8, <1>9, <1>10 DEF TurnNext

(* The invariant holds throughout. *)
LEMMA InvAlways == TurnSpec => []IInv
<1> QED
  BY InvInit, InvStep, PTL DEF TurnSpec

-----------------------------------------------------------------------------
(* The checkpoint and the turn keep their types whatever turns break off. *)
THEOREM TypeCorrect == TurnSpec => []TypeOK
<1>1. IInv => TypeOK
  BY DEF IInv
<1> QED
  BY <1>1, InvAlways, PTL

(***************************************************************************)
(* graph.py:123 "Evita loop infinito": no turn sends a reply back more     *)
(* than MaxRetries times, however many retries are configured.             *)
(***************************************************************************)
THEOREM RetriesEnd == TurnSpec => []RejectionsBounded
<1>1. IInv => RejectionsBounded
  BY DEF IInv, CountedInv, RejectionsBounded
<1> QED
  BY <1>1, InvAlways, PTL

(***************************************************************************)
(* graph.py:206: what a conversation turn sends as its reply is its own    *)
(* and has been let through by the supervisor.                             *)
(***************************************************************************)
THEOREM SendsOwnReply == TurnSpec => OwnReviewedReply
<1>1. IInv /\ [TurnNext]_turnVars => [SendReply => purchase \/ (state.reply = turn /\ passed)]_turnVars
  BY DEF IInv, OwnInv, AfterRelease, SendReply, Goes
<1> QED
  BY <1>1, InvAlways, PTL DEF TurnSpec, OwnReviewedReply

(***************************************************************************)
(* nodes.py:1446: a conversation turn that comes to its end leaves no      *)
(* feedback to the next one, and no attempts if it answers.                *)
(***************************************************************************)
THEOREM LeavesNoFeedback == TurnSpec => FeedbackDoesNotLeak
<1>1. IInv /\ [TurnNext]_turnVars =>
        [/\ Send => purchase \/ ~state.feedback
         /\ SendReply => purchase \/ state.attempts = 0]_turnVars
  BY DEF IInv, CleanInv, AfterRelease, Send, SendNothing, SendReply, Goes
<1> QED
  BY <1>1, InvAlways, PTL DEF TurnSpec, FeedbackDoesNotLeak

-----------------------------------------------------------------------------
(***************************************************************************)
(* For any messages, answers of the model, moments and cap of attempts: a  *)
(* planned follow-up keeps the limits of its temperature, a stop is        *)
(* respected, and quick follow-ups end.  The last follows from what the    *)
(* counter is at the decision: it is one turn behind, and the decision     *)
(* that plans a quick one is taken below three.                            *)
(***************************************************************************)

-----------------------------------------------------------------------------
(* The time a message names is a number of minutes. *)

\* The week.
LEMMA Numbers == WeekMinutes = 10080 /\ Day = 1440
BY DEF WeekMinutes, Day

\* What is kept between two limits is between them.
LEMMA ClampRange ==
  ASSUME NEW lo \in Int, NEW n \in Int, NEW hi \in Int, lo <= hi
  PROVE  Clamp(lo, n, hi) \in lo..hi
BY DEF Clamp

\* There is a first match.
LEMMA FirstMatchIn ==
  ASSUME NEW matches, matches # {}, \A m \in matches : m.pattern \in 1..5
  PROVE  FirstMatch(matches) \in matches
<1>1. \E m \in matches : \A other \in matches : m.pattern <= other.pattern
  <2>1. CASE \E m \in matches : m.pattern = 1
    BY <2>1
  <2>2. CASE (\A m \in matches : m.pattern > 1) /\ \E m \in matches : m.pattern = 2
    BY <2>2
  <2>3. CASE (\A m \in matches : m.pattern > 2) /\ \E m \in matches : m.pattern = 3
    BY <2>3
  <2>4. CASE (\A m \in matches : m.pattern > 3) /\ \E m \in matches : m.pattern = 4
    BY <2>4
  <2>5. CASE \A m \in matches : m.pattern > 4
    BY <2>5
  <2> QED
    BY <2>1, <2>2, <2>3, <2>4, <2>5
<1> QED
  BY <1>1 DEF FirstMatch

\* A set of natural numbers has a least element.
LEMMA NatMin ==
  ASSUME NEW S, S \subseteq Nat, S # {}
  PROVE  Min(S) \in S
<1> DEFINE R == OpToRel(<, Nat)
<1>1. \A x, y \in Nat : <<x, y>> \in R <=> x < y
  BY DEF OpToRel
<1>2. IsWellFoundedOn(R, Nat)
  BY NatLessThanWellFounded
<1> HIDE DEF R
<1>3. PICK x \in S : \A y \in S : ~ (<<y, x>> \in R)
  BY <1>2, WFMin
<1>4. ASSUME NEW y \in S PROVE x <= y
  <2>1. x \in Nat /\ y \in Nat /\ ~ (y < x)
    BY <1>1, <1>3
  <2> QED
    BY <2>1
<1> QED
  BY <1>4 DEF Min

\* The index of a keyword, or 0.
LEMMA FirstInRange ==
  ASSUME NEW keywords, Len(keywords) \in Nat, NEW said
  PROVE  FirstIn(keywords, said) \in 0..Len(keywords)
<1> DEFINE I == {i \in 1..Len(keywords) : Mentions(said, keywords[i])}
<1>1. FirstIn(keywords, said) = IF I # {} THEN Min(I) ELSE 0
  BY DEF FirstIn, SelectInSeq
<1>2. I \subseteq Nat /\ I \subseteq 1..Len(keywords)
  OBVIOUS
<1> HIDE DEF I
<1>3. CASE I = {}
  BY <1>1, <1>3
<1>4. CASE I # {}
  <2>1. Min(I) \in I
    BY <1>2, <1>4, NatMin
  <2>2. PICK i \in I : i = Min(I)
    BY <2>1, Zenon
  <2>3. i \in 0..Len(keywords)
    BY <1>2, <2>2
  <2> QED
    BY <1>1, <1>4, <2>2, <2>3, Zenon
<1> QED
  BY <1>3, <1>4

\* The number of a weekday, or -1.
LEMMA WeekdayRange ==
  ASSUME NEW kw
  PROVE  WeekdayNumber(kw) \in Int
<1> DEFINE I == {i \in 1..Len(Weekdays) : Weekdays[i] = kw}
<1>1. WeekdayNumber(kw) = (IF I # {} THEN Min(I) ELSE 0) - 1
  BY DEF WeekdayNumber, SelectInSeq
<1>2. I \subseteq Nat /\ I \subseteq 1..7
  BY DEF Weekdays
<1> HIDE DEF I
<1>3. \E n \in Int : n = IF I # {} THEN Min(I) ELSE 0
  <2>1. CASE I = {}
    BY <2>1
  <2>2. CASE I # {}
    <3>1. Min(I) \in I
      BY <1>2, <2>2, NatMin
    <3>2. PICK i \in I : i = Min(I)
      BY <3>1, Zenon
    <3>3. i \in Int
      BY <1>2
    <3> QED
      BY <2>2, <3>2, <3>3, Zenon
  <2> QED
    BY <2>1, <2>2
<1>4. PICK n \in Int : n = IF I # {} THEN Min(I) ELSE 0
  BY <1>3
<1>5. WeekdayNumber(kw) = n - 1
  BY <1>1, <1>4, Zenon
<1> QED
  BY <1>5

\* The hour of a period of the day.
LEMMA PeriodMinutes ==
  /\ Len(PeriodKeywords) = 7
  /\ \A i \in 1..7 : PeriodHour[i] \in 0..23
BY DEF PeriodKeywords, PeriodHour

\* The hour of a clock time.
LEMMA HourRange ==
  ASSUME NEW m, m.hour \in 0..23
  PROVE  HourOf(m) \in 0..23
<1>1. CASE m.period \in {"tarde", "noite"} /\ m.hour < 12
  <2>1. HourOf(m) = m.hour + 12
    BY <1>1, Zenon DEF HourOf
  <2> QED
    BY <1>1, <2>1
<1>2. CASE m.period = "madrugada" /\ m.hour >= 12
  <2>1. m.period \notin {"tarde", "noite"}
    BY <1>2
  <2>2. HourOf(m) = m.hour - 12
    BY <1>2, <2>1, Zenon DEF HourOf
  <2> QED
    BY <1>2, <2>2
<1>3. CASE ~(m.period \in {"tarde", "noite"} /\ m.hour < 12) /\ ~(m.period = "madrugada" /\ m.hour >= 12)
  BY <1>3, Zenon DEF HourOf
<1> QED
  BY <1>1, <1>2, <1>3

\* The matches in a message.
LEMMA Matches ==
  ASSUME NEW said \in Text
  PROVE  said.relative \subseteq RelativeMatch /\ said.clock \subseteq ClockMatch
<1> HIDE DEF RelativeMatch, ClockMatch, Keyword
<1> QED
  BY DEF Text

\* The minute of the day that a message names, or None.
LEMMA HourNamed ==
  ASSUME NEW said \in Text
  PROVE  /\ ResolveHour(said) \in Int
         /\ ResolveHour(said) = None \/ ResolveHour(said) \in 0..Day - 1
         /\ Clocks(said) # {} => ResolveHour(said) # None
<1>1. CASE Clocks(said) # {}
  <2> DEFINE m == FirstMatch(Clocks(said))
  <2>1. m \in Clocks(said)
    <3>1. \A c \in Clocks(said) : c \in ClockMatch
      BY Matches DEF Clocks
    <3>2. \A c \in Clocks(said) : c.pattern \in 1..5
      BY <3>1 DEF ClockMatch
    <3> QED
      BY <1>1, <3>2, FirstMatchIn, Zenon
  <2>2. m.hour \in 0..23 /\ m.minute \in 0..59
    <3>1. m \in ClockMatch /\ m.hour <= 23 /\ m.minute <= 59
      BY <2>1, Matches DEF Clocks
    <3> HIDE DEF m
    <3> QED
      BY <3>1 DEF ClockMatch
  <2>3. ResolveHour(said) = 60 * HourOf(m) + m.minute
    BY <1>1, Zenon DEF ResolveHour
  <2> HIDE DEF m
  <2> QED
    BY <2>2, <2>3, HourRange, Numbers DEF None
<1>2. CASE Clocks(said) = {} /\ FirstIn(PeriodKeywords, said) # 0
  <2> DEFINE period == FirstIn(PeriodKeywords, said)
  <2>1. ResolveHour(said) = 60 * PeriodHour[period]
    BY <1>2, Zenon DEF ResolveHour
  <2>2. period \in 0..7
    <3>1. Len(PeriodKeywords) = 7 /\ Len(PeriodKeywords) \in Nat
      BY PeriodMinutes
    <3>2. period \in 0..Len(PeriodKeywords)
      BY <3>1, FirstInRange, Zenon
    <3> QED
      BY <3>1, <3>2, Zenon
  <2> HIDE DEF period
  <2>3. period \in 1..7
    BY <1>2, <2>2 DEF period
  <2>4. PeriodHour[period] \in 0..23
    BY <2>3, PeriodMinutes
  <2> QED
    BY <1>2, <2>1, <2>4, Numbers
<1>3. CASE Clocks(said) = {} /\ FirstIn(PeriodKeywords, said) = 0
  <2>1. ResolveHour(said) = None
    BY <1>3, Zenon DEF ResolveHour
  <2> QED
    BY <1>3, <2>1 DEF None
<1> QED
  BY <1>1, <1>2, <1>3


\* The days until a day that a message names.
LEMMA DaysRange ==
  ASSUME NEW kw, NEW today \in 0..6
  PROVE  DaysUntil(kw, today) \in Nat
<1> DEFINE number == WeekdayNumber(kw)
           weekend == IF today \in {5, 6} THEN (IF today = 5 THEN 7 ELSE 6) ELSE 5 - today
<1>1. PICK n \in Int : n = number
  BY WeekdayRange, Zenon
<1>2. NextWeekday(n, today) \in Nat
  BY <1>1 DEF NextWeekday
<1>3. NextWeekday(number, today) \in Nat
  BY <1>1, <1>2, Zenon
<1>4. weekend \in Nat /\ 0 \in Nat /\ 1 \in Nat /\ 2 \in Nat
  OBVIOUS
<1>5. DaysUntil(kw, today) = 0 \/ DaysUntil(kw, today) = 1 \/ DaysUntil(kw, today) = 2
        \/ DaysUntil(kw, today) = weekend \/ DaysUntil(kw, today) = NextWeekday(number, today)
  BY Zenon DEF DaysUntil
<1> HIDE DEF number, weekend
<1> QED
  BY <1>3, <1>4, <1>5, Zenon

\* The day a message names, or None.
LEMMA DayNamed ==
  ASSUME NEW said, NEW moment \in Int
  PROVE  ResolveDayOffset(said, moment) \in Int
<1> DEFINE today == (moment % WeekMinutes) \div Day
           day == FirstIn(DayKeywords, said)
<1>1. today \in 0..6
  BY Numbers
<1> HIDE DEF today
<1>2. DaysUntil(DayKeywords[day], today) \in Int /\ None \in Int
  BY <1>1, DaysRange DEF None
<1>3. ResolveDayOffset(said, moment) = IF day = 0 THEN None ELSE DaysUntil(DayKeywords[day], today)
  BY Zenon DEF ResolveDayOffset, today
<1> QED
  BY <1>2, <1>3, Zenon

\* A clock time on a day is a minute of the calendar.
LEMMA OnDayInt ==
  ASSUME NEW moment \in Int, NEW days \in Int, NEW minute \in Int
  PROVE  OnDay(moment, days, minute) \in Int
<1> DEFINE today == moment - (moment % Day) + minute
<1>1. today \in Int /\ today + days * Day \in Int /\ today + Day \in Int
  BY Numbers
<1>2. OnDay(moment, days, minute) \in {today + days * Day, today + Day, today}
  <2>1. CASE days > 0
    BY <2>1, Zenon DEF OnDay
  <2>2. CASE ~(days > 0) /\ days <= 0 /\ today <= moment + 2
    BY <2>2, Zenon DEF OnDay
  <2>3. CASE ~(days > 0) /\ ~(days <= 0 /\ today <= moment + 2)
    BY <2>3, Zenon DEF OnDay
  <2>4. ~(days > 0) => days <= 0
    OBVIOUS
  <2> QED
    BY <2>1, <2>2, <2>3, <2>4, Zenon
<1> HIDE DEF today
<1> QED
  BY <1>1, <1>2, Zenon

\* The minutes from now that a message names.
LEMMA RelativeInt ==
  ASSUME NEW said \in Text, said.relative # {}
  PROVE  ResolveRelativeTime(said) \in Nat
<1> DEFINE first == FirstMatch(said.relative)
<1>1. first \in RelativeMatch
  <2>1. \A r \in RelativeMatch : r.pattern \in 1..5
    BY DEF RelativeMatch
  <2>2. \A r \in said.relative : r.pattern \in 1..5
    BY <2>1, Matches, Zenon
  <2> QED
    BY <2>2, Matches, FirstMatchIn, Zenon
<1>2. first.halves \in Nat /\ first.unit \in Nat
  <2> HIDE DEF first
  <2> QED
    BY <1>1 DEF RelativeMatch
<1>3. ResolveRelativeTime(said) = Max({1, (first.halves * first.unit) \div 2})
  BY Zenon DEF ResolveRelativeTime
<1> HIDE DEF first
<1> DEFINE n == (first.halves * first.unit) \div 2
<1>4. n \in Nat
  <2>1. first.halves * first.unit \in Nat
    BY <1>2
  <2> QED
    BY <2>1
<1>5. ResolveRelativeTime(said) = Max({1, n})
  BY <1>3
<1> HIDE DEF n
<1>6. Max({1, n}) \in {1, n}
  <2>1. \E x \in {1, n} : \A y \in {1, n} : x >= y
    <3>1. CASE n >= 1
      BY <3>1, <1>4
    <3>2. CASE ~(n >= 1)
      BY <3>2, <1>4
    <3> QED
      BY <3>1, <3>2
  <2> QED
    BY <2>1, Zenon DEF Max
<1>7. 1 \in Nat
  OBVIOUS
<1> QED
  BY <1>4, <1>5, <1>6, <1>7, Zenon

\* What is extracted from a message is a target.
LEMMA ExtractType ==
  ASSUME NEW said \in Text, NEW moment \in Int
  PROVE  ExtractScheduledTime(said, moment) \in Target
<1> DEFINE days == ResolveDayOffset(said, moment)
           minute == ResolveHour(said)
           day == OnDay(moment, days, IF minute = None THEN 600 ELSE minute)
<1>1. days \in Int /\ minute \in Int
  BY DayNamed, HourNamed
<1>2. day \in Int
  <2> HIDE DEF days, minute
  <2>1. (IF minute = None THEN 600 ELSE minute) \in Int
    BY <1>1
  <2> QED
    BY <1>1, <2>1, OnDayInt, ZenonT(40)
<1>3. CASE said.relative # {}
  <2>1. ExtractScheduledTime(said, moment) = In(ResolveRelativeTime(said))
    BY <1>3, Zenon DEF ExtractScheduledTime
  <2>2. PICK n \in Nat : n = ResolveRelativeTime(said)
    BY <1>3, RelativeInt, Zenon
  <2>3. In(n) \in Target
    BY DEF In, Target
  <2> QED
    BY <2>1, <2>2, <2>3, Zenon
<1>4. CASE said.relative = {} /\ days = None /\ minute = None
  <2>1. ExtractScheduledTime(said, moment) = NoTarget
    BY <1>4, Zenon DEF ExtractScheduledTime
  <2>2. NoTarget \in Target
    BY DEF NoTarget, Target
  <2> QED
    BY <2>1, <2>2, Zenon
<1>5. CASE said.relative = {} /\ ~(days = None /\ minute = None)
  <2>1. ExtractScheduledTime(said, moment) = At(day)
    BY <1>5, Zenon DEF ExtractScheduledTime
  <2>2. PICK n \in Int : n = day
    BY <1>2, ZenonT(40)
  <2>3. At(n) \in Target
    BY DEF At, Target
  <2> QED
    BY <2>1, <2>2, <2>3, Zenon
<1> QED
  BY <1>3, <1>4, <1>5, Zenon

\* A clock time on a day is a later minute, and on the clock it is that time.
LEMMA OnDayKept ==
  ASSUME NEW moment \in Int, NEW days \in Int, NEW minute \in 0..Day - 1
  PROVE  OnDay(moment, days, minute) > moment /\ OnDay(moment, days, minute) % Day = minute
<1> DEFINE today == moment - (moment % Day) + minute
<1>1. PICK q \in Int : moment = 1440 * q + (moment % 1440) /\ moment % 1440 \in 0..1439
  <2>1. moment \div 1440 \in Int /\ moment = 1440 * (moment \div 1440) + (moment % 1440)
    OBVIOUS
  <2> QED
    BY <2>1
<1>2. today = 1440 * q + minute /\ minute \in 0..1439
  BY <1>1, Numbers
<1>3. \A k \in Int : (1440 * k + minute) % 1440 = minute
  BY <1>2
<1>4. ASSUME NEW k \in Int PROVE (today + k * Day) % Day = minute
  <2>1. today + k * Day = 1440 * (q + k) + minute
    BY <1>2, Numbers
  <2>2. q + k \in Int
    OBVIOUS
  <2> QED
    BY <1>3, <2>1, <2>2, Numbers
<1>5. today > moment - Day /\ today \in Int
  BY <1>1, <1>2, Numbers
<1> HIDE DEF today
<1>6. CASE days > 0 /\ ~(days <= 0)
  <2>1. OnDay(moment, days, minute) = today + days * Day
    BY <1>6, Zenon DEF OnDay, today
  <2>2. days * Day >= Day
    BY <1>6, Numbers
  <2>3. today + days * Day > moment
    BY <1>5, <2>2, Numbers
  <2> QED
    BY <1>4, <2>1, <2>3, Zenon
<1>7. CASE ~(days > 0) /\ days <= 0 /\ today <= moment + 2
  <2>1. OnDay(moment, days, minute) = today + Day
    BY <1>7, Zenon DEF OnDay, today
  <2>2. today + Day = today + 1 * Day /\ today + Day > moment
    BY <1>5, Numbers
  <2> QED
    BY <1>4, <2>1, <2>2
<1>8. CASE ~(days > 0) /\ ~(days <= 0 /\ today <= moment + 2)
  <2>1. OnDay(moment, days, minute) = today
    BY <1>8, Zenon DEF OnDay, today
  <2>2. today = today + 0 * Day /\ today > moment
    BY <1>5, <1>8, Numbers
  <2> QED
    BY <1>4, <2>1, <2>2
<1>9. days > 0 <=> ~(days <= 0)
  OBVIOUS
<1> QED
  BY <1>6, <1>7, <1>8, <1>9, Zenon

\* An absolute target is ahead, and on the clock it is the time that was named.
LEMMA NamedTimeIsAhead ==
  ASSUME NEW said \in Text, NEW moment \in Int,
         ExtractScheduledTime(said, moment).kind = "absolute"
  PROVE  LET target == ExtractScheduledTime(said, moment)
         IN  /\ target.at \in Int /\ target.at > moment
             /\ ResolveHour(said) # None => target.at % Day = ResolveHour(said)
<1> DEFINE target == ExtractScheduledTime(said, moment)
           days == ResolveDayOffset(said, moment)
           minute == IF ResolveHour(said) = None THEN 600 ELSE ResolveHour(said)
<1>0. target.kind = "absolute"
  OBVIOUS
<1>1. said.relative = {} /\ ~(days = None /\ ResolveHour(said) = None)
  <2>1. CASE said.relative # {}
    <3>1. target = In(ResolveRelativeTime(said))
      BY <2>1, Zenon DEF ExtractScheduledTime
    <3>2. \A n : In(n).kind # "absolute"
      BY DEF In
    <3> QED
      BY <1>0, <3>1, <3>2, Zenon
  <2>2. CASE said.relative = {} /\ days = None /\ ResolveHour(said) = None
    <3>1. target = NoTarget
      BY <2>2, Zenon DEF ExtractScheduledTime
    <3>2. NoTarget.kind # "absolute"
      BY DEF NoTarget
    <3> QED
      BY <1>0, <3>1, <3>2, Zenon
  <2> QED
    BY <2>1, <2>2, Zenon
<1>2. target = At(OnDay(moment, days, minute))
  BY <1>1, Zenon DEF ExtractScheduledTime
<1>3. target.at = OnDay(moment, days, minute)
  <2>1. \A n : At(n).at = n
    BY DEF At
  <2> QED
    BY <1>2, <2>1, ZenonT(40)
<1>4. minute \in 0..Day - 1
  BY HourNamed, Numbers
<1>5. days \in Int
  BY DayNamed
<1>6. minute \in Int
  BY <1>4, Numbers
<1>7. ResolveHour(said) # None => minute = ResolveHour(said)
  BY Zenon
<1> HIDE DEF target, days, minute
<1>8. OnDay(moment, days, minute) \in Int
  BY <1>5, <1>6, OnDayInt, Zenon
<1>9. OnDay(moment, days, minute) > moment /\ OnDay(moment, days, minute) % Day = minute
  BY <1>4, <1>5, OnDayKept, Zenon
<1> QED
  BY <1>3, <1>7, <1>8, <1>9, Zenon DEF target

\* The search for keywords finds those that are written out, but for "manhã" in "amanhã"
\* and for "depois de amanhã".
LEMMA MentionedIsWritten ==
  ASSUME NEW said \in Text, "depois de amanha" \notin said.says, NEW kw,
         kw = "manha" => ("amanha" \in said.says => "manha" \in said.says)
  PROVE  Mentions(said, kw) <=> kw \in said.says
<1>1. ASSUME NEW written \in said.says
      PROVE  Inside(written) = {written} \/ (written = "amanha" /\ Inside(written) = {"amanha", "manha"})
  <2>1. written # "depois de amanha"
    BY <1>1
  <2> QED
    BY <2>1, Zenon DEF Inside
<1>2. \A written \in said.says : written \in Inside(written)
  BY <1>1, Zenon
<1>3. ASSUME NEW written \in said.says, kw \in Inside(written) PROVE kw \in said.says
  BY <1>1, <1>3, Zenon
<1> QED
  BY <1>2, <1>3, Zenon DEF Mentions

\* So the first keyword found is the first one written.
LEMMA FirstFoundIsWritten ==
  ASSUME NEW said \in Text, NEW keywords,
         \A i \in 1..Len(keywords) : Mentions(said, keywords[i]) <=> keywords[i] \in said.says
  PROVE  FirstIn(keywords, said) = FirstWritten(keywords, said)
<1> DEFINE I == {i \in 1..Len(keywords) : Mentions(said, keywords[i])}
           J == {i \in 1..Len(keywords) : keywords[i] \in said.says}
<1>1. I = J
  OBVIOUS
<1>2. FirstIn(keywords, said) = IF I # {} THEN Min(I) ELSE 0
  BY DEF FirstIn, SelectInSeq
<1>3. FirstWritten(keywords, said) = IF J # {} THEN Min(J) ELSE 0
  BY DEF FirstWritten, SelectInSeq
<1> HIDE DEF I, J
<1> QED
  BY <1>1, <1>2, <1>3

\* A keyword that is written is found.
LEMMA WrittenIsFound ==
  ASSUME NEW keywords, Len(keywords) \in Nat, NEW said,
         NEW i \in 1..Len(keywords), keywords[i] \in said.says
  PROVE  FirstWritten(keywords, said) # 0
<1> DEFINE J == {j \in 1..Len(keywords) : keywords[j] \in said.says}
<1>1. J \subseteq Nat /\ J # {} /\ ~(0 \in J)
  OBVIOUS
<1>2. FirstWritten(keywords, said) = IF J # {} THEN Min(J) ELSE 0
  BY DEF FirstWritten, SelectInSeq
<1> HIDE DEF J
<1>3. Min(J) \in J
  BY <1>1, NatMin
<1> QED
  BY <1>1, <1>2, <1>3, Zenon

\* What two sequences of a set make together.
LEMMA Joined ==
  ASSUME NEW S, NEW a \in Seq(S), NEW b \in Seq(S)
  PROVE  a \o b \in Seq(S) /\ Len(a \o b) = Len(a) + Len(b)
OBVIOUS

\* Every place of a sequence of a set holds one of the set.
LEMMA Placed ==
  ASSUME NEW S, NEW a \in Seq(S)
  PROVE  DOMAIN a = 1..Len(a) /\ \A i \in 1..Len(a) : a[i] \in S
OBVIOUS

\* The keywords of the two tables.
LEMMA Tables ==
  /\ Len(DayKeywords) = 11
  /\ \A i \in 1..Len(DayKeywords) : DayKeywords[i] # "manha"
  /\ \A kw \in Keyword : (\E i \in 1..Len(DayKeywords) : DayKeywords[i] = kw)
                      \/ (\E i \in 1..Len(PeriodKeywords) : PeriodKeywords[i] = kw)
<1> DEFINE Others == {"hoje", "amanha", "depois de amanha", "segunda", "terca", "quarta", "quinta", "sexta",
                      "sabado", "domingo", "fim de semana"}
           first == <<"hoje", "amanha", "depois de amanha">>
           last == <<"fim de semana">>
<1>1. first \in Seq(Others) /\ Weekdays \in Seq(Others) /\ last \in Seq(Others)
      /\ Len(first) = 3 /\ Len(Weekdays) = 7 /\ Len(last) = 1
  BY DEF Weekdays
<1>2. "manha" \notin Others
  OBVIOUS
<1>3. /\ DayKeywords \in Seq(Others) /\ Len(DayKeywords) = 11 /\ DOMAIN DayKeywords = 1..Len(DayKeywords)
      /\ \A i \in 1..Len(DayKeywords) : DayKeywords[i] # "manha"
  <2> HIDE DEF Others, first, last
  <2>1. first \o Weekdays \in Seq(Others) /\ Len(first \o Weekdays) = 3 + 7
    BY <1>1, Joined, ZenonT(40)
  <2>2. DayKeywords = (first \o Weekdays) \o last
    BY DEF DayKeywords, first, last
  <2>a. PICK h \in Seq(Others) : h = first \o Weekdays
    BY <2>1, Zenon
  <2>b. h \o last \in Seq(Others) /\ Len(h \o last) = Len(h) + Len(last)
    BY <1>1, Joined, Zenon
  <2>3. DayKeywords \in Seq(Others) /\ Len(DayKeywords) = (3 + 7) + 1
    BY <1>1, <2>1, <2>2, <2>a, <2>b, Zenon
  <2>4. \A i \in 1..Len(DayKeywords) : DayKeywords[i] \in Others
    BY <2>3, Placed, Zenon
  <2>5. DOMAIN DayKeywords = 1..Len(DayKeywords)
    BY <2>3, Placed, Zenon
  <2>6. (3 + 7) + 1 = 11
    OBVIOUS
  <2> QED
    BY <1>2, <2>3, <2>4, <2>5, <2>6, Zenon
<1>4. DOMAIN PeriodKeywords = 1..Len(PeriodKeywords)
  BY DEF PeriodKeywords
<1>5. \A kw \in Keyword : (\E i \in DOMAIN DayKeywords : DayKeywords[i] = kw)
                       \/ (\E i \in DOMAIN PeriodKeywords : PeriodKeywords[i] = kw)
  BY Zenon DEF Keyword, ToSet
<1> QED
  BY <1>3, <1>4, <1>5, Zenon

\* A moment of the week has its day, and None is no number of minutes or days.
LEMMA MomentsAndNone ==
  /\ \A moment \in 0..WeekMinutes - 1 : moment % WeekMinutes = moment /\ moment \div Day \in 0..6
  /\ \A n \in Nat : n # None
  /\ ~(None > 0) /\ ~(0 > 0) /\ None <= 0 /\ 0 <= 0
  /\ Len(DayKeywords) \in Nat /\ Len(PeriodKeywords) \in Nat
BY Numbers, Tables, PeriodMinutes DEF None

\* The period that is found has an hour.
LEMMA PeriodFound ==
  ASSUME NEW said, FirstIn(PeriodKeywords, said) # 0
  PROVE  60 * PeriodHour[FirstIn(PeriodKeywords, said)] # None
<1> DEFINE period == FirstIn(PeriodKeywords, said)
<1>1. Len(PeriodKeywords) = 7 /\ Len(PeriodKeywords) \in Nat
  BY PeriodMinutes
<1>2. period \in 0..Len(PeriodKeywords)
  BY <1>1, FirstInRange, Zenon
<1>3. period # 0
  OBVIOUS
<1> HIDE DEF period
<1>4. period \in 1..7
  BY <1>1, <1>2, <1>3
<1>5. PeriodHour[period] \in 0..23
  BY <1>4, PeriodMinutes
<1>6. 60 * PeriodHour[period] # None
  BY <1>5 DEF None
<1> QED
  BY <1>6 DEF period

\* What is extracted from a message without a relative time is what is written in it.
LEMMA ExtractedAsWritten ==
  ASSUME NEW said \in Text, NEW moment \in 0..WeekMinutes - 1,
         said.relative = {}, "depois de amanha" \notin said.says,
         "amanha" \in said.says => Clocks(said) # {} \/ "manha" \in said.says
  PROVE  ExtractScheduledTime(said, moment) = AsWritten(said, moment)
<1> DEFINE day == FirstWritten(DayKeywords, said)
           period == FirstWritten(PeriodKeywords, said)
           today == moment \div Day
           days == IF day = 0 THEN 0 ELSE DaysUntil(DayKeywords[day], today)
           offset == IF day = 0 THEN None ELSE DaysUntil(DayKeywords[day], today)
           hour == ResolveHour(said)
           minute == IF hour = None THEN 600 ELSE hour
<1>1. FirstIn(DayKeywords, said) = day
  <2>1. \A i \in 1..Len(DayKeywords) : Mentions(said, DayKeywords[i]) <=> DayKeywords[i] \in said.says
    BY Tables, MentionedIsWritten, Zenon
  <2> QED
    BY <2>1, FirstFoundIsWritten, Zenon
<1>2. Clocks(said) = {} => FirstIn(PeriodKeywords, said) = period
  <2>1. SUFFICES ASSUME Clocks(said) = {} PROVE FirstIn(PeriodKeywords, said) = period
    OBVIOUS
  <2>2. \A i \in 1..Len(PeriodKeywords) :
          Mentions(said, PeriodKeywords[i]) <=> PeriodKeywords[i] \in said.says
    BY <2>1, MentionedIsWritten, Zenon
  <2> QED
    BY <2>2, FirstFoundIsWritten, Zenon
<1>3. ResolveDayOffset(said, moment) = offset
  <2>1. moment % WeekMinutes = moment
    BY MomentsAndNone, Zenon
  <2> QED
    BY <1>1, <2>1, Zenon DEF ResolveDayOffset
<1>4. today \in 0..6
  BY MomentsAndNone, Zenon
<1>5. day # 0 => offset # None /\ days = offset
  <2>1. DaysUntil(DayKeywords[day], today) \in Nat
    BY <1>4, DaysRange, Zenon
  <2> QED
    BY <2>1, MomentsAndNone, Zenon
<1>6. said.says # {} => day # 0 \/ period # 0
  <2>1. SUFFICES ASSUME NEW kw \in said.says PROVE day # 0 \/ period # 0
    BY Zenon
  <2>2. kw \in Keyword
    <3> HIDE DEF RelativeMatch, ClockMatch, Keyword
    <3> QED
      BY DEF Text
  <2>3. Len(DayKeywords) \in Nat /\ Len(PeriodKeywords) \in Nat
    BY MomentsAndNone, Zenon
  <2>4. CASE \E i \in 1..Len(DayKeywords) : DayKeywords[i] = kw
    BY <2>3, <2>4, WrittenIsFound, Zenon
  <2>5. CASE \E i \in 1..Len(PeriodKeywords) : PeriodKeywords[i] = kw
    BY <2>3, <2>5, WrittenIsFound, Zenon
  <2> QED
    BY <2>2, <2>4, <2>5, Tables, Zenon
<1>7. Clocks(said) = {} => hour = IF period # 0 THEN 60 * PeriodHour[period] ELSE None
  BY <1>2, Zenon DEF ResolveHour
<1>8. Clocks(said) = {} /\ period # 0 => hour # None
  <2>1. SUFFICES ASSUME Clocks(said) = {}, period # 0 PROVE hour # None
    BY Zenon
  <2> QED
    BY <1>2, <1>7, <2>1, PeriodFound, Zenon
<1>9. Clocks(said) # {} => hour # None
  BY HourNamed
<1> DEFINE written == CASE Clocks(said) # {} -> hour
                        [] Clocks(said) = {} /\ period # 0 -> 60 * PeriodHour[period]
                        [] OTHER -> 600
<1>10. written = minute
  <2>1. CASE Clocks(said) # {}
    BY <1>9, <2>1, Zenon
  <2>2. CASE Clocks(said) = {} /\ period # 0
    BY <1>7, <1>8, <2>2, Zenon
  <2>3. CASE Clocks(said) = {} /\ ~(period # 0)
    BY <1>7, <2>3, Zenon
  <2> QED
    BY <2>1, <2>2, <2>3, Zenon
<1>11. AsWritten(said, moment) =
         IF said.says = {} /\ Clocks(said) = {} THEN NoTarget ELSE At(OnDay(moment, days, written))
  BY Zenon DEF AsWritten
<1>12. /\ offset = None /\ hour = None => ExtractScheduledTime(said, moment) = NoTarget
       /\ ~(offset = None /\ hour = None) =>
            ExtractScheduledTime(said, moment) = At(OnDay(moment, offset, minute))
  BY <1>3, ZenonT(40) DEF ExtractScheduledTime
<1>13. CASE said.says = {} /\ Clocks(said) = {}
  <2>1. \A kw : ~Mentions(said, kw)
    BY <1>13, Zenon DEF Mentions
  <2>2. \A keywords : FirstIn(keywords, said) = 0
    <3>1. \A keywords : {i \in 1..Len(keywords) : Mentions(said, keywords[i])} = {}
      BY <2>1, Zenon
    <3> QED
      BY <3>1, Zenon DEF FirstIn, SelectInSeq
  <2>3. offset = None /\ hour = None
    BY <1>1, <1>2, <1>7, <1>13, <2>2, Zenon
  <2> QED
    BY <1>11, <1>12, <1>13, <2>3, Zenon
<1>14. CASE ~(said.says = {} /\ Clocks(said) = {})
  <2>1. ~(offset = None /\ hour = None)
    BY <1>5, <1>6, <1>8, <1>9, <1>14, Zenon
  <2>2. OnDay(moment, offset, minute) = OnDay(moment, days, minute)
    <3>1. CASE day # 0
      BY <1>5, <3>1, Zenon
    <3>2. CASE day = 0
      <4>1. offset = None /\ days = 0
        BY <3>2, Zenon
      <4>2. \A n : OnDay(moment, None, n) = OnDay(moment, 0, n)
        <5>1. ~(None > 0) /\ ~(0 > 0) /\ None <= 0 /\ 0 <= 0
          BY MomentsAndNone, Zenon
        <5> QED
          BY <5>1, Zenon DEF OnDay
      <4> HIDE DEF minute, offset, days
      <4> QED
        BY <4>1, <4>2, Zenon
    <3> QED
      BY <3>1, <3>2
  <2> HIDE DEF minute, offset, days, written, hour
  <2>3. ExtractScheduledTime(said, moment) = At(OnDay(moment, offset, minute))
    BY <1>12, <2>1, Zenon
  <2>4. AsWritten(said, moment) = At(OnDay(moment, days, minute))
    BY <1>10, <1>11, <1>14, Zenon
  <2> QED
    BY <2>2, <2>3, <2>4, Zenon
<1> QED
  BY <1>13, <1>14, Zenon

\* However far the target, the delay is a minute to a week.
LEMMA MinutesRange ==
  ASSUME NEW target \in Target, NEW moment \in Int
  PROVE  MinutesUntil(target, moment) \in 1..WeekMinutes
<1> DEFINE n == (IF target.kind = "relative" THEN target.at ELSE target.at - moment) - 1
<1>1. n \in Int
  BY DEF Target
<1>2. MinutesUntil(target, moment) = Clamp(1, n, WeekMinutes)
  BY Zenon DEF MinutesUntil
<1> HIDE DEF n
<1>3. Clamp(1, n, WeekMinutes) \in 1..WeekMinutes
  <2>1. 1 \in Int /\ WeekMinutes \in Int /\ 1 <= WeekMinutes
    BY Numbers
  <2> QED
    BY <1>1, <2>1, ClampRange, Zenon
<1> QED
  BY <1>2, <1>3, Zenon


-----------------------------------------------------------------------------
(* One decision. *)

\* What the model's answer and the time in the message make together.
LEMMA ClassificationType ==
  ASSUME NEW raw \in Raw, NEW regex \in Target, NEW moment \in Int
  PROVE  \E t \in Temperature, n \in Int :
           /\ Classification(raw, regex, moment) = [temp |-> t, minutes |-> n]
           /\ raw.temp = "STOP" /\ regex.kind = "none" => t = "STOP"
<1> DEFINE temp == IF regex.kind # "none" THEN "SCHEDULED"
                   ELSE IF raw.temp \in Temperature THEN raw.temp ELSE "WARM"
           time == IF raw.horario.kind # "none" THEN raw.horario ELSE regex
           minutes == CASE temp # "SCHEDULED" \/ time.kind = "none" -> raw.minutes
                        [] temp = "SCHEDULED" /\ time.kind = "invalid" -> Max({60, raw.minutes})
                        [] OTHER -> MinutesUntil(time, moment)
<1>1. temp \in Temperature /\ (raw.temp = "STOP" /\ regex.kind = "none" => temp = "STOP")
  BY DEF Temperature
<1>2. raw.horario \in Target /\ raw.minutes \in Int
  BY StrategistAssumption DEF Raw
<1>3. time \in Target
  BY <1>2
<1>4. MinutesUntil(time, moment) \in Int
  <2> HIDE DEF time
  <2>1. PICK n \in 1..WeekMinutes : n = MinutesUntil(time, moment)
    BY <1>3, MinutesRange, Zenon
  <2>2. n \in Int
    BY Numbers
  <2> QED
    BY <2>1, <2>2, Zenon
<1>5. Max({60, raw.minutes}) \in Int
  <2> DEFINE n == raw.minutes
  <2>1. n \in Int
    BY <1>2
  <2> HIDE DEF n
  <2>2. \E x \in {60, n} : \A y \in {60, n} : x >= y
    <3>1. CASE n >= 60
      BY <3>1, <2>1
    <3>2. CASE ~(n >= 60)
      BY <3>2, <2>1
    <3> QED
      BY <3>1, <3>2
  <2>3. Max({60, n}) \in {60, n}
    BY <2>2, Zenon DEF Max
  <2>4. 60 \in Int
    OBVIOUS
  <2>5. Max({60, n}) \in Int
    BY <2>1, <2>3, <2>4, Zenon
  <2> QED
    BY <2>5 DEF n
<1>6. minutes \in Int
  <2> HIDE DEF temp, time
  <2>1. minutes = raw.minutes \/ minutes = Max({60, raw.minutes}) \/ minutes = MinutesUntil(time, moment)
    BY Zenon
  <2> HIDE DEF minutes
  <2> QED
    BY <2>1, <1>2, <1>4, <1>5, Zenon
<1>7. Classification(raw, regex, moment) = [temp |-> temp, minutes |-> minutes]
  BY Zenon DEF Classification
<1> HIDE DEF temp, time, minutes
<1> QED
  BY <1>1, <1>6, <1>7, Zenon

\* After three attempts a delay asked for is longer than an hour.
LEMMA EscalateType ==
  ASSUME NEW t \in Temperature, NEW n \in Int, NEW tries \in Nat
  PROVE  \E u \in Temperature, k \in Int :
           /\ Escalate([temp |-> t, minutes |-> n], tries) = [temp |-> u, minutes |-> k]
           /\ t = "STOP" => u = "STOP"
           /\ tries >= 3 /\ u = "SCHEDULED" => k > 60
<1> DEFINE c == [temp |-> t, minutes |-> n]
<1>0. c.temp = t /\ c.minutes = n
  OBVIOUS
<1>1. CASE tries < 3 \/ t \in {"STOP", "HOT"}
  <2>1. Escalate(c, tries) = c
    <3>1. c.temp \in {"STOP", "HOT"} => ~(tries >= 3 /\ c.temp = "SCHEDULED") /\ c.temp \notin {"WARM", "COLD"}
      BY <1>0
    <3>2. tries < 3 => ~(tries >= 3)
      OBVIOUS
    <3> HIDE DEF c
    <3> QED
      BY <1>0, <1>1, <3>1, <3>2, Zenon DEF Escalate
  <2>2. tries >= 3 => t # "SCHEDULED"
    BY <1>1
  <2> QED
    BY <2>1, <2>2
<1>2. CASE tries >= 3 /\ t = "SCHEDULED"
  <2>1. ~(tries < 3 \/ c.temp \in {"STOP", "HOT"}) /\ c.temp \notin {"WARM", "COLD"}
    BY <1>0, <1>2
  <2>2. Escalate(c, tries) = IF n <= 60 THEN [temp |-> "WARM", minutes |-> 0] ELSE c
    <3> HIDE DEF c
    <3> QED
      BY <1>0, <1>2, <2>1, Zenon DEF Escalate
  <2>3. CASE n <= 60
    <3>1. "WARM" \in Temperature /\ 0 \in Int /\ "WARM" # "SCHEDULED" /\ t # "STOP"
      BY <1>2 DEF Temperature
    <3>2. Escalate(c, tries) = [temp |-> "WARM", minutes |-> 0]
      BY <2>2, <2>3, Zenon
    <3> QED
      BY <3>1, <3>2, Zenon
  <2>4. CASE ~(n <= 60)
    <3>1. n > 60
      BY <2>4
    <3>2. Escalate(c, tries) = c
      BY <2>2, <2>4, Zenon
    <3> QED
      BY <3>1, <3>2, Zenon
  <2> QED
    BY <2>3, <2>4
<1>3. CASE tries >= 3 /\ t \in {"WARM", "COLD"}
  <2> DEFINE k == IF n = 0 THEN 240 ELSE 2 * n
  <2>1. ~(tries < 3 \/ c.temp \in {"STOP", "HOT"}) /\ c.temp # "SCHEDULED"
    BY <1>0, <1>3
  <2>2. Escalate(c, tries) = [temp |-> t, minutes |-> k]
    <3> HIDE DEF c
    <3> QED
      BY <1>0, <1>3, <2>1, Zenon DEF Escalate
  <2>3. k \in Int /\ t # "SCHEDULED"
    BY <1>3
  <2> HIDE DEF k
  <2> QED
    BY <2>2, <2>3, Zenon
<1>4. tries < 3 \/ tries >= 3
  OBVIOUS
<1> QED
  BY <1>1, <1>2, <1>3, <1>4 DEF Temperature


\* The delay of each temperature; only one that was asked for is under a quarter of an hour.
LEMMA DelayRange ==
  ASSUME NEW t \in Temperature, NEW n \in Int
  PROVE  \E d \in Nat : /\ Delay([temp |-> t, minutes |-> n]) = d
                        /\ Limits(t, d)
                        /\ 0 < d /\ d < 15 => t = "SCHEDULED" /\ n < 15
<1> DEFINE c == [temp |-> t, minutes |-> n]
<1>0. c.temp = t /\ c.minutes = n
  OBVIOUS
<1> HIDE DEF c
<1>1. CASE t = "HOT"
  <2>1. Delay(c) = Clamp(15, OrDefault(n, 30), 60)
    <3>1. c.temp = "HOT" /\ ~(c.temp = "WARM") /\ ~(c.temp = "COLD") /\ ~(c.temp = "STOP") /\ ~(c.temp = "SCHEDULED")
      BY <1>0, <1>1
    <3> QED
      BY <1>0, <3>1, SMT DEF Delay
  <2>2. PICK m \in Int : m = OrDefault(n, 30)
    BY DEF OrDefault
  <2>3. PICK d \in 15..60 : d = Clamp(15, m, 60)
    BY DEF Clamp
  <2>4. d \in Nat /\ Limits(t, d) /\ ~(d < 15)
    BY <1>1, <2>3 DEF Limits
  <2>5. Delay(c) = d
    BY <2>1, <2>2, <2>3, Zenon
  <2> HIDE DEF Limits
  <2> QED
    BY <2>4, <2>5, Zenon DEF c
<1>2. CASE t = "WARM"
  <2>1. Delay(c) = Clamp(60, OrDefault(n, 90), 180)
    <3>1. c.temp = "WARM" /\ ~(c.temp = "HOT") /\ ~(c.temp = "COLD") /\ ~(c.temp = "STOP") /\ ~(c.temp = "SCHEDULED")
      BY <1>0, <1>2
    <3> QED
      BY <1>0, <3>1, SMT DEF Delay
  <2>2. PICK m \in Int : m = OrDefault(n, 90)
    BY DEF OrDefault
  <2>3. PICK d \in 60..180 : d = Clamp(60, m, 180)
    BY DEF Clamp
  <2>4. d \in Nat /\ Limits(t, d) /\ ~(d < 15)
    BY <1>2, <2>3 DEF Limits
  <2>5. Delay(c) = d
    BY <2>1, <2>2, <2>3, Zenon
  <2> HIDE DEF Limits
  <2> QED
    BY <2>4, <2>5, Zenon DEF c
<1>3. CASE t = "COLD"
  <2>1. Delay(c) = Clamp(720, OrDefault(n, 1080), 1440)
    <3>1. c.temp = "COLD" /\ ~(c.temp = "HOT") /\ ~(c.temp = "WARM") /\ ~(c.temp = "STOP") /\ ~(c.temp = "SCHEDULED")
      BY <1>0, <1>3
    <3> QED
      BY <1>0, <3>1, SMT DEF Delay
  <2>2. PICK m \in Int : m = OrDefault(n, 1080)
    BY DEF OrDefault
  <2>3. PICK d \in 720..1440 : d = Clamp(720, m, 1440)
    BY DEF Clamp
  <2>4. d \in Nat /\ Limits(t, d) /\ ~(d < 15)
    BY <1>3, <2>3 DEF Limits
  <2>5. Delay(c) = d
    BY <2>1, <2>2, <2>3, ZenonT(40)
  <2> HIDE DEF Limits
  <2> QED
    BY <2>4, <2>5, ZenonT(40) DEF c
<1>4. CASE t = "STOP"
  <2>1. Delay(c) = 0
    <3>1. c.temp = "STOP" /\ ~(c.temp = "HOT") /\ ~(c.temp = "WARM") /\ ~(c.temp = "COLD") /\ ~(c.temp = "SCHEDULED")
      BY <1>0, <1>4
    <3> QED
      BY <1>0, <3>1, SMT DEF Delay
  <2>2. 0 \in Nat /\ Limits(t, 0) /\ ~(0 < 0)
    BY <1>4 DEF Limits
  <2> HIDE DEF Limits
  <2> QED
    BY <2>1, <2>2, Zenon DEF c
<1>5. CASE t = "SCHEDULED"
  <2>1. Delay(c) = Clamp(1, n, WeekMinutes)
    <3>1. c.temp = "SCHEDULED" /\ ~(c.temp = "HOT") /\ ~(c.temp = "WARM") /\ ~(c.temp = "COLD") /\ ~(c.temp = "STOP")
      BY <1>0, <1>5
    <3> QED
      BY <1>0, <3>1, SMT DEF Delay
  <2>2. PICK d \in 1..WeekMinutes : d = Clamp(1, n, WeekMinutes)
    BY SMTT(30), Numbers DEF Clamp
  <2>3. d < 15 => n < 15
    BY <2>2, Numbers DEF Clamp
  <2>4. d \in Nat /\ Limits(t, d)
    <3>1. d \in Nat
      BY Numbers
    <3>2. t # "HOT" /\ t # "WARM" /\ t # "COLD"
      BY <1>5
    <3> QED
      BY <3>1, <3>2, ZenonT(40) DEF Limits
  <2>5. Delay(c) = d
    BY <2>1, <2>2, Zenon
  <2> HIDE DEF Limits
  <2> QED
    BY <1>5, <2>3, <2>4, <2>5, Zenon DEF c
<1> QED
  BY <1>1, <1>2, <1>3, <1>4, <1>5, Zenon DEF Temperature

\* What a decision that plans a follow-up says.
LEMMA Decided ==
  ASSUME NEW said \in Text, NEW raw \in Raw \cup {NoAnswer}, NEW tries \in Nat, NEW moment \in Int
  PROVE  LET d == ClassifyLead(said, raw, tries, moment)
         IN  /\ ScheduleMinutes(d) \in Nat
             /\ ScheduleMinutes(d) > 0 =>
                  /\ tries < MaxAttempts
                  /\ ScheduleMinutes(d) = d.minutes /\ ~d.kill
                  /\ d.temp \in Temperature \ {"STOP"} /\ Limits(d.temp, d.minutes)
                  /\ raw # NoAnswer =>
                       /\ ~raw.kill
                       /\ raw.temp = "STOP" => ExtractScheduledTime(said, moment).kind # "none"
                       /\ d.minutes < 15 => tries < 3
<1> DEFINE d == ClassifyLead(said, raw, tries, moment)
           regex == ExtractScheduledTime(said, moment)
<1>a. MaxAttempts \in Nat /\ MaxAttempts > 0
  BY StrategistAssumption
<1> HIDE DEF d
<1>r. regex \in Target
  BY ExtractType
<1>1. CASE tries >= MaxAttempts
  <2>1. d = Lost
    <3>1. ~(tries < MaxAttempts)
      BY <1>1, <1>a
    <3> QED
      BY <1>1, <3>1, Zenon DEF ClassifyLead, d
  <2>2. d.kill
    BY <2>1, Zenon DEF Lost
  <2>3. ScheduleMinutes(d) = 0
    BY <2>2, Zenon DEF ScheduleMinutes
  <2>4. 0 \in Nat /\ ~(0 > 0)
    OBVIOUS
  <2> QED
    BY <2>3, <2>4, Zenon DEF d
<1>2. CASE tries < MaxAttempts /\ raw = NoAnswer
  <2>1. d = FallbackDecision(regex, tries, moment)
    <3>1. ~(tries >= MaxAttempts)
      BY <1>2, <1>a
    <3> QED
      BY <1>2, <3>1, Zenon DEF ClassifyLead, d
  <2>2. CASE regex.kind # "none"
    <3>1. PICK n \in 1..WeekMinutes : n = MinutesUntil(regex, moment)
      BY <1>r, MinutesRange, Zenon
    <3>2. d.temp = "SCHEDULED" /\ d.minutes = n /\ d.kill = FALSE
      BY <2>1, <2>2, <3>1, Zenon DEF FallbackDecision
    <3>3. n \in Nat /\ n > 0 /\ Limits("SCHEDULED", n) /\ ~(n <= 0)
      BY Numbers DEF Limits
    <3>4. ScheduleMinutes(d) = n
      BY <3>2, <3>3, Zenon DEF ScheduleMinutes
    <3>5. "SCHEDULED" \in Temperature \ {"STOP"}
      BY DEF Temperature
    <3> QED
      BY <1>2, <3>2, <3>3, <3>4, <3>5, Zenon DEF d
  <2>3. CASE regex.kind = "none"
    <3> DEFINE n == IF tries >= 3 THEN 240 ELSE 90
    <3>2. d.temp = "WARM" /\ d.minutes = n /\ d.kill = FALSE
      BY <2>1, <2>3, Zenon DEF FallbackDecision
    <3>3. n \in Nat /\ n > 0 /\ Limits("WARM", n) /\ ~(n <= 0)
      BY DEF Limits
    <3> HIDE DEF n
    <3>4. ScheduleMinutes(d) = n
      BY <3>2, <3>3, Zenon DEF ScheduleMinutes
    <3>5. "WARM" \in Temperature \ {"STOP"}
      BY DEF Temperature
    <3> QED
      BY <1>2, <3>2, <3>3, <3>4, <3>5, Zenon DEF d
  <2> QED
    BY <2>2, <2>3, Zenon
<1>3. CASE tries < MaxAttempts /\ raw # NoAnswer
  <2>0. raw \in Raw
    BY <1>3
  <2>1. PICK t \in Temperature, n \in Int :
          /\ Classification(raw, regex, moment) = [temp |-> t, minutes |-> n]
          /\ raw.temp = "STOP" /\ regex.kind = "none" => t = "STOP"
    BY <1>r, <2>0, ClassificationType, Zenon
  <2>2. PICK u \in Temperature, k \in Int :
          /\ Escalate([temp |-> t, minutes |-> n], tries) = [temp |-> u, minutes |-> k]
          /\ t = "STOP" => u = "STOP"
          /\ tries >= 3 /\ u = "SCHEDULED" => k > 60
    BY EscalateType, ZenonT(40)
  <2>3. PICK e \in Nat : /\ Delay([temp |-> u, minutes |-> k]) = e
                         /\ Limits(u, e)
                         /\ 0 < e /\ e < 15 => u = "SCHEDULED" /\ k < 15
    BY DelayRange, Zenon
  <2>4. d = [temp |-> u, minutes |-> e, kill |-> raw.kill \/ u = "STOP"]
    <3>1. ~(tries >= MaxAttempts)
      BY <1>3, <1>a
    <3>2. d = ValidateDecision(raw, regex, tries, moment)
      BY <1>3, <3>1, Zenon DEF ClassifyLead, d
    <3>3. ValidateDecision(raw, regex, tries, moment)
            = [temp |-> u, minutes |-> e, kill |-> raw.kill \/ u = "STOP"]
      <4> DEFINE c == Escalate(Classification(raw, regex, moment), tries)
      <4>1. c = [temp |-> u, minutes |-> k]
        BY <2>1, <2>2, Zenon
      <4>3. ValidateDecision(raw, regex, tries, moment)
              = [temp |-> c.temp, minutes |-> Delay(c), kill |-> raw.kill \/ c.temp = "STOP"]
        BY <3>1, Zenon DEF ValidateDecision
      <4> HIDE DEF c
      <4>4. c.temp = u
        BY <4>1
      <4>5. Delay(c) = e
        BY <4>1, <2>3, Zenon
      <4> QED
        BY <4>3, <4>4, <4>5, Zenon
    <3> QED
      BY <3>2, <3>3, Zenon
  <2>5. d.temp = u /\ d.minutes = e /\ (d.kill <=> raw.kill \/ u = "STOP")
    BY <2>4, Zenon
  <2>6. ScheduleMinutes(d) = IF d.kill \/ d.minutes <= 0 THEN 0 ELSE d.minutes
    BY Zenon DEF ScheduleMinutes
  <2>7. CASE d.kill \/ e <= 0
    <3>1. ScheduleMinutes(d) = 0
      BY <2>5, <2>6, <2>7, Zenon
    <3>2. 0 \in Nat /\ ~(0 > 0)
      OBVIOUS
    <3> QED
      BY <3>1, <3>2, Zenon DEF d
  <2>8. CASE ~(d.kill \/ e <= 0)
    <3>1. ScheduleMinutes(d) = e
      BY <2>5, <2>6, <2>8, Zenon
    <3>2. e > 0 /\ (e < 15 => tries < 3)
      BY <2>2, <2>3, <2>8
    <3>3. u # "STOP" /\ ~raw.kill /\ ~d.kill
      BY <2>5, <2>8, Zenon
    <3>4. raw.temp = "STOP" => regex.kind # "none"
      BY <2>1, <2>2, <3>3, Zenon
    <3> QED
      BY <1>3, <2>3, <2>5, <3>1, <3>2, <3>3, <3>4, Zenon DEF d
  <2> QED
    BY <2>7, <2>8, Zenon
<1>4. tries >= MaxAttempts \/ tries < MaxAttempts
  BY <1>a
<1> QED
  BY <1>1, <1>2, <1>3, <1>4, Zenon

\* A time in the message is what the decision keeps, if the model names no other.
LEMMA NamedTimeIsDecided ==
  ASSUME NEW said \in Text, NEW raw \in Raw \cup {NoAnswer}, NEW tries \in Nat, NEW moment \in Int,
         raw.horario.kind = "none",
         ExtractScheduledTime(said, moment).kind \in {"relative", "absolute"}
  PROVE  LET d == ClassifyLead(said, raw, tries, moment)
         IN  ScheduleMinutes(d) > 0 /\ d.temp = "SCHEDULED" =>
               ScheduleMinutes(d) = MinutesUntil(ExtractScheduledTime(said, moment), moment)
<1> DEFINE d == ClassifyLead(said, raw, tries, moment)
           regex == ExtractScheduledTime(said, moment)
           n == MinutesUntil(regex, moment)
<1>a. MaxAttempts \in Nat /\ MaxAttempts > 0
  BY StrategistAssumption
<1>b. regex.kind # "none" /\ regex.kind # "invalid" /\ raw.horario.kind = "none"
  <2>1. "relative" # "none" /\ "absolute" # "none" /\ "relative" # "invalid" /\ "absolute" # "invalid"
    OBVIOUS
  <2> QED
    BY <2>1, Zenon
<1>c. regex \in Target
  BY ExtractType
<1> HIDE DEF d, regex
<1>d. n \in 1..WeekMinutes /\ n \in Int /\ n > 0 /\ ~(n <= 0) /\ n <= WeekMinutes
  <2>1. PICK k \in 1..WeekMinutes : k = n
    BY <1>c, MinutesRange, Zenon
  <2>2. k \in Int /\ k > 0 /\ ~(k <= 0) /\ k <= WeekMinutes
    BY Numbers
  <2> QED
    BY <2>1, <2>2, Zenon
<1> HIDE DEF n
<1>1. CASE tries >= MaxAttempts
  <2>1. d = Lost
    <3>1. ~(tries < MaxAttempts)
      BY <1>1, <1>a
    <3> QED
      BY <1>1, <3>1, Zenon DEF ClassifyLead, d
  <2>2. d.kill
    BY <2>1, Zenon DEF Lost
  <2>3. ScheduleMinutes(d) = 0 /\ ~(0 > 0)
    <3>1. ~(0 > 0)
      OBVIOUS
    <3> QED
      BY <2>2, <3>1, Zenon DEF ScheduleMinutes
  <2> QED
    BY <2>3, Zenon DEF d
<1>2. CASE tries < MaxAttempts /\ raw = NoAnswer
  <2>1. d = FallbackDecision(regex, tries, moment)
    <3>1. ~(tries >= MaxAttempts)
      BY <1>2, <1>a
    <3> QED
      BY <1>2, <3>1, Zenon DEF ClassifyLead, d, regex
  <2>2. d.minutes = n /\ d.kill = FALSE
    BY <1>b, <2>1, Zenon DEF FallbackDecision, n
  <2>3. ScheduleMinutes(d) = n
    BY <1>d, <2>2, Zenon DEF ScheduleMinutes
  <2> QED
    BY <2>3, Zenon DEF d, n, regex
<1>3. CASE tries < MaxAttempts /\ raw # NoAnswer
  <2> DEFINE c == [temp |-> "SCHEDULED", minutes |-> n]
             e == Escalate(c, tries)
  <2>1. c.temp = "SCHEDULED" /\ c.minutes = n
    OBVIOUS
  <2>2. Classification(raw, regex, moment) = c
    BY <1>b, Zenon DEF Classification, n
  <2> HIDE DEF c
  <2>3. e = c \/ e.temp = "WARM"
    <3>1. CASE tries < 3
      <4>1. ~(tries >= 3)
        BY <3>1
      <4> QED
        BY <3>1, <4>1, Zenon DEF Escalate
    <3>2. CASE tries >= 3 /\ ~(tries < 3)
      <4>1. ~(c.temp \in {"STOP", "HOT"}) /\ ~(c.temp \in {"WARM", "COLD"})
        BY <2>1
      <4>2. e = IF c.minutes <= 60 THEN [temp |-> "WARM", minutes |-> 0] ELSE c
        BY <2>1, <3>2, <4>1, Zenon DEF Escalate
      <4>3. [temp |-> "WARM", minutes |-> 0].temp = "WARM"
        OBVIOUS
      <4> QED
        BY <4>2, <4>3, Zenon
    <3> QED
      BY <3>1, <3>2
  <2>4. d = [temp |-> e.temp, minutes |-> Delay(e), kill |-> raw.kill \/ e.temp = "STOP"]
    <3>1. ~(tries >= MaxAttempts)
      BY <1>3, <1>a
    <3>2. d = ValidateDecision(raw, regex, tries, moment)
      BY <1>3, <3>1, Zenon DEF ClassifyLead, d, regex
    <3> QED
      BY <2>2, <3>1, <3>2, Zenon DEF ValidateDecision
  <2> HIDE DEF e
  <2>5. d.temp = e.temp /\ d.minutes = Delay(e)
    BY <2>4, Zenon
  <2>6. SUFFICES ASSUME ScheduleMinutes(d) > 0, d.temp = "SCHEDULED"
                 PROVE  ScheduleMinutes(d) = n
    BY Zenon DEF d, n, regex
  <2>7. e = c
    <3>1. "WARM" # "SCHEDULED"
      OBVIOUS
    <3> QED
      BY <2>3, <2>5, <2>6, <3>1, Zenon
  <2>8. Delay(c) = n
    <3>1. ~(c.temp = "HOT") /\ ~(c.temp = "WARM") /\ ~(c.temp = "COLD") /\ ~(c.temp = "STOP")
      BY <2>1
    <3>2. Delay(c) = Clamp(1, n, WeekMinutes)
      BY <2>1, <3>1, SMT DEF Delay
    <3>3. Clamp(1, n, WeekMinutes) = n
      BY <1>d, Numbers DEF Clamp
    <3> QED
      BY <3>2, <3>3
  <2>9. ScheduleMinutes(d) = 0 \/ ScheduleMinutes(d) = d.minutes
    BY Zenon DEF ScheduleMinutes
  <2>10. ~(0 > 0)
    OBVIOUS
  <2> QED
    BY <2>5, <2>6, <2>7, <2>8, <2>9, <2>10, Zenon
<1>4. tries >= MaxAttempts \/ tries < MaxAttempts
  BY <1>a
<1> QED
  BY <1>1, <1>2, <1>3, <1>4, Zenon

-----------------------------------------------------------------------------
(* The turns. *)

\* A turn that plans what it has decided.
LEMMA TurnPlans ==
  ASSUME text \in Text, attempts \in Nat, NEW moment \in Int,
         NEW raw \in Raw \cup {NoAnswer},
         text' = text, now' = moment, answer' = Gist(raw),
         decision' = ClassifyLead(text, raw, attempts, moment),
         planned' \in {0, ScheduleMinutes(decision')}
  PROVE  /\ planned' \in Nat
         /\ CadenceKept' /\ StopIsRespected'
         /\ planned' > 0 => attempts < MaxAttempts
         /\ planned' > 0 /\ planned' < 15 /\ raw # NoAnswer => attempts < 3
<1> DEFINE d == ClassifyLead(text, raw, attempts, moment)
<1>1. /\ ScheduleMinutes(d) \in Nat
      /\ ScheduleMinutes(d) > 0 =>
           /\ attempts < MaxAttempts
           /\ ScheduleMinutes(d) = d.minutes /\ ~d.kill
           /\ d.temp \in Temperature \ {"STOP"} /\ Limits(d.temp, d.minutes)
           /\ raw # NoAnswer =>
                /\ ~raw.kill
                /\ raw.temp = "STOP" => ExtractScheduledTime(text, moment).kind # "none"
                /\ d.minutes < 15 => attempts < 3
  BY Decided, Zenon
<1> HIDE DEF d
<1>2. decision' = d
  BY DEF d
<1>3. ~(0 > 0) /\ 0 \in Nat
  OBVIOUS
<1>4. answer'.kill = raw.kill /\ answer'.temp = raw.temp
  BY Zenon DEF Gist
<1>5. CASE planned' = 0
  BY <1>3, <1>5, Zenon DEF CadenceKept, StopIsRespected
<1>6. CASE planned' = ScheduleMinutes(d) /\ planned' > 0
  <2>1. planned' = d.minutes
    BY <1>1, <1>6, Zenon
  <2>2. CadenceKept'
    <3>1. d.temp \in Temperature \ {"STOP"} /\ Limits(d.temp, planned')
      BY <1>1, <1>6, <2>1, Zenon
    <3>2. ~d.kill
      BY <1>1, <1>6, Zenon
    <3> QED
      BY <1>2, <3>1, <3>2, Zenon DEF CadenceKept
  <2>3. StopIsRespected'
    <3>1. CASE raw = NoAnswer
      <4>1. raw.kill = FALSE /\ raw.temp # "STOP"
        BY <3>1, Zenon DEF NoAnswer
      <4> QED
        BY <1>4, <4>1, Zenon DEF StopIsRespected
    <3>2. CASE raw # NoAnswer
      BY <1>1, <1>4, <1>6, <3>2, Zenon DEF StopIsRespected
    <3> QED
      BY <3>1, <3>2
  <2> QED
    BY <1>1, <1>6, <2>1, <2>2, <2>3, Zenon
<1>7. CASE planned' = ScheduleMinutes(d) /\ ~(planned' > 0)
  BY <1>1, <1>7, Zenon DEF CadenceKept, StopIsRespected
<1> QED
  BY <1>2, <1>5, <1>6, <1>7, Zenon

\* The counter is one turn behind the decision, and only a decision below three plans
\* a quick follow-up; each quick one was counted since the counter was last cleared.
Types ==
  /\ text \in Text
  /\ now \in Int
  /\ attempts \in Nat
  /\ quick \in Nat
  /\ planned \in Nat
Counted ==
  /\ attempts <= MaxAttempts
  /\ planned > 0 => attempts < MaxAttempts
  /\ quick <= attempts
Quiet == due => quick = 0
QuickPlans == planned > 0 /\ planned < 15 => failed \/ attempts <= 3
QuickEnds == quick <= 4 \/ failed

CadenceInv ==
  /\ Types /\ Counted /\ Quiet /\ QuickPlans /\ QuickEnds
  /\ CadenceKept /\ StopIsRespected

\* What the constants are.
LEMMA Constants ==
  /\ MaxAttempts \in Nat /\ MaxAttempts > 0
  /\ \A said \in Texts : said \in Text
  /\ \A moment \in Moments : moment \in Int
<1>1. Moments \subseteq Int
  BY StrategistAssumption, Numbers
<1> QED
  BY <1>1, StrategistAssumption

\* Nothing has been planned yet.
LEMMA CadenceInit == Init => CadenceInv
<1> SUFFICES ASSUME Init PROVE CadenceInv
  OBVIOUS
<1>1. Types
  <2>1. Silence \in Text
    BY DEF Silence, Text
  <2>2. now \in Int
    BY Constants DEF Init
  <2> QED
    BY <2>1, <2>2 DEF Init, Types
<1>2. planned = 0 /\ quick = 0 /\ attempts = 0
  BY DEF Init
<1>3. Counted /\ Quiet /\ QuickPlans /\ QuickEnds
  BY <1>2, Constants DEF Counted, Quiet, QuickPlans, QuickEnds
<1>4. ~(planned > 0)
  BY <1>2
<1>5. CadenceKept /\ StopIsRespected
  BY <1>4, Zenon DEF CadenceKept, StopIsRespected
<1> QED
  BY <1>1, <1>3, <1>5, Zenon DEF CadenceInv

\* Every turn keeps the invariant.
LEMMA CadenceStep == CadenceInv /\ [Next]_vars => CadenceInv'
<1> SUFFICES ASSUME CadenceInv, [Next]_vars PROVE CadenceInv'
  OBVIOUS
<1>t. Types /\ Counted /\ Quiet /\ QuickPlans /\ QuickEnds /\ CadenceKept /\ StopIsRespected
  BY Zenon DEF CadenceInv
<1>1. ASSUME NEW said \in Texts, NEW moment \in Moments, LeadWrites(said, moment)
      PROVE  CadenceInv'
  <2>1. planned' = 0 /\ quick' = 0 /\ attempts' = attempts /\ text' \in Text /\ now' \in Int
    BY <1>1, Constants DEF LeadWrites
  <2>2. Types' /\ Counted' /\ Quiet' /\ QuickPlans' /\ QuickEnds'
    BY <1>t, <2>1 DEF Types, Counted, Quiet, QuickPlans, QuickEnds
  <2>3. ~(planned' > 0)
    BY <2>1
  <2>4. CadenceKept' /\ StopIsRespected'
    BY <2>3, Zenon DEF CadenceKept, StopIsRespected
  <2> QED
    BY <2>2, <2>4, Zenon DEF CadenceInv
<1>2. ASSUME NEW raw \in Raw \cup {NoAnswer}, NEW engages \in BOOLEAN, InboundTurn(raw, engages)
      PROVE  CadenceInv'
  <2>1. /\ planned' \in Nat
        /\ CadenceKept' /\ StopIsRespected'
        /\ planned' > 0 => attempts < MaxAttempts
        /\ planned' > 0 /\ planned' < 15 /\ raw # NoAnswer => attempts < 3
    <3>1. text \in Text /\ attempts \in Nat /\ now \in Int
      BY <1>t DEF Types
    <3>2. text' = text /\ now' = now /\ answer' = Gist(raw)
      BY <1>2, Zenon DEF InboundTurn
    <3>3. decision' = ClassifyLead(text, raw, attempts, now)
      BY <1>2, Zenon DEF InboundTurn
    <3>4. planned' \in {0, ScheduleMinutes(decision')}
      BY <1>2, Zenon DEF InboundTurn
    <3> QED
      BY <3>1, <3>2, <3>3, <3>4, TurnPlans
  <2>2. text' = text /\ now' = now /\ quick' = quick /\ quick = 0 /\ attempts' \in {0, attempts}
    BY <1>t, <1>2 DEF InboundTurn, Quiet
  <2>3. ~failed' => raw # NoAnswer
    BY <1>2, Zenon DEF InboundTurn
  <2>4. Types' /\ Counted' /\ Quiet'
    BY <1>t, <2>1, <2>2, Constants DEF Types, Counted, Quiet
  <2>5. QuickPlans' /\ QuickEnds'
    BY <1>t, <2>1, <2>2, <2>3 DEF Types, QuickPlans, QuickEnds
  <2> QED
    BY <2>1, <2>4, <2>5, Zenon DEF CadenceInv
<1>3. ASSUME NEW raw \in Raw \cup {NoAnswer}, NEW moment \in Moments, FollowUpTurn(raw, moment)
      PROVE  CadenceInv'
  <2>1. /\ planned' \in Nat
        /\ CadenceKept' /\ StopIsRespected'
        /\ planned' > 0 => attempts < MaxAttempts
        /\ planned' > 0 /\ planned' < 15 /\ raw # NoAnswer => attempts < 3
    <3>1. text \in Text /\ attempts \in Nat /\ moment \in Int
      BY <1>t, Constants DEF Types
    <3>2. text' = text /\ now' = moment /\ answer' = Gist(raw)
      BY <1>3, Zenon DEF FollowUpTurn
    <3>3. decision' = ClassifyLead(text, raw, attempts, moment)
      BY <1>3, Zenon DEF FollowUpTurn
    <3>4. planned' \in {0, ScheduleMinutes(decision')}
      BY <1>3, Zenon DEF FollowUpTurn
    <3> QED
      BY <3>1, <3>2, <3>3, <3>4, TurnPlans
  <2>2. /\ ~due /\ planned > 0
        /\ text' = text /\ now' = moment /\ attempts' = attempts + 1 /\ due' = due
        /\ attempts' >= MaxAttempts => planned' = 0
        /\ planned < 15 => quick' = quick + 1
        /\ ~(planned < 15) => quick' = quick
    <3>1. /\ ~due /\ planned > 0 /\ text' = text /\ now' = moment /\ due' = due
          /\ attempts' = attempts + 1
          /\ attempts' >= MaxAttempts => planned' = 0
      BY <1>3, Zenon DEF FollowUpTurn
    <3>2. quick' = quick + (IF planned < 15 THEN 1 ELSE 0)
      BY <1>3, Zenon DEF FollowUpTurn
    <3>3. quick \in Nat /\ planned \in Nat
      BY <1>t DEF Types
    <3> QED
      BY <3>1, <3>2, <3>3
  <2>3. ~failed' => ~failed /\ raw # NoAnswer
    BY <1>3, Zenon DEF FollowUpTurn
  <2>4. Types'
    BY <1>t, <2>1, <2>2, Constants DEF Types
  <2>5. Counted' /\ Quiet'
    BY <1>t, <2>1, <2>2, Constants DEF Types, Counted, Quiet
  <2>6. QuickPlans'
    BY <1>t, <2>1, <2>2, <2>3 DEF Types, QuickPlans
  <2>7. QuickEnds'
    BY <1>t, <2>1, <2>2, <2>3 DEF Types, Counted, QuickPlans, QuickEnds
  <2> QED
    BY <2>1, <2>4, <2>5, <2>6, <2>7, Zenon DEF CadenceInv
<1>4. CASE ClearKillSwitch
  <2>1. /\ attempts' = 0 /\ quick' = 0
        /\ text' = text /\ now' = now /\ planned' = planned
    BY <1>4 DEF ClearKillSwitch
  <2>2. Types' /\ Counted' /\ Quiet' /\ QuickPlans' /\ QuickEnds'
    BY <1>t, <2>1, Constants DEF Types, Counted, Quiet, QuickPlans, QuickEnds
  <2>3. CadenceKept' /\ StopIsRespected'
    BY <1>t, <1>4, Zenon DEF ClearKillSwitch, CadenceKept, StopIsRespected
  <2> QED
    BY <2>2, <2>3, Zenon DEF CadenceInv
<1>5. CASE UNCHANGED vars
  <2>1. /\ text' = text /\ now' = now /\ attempts' = attempts /\ quick' = quick
        /\ planned' = planned /\ due' = due /\ failed' = failed
        /\ decision' = decision /\ answer' = answer
    BY <1>5, Zenon DEF vars
  <2> QED
    BY <1>t, <2>1, Zenon DEF CadenceInv, Types, Counted, Quiet, QuickPlans, QuickEnds,
      CadenceKept, StopIsRespected
<1> QED
  BY <1>1, <1>2, <1>3, <1>4, <1>5, Zenon DEF Next

\* The invariant holds in every behaviour.
LEMMA CadenceAlways == Spec => []CadenceInv
BY CadenceInit, CadenceStep, PTL DEF Spec

(***************************************************************************)
(* A planned follow-up keeps the limits of the temperature decided,        *)
(* whatever the model, the message and the escalation say.                 *)
(***************************************************************************)
THEOREM FollowUpsKeepCadence == Spec => []CadenceKept
<1>1. CadenceInv => CadenceKept
  BY Zenon DEF CadenceInv
<1> QED
  BY <1>1, CadenceAlways, PTL

(***************************************************************************)
(* Nothing is planned after the kill flag, nor after STOP unless the lead's*)
(* message names a time.                                                   *)
(***************************************************************************)
THEOREM StopsAreRespected == Spec => []StopIsRespected
<1>1. CadenceInv => StopIsRespected
  BY Zenon DEF CadenceInv
<1> QED
  BY <1>1, CadenceAlways, PTL

(***************************************************************************)
(* A silent lead gets at most four quick follow-ups, or as many as the cap *)
(* allows while the model fails, for every cap.                            *)
(***************************************************************************)
THEOREM QuickOnesEnd == Spec => []QuickFollowUpsEnd
<1>1. CadenceInv => QuickFollowUpsEnd
  <2> SUFFICES ASSUME CadenceInv PROVE QuickFollowUpsEnd
    OBVIOUS
  <2>1. Types /\ Counted /\ QuickEnds
    BY Zenon DEF CadenceInv
  <2>2. quick <= MaxAttempts
    BY <2>1, Constants DEF Types, Counted
  <2> QED
    BY <2>1, <2>2, Zenon DEF QuickEnds, QuickFollowUpsEnd
<1> QED
  BY <1>1, CadenceAlways, PTL

-----------------------------------------------------------------------------
(***************************************************************************)
(* The time a lead names, for any messages, answers and moments.  What the *)
(* follow-up is planned for is what was extracted when the decision was    *)
(* made, and the message and the moment stay what they were until the next *)
(* decision or the next message, which cancels the plan.                   *)
(***************************************************************************)

PlanInv ==
  planned > 0 /\ ~answer.names /\ decision.temp = "SCHEDULED"
    /\ ExtractScheduledTime(text, now).kind \in {"relative", "absolute"}
  => planned = MinutesUntil(ExtractScheduledTime(text, now), now)

MomentInv == text \in Text /\ now \in 0..WeekMinutes - 1

TimeInv == MomentInv /\ PlanInv

\* A turn plans for the time the message names.
LEMMA TurnPlansTime ==
  ASSUME text \in Text, attempts \in Nat, NEW moment \in Int,
         NEW raw \in Raw \cup {NoAnswer},
         text' = text, now' = moment, answer' = Gist(raw),
         decision' = ClassifyLead(text, raw, attempts, moment),
         planned' \in {0, ScheduleMinutes(decision')}
  PROVE  PlanInv'
<1> SUFFICES ASSUME planned' > 0, ~answer'.names, decision'.temp = "SCHEDULED",
                    ExtractScheduledTime(text, moment).kind \in {"relative", "absolute"}
             PROVE  planned' = MinutesUntil(ExtractScheduledTime(text, moment), moment)
  BY Zenon DEF PlanInv
<1>1. raw.horario.kind = "none"
  BY Zenon DEF Gist
<1>2. planned' = ScheduleMinutes(decision')
  <2>1. ~(0 > 0)
    OBVIOUS
  <2> QED
    BY <2>1, Zenon
<1> QED
  BY <1>1, <1>2, NamedTimeIsDecided, Zenon

\* No decision has been made yet, and the first message names nothing.
LEMMA TimeInit == Init => TimeInv
<1> SUFFICES ASSUME Init PROVE TimeInv
  OBVIOUS
<1>1. Silence \in Text
  BY DEF Silence, Text
<1>2. MomentInv
  BY <1>1, StrategistAssumption DEF Init, MomentInv
<1>3. ~(planned > 0)
  BY DEF Init
<1> QED
  BY <1>2, <1>3, Zenon DEF TimeInv, PlanInv

\* Every turn keeps it.
LEMMA TimeStep == CadenceInv /\ TimeInv /\ [Next]_vars => TimeInv'
<1> SUFFICES ASSUME CadenceInv, TimeInv, [Next]_vars PROVE TimeInv'
  OBVIOUS
<1>t. Types /\ MomentInv /\ PlanInv
  BY Zenon DEF CadenceInv, TimeInv
<1>m. text \in Text /\ now \in 0..WeekMinutes - 1 /\ now \in Int /\ attempts \in Nat
  BY <1>t DEF Types, MomentInv
<1>c. \A moment \in Moments : moment \in 0..WeekMinutes - 1
  BY StrategistAssumption
<1>1. ASSUME NEW said \in Texts, NEW moment \in Moments, LeadWrites(said, moment)
      PROVE  TimeInv'
  <2>1. text' = said /\ now' = moment /\ planned' = 0 /\ ~(0 > 0)
    BY <1>1 DEF LeadWrites
  <2>2. MomentInv'
    BY <1>c, <2>1, Constants, Zenon DEF MomentInv
  <2>3. PlanInv'
    BY <2>1, Zenon DEF PlanInv
  <2> QED
    BY <2>2, <2>3, Zenon DEF TimeInv
<1>2. ASSUME NEW raw \in Raw \cup {NoAnswer}, NEW engages \in BOOLEAN, InboundTurn(raw, engages)
      PROVE  TimeInv'
  <2>1. text' = text /\ now' = now /\ answer' = Gist(raw)
    BY <1>2, Zenon DEF InboundTurn
  <2>2. decision' = ClassifyLead(text, raw, attempts, now) /\ planned' \in {0, ScheduleMinutes(decision')}
    BY <1>2, Zenon DEF InboundTurn
  <2>3. PlanInv'
    BY <1>m, <2>1, <2>2, TurnPlansTime
  <2> QED
    BY <1>m, <2>1, <2>3, Zenon DEF TimeInv, MomentInv
<1>3. ASSUME NEW raw \in Raw \cup {NoAnswer}, NEW moment \in Moments, FollowUpTurn(raw, moment)
      PROVE  TimeInv'
  <2>1. text' = text /\ now' = moment /\ answer' = Gist(raw) /\ moment \in Int
    BY <1>3, Constants, Zenon DEF FollowUpTurn
  <2>2. decision' = ClassifyLead(text, raw, attempts, moment) /\ planned' \in {0, ScheduleMinutes(decision')}
    BY <1>3, Zenon DEF FollowUpTurn
  <2>3. PlanInv'
    BY <1>m, <2>1, <2>2, TurnPlansTime
  <2> QED
    BY <1>m, <1>c, <2>1, <2>3, Zenon DEF TimeInv, MomentInv
<1>4. CASE ClearKillSwitch \/ UNCHANGED vars
  <2>1. text' = text /\ now' = now /\ planned' = planned /\ decision' = decision /\ answer' = answer
    BY <1>4, Zenon DEF ClearKillSwitch, vars
  <2> QED
    BY <1>t, <2>1, Zenon DEF TimeInv, MomentInv, PlanInv
<1> QED
  BY <1>1, <1>2, <1>3, <1>4, Zenon DEF Next

\* The time planned for is the one that was extracted.
LEMMA TimeAlways == Spec => []TimeInv
BY TimeInit, TimeStep, CadenceAlways, PTL DEF Spec

\* The delay of a target that is less than a week away.
LEMMA DelayOfTarget ==
  ASSUME NEW at \in Int, NEW moment \in Int
  PROVE  /\ at > moment /\ at <= moment + WeekMinutes =>
              moment + MinutesUntil(At(at), moment) = IF at = moment + 1 THEN at ELSE at - 1
         /\ at \in 2..WeekMinutes => MinutesUntil(In(at), moment) = at - 1
<1>1. At(at).kind # "relative" /\ At(at).at = at /\ In(at).kind = "relative" /\ In(at).at = at
  BY DEF At, In
<1>2. MinutesUntil(At(at), moment) = Clamp(1, at - moment - 1, WeekMinutes)
  BY <1>1, Zenon DEF MinutesUntil
<1>3. MinutesUntil(In(at), moment) = Clamp(1, at - 1, WeekMinutes)
  BY <1>1, Zenon DEF MinutesUntil
<1>4. \A n \in Int : Clamp(1, n, WeekMinutes) = IF n < 1 THEN 1 ELSE IF n > 10080 THEN 10080 ELSE n
  BY Numbers DEF Clamp
<1>5. ASSUME at > moment, at <= moment + WeekMinutes
      PROVE  moment + MinutesUntil(At(at), moment) = IF at = moment + 1 THEN at ELSE at - 1
  <2> DEFINE n == at - moment - 1
  <2>1. n \in Int /\ n >= 0 /\ n < 10080 /\ (n < 1 <=> at = moment + 1)
    BY <1>5, Numbers
  <2>2. MinutesUntil(At(at), moment) = IF n < 1 THEN 1 ELSE n
    BY <1>2, <1>4, <2>1
  <2>3. CASE at = moment + 1
    BY <2>1, <2>2, <2>3
  <2>4. CASE at # moment + 1
    BY <2>1, <2>2, <2>4
  <2> QED
    BY <2>3, <2>4
<1>6. ASSUME at \in 2..WeekMinutes PROVE MinutesUntil(In(at), moment) = at - 1
  BY <1>3, <1>4, <1>6, Numbers
<1> QED
  BY <1>5, <1>6, Zenon

(***************************************************************************)
(* A time the lead names is kept to one minute before, is never over, and  *)
(* on the clock it is the hour that was named.                             *)
(***************************************************************************)
THEOREM NamedTimeIsKept == Spec => []TimeIsKept
<1>1. CadenceInv /\ TimeInv => TimeIsKept
  <2> SUFFICES ASSUME CadenceInv, TimeInv PROVE TimeIsKept
    OBVIOUS
  <2> DEFINE target == ExtractScheduledTime(text, now)
             kept == planned > 0 /\ ~answer.names /\ decision.temp = "SCHEDULED"
  <2>1. text \in Text /\ now \in Int /\ PlanInv
    BY Zenon DEF CadenceInv, Types, TimeInv
  <2>2. target \in Target
    BY <2>1, ExtractType, Zenon
  <2>3. ASSUME kept, target.kind = "absolute", target.at <= now + WeekMinutes
        PROVE  /\ target.at > now
               /\ now + planned = IF target.at = now + 1 THEN target.at ELSE target.at - 1
               /\ ResolveHour(text) # None => target.at % Day = ResolveHour(text)
    <3>1. /\ target.at \in Int /\ target.at > now
          /\ ResolveHour(text) # None => target.at % Day = ResolveHour(text)
      BY <2>1, <2>3, NamedTimeIsAhead, Zenon
    <3>2. planned = MinutesUntil(target, now)
      BY <2>1, <2>3, Zenon DEF PlanInv
    <3>3. target = At(target.at)
      <4> HIDE DEF target
      <4> QED
        BY <2>2, <2>3 DEF Target, At
    <3> HIDE DEF target
    <3>4. now + MinutesUntil(At(target.at), now) = IF target.at = now + 1 THEN target.at ELSE target.at - 1
      BY <2>1, <2>3, <3>1, DelayOfTarget, Zenon
    <3> QED
      BY <3>1, <3>2, <3>3, <3>4, Zenon
  <2>4. ASSUME kept, target.kind = "relative", target.at \in 2..WeekMinutes
        PROVE  planned = target.at - 1
    <3>1. planned = MinutesUntil(target, now)
      BY <2>1, <2>4, Zenon DEF PlanInv
    <3>2. target = In(target.at) /\ target.at \in Int
      <4> HIDE DEF target
      <4> QED
        BY <2>2, <2>4 DEF Target, In
    <3> HIDE DEF target
    <3> QED
      BY <2>1, <2>4, <3>1, <3>2, DelayOfTarget, Zenon
  <2> QED
    BY <2>3, <2>4, Zenon DEF TimeIsKept
<1> QED
  BY <1>1, CadenceAlways, TimeAlways, PTL

(***************************************************************************)
(* The time extracted is that of the keywords the lead wrote out, with the *)
(* two exceptions of the substrings.                                       *)
(***************************************************************************)
THEOREM TimeIsReadAsWritten == Spec => []TimeIsAsWritten
<1>1. TimeInv => TimeIsAsWritten
  BY ExtractedAsWritten, Zenon DEF TimeInv, MomentInv, TimeIsAsWritten
<1> QED
  BY <1>1, TimeAlways, PTL
=============================================================================
