---------------------------- MODULE FollowUp_proofs ----------------------------
(***************************************************************************)
(* For every number of attempts, messages and repeated calls: the types of *)
(* FollowUp and the end of a lead's follow-ups.  A plan made by the        *)
(* strategist is a promise about the counter at that moment; it is still   *)
(* true when the call is made because only Count, which has the gate,      *)
(* raises the counter in between.                                          *)
(***************************************************************************)
EXTENDS FollowUp, Functions, SequenceTheorems, FiniteSetTheorems, TLAPS

AfterGraph == {"user", "reply", "mark", "count"}

PlanInv ==
  ~turn.bought =>
    /\ turn.pc \in AfterGraph /\ planned => attempts < MaxAttempts
    /\ turn.pc = "schedule" => attempts < MaxAttempts

IInv == TypeOK /\ PlanInv

-----------------------------------------------------------------------------
(* The bounds are natural numbers. *)
LEMMA Bounds ==
  /\ MaxAttempts \in Nat /\ MaxAttempts > 0
  /\ MaxWrites \in Nat /\ MaxRedeliveries \in Nat /\ MaxClears \in Nat /\ MaxExpiries \in Nat
  BY FollowUpAssumption

(* The initial states have the types. *)
LEMMA TypeInit == Init => TypeOK
<1> SUFFICES ASSUME Init
             PROVE  TypeOK
  OBVIOUS
<1> USE Bounds DEF Init
<1>1. inboxed \in BOOLEAN /\ planned \in BOOLEAN /\ converted \in BOOLEAN
  BY Zenon
<1>2. turn \in [pc : Pc, kind : Kind, bought : BOOLEAN]
  BY Zenon DEF NoTurn, Pc, Kind
<1>3. queue \in Seq(Kind)
  OBVIOUS
<1>4. lastFrom \in {"none", "lead", "agent"} /\ pending \subseteq Call /\ passed \subseteq Call
  OBVIOUS
<1>5. /\ attempts \in Nat /\ answered \in Nat /\ scheduled \in Nat
      /\ wrote \in 0..MaxWrites /\ redelivered \in 0..MaxRedeliveries /\ cleared \in 0..MaxClears
      /\ expiries \in 0..MaxExpiries
  OBVIOUS
<1> QED
  BY <1>1, <1>2, <1>3, <1>4, <1>5, Zenon DEF TypeOK

(* A turn moves on, and keeps its kind. *)
LEMMA GoesType ==
  ASSUME TypeOK, NEW from, NEW to \in Pc, Goes(from, to)
  PROVE  /\ turn' \in [pc : Pc, kind : Kind, bought : BOOLEAN]
         /\ turn'.pc = to /\ turn'.bought = turn.bought
  BY DEF TypeOK, Goes

(* Every step keeps the types. *)
LEMMA TypeStep == TypeOK /\ [Next]_vars => TypeOK'
<1> SUFFICES ASSUME TypeOK, [Next]_vars
             PROVE  TypeOK'
  OBVIOUS
<1> USE Bounds DEF TypeOK, leadVars, bounds, callVars, checkpoint, vars, Goes
<1>1. CASE LeadWrites
  BY <1>1 DEF LeadWrites, Kind
<1>2. CASE Drain
  <2>1. inboxed' \in BOOLEAN
    BY <1>2, Zenon DEF Drain
  <2>2. queue' \in Seq(Kind)
    BY <1>2 DEF Drain, Kind
  <2> QED
    BY <1>2, <2>1, <2>2 DEF Drain
<1>3. CASE ClearKillSwitch
  BY <1>3 DEF ClearKillSwitch, Kind
<1>4. ASSUME NEW c \in pending, TriggerSkip(c)
      PROVE  TypeOK'
  BY <1>4 DEF TriggerSkip, Kind
<1>5. ASSUME NEW c \in pending, TriggerPass(c)
      PROVE  TypeOK'
  BY <1>5 DEF TriggerPass, Kind
<1>6. ASSUME NEW c \in passed, TriggerEnqueue(c)
      PROVE  TypeOK'
  BY <1>6 DEF TriggerEnqueue, Kind
<1>7. ASSUME NEW c \in passed, TriggerUnanswered(c)
      PROVE  TypeOK'
  BY <1>7 DEF TriggerUnanswered, Kind
<1>8. CASE Take
  <2>1. Head(queue) \in Kind /\ queue' \in Seq(Kind)
    BY <1>8 DEF Take
  <2>2. answered' \in Nat
    BY <1>8 DEF Take
  <2>3. turn' \in [pc : Pc, kind : Kind, bought : BOOLEAN]
    <3>1. ASSUME NEW k \in Kind, NEW b \in BOOLEAN
          PROVE  [[pc |-> "idle", kind |-> "inbound", bought |-> b] EXCEPT !.pc = "graph", !.kind = k]
                   \in [pc : Pc, kind : Kind, bought : BOOLEAN]
      BY DEF Pc, Kind
    <3>2. turn' = [[pc |-> "idle", kind |-> "inbound", bought |-> FALSE]
                     EXCEPT !.pc = "graph", !.kind = Head(queue)]
      BY <1>8 DEF Take, NoTurn
    <3> QED
      BY <2>1, <3>1, <3>2, Zenon
  <2> QED
    BY <1>8, <2>1, <2>2, <2>3, Zenon DEF Take
<1>9. CASE Bought
  BY <1>9 DEF Bought, Pc, Kind, Call, NoTurn, IsFollowUp
<1>10. CASE Tagged
  BY <1>10 DEF Tagged, Pc, Kind, Call, NoTurn, IsFollowUp
<1>11. CASE Classified
  <2>1. turn' \in [pc : Pc, kind : Kind, bought : BOOLEAN]
    BY <1>11 DEF Classified, Pc, Kind
  <2>2. planned' \in BOOLEAN /\ converted' \in BOOLEAN
    BY <1>11, Zenon DEF Classified
  <2>3. attempts' \in Nat
    BY <1>11 DEF Classified, IsFollowUp
  <2> QED
    BY <1>11, <2>1, <2>2, <2>3, Zenon DEF Classified
<1>12. CASE PersistUser
  BY <1>12 DEF PersistUser, Pc, Kind, Call, NoTurn, IsFollowUp
<1>13. CASE PersistReply
  BY <1>13 DEF PersistReply, Pc, Kind, Call, NoTurn, IsFollowUp
<1>14. CASE MarkAgent
  BY <1>14 DEF MarkAgent, Pc, Kind, Call, NoTurn, IsFollowUp
<1>15. CASE Count
  <2>1. PICK pc \in {"schedule", "idle"} : Goes("count", pc)
    BY <1>15, Zenon DEF Count
  <2>2. turn' \in [pc : Pc, kind : Kind, bought : BOOLEAN]
    BY <2>1 DEF Pc
  <2>3. attempts' \in Nat
    BY <1>15 DEF Count
  <2> QED
    BY <1>15, <2>2, <2>3, Zenon DEF Count
<1>16. CASE Schedule
  BY <1>16, SMTT(40) DEF Schedule, Pc, Kind, Call, NoTurn, IsFollowUp
<1>17. CASE ScheduleNot
  BY <1>17 DEF ScheduleNot, Pc, Kind, Call, NoTurn, IsFollowUp
<1>18. CASE Discard
  BY <1>18 DEF Discard, Pc, Kind
<1>19. CASE Abort
  BY <1>19 DEF Abort, Pc, Kind
<1>20. CASE UNCHANGED vars
  BY <1>20
<1>21. CASE ExpireLastFrom
  BY <1>21 DEF ExpireLastFrom, Kind
<1> QED
  BY <1>1, <1>2, <1>3, <1>4, <1>5, <1>6, <1>7, <1>8, <1>9, <1>10, <1>11, <1>12, <1>13, <1>14, <1>15, <1>16, <1>17, <1>18, <1>19, <1>20, <1>21 DEF Next, Trigger, Turn

(* Every step keeps what was planned within the attempts. *)
LEMMA PlanStep == IInv /\ [Next]_vars => PlanInv'
<1> SUFFICES ASSUME IInv, [Next]_vars
             PROVE  PlanInv'
  OBVIOUS
<1> USE Bounds
<1> USE DEF IInv, PlanInv, AfterGraph, TypeOK, leadVars, bounds, callVars, checkpoint, vars, Goes
<1>1. CASE LeadWrites
  BY <1>1 DEF LeadWrites
<1>2. CASE Drain
  BY <1>2 DEF Drain
<1>3. CASE ClearKillSwitch
  BY <1>3 DEF ClearKillSwitch
<1>4. CASE Trigger
  BY <1>4 DEF Trigger, TriggerSkip, TriggerPass, TriggerEnqueue
<1>5. CASE \E c \in passed : TriggerUnanswered(c)
  BY <1>5 DEF TriggerUnanswered
<1>6. CASE Take
  BY <1>6 DEF Take, NoTurn
<1>7. CASE Bought
  BY <1>7 DEF Bought
<1>8. CASE Tagged
  BY <1>8 DEF Tagged
<1>9. CASE Classified
  BY <1>9 DEF Classified, IsFollowUp
<1>10. CASE PersistUser
  BY <1>10 DEF PersistUser, IsFollowUp
<1>11. CASE PersistReply
  BY <1>11 DEF PersistReply
<1>12. CASE MarkAgent
  BY <1>12 DEF MarkAgent
<1>13. CASE Count
  BY <1>13 DEF Count, IsFollowUp
<1>14. CASE Schedule
  BY <1>14 DEF Schedule
<1>15. CASE ScheduleNot
  BY <1>15 DEF ScheduleNot
<1>16. CASE Discard
  BY <1>16 DEF Discard
<1>17. CASE Abort
  BY <1>17 DEF Abort
<1>18. CASE UNCHANGED vars
  BY <1>18
<1>19. CASE ExpireLastFrom
  BY <1>19 DEF ExpireLastFrom
<1> QED
  BY <1>1, <1>2, <1>3, <1>4, <1>5, <1>6, <1>7, <1>8, <1>9, <1>10, <1>11, <1>12, <1>13, <1>14, <1>15, <1>16, <1>17, <1>18, <1>19 DEF Next, Turn

(* The invariant holds throughout. *)
LEMMA InvAlways == Spec => []IInv
<1>1. Init => IInv
  BY TypeInit DEF Init, NoTurn, IInv, PlanInv, AfterGraph
<1>2. IInv /\ [Next]_vars => IInv'
  BY TypeStep, PlanStep DEF IInv
<1> QED
  BY <1>1, <1>2, PTL DEF Spec

-----------------------------------------------------------------------------
(* The counters, calls and turns keep their types. *)
THEOREM TypeCorrect == Spec => []TypeOK
<1>1. IInv => TypeOK
  BY DEF IInv
<1> QED
  BY <1>1, InvAlways, PTL

(***************************************************************************)
(* main.py:976: strategist and hard gate together schedule no follow-up    *)
(* for a lead who has had MaxAttempts of them, outside a purchase turn.    *)
(***************************************************************************)
THEOREM ExhaustedLeadIsLeft == Spec => NoScheduleWhenExhausted
<1>1. IInv /\ [Next]_vars => [scheduled' > scheduled => attempts < MaxAttempts \/ turn.bought]_vars
  <2> SUFFICES ASSUME IInv, Next, scheduled' > scheduled, ~turn.bought
               PROVE  attempts < MaxAttempts
    OBVIOUS
  <2>1. scheduled \in Nat
    BY DEF IInv, TypeOK
  <2>2. CASE Schedule
    BY <2>2 DEF Schedule, Goes, IInv, PlanInv
  <2>3. CASE ~Schedule
    <3>1. scheduled' = scheduled
      BY <2>3 DEF Next, Turn, Trigger, callVars, leadVars, bounds, checkpoint,
         LeadWrites, Drain, ClearKillSwitch, ExpireLastFrom, TriggerSkip, TriggerPass, TriggerEnqueue,
         TriggerUnanswered, Take, Bought, Tagged, Classified, PersistUser, PersistReply,
         MarkAgent, Count, ScheduleNot, Discard, Abort
    <3> QED
      BY <2>1, <3>1
  <2> QED
    BY <2>2, <2>3
<1> QED
  BY <1>1, InvAlways, PTL DEF Spec, NoScheduleWhenExhausted
-----------------------------------------------------------------------------
(* Chains of follow-ups.  A running turn counts whatever its kind: the     *)
(* lead's own turn has its place among the inbound turns answered, and     *)
(* hands it to the call it asks of QStash.                                 *)

ChainInv ==
  /\ IsFiniteSet(pending) /\ IsFiniteSet(passed)
  /\ Cardinality(pending) + Cardinality(passed) + Cardinality(FollowUps(queue))
       + (IF turn.pc # "idle" THEN 1 ELSE 0) <= answered + redelivered

(* A queue holds finitely many follow-ups. *)
LEMMA FollowUpsFinite ==
  ASSUME NEW q \in Seq(Kind)
  PROVE  IsFiniteSet(FollowUps(q)) /\ Cardinality(FollowUps(q)) \in Nat
<1>1. IsFiniteSet(1..Len(q))
  BY FS_Interval
<1>2. FollowUps(q) \in SUBSET (1..Len(q))
  BY DEF FollowUps
<1> QED
  BY <1>1, <1>2, FS_Subset, FS_CardinalityType

(* A payload at the back of the queue is one follow-up more at most. *)
LEMMA FollowUpsAppend ==
  ASSUME NEW q \in Seq(Kind), NEW k \in Kind
  PROVE  Cardinality(FollowUps(Append(q, k))) = Cardinality(FollowUps(q)) + (IF k = "followup" THEN 1 ELSE 0)
<1>1. IsFiniteSet(FollowUps(q)) /\ Len(q) + 1 \notin FollowUps(q)
  BY FollowUpsFinite DEF FollowUps
<1>2. FollowUps(Append(q, k)) = IF k = "followup" THEN FollowUps(q) \cup {Len(q) + 1} ELSE FollowUps(q)
  BY DEF FollowUps
<1>3. Cardinality(FollowUps(q) \cup {Len(q) + 1}) = Cardinality(FollowUps(q)) + 1
  BY <1>1, FS_AddElement
<1>4. Cardinality(FollowUps(q)) \in Nat
  BY FollowUpsFinite
<1> QED
  BY <1>2, <1>3, <1>4

(* The payload at its front leaves with its follow-up. *)
LEMMA FollowUpsTail ==
  ASSUME NEW q \in Seq(Kind), q # <<>>
  PROVE  Cardinality(FollowUps(Tail(q))) + (IF Head(q) = "followup" THEN 1 ELSE 0) <= Cardinality(FollowUps(q))
<1> DEFINE rest == FollowUps(q) \ {1}
           Shift == [i \in FollowUps(Tail(q)) |-> i + 1]
<1>1. IsFiniteSet(FollowUps(q)) /\ Tail(q) \in Seq(Kind) /\ Len(q) > 0
  BY FollowUpsFinite
<1>2. IsFiniteSet(rest) /\ Cardinality(rest) + (IF Head(q) = "followup" THEN 1 ELSE 0) = Cardinality(FollowUps(q))
  <2>1. 1 \in FollowUps(q) <=> Head(q) = "followup"
    BY <1>1 DEF FollowUps
  <2>2. Cardinality(rest) = IF 1 \in FollowUps(q) THEN Cardinality(FollowUps(q)) - 1 ELSE Cardinality(FollowUps(q))
    BY <1>1, FS_RemoveElement
  <2>3. IsFiniteSet(rest) /\ Cardinality(FollowUps(q)) \in Nat
    BY <1>1, FS_RemoveElement, FS_CardinalityType
  <2> QED
    BY <2>1, <2>2, <2>3
<1>3. Shift \in Injection(FollowUps(Tail(q)), rest)
  <2>1. \A i \in FollowUps(Tail(q)) : i \in Nat /\ i + 1 \in rest
    BY <1>1 DEF FollowUps
  <2> QED
    BY <2>1 DEF Injection, IsInjective
<1>4. Cardinality(FollowUps(Tail(q))) <= Cardinality(rest)
  BY <1>2, <1>3, FS_Injection
<1>5. Cardinality(rest) \in Nat /\ Cardinality(FollowUps(Tail(q))) \in Nat
  BY <1>1, <1>2, FollowUpsFinite, FS_CardinalityType
<1> QED
  BY <1>2, <1>4, <1>5

(* Of a set of calls, one taken out or put in is one less or more. *)
LEMMA CallsCount ==
  ASSUME NEW S, IsFiniteSet(S), NEW c
  PROVE  /\ IsFiniteSet(S \cup {c}) /\ IsFiniteSet(S \ {c})
         /\ Cardinality(S) \in Nat /\ Cardinality(S \cup {c}) \in Nat /\ Cardinality(S \ {c}) \in Nat
         /\ Cardinality(S \cup {c}) <= Cardinality(S) + 1
         /\ Cardinality(S \ {c}) <= Cardinality(S)
         /\ c \in S => Cardinality(S \ {c}) = Cardinality(S) - 1
BY FS_AddElement, FS_RemoveElement, FS_CardinalityType

(* Every step keeps the chains within what began them. *)
LEMMA ChainStep == TypeOK /\ ChainInv /\ [Next]_vars => ChainInv'
<1> SUFFICES ASSUME TypeOK, ChainInv, [Next]_vars
             PROVE  ChainInv'
  OBVIOUS
<1> DEFINE waits == Cardinality(FollowUps(queue))
<1>1. /\ queue \in Seq(Kind) /\ waits \in Nat /\ answered \in Nat /\ redelivered \in Nat
      /\ Cardinality(pending) \in Nat /\ Cardinality(passed) \in Nat
      /\ turn \in [pc : Pc, kind : Kind, bought : BOOLEAN]
  BY FollowUpsFinite, FS_CardinalityType, Bounds DEF TypeOK, ChainInv
<1>2. ASSUME NEW k \in Kind
      PROVE  Cardinality(FollowUps(Append(queue, k))) = waits + (IF k = "followup" THEN 1 ELSE 0)
  BY <1>1, FollowUpsAppend
<1> USE <1>1 DEF ChainInv, leadVars, bounds, callVars, checkpoint, vars
<1>3. CASE LeadWrites \/ ClearKillSwitch \/ ExpireLastFrom
  BY <1>3 DEF LeadWrites, ClearKillSwitch, ExpireLastFrom
<1>4. CASE Drain
  <2>1. Cardinality(FollowUps(queue')) = waits
    BY <1>2, <1>4 DEF Drain, Kind
  <2> QED
    BY <1>4, <2>1 DEF Drain
<1>5. ASSUME NEW c \in pending, TriggerSkip(c)
      PROVE  ChainInv'
  <2>1. /\ IsFiniteSet(pending \ {c}) /\ Cardinality(pending \ {c}) = Cardinality(pending) - 1
    BY CallsCount
  <2> QED
    BY <1>5, <2>1 DEF TriggerSkip
<1>6. ASSUME NEW c \in pending, TriggerPass(c)
      PROVE  ChainInv'
  <2>1. /\ IsFiniteSet(pending \ {c}) /\ Cardinality(pending \ {c}) = Cardinality(pending) - 1
        /\ IsFiniteSet(passed \cup {c}) /\ Cardinality(passed \cup {c}) <= Cardinality(passed) + 1
        /\ Cardinality(passed \cup {c}) \in Nat
    BY CallsCount
  <2> QED
    BY <1>6, <2>1 DEF TriggerPass
<1>7. ASSUME NEW c \in passed, TriggerEnqueue(c)
      PROVE  ChainInv'
  <2>1. IsFiniteSet(passed \ {c}) /\ Cardinality(passed \ {c}) = Cardinality(passed) - 1
    BY CallsCount
  <2>2. Cardinality(FollowUps(queue')) = waits + 1
    BY <1>2, <1>7 DEF TriggerEnqueue, Kind
  <2> QED
    BY <1>7, <2>1, <2>2 DEF TriggerEnqueue
<1>8. ASSUME NEW c \in passed, TriggerUnanswered(c)
      PROVE  ChainInv'
  <2>1. /\ IsFiniteSet(passed \ {c}) /\ Cardinality(passed \ {c}) = Cardinality(passed) - 1
        /\ IsFiniteSet(pending \cup {c}) /\ Cardinality(pending \cup {c}) <= Cardinality(pending) + 1
        /\ Cardinality(pending \cup {c}) \in Nat
    BY CallsCount
  <2>2. Cardinality(FollowUps(queue')) \in {waits, waits + 1}
    BY <1>2, <1>8 DEF TriggerUnanswered, Kind
  <2> QED
    BY SMTT(30), <1>8, <2>1, <2>2 DEF TriggerUnanswered
<1>9. CASE Take
  <2>1. queue # <<>> /\ Head(queue) \in Kind /\ Tail(queue) \in Seq(Kind)
    BY <1>9 DEF Take
  <2>2. /\ Cardinality(FollowUps(Tail(queue))) + (IF Head(queue) = "followup" THEN 1 ELSE 0) <= waits
        /\ Cardinality(FollowUps(Tail(queue))) \in Nat
    BY <2>1, FollowUpsTail, FollowUpsFinite
  <2>3. answered' = answered + (IF Head(queue) = "inbound" THEN 1 ELSE 0) /\ turn.pc = "idle"
    BY <1>9 DEF Take
  <2> QED
    BY SMTT(30), <1>9, <2>1, <2>2, <2>3 DEF Take, Kind
<1>10. CASE Discard
  <2>1. /\ Cardinality(FollowUps(Tail(queue))) <= waits
        /\ Cardinality(FollowUps(Tail(queue))) \in Nat
    <3>1. queue # <<>> /\ Tail(queue) \in Seq(Kind)
      BY <1>10 DEF Discard
    <3>2. Cardinality(FollowUps(Tail(queue))) + (IF Head(queue) = "followup" THEN 1 ELSE 0) <= waits
      BY <3>1, FollowUpsTail
    <3>3. Cardinality(FollowUps(Tail(queue))) \in Nat
      BY <3>1, FollowUpsFinite
    <3> QED
      BY <3>2, <3>3
  <2> QED
    BY <1>10, <2>1 DEF Discard
<1>11. CASE Schedule
  <2> DEFINE new == [id |-> scheduled + 1, seen |-> wrote]
  <2>1. /\ IsFiniteSet(pending \cup {new}) /\ Cardinality(pending \cup {new}) <= Cardinality(pending) + 1
        /\ Cardinality(pending \cup {new}) \in Nat
    BY CallsCount
  <2>2. turn.pc = "schedule" /\ turn'.pc = "idle" /\ pending' = pending \cup {new}
    BY <1>11 DEF Schedule, Goes
  <2>3. UNCHANGED <<passed, queue, answered, redelivered>>
    BY <1>11 DEF Schedule
  <2> HIDE DEF new
  <2> QED
    BY <2>1, <2>2, <2>3
<1>12. CASE Bought \/ Tagged \/ Classified \/ PersistUser \/ PersistReply \/ MarkAgent \/ Count
  <2>1. turn.pc # "idle" /\ UNCHANGED <<pending, passed, queue, answered, redelivered>>
    BY <1>12 DEF Bought, Tagged, Classified, PersistUser, PersistReply, MarkAgent, Count, Goes
  <2> QED
    BY <2>1
<1>13. CASE ScheduleNot \/ Abort
  <2>1. /\ turn.pc # "idle" /\ turn'.pc = "idle"
        /\ UNCHANGED <<pending, passed, queue, answered, redelivered>>
    BY <1>13 DEF ScheduleNot, Abort, Goes
  <2> QED
    BY <2>1
<1>14. CASE UNCHANGED vars
  BY <1>14
<1> QED
  BY <1>3, <1>4, <1>5, <1>6, <1>7, <1>8, <1>9, <1>10, <1>11, <1>12, <1>13, <1>14 DEF Next, Turn, Trigger

(***************************************************************************)
(* main.py:894-1000: for any number of messages and repeated calls, there  *)
(* are never more follow-ups alive than inbound turns that could have begun*)
(* one and calls that QStash has repeated.                                 *)
(***************************************************************************)
THEOREM ChainsDoNotMultiply == Spec => []ChainsBounded
<1>1. Init => ChainInv
  <2> SUFFICES ASSUME Init
               PROVE  ChainInv
    OBVIOUS
  <2>1. FollowUps(queue) = {} /\ turn.pc = "idle"
    BY DEF Init, FollowUps, NoTurn
  <2>2. IsFiniteSet({}) /\ Cardinality({}) = 0
    BY FS_EmptySet
  <2>3. pending = {} /\ passed = {} /\ answered = 0 /\ redelivered = 0
    BY DEF Init
  <2> QED
    BY <2>1, <2>2, <2>3 DEF ChainInv
<1>2. TypeOK /\ ChainInv => ChainsBounded
  <2> SUFFICES ASSUME TypeOK, ChainInv
               PROVE  ChainsBounded
    OBVIOUS
  <2>1. Cardinality(FollowUps(queue)) \in Nat /\ Cardinality(pending) \in Nat /\ Cardinality(passed) \in Nat
    BY FollowUpsFinite, FS_CardinalityType DEF TypeOK, ChainInv
  <2> QED
    BY <2>1, Bounds DEF TypeOK, ChainInv, ChainsBounded, Alive
<1>3. Spec => [](TypeOK /\ ChainInv)
  BY <1>1, TypeInit, TypeStep, ChainStep, PTL DEF Spec
<1> QED
  BY <1>2, <1>3, PTL
=============================================================================
