------------------------------ MODULE Strategist ------------------------------
(***************************************************************************)
(* When the bot speaks next: follow_up_strategist.py and its node, over the*)
(* chain of a lead's message and the follow-ups that stay unanswered.  A   *)
(* step is a whole turn.  What the model answers is a free choice, also    *)
(* none at all; FollowUp.tla has the interleavings of the same turns.      *)
(***************************************************************************)
EXTENDS Temporal

CONSTANTS
  MaxAttempts,   \* FOLLOWUP_MAX_ATTEMPTS
  Texts,         \* the messages the lead may write
  Moments,       \* the minutes of the week at which turns are run
  Horarios,      \* the values of horario_explicito in the model's answers
  RawMinutes     \* the values of agendar_minutos in them

Temperature == {"HOT", "WARM", "COLD", "STOP", "SCHEDULED"}
Raw == [temp : Temperature \cup {"other"}, horario : Horarios, minutes : RawMinutes, kill : BOOLEAN]

ASSUME StrategistAssumption ==
  /\ MaxAttempts \in Nat \ {0}
  /\ Texts \subseteq Text
  /\ Moments \subseteq 0..WeekMinutes - 1 /\ Moments # {}
  /\ Horarios \subseteq Target
  /\ RawMinutes \subseteq Int

VARIABLES
  text,      \* the last message of the lead
  due,       \* it has not been answered
  now,       \* when it was written or the last turn ran
  attempts,  \* followup_attempts
  decision,  \* the strategist's last decision: [temp, minutes, kill]
  answer,    \* the gist of what the model said in the last turn; "none" is its failure
  planned,   \* minutes until the next follow-up, 0 if there is none
  \* history, since the lead's last message or the clearing of the counter
  quick,     \* follow-ups that came within a quarter of an hour
  failed     \* the model has failed

vars == <<text, due, now, attempts, decision, answer, planned, quick, failed>>

-----------------------------------------------------------------------------
(* The decision. *)

Lost == [temp |-> "STOP", minutes |-> 0, kill |-> TRUE]

FallbackDecision(regex, tries, moment) ==
  IF regex.kind # "none"
    THEN [temp |-> "SCHEDULED", minutes |-> MinutesUntil(regex, moment), kill |-> FALSE]
    ELSE [temp |-> "WARM", minutes |-> IF tries >= 3 THEN 240 ELSE 90, kill |-> FALSE]

\* A time in the message makes any answer SCHEDULED; the time the model names goes
\* before the one of the message.
Classification(raw, regex, moment) ==
  LET temp == IF regex.kind # "none" THEN "SCHEDULED"
              ELSE IF raw.temp \in Temperature THEN raw.temp ELSE "WARM"
      time == IF raw.horario.kind # "none" THEN raw.horario ELSE regex
      minutes == CASE temp # "SCHEDULED" \/ time.kind = "none" -> raw.minutes
                   [] temp = "SCHEDULED" /\ time.kind = "invalid" -> Max({60, raw.minutes})
                   [] OTHER -> MinutesUntil(time, moment)
  IN  [temp |-> temp, minutes |-> minutes]

\* Faulty: a short delay the lead asked for is kept, however long he is silent.
EscalateOthers(c, tries) ==
  IF tries < 3 \/ c.temp \in {"STOP", "HOT", "SCHEDULED"} THEN c
  ELSE [temp |-> c.temp, minutes |-> IF c.minutes = 0 THEN 240 ELSE 2 * c.minutes]

\* After three attempts: a short delay the lead asked for has expired, others double.
Escalate(c, tries) ==
  CASE tries < 3 \/ c.temp \in {"STOP", "HOT"} -> c
    [] tries >= 3 /\ c.temp = "SCHEDULED" ->
         IF c.minutes <= 60 THEN [temp |-> "WARM", minutes |-> 0] ELSE c
    [] tries >= 3 /\ c.temp \in {"WARM", "COLD"} ->
         [temp |-> c.temp, minutes |-> IF c.minutes = 0 THEN 240 ELSE 2 * c.minutes]

OrDefault(n, default) == IF n = 0 THEN default ELSE n

\* Faulty: COLD is not limited.
DelayUnlimited(c) ==
  CASE c.temp = "HOT" -> Clamp(15, OrDefault(c.minutes, 30), 60)
    [] c.temp = "WARM" -> Clamp(60, OrDefault(c.minutes, 90), 180)
    [] c.temp = "COLD" -> OrDefault(c.minutes, 1080)
    [] c.temp = "STOP" -> 0
    [] c.temp = "SCHEDULED" -> Clamp(1, c.minutes, WeekMinutes)

\* The limits of each temperature.
Delay(c) ==
  CASE c.temp = "HOT" -> Clamp(15, OrDefault(c.minutes, 30), 60)
    [] c.temp = "WARM" -> Clamp(60, OrDefault(c.minutes, 90), 180)
    [] c.temp = "COLD" -> Clamp(720, OrDefault(c.minutes, 1080), 1440)
    [] c.temp = "STOP" -> 0
    [] c.temp = "SCHEDULED" -> Clamp(1, c.minutes, WeekMinutes)

ValidateDecision(raw, regex, tries, moment) ==
  LET c == Escalate(Classification(raw, regex, moment), tries)
  IN  IF tries >= MaxAttempts THEN Lost
      ELSE [temp |-> c.temp, minutes |-> Delay(c), kill |-> raw.kill \/ c.temp = "STOP"]

NoAnswer == [temp |-> "none", horario |-> NoTarget, minutes |-> 0, kill |-> FALSE]

\* The decision at moment, which is when the model has answered.
ClassifyLead(said, raw, tries, moment) ==
  LET regex == ExtractScheduledTime(said, moment)
  IN  CASE tries >= MaxAttempts -> Lost
        [] tries < MaxAttempts /\ raw = NoAnswer -> FallbackDecision(regex, tries, moment)
        [] OTHER -> ValidateDecision(raw, regex, tries, moment)

\* Faulty: the kill flag alone does not stop the follow-up.
ScheduleMinutesUnlessStop(d) == IF d.minutes <= 0 THEN 0 ELSE d.minutes

ScheduleMinutes(d) == IF d.kill \/ d.minutes <= 0 THEN 0 ELSE d.minutes

-----------------------------------------------------------------------------
(* The turns. *)

Silence == [relative |-> {}, clock |-> {}, says |-> {}]
Gist(raw) == [temp |-> raw.temp, names |-> raw.horario.kind # "none", kill |-> raw.kill]

Init ==
  /\ text = Silence /\ due = FALSE
  /\ now \in Moments
  /\ attempts = 0 /\ quick = 0
  /\ decision = Lost /\ answer = Gist(NoAnswer) /\ planned = 0
  /\ failed = FALSE

LeadWrites(said, moment) ==
  /\ text' = said /\ due' = TRUE /\ now' = moment
  /\ planned' = 0
  /\ quick' = 0 /\ failed' = FALSE
  /\ UNCHANGED <<attempts, decision, answer>>

\* A conversation turn.  The counter is read before a message that engages resets it.
InboundTurn(raw, engages) ==
  /\ due /\ due' = FALSE
  /\ answer' = Gist(raw)
  /\ decision' = ClassifyLead(text, raw, attempts, now)
  /\ planned' = ScheduleMinutes(decision')
  /\ attempts' = IF engages THEN 0 ELSE attempts
  /\ failed' = (raw = NoAnswer)
  /\ UNCHANGED <<text, now, quick>>

\* A follow-up turn reads the lead's last message again, and its time from now on.
\* _process_queued counts it after the decision, and the last one schedules nothing.
FollowUpTurn(raw, moment) ==
  /\ ~due /\ planned > 0
  /\ now' = moment /\ answer' = Gist(raw)
  /\ decision' = ClassifyLead(text, raw, attempts, moment)
  /\ attempts' = attempts + 1
  /\ planned' = IF attempts' >= MaxAttempts THEN 0 ELSE ScheduleMinutes(decision')
  /\ quick' = quick + (IF planned < 15 THEN 1 ELSE 0)
  /\ failed' = (failed \/ raw = NoAnswer)
  /\ UNCHANGED <<text, due>>

\* clear_lead_killswitch of the panel.
ClearKillSwitch ==
  /\ attempts' = 0
  /\ quick' = 0 /\ failed' = FALSE
  /\ UNCHANGED <<text, due, now, decision, answer, planned>>

Next ==
  \/ \E said \in Texts, moment \in Moments : LeadWrites(said, moment)
  \/ \E raw \in Raw \cup {NoAnswer} :
       \/ \E engages \in BOOLEAN : InboundTurn(raw, engages)
       \/ \E moment \in Moments : FollowUpTurn(raw, moment)
  \/ ClearKillSwitch

Spec == Init /\ [][Next]_vars

-----------------------------------------------------------------------------
(* Properties *)

Limits(temp, minutes) ==
  /\ temp = "HOT" => minutes \in 15..60
  /\ temp = "WARM" => minutes \in 60..240
  /\ temp = "COLD" => minutes \in 720..1440
  /\ temp = "SCHEDULED" => minutes \in 1..WeekMinutes

(***************************************************************************)
(* follow_up_strategist.py:50-80, the cadence of each temperature: however *)
(* the model's numbers, the time in the message and the escalation combine,*)
(* a planned follow-up keeps the limits of the temperature decided, and one*)
(* that may not be made is not planned.                                    *)
(***************************************************************************)
CadenceKept ==
  planned > 0 => ~decision.kill /\ decision.temp # "STOP" /\ Limits(decision.temp, planned)

(***************************************************************************)
(* follow_up_strategist.py:322, "lead silenciou 3+ vezes após pedir        *)
(* cadência curta": a lead who asked for a short delay and is silent gets  *)
(* at most four quick follow-ups (the counter runs one turn behind).  Only *)
(* while the model fails do they go on, up to the cap.                     *)
(***************************************************************************)
QuickFollowUpsEnd == quick <= 4 \/ (failed /\ quick <= MaxAttempts)

(***************************************************************************)
(* follow_up_strategist.py:103, "pediu pra parar 1x: STOP imediato": after *)
(* an answer with the kill flag nothing is planned, and after STOP without *)
(* it only if the lead's message names a time: it is SCHEDULED then.       *)
(***************************************************************************)
StopIsRespected ==
  planned > 0 =>
    /\ ~answer.kill
    /\ answer.temp = "STOP" => ExtractScheduledTime(text, now).kind # "none"

(***************************************************************************)
(* temporal.py:221-231: a time the lead names is kept to one minute before,*)
(* when the model does not name another and the time is less than a week   *)
(* away; only the next minute is kept as it is.  An hour that is over is   *)
(* the one of the next day: no time named is over.                         *)
(***************************************************************************)
TimeIsKept ==
  LET target == ExtractScheduledTime(text, now)
      kept == planned > 0 /\ ~answer.names /\ decision.temp = "SCHEDULED"
  IN  /\ kept /\ target.kind = "absolute" /\ target.at <= now + WeekMinutes =>
            /\ target.at > now
            /\ now + planned = IF target.at = now + 1 THEN target.at ELSE target.at - 1
            /\ (ResolveHour(text) # None => target.at % Day = ResolveHour(text))
      /\ kept /\ target.kind = "relative" /\ target.at \in 2..WeekMinutes => planned = target.at - 1

(***************************************************************************)
(* temporal.py:24-51, the tables of hours and days: the time is that of the*)
(* keywords the lead wrote out, the clock before the periods.  Not so for  *)
(* "depois de amanhã", which is read as "amanhã", nor for "amanhã" without *)
(* a clock time, which is always 9:00 because "manhã" is inside it.        *)
(***************************************************************************)
FirstWritten(keywords, said) == SelectInSeq(keywords, LAMBDA kw : kw \in said.says)
AsWritten(said, moment) ==
  LET day == FirstWritten(DayKeywords, said)
      period == FirstWritten(PeriodKeywords, said)
      minute == CASE Clocks(said) # {} -> ResolveHour(said)
                  [] Clocks(said) = {} /\ period # 0 -> 60 * PeriodHour[period]
                  [] OTHER -> 600
      days == IF day = 0 THEN 0 ELSE DaysUntil(DayKeywords[day], moment \div Day)
  IN  IF said.says = {} /\ Clocks(said) = {} THEN NoTarget ELSE At(OnDay(moment, days, minute))

TimeIsAsWritten ==
  /\ text.relative = {}
  /\ "depois de amanha" \notin text.says
  /\ "amanha" \in text.says => Clocks(text) # {} \/ "manha" \in text.says
  => ExtractScheduledTime(text, now) = AsWritten(text, now)
=============================================================================
