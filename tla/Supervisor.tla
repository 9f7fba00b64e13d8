------------------------------ MODULE Supervisor ------------------------------
(***************************************************************************)
(* The checks of supervisor.py that come before its model is asked.  Of a  *)
(* text they look at its words of three letters and more, its normal form, *)
(* links, prices and punctuation.  The messages are those of the graph,    *)
(* oldest first; of a lead's message it matters whether he confirms to buy *)
(* or speaks of a payment.                                                 *)
(***************************************************************************)
EXTENDS Integers, Sequences, FiniteSets, SequencesExt

CONSTANTS
  Texts,          \* what the checks see of each text
  Lookback,       \* lookback of _check_repetition, of the bot's messages
  HumanLookback   \* the lead's messages that are searched for a confirmation

ASSUME SupervisorAssumption ==
  /\ {Lookback, HumanLookback} \subseteq Nat \ {0}
  /\ \A p \in DOMAIN Texts : IsFiniteSet(Texts[p].words)

Passed == [approved |-> TRUE, severity |-> "ok"]
Failed(severity) == [approved |-> FALSE, severity |-> severity]

\* At least percent of the words of two texts are in both.
Similar(a, b, percent) ==
  a # {} /\ b # {} /\ 100 * Cardinality(a \cap b) >= percent * Cardinality(a \cup b)

\* The messages of the lead or of the bot, and the newest of some messages, by their
\* places in the history.
By(who, messages) == {i \in DOMAIN messages : messages[i].by = who}
Newest(places, n) == {i \in places : Cardinality({j \in places : j > i}) < n}

\* The bot's messages that read like the text.
Alike(p, messages) == {i \in By("bot", messages) : Texts[messages[i].text].norm = Texts[p].norm}

\* Faulty: only the newest other reply is compared.
OthersOfNewest(p, messages) == Newest(By("bot", messages) \ Newest(Alike(p, messages), 1), 1)

\* The bot's newest messages without the newest that reads like the text: the specialist
\* has already added it.
OthersOf(p, messages) == Newest(By("bot", messages) \ Newest(Alike(p, messages), 1), Lookback)

CheckRepetition(p, messages) ==
  LET near(percent) == \E i \in OthersOf(p, messages) :
                         Similar(Texts[p].words, Texts[messages[i].text].words, percent)
  IN  CASE Cardinality(Texts[p].words) < 4 -> Passed
        [] Cardinality(Texts[p].words) >= 4 /\ near(55) -> Failed("critical")
        [] Cardinality(Texts[p].words) >= 4 /\ ~near(55) /\ near(40) -> Failed("warning")
        [] OTHER -> Passed

\* The tag [COMPROU] in the text, at a stage before the closing or after messages of
\* which none is a picture or speaks of a payment.
CheckFraud(tagged, messages, facts) ==
  LET evidence == \E i \in Newest(By("lead", messages), 5) : messages[i].pays
  IN  IF tagged /\ ~facts.bought /\ ~(facts.closing /\ evidence) THEN Failed("critical") ELSE Passed

CheckPlatformFirst(p, facts) ==
  IF Texts[p].price /\ ~facts.platform /\ ~facts.closing THEN Failed("critical") ELSE Passed

\* Faulty: any earlier confirmation counts.
CheckLinkEver(p, messages, facts) ==
  IF /\ Texts[p].link /\ ~facts.bought /\ ~facts.link
     /\ \A i \in By("lead", messages) : ~messages[i].confirms
    THEN Failed("critical") ELSE Passed

CheckLink(p, messages, facts) ==
  IF /\ Texts[p].link /\ ~facts.bought /\ ~facts.link
     /\ \A i \in Newest(By("lead", messages), HumanLookback) : ~messages[i].confirms
    THEN Failed("critical") ELSE Passed

CheckPunctuation(p) ==
  IF /\ Texts[p].chars >= 20
     /\ Texts[p].exclamations > 2 \/ (Texts[p].sentences >= 3 /\ 10 * Texts[p].dots >= 6 * Texts[p].sentences)
    THEN Failed("warning") ELSE Passed

\* The first check that fails.
Check(p, tagged, messages, facts) ==
  LET checks == <<CheckRepetition(p, messages), CheckFraud(tagged, messages, facts),
                  CheckPlatformFirst(p, facts), CheckLink(p, messages, facts), CheckPunctuation(p)>>
      failed == SelectInSeq(checks, LAMBDA v : ~v.approved)
  IN  IF failed = 0 THEN Passed ELSE checks[failed]
=============================================================================
