---------------------------- MODULE MCStrategist ----------------------------
(* Instance of Strategist for TLC: messages of every shape the tables tell apart. *)
EXTENDS Strategist

Said(keywords) == [relative |-> {}, clock |-> {}, says |-> keywords]
Clocked(matches, keywords) == [relative |-> {}, clock |-> matches, says |-> keywords]
Clock(p, h, m, per) == [pattern |-> p, hour |-> h, minute |-> m, period |-> per]
After(p, h, u) == [relative |-> {[pattern |-> p, halves |-> h, unit |-> u]}, clock |-> {}, says |-> {"hoje"}]

MCTexts ==
  {Said(k) : k \in {{}, {"amanha"}, {"manha", "amanha"}, {"depois de amanha"}, {"fim de semana"},
                    {"hoje", "depois do trabalho"}, {"sexta", "tarde", "noite"}}}
  \cup {Clocked({Clock(1, 17, 30, "none")}, {"amanha", "tarde"}),
        Clocked({Clock(3, 8, 0, "noite"), Clock(5, 8, 0, "noite")}, {"segunda"}),
        Clocked({Clock(1, 25, 0, "none"), Clock(2, 13, 0, "madrugada")}, {})}
  \cup {After(1, 6, 1), After(2, 4, 60), After(3, 1, 60)}

\* Monday 10:00 and Sunday 17:29.
MCMoments == {600, 6 * 1440 + 1049}
MCHorarios == {NoTarget, [kind |-> "invalid", at |-> 0], At(610)}
MCRawMinutes == {0, 100}
=============================================================================
