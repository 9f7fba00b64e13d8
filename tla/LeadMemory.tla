------------------------------ MODULE LeadMemory ------------------------------
(***************************************************************************)
(* What the bot knows of a lead, so that it does not ask again:            *)
(* lead_memory.py, lead_memory_node of nodes.py, store.py and lead_facts of*)
(* redis_store.py.  The facts are read before the model is asked and       *)
(* written after it, to the Store if it works and else to Redis, by        *)
(* conversation turns and by the panel's simulations, which take no lock.  *)
(* Both expire: the Store after 90 days without a read or a write, Redis   *)
(* after 30 days without a write.                                          *)
(* The plan and the name behave like the platform, confirmou_compra like   *)
(* ja_recebeu_link, and each answer replaces the summary: they are left    *)
(* out.                                                                    *)
(***************************************************************************)
EXTENDS Naturals, FiniteSets

CONSTANTS
  Platforms,   \* the known platforms
  Objections,  \* the known objections
  Runners,     \* who runs a graph on the lead's thread: the worker, a simulation
  Stages,      \* the stages the model answers, of the six there are
  MaxTurns,    \* bound: turns
  MaxFaults,   \* bound: failed operations on the Store, and restarts
  MaxExpired   \* bound: facts that expire

NoPlatform == "unknown"

ASSUME LeadMemoryAssumption ==
  /\ NoPlatform \notin Platforms
  /\ Stages \subseteq {"descoberta", "apresentacao", "preco", "objecao", "fechamento", "pos_venda"}
  /\ IsFiniteSet(Runners)
  /\ {MaxTurns, MaxFaults, MaxExpired} \subseteq Nat

Stage == {"descoberta", "apresentacao", "preco", "objecao", "fechamento", "pos_venda"}
Facts == [platform : Platforms \cup {NoPlatform}, objections : SUBSET Objections,
          stage : Stage, link : BOOLEAN]

\* What the model answers: known values, or "other" for a field that is missing, null
\* or not in the schema.
Raw == [platform : Platforms \cup {"other"}, objections : SUBSET Objections,
        stage : Stages \cup {"other"}, link : BOOLEAN]

EmptyFacts == [platform |-> NoPlatform, objections |-> {}, stage |-> "descoberta", link |-> FALSE]

VARIABLES
  kind,      \* the Store opened at startup: "redis", or "memory" if that fails
  stored,    \* for each kind, the facts in such a Store: a set of at most one record
  redis,     \* lead_facts of the lead in Redis: likewise
  turn,      \* for each runner [pc, facts]
  told,      \* the facts the last finished turn gave to the specialist
  \* bounds and history
  turns,
  faults,
  expired,     \* how often facts have expired, in the Store or in Redis
  overlaps,    \* turns that began while another was running
  forgotten    \* turns that knew less than the turn before

vars == <<kind, stored, redis, turn, told, turns, faults, expired, overlaps, forgotten>>

Rank(stage) ==
  CASE stage = "descoberta" -> 0
    [] stage = "apresentacao" -> 1
    [] stage \in {"preco", "objecao"} -> 2
    [] stage = "fechamento" -> 3
    [] stage = "pos_venda" -> 4

\* Faulty: the stage the model answers is taken, as the other fields are.
ValidateFactsAsTold(raw, current) ==
  [platform |-> IF raw.platform \in Platforms THEN raw.platform ELSE current.platform,
   objections |-> current.objections \cup raw.objections,
   stage |-> IF raw.stage \in Stage THEN raw.stage ELSE current.stage,
   link |-> raw.link \/ current.link]

\* _validate_facts: a field that is not in the schema changes nothing, objections add
\* up, the stage does not go back and the link stays received.
ValidateFacts(raw, current) ==
  [platform |-> IF raw.platform \in Platforms THEN raw.platform ELSE current.platform,
   objections |-> current.objections \cup raw.objections,
   stage |-> IF raw.stage \in Stage /\ Rank(raw.stage) >= Rank(current.stage)
               THEN raw.stage ELSE current.stage,
   link |-> raw.link \/ current.link]

\* more knows all that less knows.
Keeps(more, less) ==
  /\ less.platform # NoPlatform => more.platform # NoPlatform
  /\ less.objections \subseteq more.objections
  /\ Rank(less.stage) <= Rank(more.stage)
  /\ less.link => more.link

Idle == [pc |-> "idle", facts |-> EmptyFacts]

Init ==
  /\ kind \in {"redis", "memory"}
  /\ stored = [redis |-> {}, memory |-> {}]
  /\ redis = {}
  /\ turn = [r \in Runners |-> Idle]
  /\ told = EmptyFacts
  /\ turns = 0 /\ faults = 0 /\ expired = 0
  /\ overlaps = 0 /\ forgotten = 0

TheFacts(known) == CHOOSE f \in known : TRUE
OrEmpty(known) == IF known = {} THEN EmptyFacts ELSE TheFacts(known)

-----------------------------------------------------------------------------

\* The read: the Store, if it answers and has the facts, else Redis.
Read(r, source) ==
  /\ turn[r].pc = "idle" /\ turns < MaxTurns
  /\ turns' = turns + 1
  /\ turn' = [turn EXCEPT ![r] = [pc |-> "extract", facts |-> OrEmpty(source)]]
  /\ overlaps' = overlaps + (IF \E other \in Runners : turn[other].pc # "idle" THEN 1 ELSE 0)
  /\ UNCHANGED <<kind, stored, redis, told, expired, forgotten>>

Start(r) ==
  \/ /\ Read(r, IF stored[kind] = {} THEN redis ELSE stored[kind])
     /\ UNCHANGED faults
  \/ /\ faults < MaxFaults /\ faults' = faults + 1
     /\ Read(r, redis)

\* The turn gives these facts to the specialist and ends its part.
Tells(r, facts) ==
  /\ turn' = [turn EXCEPT ![r] = Idle]
  /\ told' = facts
  /\ forgotten' = forgotten + (IF Keeps(facts, told) THEN 0 ELSE 1)
  /\ UNCHANGED <<kind, turns, expired, overlaps>>

\* Without an answer of the model, or with one that changes nothing, nothing is written.
ExtractNothing(r) ==
  /\ turn[r].pc = "extract"
  /\ Tells(r, turn[r].facts)
  /\ UNCHANGED <<stored, redis, faults>>

Extract(r, raw) ==
  LET facts == ValidateFacts(raw, turn[r].facts)
  IN  /\ turn[r].pc = "extract" /\ facts # turn[r].facts
      /\ \/ stored' = [stored EXCEPT ![kind] = {facts}] /\ UNCHANGED <<redis, faults>>
         \/ /\ faults < MaxFaults /\ faults' = faults + 1
            /\ redis' = {facts} /\ UNCHANGED stored
      /\ Tells(r, facts)

\* The process restarts: turns break off, a Store in memory is empty again, and the
\* Store is opened anew.
Restart ==
  /\ faults < MaxFaults /\ faults' = faults + 1
  /\ turn' = [r \in Runners |-> Idle]
  /\ kind' \in {"redis", "memory"}
  /\ stored' = [stored EXCEPT !.memory = {}]
  /\ UNCHANGED <<redis, told, turns, expired, overlaps, forgotten>>

Expires == expired < MaxExpired /\ expired' = expired + 1

\* The Store kept in Redis forgets after 90 days; one in memory keeps till the restart.
ExpireStore ==
  /\ stored.redis # {} /\ Expires
  /\ stored' = [stored EXCEPT !.redis = {}]
  /\ UNCHANGED <<kind, redis, turn, told, turns, faults, overlaps, forgotten>>

\* lead_facts is gone after 30 days.
ExpireFacts ==
  /\ redis # {} /\ Expires
  /\ redis' = {}
  /\ UNCHANGED <<kind, stored, turn, told, turns, faults, overlaps, forgotten>>

Next ==
  \/ \E r \in Runners : Start(r) \/ ExtractNothing(r) \/ \E raw \in Raw : Extract(r, raw)
  \/ Restart \/ ExpireStore \/ ExpireFacts

Spec == Init /\ [][Next]_vars

-----------------------------------------------------------------------------
(* Properties *)

TypeOK ==
  /\ kind \in {"redis", "memory"}
  /\ stored \in [{"redis", "memory"} -> SUBSET Facts]
  /\ redis \subseteq Facts
  /\ turn \in [Runners -> [pc : {"idle", "extract"}, facts : Facts]]
  /\ told \in Facts
  /\ {turns, faults, expired, overlaps, forgotten} \subseteq Nat

(***************************************************************************)
(* lead_memory.py:75 "mantenha antigas", :76 "Não regride", nodes.py:623   *)
(* "anti-amnésia": a turn knows less than the one before it only if facts  *)
(* have expired, once for each time, or after a failure or an overlap, at  *)
(* most twice for each: in the turn that misses what the Store has or what *)
(* another turn is learning, and in a later one, when what was written last*)
(* is older or not looked for.                                             *)
(***************************************************************************)
ForgetsOnlyForCause == forgotten <= 2 * (faults + overlaps) + expired
=============================================================================
