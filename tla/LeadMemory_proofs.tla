-------------------------- MODULE LeadMemory_proofs --------------------------
(***************************************************************************)
(* For any platforms, objections and runners: the bot forgets only for a   *)
(* cause.  Every failure and every overlap pays for two turns that know    *)
(* less than the one before, facts that expire for one.  The invariant says*)
(* how much of that must still be there, by how many turns are running:    *)
(* what is stored, or what a running turn has read, may already know less  *)
(* than the bot once did.                                                  *)
(***************************************************************************)
EXTENDS LeadMemory, FiniteSetTheorems, TLAPS

Budget == 2 * (faults + overlaps) + expired - forgotten

Running == {r \in Runners : turn[r].pc # "idle"}

\* What a turn would read now if nothing failed.
Known == OrEmpty(IF stored[kind] = {} THEN redis ELSE stored[kind])

BudgetInv ==
  /\ Budget >= 0
  /\ Running = {} /\ ~Keeps(Known, told) => Budget >= 1
  /\ \A r \in Runners : Running = {r} =>
       /\ ~Keeps(turn[r].facts, told) => Budget >= 1
       /\ ~Keeps(Known, turn[r].facts) => Budget >= 1
       /\ ~Keeps(turn[r].facts, told) /\ ~Keeps(Known, turn[r].facts) => Budget >= 2
  /\ Cardinality(Running) >= 2 =>
       /\ Budget >= Cardinality(Running)
       /\ (\E r \in Running : ~Keeps(turn[r].facts, told)) => Budget >= Cardinality(Running) + 1

-----------------------------------------------------------------------------
(* The facts: the order of what is known, and what the merge makes of an answer. *)

\* Every record of facts keeps what it knows itself.
LEMMA KeepsReflexive == ASSUME NEW f \in Facts PROVE Keeps(f, f)
<1>1. Rank(f.stage) <= Rank(f.stage)
  BY DEF Facts, Stage, Rank
<1> QED
  BY <1>1 DEF Keeps, Facts

\* What keeps more keeps less.
LEMMA KeepsTransitive ==
  ASSUME NEW f \in Facts, NEW g \in Facts, NEW h \in Facts, Keeps(f, g), Keeps(g, h)
  PROVE  Keeps(f, h)
<1>1. Rank(f.stage) \in Int /\ Rank(g.stage) \in Int /\ Rank(h.stage) \in Int
  BY DEF Facts, Stage, Rank
<1>2. Rank(h.stage) <= Rank(f.stage)
  BY <1>1 DEF Keeps
<1> QED
  BY <1>2 DEF Keeps

\* lead_memory.py:75-76: the merge stays in the schema and forgets nothing.
LEMMA MergeKeeps ==
  ASSUME NEW raw \in Raw, NEW current \in Facts
  PROVE  ValidateFacts(raw, current) \in Facts /\ Keeps(ValidateFacts(raw, current), current)
<1> DEFINE new == ValidateFacts(raw, current)
<1>1. new.platform \in Platforms \cup {NoPlatform} /\ (current.platform # NoPlatform => new.platform # NoPlatform)
  BY LeadMemoryAssumption DEF ValidateFacts, Facts
<1>2. new.objections \in SUBSET Objections /\ current.objections \subseteq new.objections
  BY DEF ValidateFacts, Facts, Raw
<1>3. new.stage \in Stage /\ Rank(current.stage) <= Rank(new.stage)
  <2>1. Rank(current.stage) <= Rank(current.stage)
    BY DEF Facts, Stage, Rank
  <2> QED
    BY <2>1 DEF ValidateFacts, Facts
<1>4. new.link \in BOOLEAN /\ (current.link => new.link)
  BY Zenon DEF ValidateFacts
<1>5. new = [platform |-> new.platform, objections |-> new.objections, stage |-> new.stage, link |-> new.link]
  BY Zenon DEF ValidateFacts
<1> HIDE DEF new
<1>6. new \in Facts
  BY <1>1, <1>2, <1>3, <1>4, <1>5, Zenon DEF Facts
<1>7. Keeps(new, current)
  BY <1>1, <1>2, <1>3, <1>4 DEF Keeps
<1> QED
  BY <1>6, <1>7 DEF new

\* What is read is a record of facts, and the one that was written if it was.
LEMMA ReadFacts ==
  /\ EmptyFacts \in Facts
  /\ \A known \in SUBSET Facts : OrEmpty(known) \in Facts
  /\ \A f : OrEmpty({f}) = f
<1>1. EmptyFacts \in Facts
  BY Zenon DEF EmptyFacts, Facts, Stage
<1>2. ASSUME NEW known \in SUBSET Facts PROVE OrEmpty(known) \in Facts
  BY <1>1 DEF OrEmpty, TheFacts
<1>3. ASSUME NEW f PROVE OrEmpty({f}) = f
  BY DEF OrEmpty, TheFacts
<1> QED
  BY <1>1, <1>2, <1>3
-----------------------------------------------------------------------------
(* Types. *)

\* The bounds are natural numbers and the runners a finite set.
LEMMA Constants == IsFiniteSet(Runners) /\ MaxTurns \in Nat /\ MaxFaults \in Nat /\ MaxExpired \in Nat
BY LeadMemoryAssumption

\* The types hold at the start.
LEMMA TypeInit == Init => TypeOK
<1> SUFFICES ASSUME Init PROVE TypeOK
  OBVIOUS
<1>1. Idle \in [pc : {"idle", "extract"}, facts : Facts]
  BY ReadFacts DEF Idle
<1> QED
  BY <1>1, ReadFacts DEF Init, TypeOK

\* A turn that reads has facts of the schema.
LEMMA TypeStart ==
  ASSUME TypeOK, NEW r \in Runners, Start(r)
  PROVE  TypeOK'
<1>1. ASSUME NEW source \in SUBSET Facts, Read(r, source), faults' \in Nat
      PROVE  TypeOK'
  <2>1. OrEmpty(source) \in Facts
    BY ReadFacts
  <2>2. turn' \in [Runners -> [pc : {"idle", "extract"}, facts : Facts]]
    BY <1>1, <2>1 DEF Read, TypeOK
  <2>3. overlaps' \in Nat
    BY <1>1 DEF Read, TypeOK
  <2> QED
    BY <1>1, <2>2, <2>3 DEF Read, TypeOK
<1>2. redis \in SUBSET Facts /\ stored[kind] \in SUBSET Facts
  BY DEF TypeOK
<1> QED
  BY <1>1, <1>2 DEF Start, TypeOK

\* A turn that tells has them too, and writes them.
LEMMA TypeTells ==
  ASSUME TypeOK, NEW r \in Runners, NEW facts \in Facts, Tells(r, facts)
  PROVE  /\ turn' \in [Runners -> [pc : {"idle", "extract"}, facts : Facts]]
         /\ told' \in Facts /\ forgotten' \in Nat /\ overlaps' \in Nat /\ turns' \in Nat /\ expired' \in Nat
         /\ kind' \in {"redis", "memory"}
<1>1. Idle \in [pc : {"idle", "extract"}, facts : Facts]
  BY ReadFacts DEF Idle
<1>2. turn' \in [Runners -> [pc : {"idle", "extract"}, facts : Facts]]
  BY <1>1 DEF Tells, TypeOK
<1>3. forgotten' \in Nat
  BY DEF Tells, TypeOK
<1> QED
  BY <1>2, <1>3 DEF Tells, TypeOK

\* The types are kept by every step.
LEMMA TypeStep == TypeOK /\ [Next]_vars => TypeOK'
<1> SUFFICES ASSUME TypeOK, [Next]_vars
             PROVE  TypeOK'
  OBVIOUS
<1>1. ASSUME NEW r \in Runners, Start(r) PROVE TypeOK'
  BY <1>1, TypeStart
<1>2. ASSUME NEW r \in Runners, ExtractNothing(r) PROVE TypeOK'
  <2>1. turn[r].facts \in Facts
    BY DEF TypeOK
  <2> QED
    BY <1>2, <2>1, TypeTells DEF ExtractNothing, TypeOK
<1>3. ASSUME NEW r \in Runners, NEW raw \in Raw, Extract(r, raw) PROVE TypeOK'
  <2> DEFINE facts == ValidateFacts(raw, turn[r].facts)
  <2>1. turn[r].facts \in Facts
    BY DEF TypeOK
  <2>2. facts \in Facts
    BY <2>1, MergeKeeps
  <2>3. Tells(r, facts) /\ \/ stored' = [stored EXCEPT ![kind] = {facts}] /\ UNCHANGED <<redis, faults>>
                           \/ faults' = faults + 1 /\ redis' = {facts} /\ UNCHANGED stored
    BY <1>3 DEF Extract
  <2> HIDE DEF facts
  <2> QED
    BY <2>2, <2>3, TypeTells DEF TypeOK
<1>4. CASE Restart
  <2>1. Idle \in [pc : {"idle", "extract"}, facts : Facts]
    BY ReadFacts DEF Idle
  <2> QED
    BY <1>4, <2>1 DEF Restart, TypeOK
<1>5. CASE ExpireStore \/ ExpireFacts
  BY <1>5 DEF ExpireStore, ExpireFacts, Expires, TypeOK
<1>6. CASE UNCHANGED vars
  BY <1>6 DEF vars, TypeOK
<1> QED
  BY <1>1, <1>2, <1>3, <1>4, <1>5, <1>6 DEF Next

(* lead_memory.py: facts stay in the schema, wherever they are kept. *)
THEOREM TypeCorrect == Spec => []TypeOK
BY TypeInit, TypeStep, PTL DEF Spec

-----------------------------------------------------------------------------
(* The budget. *)

\* Running turns are a finite set, of a size that is a number.
LEMMA RunningSize ==
  /\ IsFiniteSet(Running) /\ Cardinality(Running) \in Nat
  /\ Cardinality(Running) = 0 <=> Running = {}
  /\ \A r : Running = {r} => Cardinality(Running) = 1
  /\ Cardinality(Running) = 1 => \E r : Running = {r}
<1>1. Running \in SUBSET Runners
  BY DEF Running
<1>2. IsFiniteSet(Running)
  BY <1>1, Constants, FS_Subset
<1> QED
  BY <1>2, FS_CardinalityType, FS_EmptySet, FS_Singleton

\* The budget holds at the start.
LEMMA BudgetInit == Init => BudgetInv
<1> SUFFICES ASSUME Init PROVE BudgetInv
  OBVIOUS
<1>1. Running = {}
  BY DEF Running, Init, Idle
<1>2. Known = EmptyFacts /\ told = EmptyFacts
  BY DEF Init, Known, OrEmpty
<1>3. Keeps(Known, told)
  BY <1>2, KeepsReflexive, ReadFacts
<1>4. Budget = 0
  BY DEF Init, Budget
<1>5. ~(Cardinality(Running) >= 2)
  BY <1>1, RunningSize
<1> QED
  BY <1>1, <1>3, <1>4, <1>5 DEF BudgetInv
\* What is known is a record of facts.
LEMMA KnownFacts == TypeOK => Known \in Facts
BY ReadFacts DEF TypeOK, Known

\* A turn that begins alone owes what is stored; one that begins during another, or
\* whose read of the Store fails, has paid for itself.
LEMMA BudgetStart ==
  ASSUME TypeOK, BudgetInv, NEW r \in Runners, Start(r)
  PROVE  BudgetInv'
<1> DEFINE n == Cardinality(Running)
<1>1. PICK source \in SUBSET Facts :
        /\ Read(r, source)
        /\ \/ faults' = faults + 1
           \/ faults' = faults /\ OrEmpty(source) = Known
  BY DEF Start, TypeOK, Known
<1> DEFINE read == OrEmpty(source)
<1>2. read \in Facts /\ Known \in Facts /\ told \in Facts
  BY ReadFacts, KnownFacts DEF TypeOK
<1>3. Known' = Known /\ told' = told
  BY <1>1 DEF Read, Known
<1>4. /\ turn' = [turn EXCEPT ![r] = [pc |-> "extract", facts |-> read]]
      /\ turn[r].pc = "idle" /\ turn \in [Runners -> [pc : {"idle", "extract"}, facts : Facts]]
  BY <1>1 DEF Read, TypeOK
<1>5. /\ turn'[r].pc = "extract" /\ turn'[r].facts = read
      /\ \A q \in Runners \ {r} : turn'[q] = turn[q]
  BY <1>4
<1>6. r \notin Running /\ Running' = Running \cup {r}
  BY <1>4, <1>5 DEF Running
<1>7. n \in Nat /\ Cardinality(Running') = n + 1
  BY <1>6, RunningSize, FS_AddElement
<1>8. /\ Budget \in Int /\ Budget' \in Int /\ Budget' >= Budget
      /\ Running # {} => Budget' >= Budget + 2
      /\ faults' # faults => Budget' >= Budget + 2
  <2>1. /\ overlaps' = overlaps + (IF Running # {} THEN 1 ELSE 0)
        /\ forgotten' = forgotten /\ expired' = expired
    BY <1>1 DEF Read, Running
  <2> QED
    BY <2>1, <1>1 DEF Budget, TypeOK
<1> HIDE DEF n, read
<1>9. CASE Running = {}
  <2>1. n = 0 /\ Running' = {r}
    BY <1>6, <1>9, RunningSize DEF n
  <2>2. Budget' >= 0
    BY <1>8 DEF BudgetInv
  <2>3. CASE faults' # faults
    <3>1. Budget' >= 2
      BY <1>8, <2>3 DEF BudgetInv
    <3> QED
      BY <2>1, <3>1, <1>7, <1>8 DEF BudgetInv
  <2>4. CASE faults' = faults
    <3>1. read = Known
      BY <1>1, <2>4, <1>8 DEF read, TypeOK
    <3>2. Keeps(Known', turn'[r].facts)
      BY <3>1, <1>3, <1>5, <1>2, KeepsReflexive
    <3>3. ~Keeps(turn'[r].facts, told') => Budget' >= 1
      BY <3>1, <1>3, <1>5, <1>8, <1>9 DEF BudgetInv
    <3>4. \A q \in Runners : Running' = {q} => q = r
      BY <2>1
    <3> QED
      BY <2>1, <2>2, <3>2, <3>3, <3>4, <1>7 DEF BudgetInv
  <2> QED
    BY <2>3, <2>4
<1>10. CASE Running # {}
  <2>1. n >= 1
    BY <1>7, <1>10, RunningSize DEF n
  <2>2. Budget' >= n + 1
    <3>1. CASE n = 1
      BY <3>1, <1>8, <1>10 DEF BudgetInv
    <3>2. CASE n >= 2
      BY <3>2, <1>8, <1>7, <1>10 DEF BudgetInv, n
    <3> QED
      BY <3>1, <3>2, <2>1, <1>7
  <2>3. ASSUME \E q \in Running' : ~Keeps(turn'[q].facts, told')
        PROVE  Budget' >= n + 2
    <3>1. CASE n >= 2
      BY <3>1, <1>7, <1>8, <1>10 DEF BudgetInv, n
    <3>2. CASE n = 1
      <4>1. PICK p : Running = {p}
        BY <3>2, RunningSize DEF n
      <4>2. p \in Runners /\ p # r /\ turn[p].facts \in Facts /\ turn'[p].facts = turn[p].facts
        BY <4>1, <1>4, <1>5, <1>6 DEF Running
      <4>3. ~Keeps(turn[p].facts, told) \/ ~Keeps(read, told)
        BY <2>3, <4>1, <4>2, <1>3, <1>5, <1>6
      <4>4. CASE faults' # faults
        <5>1. Budget' >= Budget + 4
          BY <4>4, <1>1, <1>10 DEF Read, Running, Budget, TypeOK
        <5> QED
          BY <5>1, <3>2, <1>8 DEF BudgetInv
      <4>5. CASE faults' = faults
        <5>1. read = Known
          BY <1>1, <4>5 DEF read, TypeOK
        <5>2. ~Keeps(turn[p].facts, told) \/ ~Keeps(Known, turn[p].facts)
          BY <5>1, <4>2, <4>3, <1>2, KeepsTransitive
        <5>3. Budget >= 1
          BY <4>1, <4>2, <5>2 DEF BudgetInv
        <5> QED
          BY <5>3, <3>2, <1>8, <1>10
      <4> QED
        BY <4>4, <4>5
    <3> QED
      BY <3>1, <3>2, <2>1, <1>7
  <2>4. \A q : Running' # {q}
    BY <1>6, <1>10
  <2>5. Running' # {}
    BY <1>6
  <2> QED
    BY <2>1, <2>2, <2>3, <2>4, <2>5, <1>7, <1>8 DEF BudgetInv
<1> QED
  BY <1>9, <1>10
\* A turn that ends has forgotten at most what its facts owed, and leaves no debt if what
\* it told is what is stored, or if nothing failed and nothing was learnt.
LEMMA BudgetTells ==
  ASSUME TypeOK, TypeOK', BudgetInv, NEW r \in Runners, turn[r].pc = "extract",
         NEW facts \in Facts, Tells(r, facts), Keeps(facts, turn[r].facts),
         \/ faults' = faults + 1
         \/ faults' = faults /\ Known' = facts
         \/ faults' = faults /\ Known' = Known /\ facts = turn[r].facts
  PROVE  BudgetInv'
<1> DEFINE n == Cardinality(Running)
<1>1. /\ turn' = [turn EXCEPT ![r] = Idle] /\ told' = facts
      /\ turn \in [Runners -> [pc : {"idle", "extract"}, facts : Facts]]
      /\ turn[r].facts \in Facts /\ told \in Facts /\ Known \in Facts
  BY KnownFacts DEF Tells, TypeOK
<1>2. turn'[r].pc = "idle" /\ \A q \in Runners \ {r} : turn'[q] = turn[q]
  BY <1>1 DEF Idle
<1>3. r \in Running /\ Running' = Running \ {r}
  BY <1>2 DEF Running
<1>4. n \in Nat /\ n >= 1 /\ Cardinality(Running') = n - 1
  <2>1. n \in Nat /\ n # 0
    BY <1>3, RunningSize
  <2>2. Cardinality(Running \ {r}) = n - 1
    BY <1>3, RunningSize, FS_RemoveElement
  <2> QED
    BY <2>1, <2>2, <1>3
<1>5. ~Keeps(facts, told) => ~Keeps(turn[r].facts, told)
  BY <1>1, KeepsTransitive
<1>6. /\ Budget \in Int /\ Budget' \in Int
      /\ Keeps(facts, told) => Budget' >= Budget
      /\ Budget' >= Budget - 1
      /\ faults' # faults => Budget' >= Budget + 1
  BY DEF Tells, Budget, TypeOK
<1>7. ASSUME n = 1
      PROVE  /\ Budget' >= 0 /\ Running' = {}
             /\ ~Keeps(Known', told') => Budget' >= 1
  <2>1. Running = {r}
    BY <1>3, <1>7, RunningSize DEF n
  <2>2. Running' = {} /\ Budget >= 0
    BY <2>1, <1>3 DEF BudgetInv
  <2>3. ~Keeps(facts, told) => Budget >= 1
    BY <2>1, <1>5 DEF BudgetInv
  <2>4. Budget' >= 0
    BY <2>2, <2>3, <1>6
  <2>5. CASE faults' # faults
    BY <2>2, <2>4, <2>5, <1>6
  <2>6. CASE faults' = faults /\ Known' = facts
    <3>1. Keeps(Known', told')
      BY <2>6, <1>1, KeepsReflexive
    <3> QED
      BY <3>1, <2>2, <2>4
  <2>7. CASE faults' = faults /\ Known' = Known /\ facts = turn[r].facts
    <3>1. ASSUME ~Keeps(Known', told')
          PROVE  Budget' >= 1
      <4>1. ~Keeps(Known, turn[r].facts)
        BY <3>1, <2>7, <1>1
      <4>2. Budget >= 1 /\ (~Keeps(facts, told) => Budget >= 2)
        BY <4>1, <2>1, <1>5 DEF BudgetInv
      <4> QED
        BY <4>2, <1>6
    <3> QED
      BY <3>1, <2>2, <2>4
  <2> QED
    BY <2>5, <2>6, <2>7 DEF TypeOK
<1>8. ASSUME n >= 2 PROVE Budget' >= n
  <2>1. Budget >= n /\ (~Keeps(turn[r].facts, told) => Budget >= n + 1)
    BY <1>3, <1>8 DEF BudgetInv, n
  <2> QED
    BY <2>1, <1>4, <1>5, <1>6
<1> HIDE DEF n
<1>9. CASE n = 1
  <2>1. Cardinality(Running') = 0
    BY <1>4, <1>9
  <2>2. \A q : Running' # {q}
    BY <1>7, <1>9
  <2> QED
    BY <2>1, <2>2, <1>7, <1>9 DEF BudgetInv
<1>10. CASE n >= 2
  <2>1. Running' # {}
    <3>1. Running # {r}
      BY <1>10, <1>4, RunningSize DEF n
    <3> QED
      BY <3>1, <1>3
  <2>2. Budget' >= n /\ Budget' >= 2
    BY <1>8, <1>10, <1>4, <1>6
  <2> QED
    BY <2>1, <2>2, <1>4, <1>6 DEF BudgetInv
<1> QED
  BY <1>4, <1>9, <1>10

\* The budget is kept by every step.
LEMMA BudgetStep == TypeOK /\ TypeOK' /\ BudgetInv /\ [Next]_vars => BudgetInv'
<1> SUFFICES ASSUME TypeOK, TypeOK', BudgetInv, [Next]_vars
             PROVE  BudgetInv'
  OBVIOUS
<1>1. ASSUME NEW r \in Runners, Start(r) PROVE BudgetInv'
  BY <1>1, BudgetStart
<1>2. ASSUME NEW r \in Runners, ExtractNothing(r) PROVE BudgetInv'
  <2>1. turn[r].facts \in Facts
    BY DEF TypeOK
  <2>2. Keeps(turn[r].facts, turn[r].facts)
    BY <2>1, KeepsReflexive
  <2>3. faults' = faults /\ Known' = Known
    BY <1>2 DEF ExtractNothing, Tells, Known
  <2> QED
    BY <1>2, <2>1, <2>2, <2>3, BudgetTells DEF ExtractNothing
<1>3. ASSUME NEW r \in Runners, NEW raw \in Raw, Extract(r, raw) PROVE BudgetInv'
  <2> DEFINE facts == ValidateFacts(raw, turn[r].facts)
  <2>1. turn[r].facts \in Facts
    BY DEF TypeOK
  <2>2. facts \in Facts /\ Keeps(facts, turn[r].facts)
    BY <2>1, MergeKeeps
  <2>3. turn[r].pc = "extract" /\ Tells(r, facts)
    BY <1>3 DEF Extract
  <2>4. \/ stored' = [stored EXCEPT ![kind] = {facts}] /\ UNCHANGED <<redis, faults>>
        \/ faults' = faults + 1
    BY <1>3 DEF Extract
  <2> HIDE DEF facts
  <2>5. ASSUME stored' = [stored EXCEPT ![kind] = {facts}]
        PROVE  Known' = facts
    <3>1. kind' = kind /\ stored'[kind] = {facts}
      BY <2>3, <2>5 DEF Tells, TypeOK
    <3> QED
      BY <3>1, ReadFacts DEF Known
  <2> QED
    BY <2>2, <2>3, <2>4, <2>5, BudgetTells
<1>4. CASE Restart
  <2>1. Running' = {}
    BY <1>4 DEF Restart, Running, Idle
  <2>2. Budget' >= 2 /\ Budget' \in Int
    BY <1>4 DEF Restart, Budget, BudgetInv, TypeOK
  <2>3. ~(Cardinality(Running') >= 2)
    BY <2>1, FS_EmptySet
  <2> QED
    BY <2>1, <2>2, <2>3 DEF BudgetInv
\* Facts that expire may leave one turn to come with less than is known.
<1>5. CASE ExpireStore \/ ExpireFacts
  <2>1. turn' = turn /\ told' = told /\ Running' = Running
    BY <1>5 DEF ExpireStore, ExpireFacts, Running
  <2>2. Budget \in Int /\ Budget' = Budget + 1
    BY <1>5 DEF ExpireStore, ExpireFacts, Expires, Budget, TypeOK
  <2>3. Cardinality(Running) \in Nat
    BY RunningSize
  <2> QED
    BY <2>1, <2>2, <2>3 DEF BudgetInv
<1>6. CASE UNCHANGED vars
  BY <1>6 DEF vars, BudgetInv, Budget, Running, Known
<1> QED
  BY <1>1, <1>2, <1>3, <1>4, <1>5, <1>6 DEF Next

(* lead_memory.py:75-76, nodes.py:623: for any platforms, objections and numbers of      *)
(* runners, the bot knows less than in the turn before at most once for facts that have  *)
(* expired and at most twice for each failure and each overlap. *)
THEOREM NothingIsForgottenWithoutCause == Spec => []ForgetsOnlyForCause
<1>1. TypeOK /\ BudgetInv => ForgetsOnlyForCause
  BY DEF TypeOK, BudgetInv, Budget, ForgetsOnlyForCause
<1> QED
  BY <1>1, TypeInit, TypeStep, BudgetInit, BudgetStep, PTL DEF Spec
=============================================================================
