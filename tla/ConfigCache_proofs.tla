-------------------------- MODULE ConfigCache_proofs --------------------------
(***************************************************************************)
(* For any projects, sections, turns, editors and bounds: what the cache   *)
(* promises to the turns and to the editors.  Both follow from where a row *)
(* that is in the cache, or on its way there, stands in the history of the *)
(* rows of its project: it was the newest when the request for it began,   *)
(* and it is not older than the last answered edit unless the project has  *)
(* been raced.                                                             *)
(***************************************************************************)
EXTENDS ConfigCache, SequenceTheorems, FiniteSetTheorems, TLAPS

\* Row number row of p was not replaced before since.
Recent(p, row, since) ==
  /\ row \in 1..Len(rows[p])
  /\ row < Len(rows[p]) => since <= rows[p][row + 1].at

HistoryInv ==
  \A p \in Projects : Len(rows[p]) > 0 /\ \A i \in 1..Len(rows[p]) : rows[p][i].at <= now

CacheInv ==
  \A p \in DOMAIN cache :
    /\ cache[p].exp <= now + ConfigTtl
    /\ Recent(p, cache[p].row, cache[p].exp - ConfigTtl)

FetchInv ==
  \A r \in Readers :
    /\ reader[r].pc \in {"fetch", "fill"} => reader[r].since <= now /\ now <= reader[r].since + Timeout
    /\ reader[r].pc = "fill" => Recent(reader[r].project, reader[r].row, reader[r].since)

FreshInv == TypeOK /\ HistoryInv /\ CacheInv /\ FetchInv /\ FreshWithinTtl

AckInv ==
  /\ \A p \in Projects : acked[p] <= Len(rows[p])
  /\ \A r \in Readers :
       reader[r].pc = "fill" /\ reader[r].project \notin raced => acked[reader[r].project] <= reader[r].row

-----------------------------------------------------------------------------
(* The bounds are natural numbers. *)
LEMMA Bounds ==
  /\ ConfigTtl \in Nat /\ ConfigTtl > 0 /\ MaxEntries \in Nat /\ Timeout \in Nat /\ Timeout < ConfigTtl
  /\ MaxTime \in Nat /\ MaxEdits \in Nat /\ MaxFaults \in Nat
  /\ NoProject \notin Projects
  BY ConfigCacheAssumption

(* The initial states have the types. *)
LEMMA TypeInit == Init => TypeOK
<1> SUFFICES ASSUME Init
             PROVE  TypeOK
  OBVIOUS
<1> USE Bounds DEF Init
<1>1. RowsOK
  BY DEF RowsOK, Row
<1>2. CacheOK
  BY DEF CacheOK
<1>3. ReaderOK
  BY DEF ReaderOK, Fetch, Idle
<1>4. EditorOK
  BY DEF EditorOK, EditState, NoEdit
<1>5. HistoryOK
  BY DEF HistoryOK
<1> QED
  BY <1>1, <1>2, <1>3, <1>4, <1>5 DEF TypeOK

(* The time of a row is a number. *)
LEMMA RowTime ==
  ASSUME TypeOK, NEW p \in Projects, NEW i \in 1..Len(rows[p])
  PROVE  rows[p][i] \in Row /\ rows[p][i].at \in Nat
<1>1. rows[p] \in Seq(Row)
  BY DEF TypeOK, RowsOK, HistoryOK
<1>2. rows[p][i] \in Row
  BY <1>1, ElementOfSeq
<1> QED
  BY <1>2 DEF Row

(* How long ago a row of a history was replaced is a number, also if never. *)
LEMMA ReplacedForType ==
  ASSUME TypeOK, HistoryInv, NEW p \in Projects, NEW row \in Nat
  PROVE  row \in 1..Len(rows[p]) => ReplacedFor(rows[p], row) \in Nat
<1> SUFFICES ASSUME row \in 1..Len(rows[p]), row < Len(rows[p])
             PROVE  now - rows[p][row + 1].at \in Nat
  BY DEF ReplacedFor, TypeOK, RowsOK, HistoryOK
<1>1. row + 1 \in 1..Len(rows[p])
  BY DEF TypeOK, RowsOK, HistoryOK
<1>2. rows[p][row + 1].at \in Nat
  BY <1>1, RowTime
<1> QED
  BY SMTT(30), <1>1, <1>2, Bounds DEF TypeOK, RowsOK, HistoryOK, HistoryInv

(* A row that was recent less than a time to live ago is not stale. *)
LEMMA ReadsFresh ==
  ASSUME FreshInv, NEW p \in Projects, NEW row \in Nat, NEW since \in Int,
         Recent(p, row, since), now - since < ConfigTtl, Reads(p, row)
  PROVE  stale' \in Nat /\ stale' < ConfigTtl
<1> USE Bounds DEF FreshInv, FreshWithinTtl, Recent
<1>1. ReplacedFor(rows[p], row) \in Nat
  BY ReplacedForType
<1>2. ReplacedFor(rows[p], row) < ConfigTtl
  <2>1. CASE row < Len(rows[p])
    <3>1. row + 1 \in 1..Len(rows[p]) /\ now \in Nat
      BY <2>1 DEF TypeOK, RowsOK, HistoryOK
    <3>2. rows[p][row + 1].at \in Nat
      BY <3>1, RowTime
    <3> QED
      BY <2>1, <3>1, <3>2 DEF ReplacedFor
  <2>2. CASE ~(row < Len(rows[p]))
    BY <2>2 DEF ReplacedFor
  <2> QED
    BY <2>1, <2>2
<1>3. stale \in Nat /\ stale < ConfigTtl
  BY DEF TypeOK, RowsOK, HistoryOK
<1> QED
  BY <1>1, <1>2, <1>3 DEF Reads, Longer

-----------------------------------------------------------------------------
(* Types. *)

(* What a section's editor read, or the row as it is, with his edit. *)
LEMMA PatchedType ==
  ASSUME TypeOK, HistoryInv, NEW e \in Editors, editor[e].pc = "write"
  PROVE  Patched(e) \in [Column -> Nat]
<1> DEFINE p == editor[e].project
           n == IF editor[e].row = 0 THEN Len(rows[p]) ELSE editor[e].row
<1>1. p \in Projects /\ editor[e].row \in Nat /\ editor[e].edit \in Nat /\ editor[e].row <= Len(rows[p])
  BY DEF TypeOK, EditorOK, EditState
<1>2. Len(rows[p]) \in 1..Len(rows[p]) /\ n \in 1..Len(rows[p])
  BY <1>1 DEF TypeOK, RowsOK, HistoryInv
<1>3. rows[p][Len(rows[p])].of \in [Column -> Nat] /\ rows[p][n].of \in [Column -> Nat]
  BY <1>1, <1>2, RowTime DEF Row
<1> QED
  BY <1>1, <1>3 DEF Patched

(* Of the entries some stay. *)
LEMMA EvictedType ==
  ASSUME NEW entries, entries = [p \in DOMAIN entries |-> entries[p]], NEW rest \in Evicted(entries)
  PROVE  DOMAIN rest \subseteq DOMAIN entries /\ rest = [p \in DOMAIN rest |-> entries[p]]
<1>1. CASE rest = entries
  BY <1>1
<1>2. ASSUME NEW p, rest = Without(entries, p)
      PROVE  DOMAIN rest \subseteq DOMAIN entries /\ rest = [q \in DOMAIN rest |-> entries[q]]
  BY <1>2 DEF Without
<1> QED
  BY <1>1, <1>2 DEF Evicted

(* A row that is filled in, beside entries that were there. *)
LEMMA Filled ==
  ASSUME CacheOK, NEW p \in Projects, NEW entry \in Entry, cache' \in Evicted(With(p, entry))
  PROVE  /\ CacheOK'
         /\ \A q \in DOMAIN cache' : (q = p /\ cache'[q] = entry) \/ (q \in DOMAIN cache /\ cache'[q] = cache[q])
<1> DEFINE W == With(p, entry)
<1>1. DOMAIN W = DOMAIN cache \cup {p} /\ W = [q \in DOMAIN W |-> W[q]]
  BY DEF With
<1>2. \A q \in DOMAIN W : W[q] = IF q = p THEN entry ELSE cache[q]
  BY DEF With
<1> HIDE DEF W
<1>3. DOMAIN cache' \subseteq DOMAIN W /\ cache' = [q \in DOMAIN cache' |-> W[q]]
  BY <1>1, EvictedType DEF W
<1>4. \A q \in DOMAIN cache' : cache'[q] = W[q]
  BY <1>3
<1>5. \A q \in DOMAIN cache' : (q = p /\ cache'[q] = entry) \/ (q \in DOMAIN cache /\ cache'[q] = cache[q])
  BY <1>1, <1>2, <1>3, <1>4
<1>6. \A q \in DOMAIN cache' : cache'[q] \in Entry
  BY <1>5 DEF CacheOK
<1> QED
  BY <1>1, <1>3, <1>5, <1>6 DEF CacheOK

-----------------------------------------------------------------------------
(* The history of the rows. *)

\* The rows of a project stay and at most one is added to them, now.
Grows ==
  /\ RowsOK' /\ now' \in Nat /\ now <= now'
  /\ \A p \in Projects :
       rows'[p] = rows[p] \/ \E new \in Row : new.at = now /\ rows'[p] = Append(rows[p], new)

(* Every step lets the histories grow. *)
LEMMA StepGrows == TypeOK /\ HistoryInv /\ [Next]_vars => Grows
<1> SUFFICES ASSUME TypeOK, HistoryInv, [Next]_vars
             PROVE  Grows
  OBVIOUS
<1> USE Bounds
<1>1. now \in Nat
  BY DEF TypeOK, HistoryOK
<1>2. CASE rows' = rows /\ now' \in {now, now + 1}
  BY <1>1, <1>2 DEF Grows, TypeOK, RowsOK
<1>3. ASSUME NEW e \in Editors, EditWrites(e)
      PROVE  Grows
  <2> DEFINE q == editor[e].project
             new == [at |-> now, of |-> Patched(e)]
  <2>1. q \in Projects
    BY <1>3 DEF EditWrites, TypeOK, EditorOK
  <2>2. new \in Row /\ new.at = now
    BY <1>1, <1>3, PatchedType DEF EditWrites, Row
  <2> HIDE DEF new, q
  <2>3. rows' = [rows EXCEPT ![q] = Append(rows[q], new)] /\ now' = now
    BY <1>3 DEF EditWrites, new, q
  <2> QED
    BY <1>1, <2>1, <2>2, <2>3 DEF Grows, TypeOK, RowsOK
<1> QED
  BY <1>1, <1>2, <1>3 DEF Next, Turn, Edit, Get, Locked, FetchReads, Fill, FetchFails, StartEdit, EditReads,
     EditFails, Invalidate, Announced, Tick, vars

(* A row that is recent stays so, because later rows are written later. *)
LEMMA RecentStays ==
  ASSUME TypeOK, Grows, NEW p \in Projects, NEW row \in Nat, NEW since \in Int,
         since <= now, Recent(p, row, since)
  PROVE  /\ row \in 1..Len(rows'[p])
         /\ row < Len(rows'[p]) => since <= rows'[p][row + 1].at
<1>1. rows[p] \in Seq(Row)
  BY DEF TypeOK, RowsOK
<1>2. CASE rows'[p] = rows[p]
  BY <1>2 DEF Recent
<1>3. ASSUME NEW new \in Row, new.at = now, rows'[p] = Append(rows[p], new)
      PROVE  /\ row \in 1..Len(rows'[p])
             /\ row < Len(rows'[p]) => since <= rows'[p][row + 1].at
  <2>1. Len(rows'[p]) = Len(rows[p]) + 1
    BY <1>1, <1>3
  <2>2. CASE row = Len(rows[p])
    <3>1. rows'[p][row + 1] = new
      BY <1>1, <1>3, <2>2
    <3> QED
      BY <1>1, <1>3, <2>1, <3>1 DEF Recent
  <2>3. CASE row < Len(rows[p])
    <3>1. rows'[p][row + 1] = rows[p][row + 1]
      BY <1>1, <1>3, <2>3
    <3> QED
      BY <1>1, <2>1, <2>3, <3>1 DEF Recent
  <2> QED
    BY <1>1, <2>2, <2>3 DEF Recent
<1> QED
  BY <1>2, <1>3 DEF Grows

(* No row of a history is younger than the clock. *)
LEMMA HistoryStep == TypeOK /\ HistoryInv /\ [Next]_vars => HistoryInv'
<1> SUFFICES ASSUME TypeOK, HistoryInv, Grows, NEW p \in Projects
             PROVE  Len(rows'[p]) > 0 /\ \A i \in 1..Len(rows'[p]) : rows'[p][i].at <= now'
  BY StepGrows DEF HistoryInv
<1>1. rows[p] \in Seq(Row) /\ now \in Nat
  BY DEF TypeOK, RowsOK, HistoryOK
<1>2. \A i \in 1..Len(rows[p]) : rows[p][i].at \in Nat /\ rows[p][i].at <= now'
  BY <1>1, RowTime DEF HistoryInv, Grows
<1>3. CASE rows'[p] = rows[p]
  BY <1>2, <1>3 DEF HistoryInv
<1>4. ASSUME NEW new \in Row, new.at = now, rows'[p] = Append(rows[p], new)
      PROVE  Len(rows'[p]) > 0 /\ \A i \in 1..Len(rows'[p]) : rows'[p][i].at <= now'
  <2>1. Len(rows'[p]) = Len(rows[p]) + 1 /\ Len(rows[p]) \in Nat
    BY <1>1, <1>4
  <2>2. \A i \in 1..Len(rows'[p]) : rows'[p][i] = IF i <= Len(rows[p]) THEN rows[p][i] ELSE new
    BY <1>1, <1>4, <2>1
  <2>3. now <= now'
    BY DEF Grows
  <2> QED
    BY <1>2, <1>4, <2>1, <2>2, <2>3
<1> QED
  BY <1>3, <1>4 DEF Grows

-----------------------------------------------------------------------------
(* What a step of a turn or of the panel does to the parts of the state. *)

(* The turns keep their types. *)
LEMMA ReaderStep == ReaderOK /\ RowsOK /\ HistoryOK /\ [Next]_vars => ReaderOK'
<1> SUFFICES ASSUME ReaderOK, RowsOK, HistoryOK, [Next]_vars
             PROVE  ReaderOK'
  OBVIOUS
<1> USE DEF ReaderOK, Fetch
<1>1. CASE UNCHANGED reader
  BY <1>1
<1>2. ASSUME NEW r \in Readers, NEW p \in Projects, Get(r, p)
      PROVE  ReaderOK'
  BY <1>2 DEF Get
<1>3. ASSUME NEW r \in Readers, Locked(r)
      PROVE  ReaderOK'
  <2>1. now \in Nat
    BY Bounds DEF HistoryOK
  <2>2. CASE reader' = [reader EXCEPT ![r] = Idle]
    BY <2>2 DEF Idle
  <2>3. CASE reader' = [reader EXCEPT ![r].pc = "fetch", ![r].since = now]
    BY <1>3, <2>1, <2>3 DEF Locked
  <2> QED
    BY <1>3, <2>2, <2>3 DEF Locked, Uses
<1>4. ASSUME NEW r \in Readers, FetchReads(r)
      PROVE  ReaderOK'
  <2>1. Len(rows[reader[r].project]) \in Nat
    BY <1>4 DEF FetchReads, RowsOK
  <2> QED
    BY <1>4, <2>1 DEF FetchReads
<1>5. ASSUME NEW r \in Readers, reader' = [reader EXCEPT ![r] = Idle]
      PROVE  ReaderOK'
  BY <1>5 DEF Idle
<1> QED
  BY <1>1, <1>2, <1>3, <1>4, <1>5 DEF Next, Turn, Edit, Fill, Uses, FetchFails, StartEdit, EditReads,
     EditWrites, EditFails, Invalidate, Announced, Tick, readVars, vars

(* The editors keep their types, and their rows are rows of their project. *)
LEMMA EditorStep == TypeOK /\ Grows /\ [Next]_vars => EditorOK'
<1> SUFFICES ASSUME EditorOK, RowsOK, Grows, edits \in Nat, [Next]_vars
             PROVE  EditorOK'
  BY DEF TypeOK, HistoryOK
<1> USE DEF EditorOK, EditState
<1>1. \A p \in Projects : /\ Len(rows[p]) \in Nat /\ Len(rows'[p]) \in Nat
                          /\ Len(rows[p]) <= Len(rows'[p])
  <2> TAKE p \in Projects
  <2>1. rows[p] \in Seq(Row) /\ rows'[p] \in Seq(Row)
    BY DEF Grows, RowsOK
  <2>2. rows'[p] = rows[p] \/ \E new \in Row : rows'[p] = Append(rows[p], new)
    BY DEF Grows
  <2> QED
    BY <2>1, <2>2
<1>2. CASE UNCHANGED editor
  BY <1>1, <1>2
<1>3. ASSUME NEW e \in Editors, NEW p \in Projects, NEW c \in Column, StartEdit(e, p, c)
      PROVE  EditorOK'
  BY <1>1, <1>3 DEF StartEdit
<1>4. ASSUME NEW e \in Editors, EditReads(e)
      PROVE  EditorOK'
  BY <1>1, <1>4 DEF EditReads
<1>5. ASSUME NEW e \in Editors, EditWrites(e)
      PROVE  EditorOK'
  <2> DEFINE n == Len(rows'[editor[e].project])
  <2>1. editor[e].project \in Projects /\ n \in Nat
    BY <1>1, <1>5 DEF EditWrites
  <2>2. CASE editor' = [editor EXCEPT ![e] = NoEdit]
    BY <1>1, <2>2 DEF NoEdit
  <2>3. CASE editor' = [editor EXCEPT ![e].pc = "written", ![e].row = n]
    BY <1>1, <1>5, <2>1, <2>3 DEF EditWrites
  <2> QED
    BY <1>5, <2>2, <2>3 DEF EditWrites
<1>6. ASSUME NEW e \in Editors, editor' = [editor EXCEPT ![e] = NoEdit]
      PROVE  EditorOK'
  BY <1>1, <1>6 DEF NoEdit
<1> QED
  BY <1>2, <1>3, <1>4, <1>5, <1>6 DEF Next, Turn, Edit, Get, Locked, FetchReads, Fill, FetchFails,
     EditFails, Invalidate, Announced, Tick, editVars, vars

(* What is in the cache is what was there, or what a turn has fetched. *)
LEMMA CacheStep ==
  ASSUME TypeOK, [Next]_vars
  PROVE  /\ CacheOK'
         /\ \A p \in DOMAIN cache' :
              \/ p \in DOMAIN cache /\ cache'[p] = cache[p]
              \/ \E r \in Readers : /\ reader[r].pc = "fill" /\ reader[r].project = p
                                    /\ cache'[p] = [row |-> reader[r].row, exp |-> reader[r].since + ConfigTtl]
<1> USE DEF TypeOK
<1>1. CASE UNCHANGED cache
  BY <1>1 DEF CacheOK
<1>2. ASSUME NEW r \in Readers, Fill(r)
      PROVE  /\ CacheOK'
             /\ \A p \in DOMAIN cache' :
                  \/ p \in DOMAIN cache /\ cache'[p] = cache[p]
                  \/ p = reader[r].project /\ cache'[p] = [row |-> reader[r].row, exp |-> reader[r].since + ConfigTtl]
  <2>1. reader[r].project \in Projects /\ [row |-> reader[r].row, exp |-> reader[r].since + ConfigTtl] \in Entry
    BY <1>2, Bounds DEF Fill, ReaderOK, Fetch, Entry
  <2> QED
    BY <1>2, <2>1, Filled DEF Fill
<1>3. ASSUME NEW e \in Editors, cache' = Without(cache, editor[e].project)
      PROVE  CacheOK' /\ \A p \in DOMAIN cache' : p \in DOMAIN cache /\ cache'[p] = cache[p]
  BY <1>3 DEF Without, CacheOK
<1> QED
  <2>1. CASE \E r \in Readers : Fill(r)
    BY <1>2, <2>1 DEF Fill
  <2>2. CASE \E e \in Editors : Invalidate(e)
    BY <1>3, <2>2 DEF Invalidate
  <2> QED
    BY <1>1, <2>1, <2>2 DEF Next, Turn, Edit, Get, Locked, FetchReads, FetchFails, StartEdit, EditReads,
       EditWrites, EditFails, Tick, readVars, vars

-----------------------------------------------------------------------------
(* Freshness. *)

(* What a turn reads from the cache, or has just fetched, is not stale. *)
LEMMA StaleStep == FreshInv /\ [Next]_vars => stale' \in Nat /\ stale' < ConfigTtl
<1> SUFFICES ASSUME FreshInv, [Next]_vars
             PROVE  stale' \in Nat /\ stale' < ConfigTtl
  OBVIOUS
<1> USE Bounds
<1>1. now \in Nat /\ stale \in Nat /\ stale < ConfigTtl
  BY DEF FreshInv, FreshWithinTtl, TypeOK, HistoryOK
<1>2. ASSUME NEW p \in Projects, Hit(p), Reads(p, cache[p].row)
      PROVE  stale' \in Nat /\ stale' < ConfigTtl
  <2>1. p \in DOMAIN cache /\ cache[p].exp > now
    BY <1>2 DEF Hit
  <2>2. cache[p].row \in Nat /\ cache[p].exp \in Nat
    BY <2>1 DEF FreshInv, TypeOK, CacheOK, Entry
  <2>3. Recent(p, cache[p].row, cache[p].exp - ConfigTtl)
    BY <2>1 DEF FreshInv, CacheInv
  <2>4. cache[p].exp - ConfigTtl \in Int /\ now - (cache[p].exp - ConfigTtl) < ConfigTtl
    BY <1>1, <2>1, <2>2
  <2> QED
    BY <1>2, <2>2, <2>3, <2>4, ReadsFresh
<1>3. ASSUME NEW r \in Readers, reader[r].pc = "fill", Reads(reader[r].project, reader[r].row)
      PROVE  stale' \in Nat /\ stale' < ConfigTtl
  <2>1. reader[r].project \in Projects /\ reader[r].row \in Nat /\ reader[r].since \in Nat
    BY <1>3 DEF FreshInv, TypeOK, ReaderOK, Fetch
  <2>2. Recent(reader[r].project, reader[r].row, reader[r].since) /\ now <= reader[r].since + Timeout
    BY <1>3 DEF FreshInv, FetchInv
  <2>3. now - reader[r].since < ConfigTtl
    BY <1>1, <2>1, <2>2
  <2> QED
    BY <1>3, <2>1, <2>2, <2>3, ReadsFresh
<1>4. CASE UNCHANGED stale
  BY <1>1, <1>4
<1>5. ASSUME NEW r \in Readers, Locked(r)
      PROVE  stale' \in Nat /\ stale' < ConfigTtl
  <2>1. reader[r].project \in Projects
    BY <1>5 DEF Locked, FreshInv, TypeOK, ReaderOK
  <2> QED
    BY <1>2, <1>4, <1>5, <2>1 DEF Locked, Uses
<1> QED
  BY <1>2, <1>3, <1>4, <1>5 DEF Next, Turn, Edit, Get, FetchReads, Fill, Uses, FetchFails, StartEdit, EditReads,
     EditWrites, EditFails, Invalidate, Announced, Tick, readVars, vars

(* Locks, counters and history keep their types. *)
LEMMA HistoryTypeStep == FreshInv /\ [Next]_vars => HistoryOK'
<1> SUFFICES ASSUME HistoryOK, EditorOK, stale' \in Nat, [Next]_vars
             PROVE  HistoryOK'
  BY StaleStep DEF FreshInv, TypeOK
<1> USE Bounds DEF HistoryOK, readVars, editVars, vars
<1>1. ASSUME NEW r \in Readers, NEW p \in Projects, Get(r, p)
      PROVE  HistoryOK'
  BY <1>1 DEF Get
<1>2. ASSUME NEW r \in Readers, Locked(r)
      PROVE  HistoryOK'
  <2>1. lock' \in {lock, {r}}
    BY <1>2 DEF Locked
  <2> QED
    BY <1>2, <2>1 DEF Locked
<1>3. ASSUME NEW r \in Readers, FetchReads(r) \/ Fill(r)
      PROVE  HistoryOK'
  BY <1>3 DEF FetchReads, Fill
<1>4. ASSUME NEW r \in Readers, FetchFails(r)
      PROVE  HistoryOK'
  BY <1>4 DEF FetchFails, Fault
<1>5. ASSUME NEW e \in Editors, NEW p \in Projects, NEW c \in Column, StartEdit(e, p, c)
      PROVE  HistoryOK'
  BY <1>5 DEF StartEdit
<1>6. ASSUME NEW e \in Editors, EditReads(e) \/ EditFails(e)
      PROVE  HistoryOK'
  BY SMTT(30), <1>6 DEF EditReads, EditFails, Fault
<1>7. ASSUME NEW e \in Editors, EditWrites(e)
      PROVE  HistoryOK'
  <2>1. newest' \in [Projects -> [Column -> Nat]]
    BY <1>7 DEF EditWrites, EditorOK, EditState
  <2>2. faults' \in 0..MaxFaults
    BY <1>7 DEF EditWrites, Fault
  <2> QED
    BY <1>7, <2>1, <2>2 DEF EditWrites
<1>8. ASSUME NEW e \in Editors, Invalidate(e)
      PROVE  HistoryOK'
  <2>1. acked' \in [Projects -> Nat]
    BY <1>8 DEF Invalidate, Announced, EditorOK, EditState
  <2>2. raced' \subseteq Projects
    BY <1>8 DEF Invalidate, Announced, EditorOK
  <2> QED
    BY <1>8, <2>1, <2>2 DEF Invalidate, Announced
<1>9. CASE Tick
  BY <1>9 DEF Tick
<1>10. CASE UNCHANGED vars
  BY <1>10
<1> QED
  BY <1>1, <1>2, <1>3, <1>4, <1>5, <1>6, <1>7, <1>8, <1>9, <1>10 DEF Next, Turn, Edit

(* What is in the cache was recent when its time to live began. *)
LEMMA CacheInvStep == FreshInv /\ [Next]_vars => CacheInv'
<1> SUFFICES ASSUME FreshInv, [Next]_vars, NEW p \in DOMAIN cache'
             PROVE  /\ cache'[p].exp <= now' + ConfigTtl
                    /\ Recent(p, cache[p].row, cache[p].exp - ConfigTtl)'
  BY DEF CacheInv
<1> USE Bounds
<1>1. Grows /\ TypeOK /\ now \in Nat /\ now' \in Nat /\ now <= now'
  BY StepGrows DEF FreshInv, TypeOK, HistoryOK, Grows
<1>2. CASE p \in DOMAIN cache /\ cache'[p] = cache[p]
  <2>1. p \in Projects /\ cache[p].row \in Nat /\ cache[p].exp \in Nat
    BY <1>1, <1>2 DEF TypeOK, CacheOK, Entry
  <2>2. cache[p].exp <= now + ConfigTtl /\ Recent(p, cache[p].row, cache[p].exp - ConfigTtl)
    BY <1>2 DEF FreshInv, CacheInv
  <2> DEFINE row == cache[p].row
             since == cache[p].exp - ConfigTtl
  <2>3. since \in Int /\ since <= now
    BY <1>1, <2>1, <2>2
  <2>4. /\ row \in 1..Len(rows'[p])
        /\ row < Len(rows'[p]) => since <= rows'[p][row + 1].at
    BY <1>1, <2>1, <2>2, <2>3, RecentStays
  <2> QED
    BY <1>1, <1>2, <2>1, <2>2, <2>4 DEF Recent
<1>3. ASSUME NEW r \in Readers, reader[r].pc = "fill", reader[r].project = p,
             cache'[p] = [row |-> reader[r].row, exp |-> reader[r].since + ConfigTtl]
      PROVE  /\ cache'[p].exp <= now' + ConfigTtl
             /\ Recent(p, cache[p].row, cache[p].exp - ConfigTtl)'
  <2> DEFINE row == reader[r].row
             since == reader[r].since
  <2>1. p \in Projects /\ row \in Nat /\ since \in Nat
    BY <1>1, <1>3 DEF TypeOK, ReaderOK, Fetch
  <2>2. Recent(p, row, since) /\ since <= now
    BY <1>3 DEF FreshInv, FetchInv
  <2>3. /\ row \in 1..Len(rows'[p])
        /\ row < Len(rows'[p]) => since <= rows'[p][row + 1].at
    BY <1>1, <2>1, <2>2, RecentStays
  <2>4. cache'[p].row = row /\ cache'[p].exp = since + ConfigTtl /\ since + ConfigTtl - ConfigTtl = since
    BY <1>3, <2>1
  <2> QED
    BY <1>1, <2>1, <2>2, <2>3, <2>4 DEF Recent
<1> QED
  BY <1>1, <1>2, <1>3, CacheStep

(* What a turn fetches was recent when its request began. *)
LEMMA FetchInvStep == FreshInv /\ [Next]_vars => FetchInv'
<1> SUFFICES ASSUME FreshInv, [Next]_vars, NEW r \in Readers
             PROVE  /\ reader'[r].pc \in {"fetch", "fill"} =>
                         reader'[r].since <= now' /\ now' <= reader'[r].since + Timeout
                    /\ reader'[r].pc = "fill" => Recent(reader[r].project, reader[r].row, reader[r].since)'
  BY DEF FetchInv
<1> USE Bounds
<1>1. Grows /\ TypeOK /\ now \in Nat /\ now' \in Nat /\ now <= now'
  BY StepGrows DEF FreshInv, TypeOK, HistoryOK, Grows
<1>2. /\ reader[r].pc \in {"fetch", "fill"} => reader[r].since <= now /\ now <= reader[r].since + Timeout
      /\ reader[r].pc = "fill" => Recent(reader[r].project, reader[r].row, reader[r].since)
  BY DEF FreshInv, FetchInv
<1>3. reader[r].row \in Nat /\ reader[r].since \in Nat /\ (reader[r].pc # "idle" => reader[r].project \in Projects)
  BY <1>1 DEF TypeOK, ReaderOK, Fetch
<1>4. CASE reader'[r] = reader[r] /\ (reader[r].pc \in {"fetch", "fill"} => now' <= reader[r].since + Timeout)
  <2>1. CASE reader[r].pc = "fill"
    <3>1. Recent(reader[r].project, reader[r].row, reader[r].since)
      BY <1>2, <2>1
    <3>2. Recent(reader[r].project, reader[r].row, reader[r].since)'
      <4> DEFINE p == reader[r].project
                 row == reader[r].row
                 since == reader[r].since
      <4>1. p \in Projects /\ since <= now
        BY <1>2, <1>3, <2>1
      <4>2. /\ row \in 1..Len(rows'[p])
            /\ row < Len(rows'[p]) => since <= rows'[p][row + 1].at
        BY <1>1, <1>3, <3>1, <4>1, RecentStays
      <4>3. reader'[r].project = p /\ reader'[r].row = row /\ reader'[r].since = since
        BY <1>4
      <4> HIDE DEF p, row, since
      <4> QED
        BY <4>2, <4>3 DEF Recent
    <3> QED
      BY <1>1, <1>2, <1>3, <1>4, <2>1, <3>2
  <2>2. CASE reader[r].pc # "fill"
    BY <1>1, <1>2, <1>3, <1>4, <2>2
  <2> QED
    BY <2>1, <2>2
<1>5. CASE reader'[r].pc \in {"idle", "wait"}
  BY <1>5
<1>6. CASE Locked(r)
  <2>1. CASE reader'[r] = Idle
    BY <1>5, <2>1 DEF Idle
  <2>2. CASE reader' = [reader EXCEPT ![r].pc = "fetch", ![r].since = now] /\ now' = now
    BY <1>1, <2>2 DEF TypeOK, ReaderOK, Fetch
  <2> QED
    BY <1>1, <1>6, <2>1, <2>2 DEF Locked, Uses, TypeOK, ReaderOK
<1>7. CASE FetchReads(r)
  <2> DEFINE p == reader[r].project
  <2>1. p \in Projects /\ rows' = rows /\ now' = now /\ reader[r].pc = "fetch"
    BY <1>3, <1>7 DEF FetchReads
  <2>2. /\ reader'[r].pc = "fill" /\ reader'[r].project = p
        /\ reader'[r].since = reader[r].since /\ reader'[r].row = Len(rows[p])
    BY <1>1, <1>7 DEF FetchReads, TypeOK, ReaderOK, Fetch
  <2>3. Len(rows[p]) \in 1..Len(rows[p])
    BY <1>1, <2>1 DEF FreshInv, HistoryInv, TypeOK, RowsOK
  <2> QED
    BY <1>2, <2>1, <2>2, <2>3 DEF Recent
<1>8. CASE Tick
  <2>1. reader' = reader /\ (reader[r].pc \in {"fetch", "fill"} => now' <= reader[r].since + Timeout)
    BY <1>8 DEF Tick, readVars
  <2> QED
    BY <1>4, <2>1
<1>9. ASSUME NEW q \in Readers, Turn(q), ~Locked(r), ~FetchReads(r)
      PROVE  reader'[r].pc \in {"idle", "wait"} \/ (reader'[r] = reader[r] /\ now' = now)
  <2> USE <1>1 DEF TypeOK, ReaderOK, Fetch
  <2>1. ASSUME NEW p \in Projects, Get(q, p)
        PROVE  reader'[r].pc \in {"idle", "wait"} \/ (reader'[r] = reader[r] /\ now' = now)
    BY <2>1 DEF Get
  <2>2. CASE q # r
    BY <1>9, <2>1, <2>2 DEF Turn, Locked, FetchReads, Fill, FetchFails, Uses
  <2>3. CASE q = r
    BY <1>9, <2>1, <2>3 DEF Turn, Fill, FetchFails, Uses, Idle
  <2> QED
    BY <2>2, <2>3
<1>10. CASE UNCHANGED <<reader, now>>
  BY <1>1, <1>2, <1>4, <1>10
<1> QED
  <2>1. CASE \E q \in Readers : Turn(q)
    BY <1>1, <1>2, <1>4, <1>5, <1>6, <1>7, <1>9, <2>1
  <2> QED
    BY <1>8, <1>10, <2>1 DEF Next, Edit, StartEdit, EditReads, EditWrites, EditFails, Invalidate, Announced,
       readVars, vars

(* The types and what keeps the cache fresh are inductive. *)
LEMMA FreshInvInit == Init => FreshInv
<1> SUFFICES ASSUME Init
             PROVE  FreshInv
  OBVIOUS
<1> USE Bounds DEF Init
<1>1. TypeOK
  BY TypeInit
<1>2. HistoryInv
  BY DEF HistoryInv
<1>3. CacheInv
  BY DEF CacheInv
<1>4. FetchInv
  BY DEF FetchInv, Idle
<1> QED
  BY <1>1, <1>2, <1>3, <1>4 DEF FreshInv, FreshWithinTtl

\* Every step keeps rows that are cached or under way recent.
LEMMA FreshInvStep == FreshInv /\ [Next]_vars => FreshInv'
<1> SUFFICES ASSUME FreshInv, [Next]_vars
             PROVE  FreshInv'
  OBVIOUS
<1>1. Grows /\ HistoryInv'
  BY StepGrows, HistoryStep DEF FreshInv
<1>2. TypeOK'
  BY <1>1, ReaderStep, EditorStep, CacheStep, HistoryTypeStep DEF FreshInv, TypeOK, Grows
<1> QED
  BY <1>1, <1>2, CacheInvStep, FetchInvStep, StaleStep DEF FreshInv, FreshWithinTtl

-----------------------------------------------------------------------------
(* Answered edits. *)

(* Every step keeps rows older than an answered edit out of the cache, and those on *)
(* their way there under the name of a race. *)
LEMMA AckStep == FreshInv /\ AckInv /\ AckedIsRead /\ [Next]_vars => AckInv' /\ AckedIsRead'
<1> SUFFICES ASSUME TypeOK, TypeOK', Grows, HistoryInv, AckInv, AckedIsRead, [Next]_vars
             PROVE  AckInv' /\ AckedIsRead'
  BY FreshInvStep, StepGrows DEF FreshInv
<1>1. \A p \in Projects : /\ Len(rows[p]) \in Nat /\ Len(rows'[p]) \in Nat
                          /\ Len(rows[p]) <= Len(rows'[p]) /\ acked[p] \in Nat
  <2> TAKE p \in Projects
  <2>1. rows[p] \in Seq(Row) /\ rows'[p] \in Seq(Row)
    BY DEF Grows, TypeOK, RowsOK
  <2>2. rows'[p] = rows[p] \/ \E new \in Row : rows'[p] = Append(rows[p], new)
    BY DEF Grows
  <2> QED
    BY <2>1, <2>2, SMTT(40) DEF TypeOK, HistoryOK
<1>2. CASE UNCHANGED <<acked, raced>>
  <2>1. \A p \in Projects : acked'[p] <= Len(rows'[p])
    BY <1>1, <1>2 DEF AckInv
  <2>2. \A p \in DOMAIN cache' \ raced' : acked'[p] <= cache'[p].row
    BY <1>2, CacheStep DEF AckInv, AckedIsRead
  <2>3. ASSUME NEW r \in Readers, reader'[r].pc = "fill", reader'[r].project \notin raced
        PROVE  acked[reader'[r].project] <= reader'[r].row
    <3>1. CASE reader'[r] = reader[r]
      BY <2>3, <3>1 DEF AckInv
    <3>2. CASE FetchReads(r)
      BY <1>1, <2>3, <3>2 DEF FetchReads, AckInv, TypeOK, ReaderOK, Fetch
    <3>3. ASSUME NEW q \in Readers, Turn(q), ~FetchReads(r)
          PROVE  reader'[r] = reader[r] \/ reader'[r].pc # "fill"
      <4> USE DEF TypeOK, ReaderOK, Fetch
      <4>1. ASSUME NEW p \in Projects, Get(q, p)
            PROVE  reader'[r] = reader[r] \/ reader'[r].pc # "fill"
        BY <4>1 DEF Get
      <4>2. CASE Locked(q)
        BY <4>2 DEF Locked, Uses, Idle
      <4>3. CASE FetchReads(q)
        BY <3>3, <4>3 DEF FetchReads
      <4>4. CASE Fill(q) \/ FetchFails(q)
        BY <4>4 DEF Fill, FetchFails, Uses, Idle
      <4> QED
        BY <3>3, <4>1, <4>2, <4>3, <4>4 DEF Turn
    <3> QED
      BY <2>3, <3>1, <3>2, <3>3 DEF Next, Edit, StartEdit, EditReads, EditWrites, EditFails, Invalidate,
         Announced, Tick, readVars, vars
  <2> QED
    BY <1>2, <2>1, <2>2, <2>3 DEF AckInv, AckedIsRead
<1>3. ASSUME NEW e \in Editors, Invalidate(e)
      PROVE  AckInv' /\ AckedIsRead'
  <2> DEFINE q == editor[e].project
             row == editor[e].row
  <2>1. q \in Projects /\ row \in Nat /\ row <= Len(rows[q]) /\ rows' = rows /\ reader' = reader
    BY <1>3 DEF Invalidate, Announced, TypeOK, EditorOK, EditState
  <2>2. /\ acked' = [acked EXCEPT ![q] = IF acked[q] < row THEN row ELSE acked[q]]
        /\ raced' = IF \E r \in Readers : reader[r].pc = "fill" /\ reader[r].project = q /\ reader[r].row < row
                      THEN raced \cup {q} ELSE raced
        /\ cache' = Without(cache, q)
    BY <1>3 DEF Invalidate, Announced
  <2> HIDE DEF q, row
  <2>3. \A p \in Projects : acked'[p] = IF p = q /\ acked[q] < row THEN row ELSE acked[p]
    BY <1>1, <2>1, <2>2 DEF TypeOK, HistoryOK
  <2>4. \A p \in Projects : acked'[p] <= Len(rows'[p])
    BY <1>1, <2>1, <2>3 DEF AckInv
  <2>5. ASSUME NEW r \in Readers, reader[r].pc = "fill", reader[r].project \notin raced'
        PROVE  acked'[reader[r].project] <= reader[r].row
    <3>1. reader[r].project \in Projects /\ reader[r].row \in Nat
      BY <2>5 DEF TypeOK, ReaderOK, Fetch
    <3>2. reader[r].project \notin raced /\ (reader[r].project = q => ~(reader[r].row < row))
      BY <2>2, <2>5
    <3>3. acked[reader[r].project] <= reader[r].row
      BY <2>5, <3>2 DEF AckInv
    <3> QED
      BY <1>1, <2>1, <2>3, <3>1, <3>2, <3>3
  <2>6. \A p \in DOMAIN cache' \ raced' : acked'[p] <= cache'[p].row
    <3> TAKE p \in DOMAIN cache' \ raced'
    <3>1. p \in DOMAIN cache /\ p # q /\ cache'[p] = cache[p] /\ p \notin raced /\ p \in Projects
      BY <2>2 DEF Without, TypeOK, CacheOK
    <3> QED
      BY <2>3, <3>1 DEF AckedIsRead
  <2> QED
    BY <2>1, <2>4, <2>5, <2>6 DEF AckInv, AckedIsRead
<1> QED
  BY <1>2, <1>3 DEF Next, Turn, Edit, Get, Locked, FetchReads, Fill, FetchFails, StartEdit, EditReads,
     EditWrites, EditFails, Tick, editVars, vars

-----------------------------------------------------------------------------
(***************************************************************************)
(* Lost edits.  That no more of them are lost than edits overlapped is not *)
(* inductive: one write may take several edits with it.  What is, is a     *)
(* bound on all that may still be lost: besides the lost ones the sections *)
(* of which an editor has read an older text that he will write back, and  *)
(* those that an editor is about to write.  As long as there is one of the *)
(* last kind the bound is one higher, because the last of several          *)
(* overlapping edits to be written is not lost.                            *)
(***************************************************************************)
StaleCopies ==
  {pc \in Projects \X Sections : \E e \in Editors :
     /\ editor[e].pc = "write" /\ editor[e].row # 0 /\ editor[e].project = pc[1]
     /\ rows[pc[1]][editor[e].row].of[pc[2]] # newest[pc[1]][pc[2]]}

Pending ==
  {pc \in Projects \X Sections : \E e \in Editors :
     editor[e].pc \in {"read", "write"} /\ editor[e].project = pc[1] /\ editor[e].column = pc[2]}

AtRisk == LostEdits \cup StaleCopies \cup Pending

EditKindInv ==
  \A e \in Editors :
    /\ editor[e].pc = "read" => editor[e].column \in Sections
    /\ editor[e].pc = "write" => (editor[e].column \in Sections <=> editor[e].row # 0)

RiskInv ==
  /\ EditKindInv
  /\ IsFiniteSet(AtRisk)
  /\ Cardinality(AtRisk) <= overlaps + 1
  /\ Pending = {} => Cardinality(AtRisk) <= overlaps
  /\ EditsLostByOverlapOnly

(* How the number of elements follows a set that grows or shrinks by one. *)
LEMMA CountSubset ==
  ASSUME NEW A, IsFiniteSet(A), NEW B, B \subseteq A
  PROVE  IsFiniteSet(B) /\ Cardinality(A) \in Nat /\ Cardinality(B) \in Nat /\ Cardinality(B) <= Cardinality(A)
BY FS_Subset, FS_CardinalityType

(* With one more element. *)
LEMMA CountAdd ==
  ASSUME NEW A, IsFiniteSet(A), NEW B, NEW x, B \subseteq A \cup {x}
  PROVE  IsFiniteSet(B) /\ Cardinality(A) \in Nat /\ Cardinality(B) \in Nat /\ Cardinality(B) <= Cardinality(A) + 1
<1> DEFINE C == A \cup {x}
<1>1. Cardinality(A) \in Nat
  BY FS_CardinalityType
<1>2. IsFiniteSet(C) /\ Cardinality(C) <= Cardinality(A) + 1
  <2>1. IsFiniteSet(C) /\ (x \in A => Cardinality(C) = Cardinality(A)) /\ (x \notin A => Cardinality(C) = Cardinality(A) + 1)
    BY FS_AddElement
  <2> HIDE DEF C
  <2> QED
    BY <1>1, <2>1
<1>3. B \subseteq C
  OBVIOUS
<1> HIDE DEF C
<1>4. IsFiniteSet(B) /\ Cardinality(B) \in Nat /\ Cardinality(C) \in Nat /\ Cardinality(B) <= Cardinality(C)
  BY <1>2, <1>3, CountSubset, Zenon
<1> QED
  BY <1>1, <1>2, <1>4

(* With one of them less. *)
LEMMA CountRemove ==
  ASSUME NEW A, IsFiniteSet(A), NEW B, NEW x \in A, B \subseteq A \ {x}
  PROVE  IsFiniteSet(B) /\ Cardinality(A) \in Nat /\ Cardinality(B) \in Nat /\ Cardinality(B) <= Cardinality(A) - 1
<1> DEFINE C == A \ {x}
<1>1. Cardinality(A) \in Nat
  BY FS_CardinalityType
<1>2. IsFiniteSet(C) /\ Cardinality(C) = Cardinality(A) - 1
  BY <1>1, FS_RemoveElement
<1>3. B \subseteq C
  OBVIOUS
<1> HIDE DEF C
<1>4. IsFiniteSet(B) /\ Cardinality(B) \in Nat /\ Cardinality(C) \in Nat /\ Cardinality(B) <= Cardinality(C)
  BY <1>2, <1>3, CountSubset, Zenon
<1> QED
  BY <1>1, <1>2, <1>4

(* No more are at risk, or lost, and nobody else is about to write. *)
LEMMA RiskShrinks ==
  ASSUME TypeOK, RiskInv, EditKindInv', overlaps' = overlaps, AtRisk' \subseteq AtRisk,
         Pending' = {} => \/ Pending = {}
                          \/ AtRisk' \subseteq LostEdits
                          \/ \E x \in AtRisk : AtRisk' \subseteq AtRisk \ {x},
         LostEdits' \subseteq LostEdits \/ \E x \in AtRisk : LostEdits' \subseteq AtRisk \ {x},
         \A p \in Projects : <<p, "ai_model">> \notin LostEdits'
  PROVE  RiskInv'
<1>1. overlaps \in Nat /\ IsFiniteSet(AtRisk) /\ Cardinality(AtRisk) \in Nat
      /\ IsFiniteSet(LostEdits) /\ Cardinality(LostEdits) \in Nat /\ Cardinality(LostEdits) <= overlaps
      /\ Cardinality(AtRisk) <= overlaps + 1 /\ (Pending = {} => Cardinality(AtRisk) <= overlaps)
  <2>1. IsFiniteSet(AtRisk) /\ LostEdits \subseteq AtRisk
    BY DEF RiskInv, AtRisk
  <2> QED
    BY <2>1, FS_Subset, FS_CardinalityType DEF RiskInv, TypeOK, HistoryOK, EditsLostByOverlapOnly
<1> DEFINE A == AtRisk
           B == AtRisk'
           L == LostEdits
           M == LostEdits'
<1> HIDE DEF A, B, L, M
<1>2. /\ IsFiniteSet(A) /\ Cardinality(A) \in Nat /\ Cardinality(A) <= overlaps + 1 /\ (Pending = {} => Cardinality(A) <= overlaps)
      /\ IsFiniteSet(L) /\ Cardinality(L) \in Nat /\ Cardinality(L) <= overlaps
      /\ B \subseteq A
      /\ Pending' = {} => Pending = {} \/ B \subseteq L \/ \E x \in A : B \subseteq A \ {x}
      /\ M \subseteq L \/ \E x \in A : M \subseteq A \ {x}
  BY <1>1 DEF A, B, L, M
<1>3. IsFiniteSet(B) /\ Cardinality(B) <= overlaps + 1 /\ (Pending = {} => Cardinality(B) <= overlaps)
  <2>1. IsFiniteSet(B) /\ Cardinality(B) \in Nat /\ Cardinality(B) <= Cardinality(A)
    BY <1>2, CountSubset, Zenon
  <2> QED
    BY <1>1, <1>2, <2>1
<1>4. ASSUME NEW C, C \subseteq L \/ \E x \in A : C \subseteq A \ {x}
      PROVE  Cardinality(C) <= overlaps
  <2>1. CASE C \subseteq L
    <3>1. Cardinality(C) \in Nat /\ Cardinality(C) <= Cardinality(L)
      BY <1>2, <2>1, CountSubset, Zenon
    <3> QED
      BY <1>1, <1>2, <3>1
  <2>2. ASSUME NEW x \in A, C \subseteq A \ {x}
        PROVE  Cardinality(C) <= overlaps
    <3>1. Cardinality(C) \in Nat /\ Cardinality(C) <= Cardinality(A) - 1
      BY <1>2, <2>2, CountRemove, Zenon
    <3> QED
      BY <1>1, <1>2, <3>1
  <2> QED
    BY <1>4, <2>1, <2>2
<1>5. Cardinality(M) <= overlaps /\ (Pending' = {} => Cardinality(B) <= overlaps)
  BY <1>2, <1>3, <1>4
<1> QED
  BY <1>3, <1>5 DEF A, B, L, M, RiskInv, EditsLostByOverlapOnly

(* A section that is edited next to no other edit adds itself to what is at risk, and    *)
(* one edited next to another adds to the overlaps as well. *)
LEMMA RiskStarts ==
  ASSUME TypeOK, RiskInv, NEW e \in Editors, NEW p \in Projects, NEW c \in Column, StartEdit(e, p, c)
  PROVE  RiskInv'
<1> DEFINE new == [pc |-> IF c \in Sections THEN "read" ELSE "write",
                   project |-> p, column |-> c, row |-> 0, edit |-> edits']
<1>1. /\ editor[e].pc = "idle" /\ UNCHANGED <<rows, newest>> /\ editor' = [editor EXCEPT ![e] = new]
      /\ overlaps' = overlaps + (IF c \in Sections /\ \E other \in Editors : EditsSection(other) THEN 1 ELSE 0)
  BY DEF StartEdit
<1>2. /\ new.pc = (IF c \in Sections THEN "read" ELSE "write") /\ new.project = p /\ new.column = c /\ new.row = 0
  OBVIOUS
<1> HIDE DEF new
<1>3. editor'[e] = new /\ \A o \in Editors : o # e => editor'[o] = editor[o]
  BY <1>1 DEF TypeOK, EditorOK
<1>4. EditKindInv'
  BY <1>1, <1>2, <1>3 DEF RiskInv, EditKindInv
<1>5. LostEdits' = LostEdits
  BY <1>1 DEF LostEdits
<1>6. StaleCopies' = StaleCopies
  BY <1>1, <1>2, <1>3 DEF StaleCopies
<1>7. CASE c \notin Sections
  <2>1. Pending' = Pending
    BY <1>1, <1>2, <1>3, <1>7 DEF Pending
  <2>2. overlaps' = overlaps /\ AtRisk' = AtRisk
    BY <1>1, <1>5, <1>6, <1>7, <2>1 DEF AtRisk, TypeOK, HistoryOK
  <2> QED
    BY <1>4, <1>5, <2>1, <2>2, RiskShrinks DEF RiskInv, EditsLostByOverlapOnly
<1>8. CASE c \in Sections
  <2>1. Pending' = Pending \cup {<<p, c>>}
    BY <1>1, <1>2, <1>3, <1>8 DEF Pending
  <2>2. AtRisk' \subseteq AtRisk \cup {<<p, c>>}
    BY <1>5, <1>6, <2>1 DEF AtRisk
  <2>3. overlaps \in Nat /\ IsFiniteSet(AtRisk) /\ Cardinality(AtRisk) \in Nat
        /\ IsFiniteSet(AtRisk') /\ Cardinality(AtRisk') \in Nat /\ Cardinality(AtRisk') <= Cardinality(AtRisk) + 1
    <3>1. IsFiniteSet(AtRisk) /\ overlaps \in Nat
      BY DEF RiskInv, TypeOK, HistoryOK
    <3> QED
      BY <2>2, <3>1, CountAdd, Zenon
  <2>4. overlaps' \in Nat /\ overlaps' >= overlaps /\ (Pending # {} => overlaps' = overlaps + 1)
    BY <1>1, <1>8, <2>3 DEF Pending, EditsSection
  <2>5. Cardinality(AtRisk') <= overlaps' + 1
    BY <2>3, <2>4 DEF RiskInv
  <2>6. Cardinality(LostEdits) \in Nat
    <3>1. LostEdits \subseteq AtRisk
      BY DEF AtRisk
    <3> QED
      BY <2>3, <3>1, CountSubset, Zenon
  <2>7. EditsLostByOverlapOnly'
    BY <1>5, <2>3, <2>4, <2>6 DEF EditsLostByOverlapOnly, RiskInv
  <2> QED
    BY <1>4, <2>1, <2>3, <2>5, <2>7 DEF RiskInv
<1> QED
  BY <1>7, <1>8

(* An editor reads the newest row: what it has lost, it has lost. *)
LEMMA RiskReads ==
  ASSUME TypeOK, HistoryInv, RiskInv, NEW e \in Editors, EditReads(e)
  PROVE  RiskInv'
<1>1. /\ editor[e].pc = "read" /\ UNCHANGED <<rows, newest, overlaps>>
      /\ editor' = [editor EXCEPT ![e].pc = "write", ![e].row = Len(rows[editor[e].project])]
  BY DEF EditReads
<1>2. editor[e].project \in Projects /\ editor[e].column \in Sections /\ Len(rows[editor[e].project]) # 0
  BY <1>1 DEF TypeOK, EditorOK, RiskInv, EditKindInv, HistoryInv
<1>3. /\ editor'[e].pc = "write" /\ editor'[e].row = Len(rows[editor[e].project])
      /\ editor'[e].project = editor[e].project /\ editor'[e].column = editor[e].column
      /\ \A o \in Editors : o # e => editor'[o] = editor[o]
  BY <1>1 DEF TypeOK, EditorOK, EditState
<1>4. EditKindInv'
  BY <1>2, <1>3 DEF RiskInv, EditKindInv
<1>5. LostEdits' = LostEdits
  BY <1>1 DEF LostEdits
<1>6. StaleCopies' \subseteq StaleCopies \cup LostEdits
  <2> SUFFICES ASSUME NEW p \in Projects, NEW c \in Sections, NEW o \in Editors,
                      editor'[o].pc = "write" /\ editor'[o].row # 0 /\ editor'[o].project = p,
                      rows[p][editor'[o].row].of[c] # newest[p][c]
               PROVE  <<p, c>> \in StaleCopies \cup LostEdits
    <3>1. \A x \in StaleCopies' : \E p \in Projects, c \in Sections : x = <<p, c>>
      BY DEF StaleCopies
    <3>2. \A p \in Projects, c \in Sections : <<p, c>> \in StaleCopies' => \E o \in Editors :
            /\ editor'[o].pc = "write" /\ editor'[o].row # 0 /\ editor'[o].project = p
            /\ rows[p][editor'[o].row].of[c] # newest[p][c]
      BY ZenonT(40), <1>1 DEF StaleCopies
    <3> QED
      BY <3>1, <3>2
  <2>1. CASE o = e
    BY <1>3, <2>1 DEF LostEdits, Column
  <2>2. CASE o # e
    BY <1>3, <2>2 DEF StaleCopies
  <2> QED
    BY <2>1, <2>2
<1>7. Pending' = Pending
  <2>1. \A o \in Editors : /\ editor'[o].project = editor[o].project /\ editor'[o].column = editor[o].column
                           /\ editor'[o].pc \in {"read", "write"} <=> editor[o].pc \in {"read", "write"}
    BY <1>1, <1>3
  <2> QED
    BY <2>1 DEF Pending
<1>8. AtRisk' \subseteq AtRisk
  BY <1>5, <1>6, <1>7 DEF AtRisk
<1> QED
  BY <1>1, <1>4, <1>5, <1>7, <1>8, RiskShrinks DEF RiskInv, EditsLostByOverlapOnly

(* A write can lose what its editor had an older text of, and never what it writes. *)
LEMMA RiskWrites ==
  ASSUME TypeOK, HistoryInv, RiskInv, NEW e \in Editors, EditWrites(e)
  PROVE  RiskInv'
<1> DEFINE q == editor[e].project
           col == editor[e].column
           copy == editor[e].row
           last == Len(rows[q])
           new == [at |-> now, of |-> Patched(e)]
<1>1. /\ editor[e].pc = "write" /\ overlaps' = overlaps
      /\ rows' = [rows EXCEPT ![q] = Append(rows[q], new)]
      /\ newest' = [newest EXCEPT ![q][col] = editor[e].edit]
      /\ \A o \in Editors : o # e => editor'[o] = editor[o]
      /\ editor'[e].pc \in {"written", "idle"}
  BY DEF EditWrites, TypeOK, EditorOK, EditState, NoEdit
<1>2. /\ q \in Projects /\ col \in Column /\ copy \in Nat /\ copy <= Len(rows[q]) /\ editor[e].edit \in Nat
      /\ (col \in Sections <=> copy # 0)
  BY <1>1 DEF TypeOK, EditorOK, EditState, RiskInv, EditKindInv
<1>3. rows[q] \in Seq(Row) /\ last \in Nat /\ last > 0 /\ new \in Row
  <2>1. new \in Row
    BY <1>1, PatchedType DEF TypeOK, HistoryOK, Row
  <2>2. rows[q] \in Seq(Row) /\ Len(rows[q]) > 0
    BY <1>2 DEF TypeOK, RowsOK, HistoryInv
  <2> HIDE DEF q
  <2> QED
    BY <2>1, <2>2
<1>4. \A c \in Column : new.of[c] = IF c = col THEN editor[e].edit
                                    ELSE IF c \in Sections /\ copy # 0 THEN rows[q][copy].of[c]
                                    ELSE rows[q][last].of[c]
  BY DEF Patched
<1>5. \A p \in Projects, c \in Column : newest'[p][c] = IF p = q /\ c = col THEN editor[e].edit ELSE newest[p][c]
  BY <1>1, <1>2 DEF TypeOK, HistoryOK
<1> HIDE DEF q, col, copy, last, new
<1>6. /\ \A p \in Projects : p # q => rows'[p] = rows[p]
      /\ Len(rows'[q]) = last + 1 /\ rows'[q][last + 1] = new
      /\ \A i \in 1..last : rows'[q][i] = rows[q][i]
  <2>1. rows'[q] = Append(rows[q], new) /\ \A p \in Projects : p # q => rows'[p] = rows[p]
    BY <1>1, <1>2 DEF TypeOK, RowsOK
  <2> QED
    BY <1>3, <2>1 DEF last
<1>7. EditKindInv'
  BY <1>1 DEF RiskInv, EditKindInv
<1>8. ASSUME NEW p \in Projects, NEW c \in Column, <<p, c>> \in LostEdits'
      PROVE  /\ <<p, c>> # <<q, col>>
             /\ \/ <<p, c>> \in LostEdits
                \/ c \in Sections /\ <<p, c>> \in StaleCopies
  <2>1. rows'[p][Len(rows'[p])].of[c] # newest'[p][c]
    BY <1>8 DEF LostEdits
  <2>2. CASE p # q
    BY <1>5, <1>6, <2>1, <2>2 DEF LostEdits
  <2>3. CASE p = q
    <3>1. new.of[c] # newest'[q][c]
      BY <1>6, <2>1, <2>3
    <3>2. c # col /\ new.of[c] # newest[q][c]
      BY <1>2, <1>4, <1>5, <3>1
    <3>3. CASE c \in Sections /\ copy # 0
      <4>1. rows[q][copy].of[c] # newest[q][c]
        BY <1>4, <3>2, <3>3
      <4> QED
        BY <1>1, <1>2, <2>3, <3>2, <3>3, <4>1 DEF StaleCopies, q, copy
    <3>4. CASE ~(c \in Sections /\ copy # 0)
      <4>1. rows[q][last].of[c] # newest[q][c]
        BY <1>4, <3>2, <3>4
      <4> QED
        BY <1>2, <2>3, <3>2, <4>1 DEF LostEdits, last
    <3> QED
      BY <3>3, <3>4
  <2> QED
    BY <2>2, <2>3
<1>9. ASSUME NEW p \in Projects, NEW c \in Sections, <<p, c>> \in StaleCopies'
      PROVE  /\ <<p, c>> \in StaleCopies \/ <<p, c>> = <<q, col>>
             /\ Pending' # {}
  <2>1. PICK o \in Editors :
          /\ editor'[o].pc = "write" /\ editor'[o].row # 0 /\ editor'[o].project = p
          /\ rows'[p][editor'[o].row].of[c] # newest'[p][c]
    BY <1>9 DEF StaleCopies
  <2>2. o # e /\ editor'[o] = editor[o]
    BY <1>1, <2>1
  <2>3. editor[o].row \in Nat /\ editor[o].row <= Len(rows[p]) /\ editor[o].column \in Sections
    BY <2>1, <2>2 DEF TypeOK, EditorOK, EditState, RiskInv, EditKindInv
  <2>4. rows'[p][editor[o].row] = rows[p][editor[o].row]
    <3>1. CASE p = q
      BY <1>3, <1>6, <2>1, <2>2, <2>3, <3>1 DEF last
    <3>2. CASE p # q
      BY <1>6, <3>2
    <3> QED
      BY <3>1, <3>2
  <2>5. <<p, c>> = <<q, col>> \/ newest'[p][c] = newest[p][c]
    BY <1>5 DEF Column
  <2>6. <<p, c>> \in StaleCopies \/ <<p, c>> = <<q, col>>
    BY <2>1, <2>2, <2>4, <2>5 DEF StaleCopies
  <2>7. <<p, editor[o].column>> \in Pending'
    BY <2>1, <2>2, <2>3 DEF Pending
  <2> QED
    BY <2>6, <2>7
<1>10. Pending' \subseteq Pending
  BY <1>1 DEF Pending
<1>11. col \in Sections => <<q, col>> \in Pending
  BY <1>1, <1>2 DEF Pending, q, col
<1>12. /\ \A x \in LostEdits' : x # <<q, col>> /\ x \in LostEdits \cup StaleCopies
       /\ \A x \in StaleCopies' : (x \in StaleCopies \/ x = <<q, col>>) /\ Pending' # {}
  <2>1. \A x \in LostEdits' : \E p \in Projects, c \in Column : x = <<p, c>>
    BY DEF LostEdits
  <2>2. \A x \in StaleCopies' : \E p \in Projects, c \in Sections : x = <<p, c>>
    BY DEF StaleCopies
  <2> QED
    BY <1>8, <1>9, <2>1, <2>2
<1>13. \A p \in Projects : <<p, "ai_model">> \notin LostEdits'
  <2>1. "ai_model" \in Column /\ "ai_model" \notin Sections
    BY ConfigCacheAssumption DEF Column
  <2> QED
    BY <1>8, <2>1 DEF RiskInv, EditsLostByOverlapOnly
<1>14. CASE col \in Sections
  <2>1. <<q, col>> \in AtRisk
    BY <1>11, <1>14 DEF AtRisk
  <2>2. AtRisk' \subseteq AtRisk
    BY <1>10, <1>12, <2>1 DEF AtRisk
  <2>3. LostEdits' \subseteq AtRisk \ {<<q, col>>}
    BY <1>12 DEF AtRisk
  <2>4. Pending' = {} => AtRisk' \subseteq AtRisk \ {<<q, col>>}
    BY <1>12, <2>3 DEF AtRisk
  <2> QED
    BY <1>1, <1>7, <1>13, <2>1, <2>2, <2>3, <2>4, RiskShrinks
<1>15. CASE col \notin Sections
  <2>1. copy = 0 /\ \A p \in Projects, c \in Sections : <<p, c>> # <<q, col>>
    BY <1>2, <1>15
  <2>2. StaleCopies' \subseteq StaleCopies
    <3>1. \A x \in StaleCopies' : \E p \in Projects, c \in Sections : x = <<p, c>>
      BY DEF StaleCopies
    <3> QED
      BY <1>9, <2>1, <3>1
  <2>3. LostEdits' \subseteq LostEdits
    <3>1. \A x \in LostEdits' : \E p \in Projects, c \in Column : x = <<p, c>>
      BY DEF LostEdits
    <3>2. ASSUME NEW p \in Projects, NEW c \in Column, <<p, c>> \in LostEdits'
          PROVE  <<p, c>> \in LostEdits
      <4>1. rows'[p][Len(rows'[p])].of[c] # newest'[p][c] /\ <<p, c>> # <<q, col>>
        BY <1>8, <3>2 DEF LostEdits
      <4>2. CASE p # q
        BY <1>5, <1>6, <4>1, <4>2 DEF LostEdits
      <4>3. CASE p = q
        BY <1>2, <1>4, <1>5, <1>6, <2>1, <4>1, <4>3 DEF LostEdits, last
      <4> QED
        BY <4>2, <4>3
    <3> QED
      BY <3>1, <3>2
  <2>4. Pending' = Pending
    BY <1>1, <1>2, <1>15 DEF Pending, q, col
  <2>5. AtRisk' \subseteq AtRisk
    BY <2>2, <2>3, <2>4 DEF AtRisk
  <2> QED
    BY <1>1, <1>7, <1>13, <2>3, <2>4, <2>5, RiskShrinks
<1> QED
  BY <1>14, <1>15

(* An editor that stops leaves less at risk. *)
LEMMA RiskEnds ==
  ASSUME TypeOK, RiskInv, NEW e \in Editors, EditFails(e) \/ Invalidate(e)
  PROVE  RiskInv'
<1>1. UNCHANGED <<rows, newest, overlaps>> /\ editor' = [editor EXCEPT ![e] = NoEdit]
  BY DEF EditFails, Invalidate, Announced
<1>2. editor'[e].pc = "idle" /\ \A o \in Editors : o # e => editor'[o] = editor[o]
  BY <1>1 DEF TypeOK, EditorOK, NoEdit
<1>3. EditKindInv'
  BY <1>2 DEF RiskInv, EditKindInv
<1>4. LostEdits' = LostEdits
  BY <1>1 DEF LostEdits
<1>5. StaleCopies' \subseteq StaleCopies /\ Pending' \subseteq Pending
  BY <1>1, <1>2 DEF StaleCopies, Pending
<1>6. Pending' = {} => StaleCopies' = {}
  <2> SUFFICES ASSUME NEW x \in StaleCopies'
               PROVE  Pending' # {}
    OBVIOUS
  <2>1. PICK p \in Projects, o \in Editors :
          editor'[o].pc = "write" /\ editor'[o].row # 0 /\ editor'[o].project = p
    BY DEF StaleCopies
  <2>2. editor'[o].column \in Sections
    BY <1>3, <2>1 DEF EditKindInv
  <2>3. <<p, editor'[o].column>> \in Pending'
    BY <2>1, <2>2 DEF Pending
  <2> QED
    BY <2>3
<1>7. AtRisk' \subseteq AtRisk /\ (Pending' = {} => AtRisk' \subseteq LostEdits)
  BY <1>4, <1>5, <1>6 DEF AtRisk
<1> QED
  BY <1>1, <1>3, <1>4, <1>7, RiskShrinks DEF RiskInv, EditsLostByOverlapOnly

(* Every step keeps the bound on what is at risk. *)
LEMMA RiskStep == TypeOK /\ HistoryInv /\ RiskInv /\ [Next]_vars => RiskInv'
<1> SUFFICES ASSUME TypeOK, HistoryInv, RiskInv, [Next]_vars
             PROVE  RiskInv'
  OBVIOUS
<1>1. CASE UNCHANGED <<rows, newest, editor, overlaps>>
  <2>1. LostEdits' = LostEdits /\ StaleCopies' = StaleCopies /\ Pending' = Pending
    BY <1>1 DEF LostEdits, StaleCopies, Pending
  <2>2. EditKindInv' /\ AtRisk' = AtRisk
    BY <1>1, <2>1 DEF RiskInv, EditKindInv, AtRisk
  <2> QED
    BY <1>1, <2>1, <2>2 DEF RiskInv, EditsLostByOverlapOnly
<1> QED
  BY <1>1, RiskStarts, RiskReads, RiskWrites, RiskEnds
  DEF Next, Turn, Edit, Get, Locked, FetchReads, Fill, FetchFails, Tick, editVars, vars

(* Nothing is at risk before the first edit. *)
LEMMA RiskInit == Init => RiskInv
<1> SUFFICES ASSUME Init
             PROVE  RiskInv
  OBVIOUS
<1>1. LostEdits = {} /\ StaleCopies = {} /\ Pending = {} /\ EditKindInv
  BY DEF Init, NoEdit, LostEdits, StaleCopies, Pending, EditKindInv
<1>2. AtRisk = {} /\ overlaps = 0
  BY <1>1 DEF AtRisk, Init
<1> QED
  BY <1>1, <1>2, FS_EmptySet DEF RiskInv, EditsLostByOverlapOnly

-----------------------------------------------------------------------------
(* ConfigCache keeps its types: what is cached, fetched or edited is of a project, and   *)
(* the row an editor has read is one of its project's history. *)
THEOREM TypeCorrect == Spec => []TypeOK
<1>1. FreshInv => TypeOK
  BY DEF FreshInv
<1> QED
  BY <1>1, FreshInvInit, FreshInvStep, PTL DEF Spec

(* panel/cache.py:5: a turn reads what was the configuration less than a time to live    *)
(* ago, for every time to live that is longer than a request to Supabase. *)
THEOREM ReadsAreFresh == Spec => []FreshWithinTtl
<1>1. FreshInv => FreshWithinTtl
  BY DEF FreshInv
<1> QED
  BY <1>1, FreshInvInit, FreshInvStep, PTL DEF Spec

(* panel/cache.py:5: after his answer an editor's row is not hidden by an older one in   *)
(* the cache, except by one that was being fetched when the cache was cleared. *)
THEOREM AnsweredEditsAreRead == Spec => []AckedIsRead
<1>1. Init => AckInv /\ AckedIsRead
  <2> SUFFICES ASSUME Init
               PROVE  AckInv /\ AckedIsRead
    OBVIOUS
  <2>1. AckInv
    BY DEF Init, AckInv, Idle
  <2> QED
    BY <2>1 DEF Init, AckedIsRead
<1> QED
  BY <1>1, FreshInvInit, FreshInvStep, AckStep, PTL DEF Spec

(* panel/repos.py:83: whatever the editors do, every column of every project holds its   *)
(* last edit except for at most as many sections as edits began during another one, and  *)
(* no edit of the other columns is ever lost. *)
THEOREM LostEditsAreOverlaps == Spec => []EditsLostByOverlapOnly
<1>1. FreshInv => TypeOK /\ HistoryInv
  BY DEF FreshInv
<1>2. RiskInv => EditsLostByOverlapOnly
  BY DEF RiskInv
<1> QED
  BY <1>1, <1>2, FreshInvInit, FreshInvStep, RiskInit, RiskStep, PTL DEF Spec
=============================================================================
