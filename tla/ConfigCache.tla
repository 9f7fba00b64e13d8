----------------------------- MODULE ConfigCache -----------------------------
(***************************************************************************)
(* The configuration of a project, from the panel's editors to the turns   *)
(* that read it: panel/repos.py, the edits of panel/api.py and the cache of*)
(* panel/cache.py.  Supabase is a table of rows; a request to it takes     *)
(* effect at one moment between its start and its answer, or fails.  A     *)
(* cached or fetched row is its place in the history of the project's rows.*)
(***************************************************************************)
EXTENDS Integers, Sequences, FiniteSets

CONSTANTS
  Projects,
  Sections,       \* the editable sections of the prompt
  Readers,        \* turns that run at the same time
  Editors,        \* requests to the panel that run at the same time
  ConfigTtl,      \* ProjectConfigCache._TTL
  Timeout,        \* of a request to Supabase
  MaxEntries,     \* ProjectConfigCache._MAX
  MaxTime, MaxEdits, MaxFaults   \* bounds: clock, edits, failed requests

Column == Sections \cup {"ai_model"}
NoProject == "none"

ASSUME ConfigCacheAssumption ==
  /\ NoProject \notin Projects /\ "ai_model" \notin Sections
  /\ {ConfigTtl, MaxEntries} \subseteq Nat \ {0}
  /\ Timeout \in Nat /\ Timeout < ConfigTtl
  /\ {MaxTime, MaxEdits, MaxFaults} \subseteq Nat

VARIABLES
  rows,      \* project_config: for each project the sequence of its rows, [at, of]
  cache,     \* ProjectConfigCache._store: project -> [row, exp], on the cached projects
  lock,      \* ProjectConfigCache._lock: its holder, in a set
  reader,    \* for each [pc, project, row, since]
  editor,    \* for each [pc, project, column, row, edit]
  now,
  \* history and bounds
  newest,    \* the last edit of each column
  acked,     \* the newest row of each project whose editor has been answered
  stale,     \* the longest time that a row a turn read had been replaced
  edits, overlaps, \* edits, and those of a section that began during another one of one
  raced,     \* projects of which an older row was on its way when the cache was cleared
  faults

readVars == <<cache, lock, reader, stale>>
editVars == <<editor, newest, acked, edits, overlaps, raced>>
vars == <<rows, readVars, editVars, now, faults>>

Idle == [pc |-> "idle", project |-> NoProject, row |-> 0, since |-> 0]
NoEdit == [pc |-> "idle", project |-> NoProject, column |-> "none", row |-> 0, edit |-> 0]

Init ==
  /\ rows = [p \in Projects |-> <<[at |-> 0, of |-> [c \in Column |-> 0]]>>]
  /\ cache = << >> /\ lock = {}
  /\ reader = [r \in Readers |-> Idle] /\ editor = [e \in Editors |-> NoEdit]
  /\ now = 0
  /\ newest = [p \in Projects |-> [c \in Column |-> 0]] /\ acked = [p \in Projects |-> 1]
  /\ stale = 0
  /\ edits = 0 /\ overlaps = 0 /\ raced = {} /\ faults = 0

Fault == faults < MaxFaults /\ faults' = faults + 1
Longer(a, b) == IF a < b THEN b ELSE a
\* How long ago a row of a history was replaced.
ReplacedFor(history, row) == IF row < Len(history) THEN now - history[row + 1].at ELSE 0

-----------------------------------------------------------------------------
(* ProjectConfigCache.get *)

Hit(p) == p \in DOMAIN cache /\ cache[p].exp > now

Reads(p, row) == stale' = Longer(stale, ReplacedFor(rows[p], row))

\* A turn of a project, which TenantResolver names, looks without the lock.
Get(r, p) ==
  /\ reader[r].pc = "idle"
  /\ IF Hit(p)
       THEN Reads(p, cache[p].row) /\ UNCHANGED reader
       ELSE /\ reader' = [reader EXCEPT ![r].pc = "wait", ![r].project = p]
            /\ UNCHANGED stale
  /\ UNCHANGED <<rows, cache, lock, editVars, now, faults>>

\* It has the row it came for.
Uses(r, row) == Reads(reader[r].project, row) /\ reader' = [reader EXCEPT ![r] = Idle]

\* With the lock it looks again.
Locked(r) ==
  /\ reader[r].pc = "wait" /\ lock = {}
  /\ IF Hit(reader[r].project)
       THEN Uses(r, cache[reader[r].project].row) /\ UNCHANGED lock
       ELSE /\ reader' = [reader EXCEPT ![r].pc = "fetch", ![r].since = now]
            /\ lock' = {r} /\ UNCHANGED stale
  /\ UNCHANGED <<rows, cache, editVars, now, faults>>

FetchReads(r) ==
  /\ reader[r].pc = "fetch"
  /\ reader' = [reader EXCEPT ![r].pc = "fill", ![r].row = Len(rows[reader[r].project])]
  /\ UNCHANGED <<rows, cache, lock, stale, editVars, now, faults>>

With(p, entry) == [q \in DOMAIN cache \cup {p} |-> IF q = p THEN entry ELSE cache[q]]
Without(entries, p) == [q \in DOMAIN entries \ {p} |-> entries[q]]

\* Of too many entries one that expires first goes.
Evicted(entries) ==
  IF Cardinality(DOMAIN entries) <= MaxEntries THEN {entries}
  ELSE {Without(entries, p) : p \in {q \in DOMAIN entries : \A o \in DOMAIN entries : entries[q].exp <= entries[o].exp}}

\* Faulty: the time to live begins with the answer.
FillLate(r) ==
  /\ reader[r].pc = "fill"
  /\ cache' \in Evicted(With(reader[r].project, [row |-> reader[r].row, exp |-> now + ConfigTtl]))
  /\ lock' = {}
  /\ Uses(r, reader[r].row)
  /\ UNCHANGED <<rows, editVars, now, faults>>

\* The time to live began with the request.
Fill(r) ==
  /\ reader[r].pc = "fill"
  /\ cache' \in Evicted(With(reader[r].project, [row |-> reader[r].row, exp |-> reader[r].since + ConfigTtl]))
  /\ lock' = {}
  /\ Uses(r, reader[r].row)
  /\ UNCHANGED <<rows, editVars, now, faults>>

\* The request raises, and with it the node and the turn.
FetchFails(r) ==
  /\ reader[r].pc \in {"fetch", "fill"} /\ Fault
  /\ reader' = [reader EXCEPT ![r] = Idle]
  /\ lock' = {}
  /\ UNCHANGED <<rows, cache, stale, editVars, now>>

-----------------------------------------------------------------------------
(* The panel *)

EditsSection(e) == editor[e].pc # "idle" /\ editor[e].column \in Sections

\* patch_section first reads the row, patch_config does not.
StartEdit(e, p, c) ==
  /\ editor[e].pc = "idle" /\ edits < MaxEdits /\ edits' = edits + 1
  /\ editor' = [editor EXCEPT ![e] = [pc |-> IF c \in Sections THEN "read" ELSE "write",
                                      project |-> p, column |-> c, row |-> 0, edit |-> edits']]
  /\ overlaps' = overlaps + (IF c \in Sections /\ \E other \in Editors : EditsSection(other) THEN 1 ELSE 0)
  /\ UNCHANGED <<rows, readVars, newest, acked, raced, now, faults>>

EditReads(e) ==
  /\ editor[e].pc = "read"
  /\ editor' = [editor EXCEPT ![e].pc = "write", ![e].row = Len(rows[editor[e].project])]
  /\ UNCHANGED <<rows, readVars, newest, acked, edits, overlaps, raced, now, faults>>

\* Faulty: the whole row that was read is written back, not only its sections.
PatchedWhole(e) ==
  LET ed == editor[e]
      current == rows[ed.project][IF ed.row = 0 THEN Len(rows[ed.project]) ELSE ed.row].of
  IN  [current EXCEPT ![ed.column] = ed.edit]

\* What PATCH makes of the row: of a section's editor all sections are those he read.
Patched(e) ==
  LET ed == editor[e]
      current == rows[ed.project][Len(rows[ed.project])].of
      read == rows[ed.project][IF ed.row = 0 THEN Len(rows[ed.project]) ELSE ed.row].of
  IN  [c \in Column |-> IF c = ed.column THEN ed.edit
                       ELSE IF c \in Sections /\ ed.row # 0 THEN read[c] ELSE current[c]]

\* The row is written; the editor that gets no answer stops there.
EditWrites(e) ==
  LET p == editor[e].project
  IN  /\ editor[e].pc = "write"
      /\ rows' = [rows EXCEPT ![p] = Append(@, [at |-> now, of |-> Patched(e)])]
      /\ newest' = [newest EXCEPT ![p][editor[e].column] = editor[e].edit]
      /\ \/ editor' = [editor EXCEPT ![e].pc = "written", ![e].row = Len(rows'[p])] /\ UNCHANGED faults
         \/ editor' = [editor EXCEPT ![e] = NoEdit] /\ Fault
      /\ UNCHANGED <<readVars, acked, edits, overlaps, raced, now>>

EditFails(e) ==
  /\ editor[e].pc \in {"read", "write"} /\ Fault
  /\ editor' = [editor EXCEPT ![e] = NoEdit]
  /\ UNCHANGED <<rows, readVars, newest, acked, edits, overlaps, raced, now>>

Announced(e) ==
  LET p == editor[e].project
  IN  /\ editor' = [editor EXCEPT ![e] = NoEdit]
      /\ acked' = [acked EXCEPT ![p] = IF @ < editor[e].row THEN editor[e].row ELSE @]
      /\ raced' = IF \E r \in Readers : reader[r].pc = "fill" /\ reader[r].project = p /\ reader[r].row < editor[e].row
                    THEN raced \cup {p} ELSE raced
      /\ UNCHANGED <<rows, lock, reader, stale, newest, edits, overlaps, now, faults>>

\* Faulty: the edit is not made known to the cache.
InvalidateNothing(e) == editor[e].pc = "written" /\ Announced(e) /\ UNCHANGED cache

\* _invalidate_cache, and the answer to the editor.
Invalidate(e) ==
  /\ editor[e].pc = "written"
  /\ Announced(e)
  /\ cache' = Without(cache, editor[e].project)

\* A request is answered or given up in time.
Tick ==
  /\ now < MaxTime /\ now' = now + 1
  /\ \A r \in Readers : reader[r].pc \in {"fetch", "fill"} => now' <= reader[r].since + Timeout
  /\ UNCHANGED <<rows, readVars, editVars, faults>>

Turn(r) ==
  (\E p \in Projects : Get(r, p)) \/ Locked(r) \/ FetchReads(r) \/ Fill(r) \/ FetchFails(r)
Edit(e) ==
  \/ \E p \in Projects, c \in Column : StartEdit(e, p, c)
  \/ EditReads(e) \/ EditWrites(e) \/ EditFails(e) \/ Invalidate(e)

Next ==
  \/ \E r \in Readers : Turn(r)
  \/ \E e \in Editors : Edit(e)
  \/ Tick

Spec == Init /\ [][Next]_vars

-----------------------------------------------------------------------------
(* Properties *)

Row == [at : Nat, of : [Column -> Nat]]
Entry == [row : Nat, exp : Nat]
Fetch == [pc : {"idle", "wait", "fetch", "fill"}, project : Projects \cup {NoProject}, row : Nat, since : Nat]
EditState == [pc : {"idle", "read", "write", "written"}, project : Projects \cup {NoProject},
              column : Column \cup {"none"}, row : Nat, edit : Nat]

RowsOK == rows \in [Projects -> Seq(Row)]
CacheOK == DOMAIN cache \subseteq Projects /\ cache \in [DOMAIN cache -> Entry]
ReaderOK ==
  /\ reader \in [Readers -> Fetch]
  /\ \A r \in Readers : reader[r].pc # "idle" => reader[r].project \in Projects
EditorOK ==
  /\ editor \in [Editors -> EditState]
  /\ \A e \in Editors : editor[e].pc # "idle" =>
       /\ editor[e].project \in Projects /\ editor[e].column \in Column
       /\ editor[e].row <= Len(rows[editor[e].project])
HistoryOK ==
  /\ lock \subseteq Readers /\ now \in 0..MaxTime /\ stale \in Nat
  /\ newest \in [Projects -> [Column -> Nat]] /\ acked \in [Projects -> Nat]
  /\ edits \in 0..MaxEdits /\ overlaps \in Nat /\ raced \subseteq Projects /\ faults \in 0..MaxFaults

TypeOK == RowsOK /\ CacheOK /\ ReaderOK /\ EditorOK /\ HistoryOK

(***************************************************************************)
(* panel/cache.py:5, "TTL 60s": what a turn reads was the configuration of *)
(* its project less than a time to live ago, whatever requests failed and  *)
(* however edits, fetches and invalidations met.                           *)
(***************************************************************************)
FreshWithinTtl == stale < ConfigTtl

(***************************************************************************)
(* panel/cache.py:5, "invalidate-on-write": once the editor has his answer *)
(* the cache has no older row of the project, unless one was being fetched *)
(* when the cache was cleared: it is put there afterwards.                 *)
(***************************************************************************)
AckedIsRead == \A p \in DOMAIN cache \ raced : cache[p].row >= acked[p]

(***************************************************************************)
(* panel/repos.py:83, "SQL JSONB merge": every column holds its last edit, *)
(* except that an edit of a section that begins while another one is under *)
(* way may cost one section.  No edit of the other columns is lost.        *)
(***************************************************************************)
LostEdits ==
  {pc \in Projects \X Column : rows[pc[1]][Len(rows[pc[1]])].of[pc[2]] # newest[pc[1]][pc[2]]}
EditsLostByOverlapOnly ==
  /\ Cardinality(LostEdits) <= overlaps
  /\ \A p \in Projects : <<p, "ai_model">> \notin LostEdits
=============================================================================
