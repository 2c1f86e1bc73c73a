----------------------------- MODULE Ingestion -----------------------------
(***************************************************************************)
(* Landing one table of a SQL source in bronze: _ingest in                 *)
(* medallion/pipeline.py with ingestion/planner.py, store.py and types.py, *)
(* the reads of connectors/sql_base.py and the writes of engine/base.py    *)
(* and duckdb_engine.py.                                                   *)
(*                                                                         *)
(* A run loads the watermark, snapshots the highest value of the watermark *)
(* column (the ceiling), opens the target, reads the rows above the        *)
(* watermark and not above the ceiling, writes them, and only then moves   *)
(* the watermark.  The source changes all the while, a run may fail or its *)
(* process die at any step, and a scheduled and a manual run of the same   *)
(* connection may overlap: nothing but the schedule is locked.             *)
(***************************************************************************)
EXTENDS Integers, FiniteSets

CONSTANTS
    Keys,           \* the rows of the source, by key
    Unstamped,      \* those whose watermark column is NULL
    Runs,           \* runs that may be in flight at once
    Keyed,          \* whether profiling found a key (merge_keys is not empty)
    Watermarked,    \* whether the table has a watermark column
    Ties,           \* whether two writes to the source may carry the same stamp
    MaxStamp,       \* bound: the writes to the source stop at this stamp
    MaxVersion,     \* bound: versions of one source row
    MaxFailures     \* bound: runs that fail or die

ASSUME IngestionAssumption ==
    /\ Unstamped \subseteq Keys
    /\ Keyed \in BOOLEAN /\ Watermarked \in BOOLEAN /\ Ties \in BOOLEAN
    /\ MaxStamp \in Nat /\ MaxVersion \in Nat /\ MaxFailures \in Nat

Null == 0       \* no watermark yet, no ceiling, or a NULL stamp

\* A row of bronze remembers which run inserted it, so that two copies of the
\* same source row are two rows.
BronzeRow == [key: Keys, ver: Nat, by: Runs]

VARIABLES
    source,     \* the source table: version and stamp of each row; ver 0: absent
    now,        \* the latest stamp a write to the source was given
    bronze,     \* the rows of the bronze table
    exists,     \* whether the bronze table exists
    value,      \* DatasetWatermark.value
    pc,         \* where each run is
    since,      \* the plan's exclusive lower bound
    ceiling,    \* the plan's inclusive upper bound
    mode,       \* how the run writes: "replace" or "merge"
    batch,      \* rows read and not yet written
    failures

vars == <<source, now, bronze, exists, value, pc, since, ceiling, mode, batch, failures>>

Steps == {"idle", "loaded", "planned", "opened", "reading", "written"}

TypeOK ==
    /\ now \in Nat
    /\ source \in [Keys -> [ver: Nat, stamp: 0..now]]
    /\ bronze \subseteq BronzeRow
    /\ exists \in BOOLEAN
    /\ value \in 0..now
    /\ pc \in [Runs -> Steps]
    /\ since \in [Runs -> 0..now]
    /\ ceiling \in [Runs -> 0..now]
    /\ mode \in [Runs -> {"replace", "merge"}]
    /\ batch \in [Runs -> SUBSET BronzeRow]
    /\ failures \in 0..MaxFailures

Init ==
    /\ source = [k \in Keys |-> [ver |-> 0, stamp |-> Null]]
    /\ now = 0
    /\ bronze = {}
    /\ exists = FALSE
    /\ value = Null
    /\ pc = [p \in Runs |-> "idle"]
    /\ since = [p \in Runs |-> Null]
    /\ ceiling = [p \in Runs |-> Null]
    /\ mode = [p \in Runs |-> "replace"]
    /\ batch = [p \in Runs |-> {}]
    /\ failures = 0

-----------------------------------------------------------------------------
(* The source.                                                               *)

Present == {k \in Keys : source[k].ver > 0}

\* A row is inserted or updated; its column is set to the time of the write.
SourceWrite(k, s) ==
    /\ s <= MaxStamp
    /\ s = now + 1 \/ (Ties /\ s = now /\ now > 0)
    /\ source[k].ver < MaxVersion
    /\ source' = [source EXCEPT ![k] = [ver |-> @.ver + 1,
                                        stamp |-> IF k \in Unstamped THEN Null ELSE s]]
    /\ now' = s
    /\ UNCHANGED <<bronze, exists, value, pc, since, ceiling, mode, batch, failures>>

Stamps == {source[k].stamp : k \in Present} \ {Null}

\* SELECT MAX(column): NULL, hence no ceiling, when no row has a stamp, and
\* none either when the query fails.
Ceilings == {Null} \cup {s \in Stamps : \A t \in Stamps : t <= s}

\* (mutant) the ceiling itself is left out of the window
SelectedBelow(k, lo, hi) ==
    IF lo = Null /\ hi = Null THEN TRUE
    ELSE /\ source[k].stamp # Null
         /\ source[k].stamp > lo
         /\ hi # Null => source[k].stamp < hi

\* The WHERE of read_plan.  A NULL stamp satisfies neither comparison, so it is
\* selected only when there is no clause at all.
Selected(k, lo, hi) ==
    IF lo = Null /\ hi = Null THEN TRUE
    ELSE /\ source[k].stamp # Null
         /\ source[k].stamp > lo
         /\ hi # Null => source[k].stamp <= hi

RowsFor(p) ==
    {[key |-> k, ver |-> source[k].ver, by |-> p] :
        k \in {j \in Present : Selected(j, since[p], ceiling[p])}}

-----------------------------------------------------------------------------
(* One run of _ingest.                                                       *)

\* load_state.
Load(p) ==
    /\ pc[p] = "idle"
    /\ since' = [since EXCEPT ![p] = value]
    /\ pc' = [pc EXCEPT ![p] = "loaded"]
    /\ UNCHANGED <<source, now, bronze, exists, value, ceiling, mode, batch, failures>>

\* plan_ingestion: without a watermark column, a full refresh.
Plan(p, hi) ==
    /\ pc[p] = "loaded"
    /\ hi \in IF Watermarked THEN Ceilings ELSE {Null}
    /\ ceiling' = [ceiling EXCEPT ![p] = hi]
    /\ since' = IF Watermarked THEN since ELSE [since EXCEPT ![p] = Null]
    /\ pc' = [pc EXCEPT ![p] = "planned"]
    /\ UNCHANGED <<source, now, bronze, exists, value, mode, batch, failures>>

\* (mutant) the watermark, not the table, decides whether there is a target
MergesByWatermark == Keyed /\ Watermarked /\ value # Null

\* A merge needs a key, a partial plan and a table to merge into.  Anything
\* else replaces the table, and that starts by emptying it.
Merges == Keyed /\ Watermarked /\ exists

\* (mutant) the table to replace is opened as it is
OpenedKept == bronze

Opened == IF Merges THEN bronze ELSE {}

Open(p) ==
    /\ pc[p] = "planned"
    /\ mode' = [mode EXCEPT ![p] = IF Merges THEN "merge" ELSE "replace"]
    /\ bronze' = Opened
    /\ exists' = TRUE
    /\ pc' = [pc EXCEPT ![p] = "opened"]
    /\ UNCHANGED <<source, now, value, since, ceiling, batch, failures>>

\* The cursor's SELECT, issued when the first batch is pulled.
Read(p) ==
    /\ pc[p] = "opened"
    /\ batch' = [batch EXCEPT ![p] = RowsFor(p)]
    /\ pc' = [pc EXCEPT ![p] = IF RowsFor(p) = {} THEN "written" ELSE "reading"]
    /\ UNCHANGED <<source, now, bronze, exists, value, since, ceiling, mode, failures>>

\* INSERT of one batch into the table being replaced, committed by itself.
InsertBatch(p, row) ==
    /\ pc[p] = "reading"
    /\ mode[p] = "replace"
    /\ row \in batch[p]
    /\ bronze' = bronze \cup {row}
    /\ batch' = [batch EXCEPT ![p] = @ \ {row}]
    /\ pc' = [pc EXCEPT ![p] = IF batch[p] = {row} THEN "written" ELSE "reading"]
    /\ UNCHANGED <<source, now, exists, value, since, ceiling, mode, failures>>

\* WHEN MATCHED a row takes the values of the staged row, WHEN NOT MATCHED the
\* staged row is inserted.
Matches(b, rows) == {s \in rows : s.key = b.key}

Upserted(b, rows) ==
    IF Matches(b, rows) = {} THEN b
    ELSE [b EXCEPT !.ver = (CHOOSE s \in Matches(b, rows) : TRUE).ver]

\* (mutant) the staged rows are appended
Appended(table, rows) == table \cup rows

MergeInto(table, rows) ==
    {Upserted(b, rows) : b \in table} \cup {s \in rows : Matches(s, table) = {}}

\* The batches go to a staging table of the run's own, then one MERGE.
Merge(p) ==
    /\ pc[p] = "reading"
    /\ mode[p] = "merge"
    /\ bronze' = MergeInto(bronze, batch[p])
    /\ batch' = [batch EXCEPT ![p] = {}]
    /\ pc' = [pc EXCEPT ![p] = "written"]
    /\ UNCHANGED <<source, now, exists, value, since, ceiling, mode, failures>>

\* (mutants) the watermark moves to the time of the commit; to just above the ceiling
NextValueNow(p) == IF Watermarked THEN now ELSE value
NextValueAbove(p) == IF Watermarked THEN ceiling[p] + 1 ELSE value

\* next_state: a column plan moves the watermark to its ceiling, whatever the
\* watermark is by now; a full plan leaves it.
NextValue(p) == IF Watermarked THEN ceiling[p] ELSE value

Finished(p) ==
    /\ pc' = [pc EXCEPT ![p] = "idle"]
    /\ since' = [since EXCEPT ![p] = Null]
    /\ ceiling' = [ceiling EXCEPT ![p] = Null]
    /\ mode' = [mode EXCEPT ![p] = "replace"]
    /\ batch' = [batch EXCEPT ![p] = {}]

\* commit_state, in a session of its own after the write.
Commit(p) ==
    /\ pc[p] = "written"
    /\ value' = NextValue(p)
    /\ Finished(p)
    /\ UNCHANGED <<source, now, bronze, exists, failures>>

\* The step fails or the process dies: what was inserted stays, the rest of
\* the batches and the watermark are lost with the run.
Fail(p) ==
    /\ pc[p] # "idle"
    /\ failures < MaxFailures
    /\ failures' = failures + 1
    /\ Finished(p)
    /\ UNCHANGED <<source, now, bronze, exists, value>>

-----------------------------------------------------------------------------
RunStep(p) ==
    \/ Load(p)
    \/ \E hi \in Ceilings : Plan(p, hi)
    \/ Open(p)
    \/ Read(p)
    \/ \E row \in batch[p] : InsertBatch(p, row)
    \/ Merge(p)
    \/ Commit(p)

Next ==
    \/ \E k \in Keys, s \in 1..MaxStamp : SourceWrite(k, s)
    \/ \E p \in Runs : RunStep(p) \/ Fail(p)

Spec == Init /\ [][Next]_vars

\* A run that has started goes on, and after it there is another one: the
\* schedule fires again.  Nobody has to write to the source.
FairSpec == Spec /\ \A p \in Runs : WF_vars(RunStep(p))

-----------------------------------------------------------------------------
(* What incremental loading promises.                                        *)

InBronze(k) == \E b \in bronze : b.key = k /\ b.ver = source[k].ver

\* "Rows at or below this were loaded already": every source row whose stamp
\* the watermark has reached is in bronze, in its present version.  A row that
\* is not will never be read again.
Covered ==
    \A k \in Present :
        source[k].stamp # Null /\ source[k].stamp <= value => InBronze(k)

\* The same once every run is over: "re-reading is safe because the write is a
\* MERGE", so whatever the runs did, no row is behind the watermark unread.
CoveredAtRest == (\A p \in Runs : pc[p] = "idle") => Covered

\* A merge target never holds two rows for one key.
OneRowPerKey == \A b, c \in bronze : b.key = c.key => b = c

\* A row that has landed stays landed: no run takes away from bronze a row that
\* is still what the source holds, whether the run succeeds, fails or dies.
Kept ==
    [][\A k \in Present :
            InBronze(k) /\ source'[k] = source[k]
                => \E b \in bronze' : b.key = k /\ b.ver = source[k].ver]_vars

Mirrors ==
    /\ \A k \in Present : InBronze(k)
    /\ \A b \in bronze : b.ver = source[b.key].ver

\* Once the source is quiet, bronze is again and again exactly the source.
Converges == []<>Mirrors
=============================================================================
