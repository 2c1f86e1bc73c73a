----------------------------- MODULE Refinement -----------------------------
(***************************************************************************)
(* One run of the medallion over the tables of a connection: start_run and *)
(* execute_run of medallion/pipeline.py, with _refine_silver, _build_gold  *)
(* and the step records around them.                                       *)
(*                                                                         *)
(* A table is refined in five statements that commit one by one: count     *)
(* bronze, insert the rejected rows into the quarantine table, count that  *)
(* table, replace silver by the rows that pass, replace gold.  A step may  *)
(* fail and the process may die between any two of them.  How a table is   *)
(* landed is the subject of Ingestion and FileLedger; here landing leaves  *)
(* bronze with any rows at all.                                            *)
(***************************************************************************)
EXTENDS Integers, FiniteSets

CONSTANTS
    Runs,           \* runs, each executed once
    NumTables,      \* the tables of the connection, refined in this order
    Rows,           \* the rows the source may deliver
    Bad,            \* those that some rejecting rule catches
    Ruled,          \* the tables that have a rejecting rule
    Facts,          \* the tables that gold has something to make of
    WithGold,       \* the runs that build gold (PipelineOptions.build_gold)
    MinRows,        \* QualityPolicy.min_rows_for_ratio
    MaxPercent,     \* QualityPolicy.max_reject_ratio
    Overlapping,    \* whether runs of the connection may be in flight together
    MaxFaults       \* bound: steps that fail by themselves, and runs that die

Tables == 1..NumTables

ASSUME RefinementAssumption ==
    /\ NumTables \in Nat \ {0}
    /\ IsFiniteSet(Rows) /\ Bad \subseteq Rows
    /\ IsFiniteSet(Runs)
    /\ Ruled \subseteq Tables /\ Facts \subseteq Tables
    /\ WithGold \subseteq Runs /\ Overlapping \in BOOLEAN
    /\ MinRows \in Nat /\ MaxPercent \in Nat /\ MaxFaults \in Nat

VARIABLES
    bronze,         \* the rows of each bronze table
    silver,         \* the rows of each silver table
    quarantine,     \* the rows of each quarantine table, with the run that held them back
    gold,           \* the silver rows each gold table was made of
    status,         \* PipelineRun.status
    at,             \* where each run is
    table,          \* the table it is working on
    total,          \* _refine_silver's count of bronze
    rejected,       \* and of the quarantine table
    failures,       \* the tables it has counted as failures
    produced,       \* the tables it has counted as produced in silver
    step,           \* PipelineStep.status
    faults

vars == <<bronze, silver, quarantine, gold, status, at, table, total, rejected, failures,
          produced, step, faults>>

Kinds == {"ingest", "silver", "gold"}
Places == {"new", "started", "ingest", "landed", "silver", "counted", "quarantined",
           "judged", "published", "refined", "gold", "next", "closing", "closed", "dead"}
Held == [row: Rows, run: Runs]

TypeOK ==
    /\ bronze \in [Tables -> SUBSET Rows]
    /\ silver \in [Tables -> SUBSET Rows]
    /\ quarantine \in [Tables -> SUBSET Held]
    /\ gold \in [Tables -> SUBSET Rows]
    /\ status \in [Runs -> {"none", "running", "failed", "partial", "succeeded"}]
    /\ at \in [Runs -> Places]
    /\ table \in [Runs -> Tables]
    /\ total \in [Runs -> Nat]
    /\ rejected \in [Runs -> Nat]
    /\ failures \in [Runs -> SUBSET Tables]
    /\ produced \in [Runs -> SUBSET Tables]
    /\ step \in [Runs -> [Tables -> [Kinds -> {"none", "running", "succeeded", "failed", "skipped"}]]]
    /\ faults \in 0..MaxFaults

Init ==
    /\ bronze = [t \in Tables |-> {}]
    /\ silver = [t \in Tables |-> {}]
    /\ quarantine = [t \in Tables |-> {}]
    /\ gold = [t \in Tables |-> {}]
    /\ status = [r \in Runs |-> "none"]
    /\ at = [r \in Runs |-> "new"]
    /\ table = [r \in Runs |-> 1]
    /\ total = [r \in Runs |-> 0]
    /\ rejected = [r \in Runs |-> 0]
    /\ failures = [r \in Runs |-> {}]
    /\ produced = [r \in Runs |-> {}]
    /\ step = [r \in Runs |-> [t \in Tables |-> [k \in Kinds |-> "none"]]]
    /\ faults = 0

InFlight(r) == at[r] \notin {"new", "closed", "dead"}
Goes(r, from, to) == at[r] = from /\ at' = [at EXCEPT ![r] = to]
Marks(r, kind, outcome) == step' = [step EXCEPT ![r][table[r]][kind] = outcome]

-----------------------------------------------------------------------------
(* Starting.                                                                 *)

\* start_run: the row is inserted as running before any work is done.
StartRun(r) ==
    /\ Goes(r, "new", "started")
    /\ Overlapping \/ \A s \in Runs : ~InFlight(s)
    /\ status' = [status EXCEPT ![r] = "running"]
    /\ UNCHANGED <<bronze, silver, quarantine, gold, table, total, rejected, failures,
                   produced, step, faults>>

\* The engine, the plan and the connector; then the first table.
OpenIngest(r) ==
    /\ at[r] \in {"started", "next"}
    /\ at' = [at EXCEPT ![r] = "ingest"]
    /\ Marks(r, "ingest", "running")
    /\ UNCHANGED <<bronze, silver, quarantine, gold, status, table, total, rejected, failures,
                   produced, faults>>

\* After the last table comes the run's own record.
Beyond(r) == IF table[r] = NumTables THEN "closing" ELSE "next"

NextTable(r) == IF table[r] = NumTables THEN table[r] ELSE table[r] + 1

Advance(r, from) ==
    /\ Goes(r, from, Beyond(r))
    /\ table' = [table EXCEPT ![r] = NextTable(r)]

\* The bronze write, and the close of its step; nothing is written when no
\* file has changed, and the run goes on all the same.
Land(r, rows, outcome) ==
    /\ Goes(r, "ingest", "landed")
    /\ outcome = "skipped" => rows = bronze[table[r]]
    /\ bronze' = [bronze EXCEPT ![table[r]] = rows]
    /\ Marks(r, "ingest", outcome)
    /\ UNCHANGED <<silver, quarantine, gold, status, table, total, rejected, failures,
                   produced, faults>>

\* A failed ingestion may have emptied the table and inserted part of it; the
\* run skips the rest of this table.
IngestFails(r, rows) ==
    /\ faults < MaxFaults
    /\ Advance(r, "ingest")
    /\ bronze' = [bronze EXCEPT ![table[r]] = rows]
    /\ Marks(r, "ingest", "failed")
    /\ failures' = [failures EXCEPT ![r] = @ \cup {table[r]}]
    /\ faults' = faults + 1
    /\ UNCHANGED <<silver, quarantine, gold, status, total, rejected, produced>>

-----------------------------------------------------------------------------
(* Silver.                                                                   *)

OpenSilver(r) ==
    /\ Goes(r, "landed", "silver")
    /\ Marks(r, "silver", "running")
    /\ UNCHANGED <<bronze, silver, quarantine, gold, status, table, total, rejected, failures,
                   produced, faults>>

CountBronze(r) ==
    /\ Goes(r, "silver", "counted")
    /\ total' = [total EXCEPT ![r] = Cardinality(bronze[table[r]])]
    /\ UNCHANGED <<bronze, silver, quarantine, gold, status, table, rejected, failures,
                   produced, step, faults>>

\* The rules run against raw bronze.
Caught(t) == IF t \in Ruled THEN bronze[t] \cap Bad ELSE {}
HeldBack(r, t) == [row: Caught(t), run: {r}]

\* (mutant) the quarantine table is made anew by every run, from an empty query
InsertedNothing(r) == quarantine[table[r]]

Inserted(r) == quarantine[table[r]] \cup HeldBack(r, table[r])

InsertRejected(r) ==
    /\ Goes(r, "counted", "quarantined")
    /\ quarantine' = [quarantine EXCEPT ![table[r]] = Inserted(r)]
    /\ UNCHANGED <<bronze, silver, gold, status, table, total, rejected, failures,
                   produced, step, faults>>

Breached(all, bad) == bad > 0 /\ all >= MinRows /\ 100 * bad > MaxPercent * all

\* The whole quarantine table is counted, whichever run filled it.
CountRejected(r) ==
    LET t == table[r]
        found == IF t \in Ruled THEN Cardinality(quarantine[t]) ELSE 0
    IN  /\ rejected' = [rejected EXCEPT ![r] = found]
        /\ ~Breached(total[r], found)
        /\ Goes(r, "quarantined", "judged")
        /\ UNCHANGED <<bronze, silver, quarantine, gold, status, table, total, failures,
                       produced, step, faults>>

\* Too many: the step fails, with the reason.
Refuse(r) ==
    LET t == table[r]
        found == IF t \in Ruled THEN Cardinality(quarantine[t]) ELSE 0
    IN  /\ Breached(total[r], found)
        /\ rejected' = [rejected EXCEPT ![r] = found]
        /\ Advance(r, "quarantined")
        /\ Marks(r, "silver", "failed")
        /\ failures' = [failures EXCEPT ![r] = @ \cup {table[r]}]
        /\ UNCHANGED <<bronze, silver, quarantine, gold, status, total, produced, faults>>

\* (mutant) the transformation reads bronze, not the rows that passed
CleanAll(t) == bronze[t]

Clean(t) == bronze[t] \ Caught(t)

\* CREATE OR REPLACE TABLE silver AS the transformed clean rows of bronze.
Publish(r) ==
    /\ Goes(r, "judged", "published")
    /\ silver' = [silver EXCEPT ![table[r]] = Clean(table[r])]
    /\ UNCHANGED <<bronze, quarantine, gold, status, table, total, rejected, failures,
                   produced, step, faults>>

\* The counts for the summary, and the close of the step.
CloseSilver(r) ==
    /\ at[r] = "published"
    /\ Marks(r, "silver", "succeeded")
    /\ produced' = [produced EXCEPT ![r] = @ \cup {table[r]}]
    /\ IF r \in WithGold
       THEN at' = [at EXCEPT ![r] = "refined"] /\ UNCHANGED table
       ELSE Advance(r, "published")
    /\ UNCHANGED <<bronze, silver, quarantine, gold, status, total, rejected, failures, faults>>

\* The engine fails at any of these statements; what was committed stays.
SilverFails(r) ==
    /\ faults < MaxFaults
    /\ \E from \in {"silver", "counted", "quarantined", "judged", "published"} : Advance(r, from)
    /\ Marks(r, "silver", "failed")
    /\ failures' = [failures EXCEPT ![r] = @ \cup {table[r]}]
    /\ faults' = faults + 1
    /\ UNCHANGED <<bronze, silver, quarantine, gold, status, total, rejected, produced>>

-----------------------------------------------------------------------------
(* Gold, whose failures are not counted.                                     *)

OpenGold(r) ==
    /\ at[r] = "refined"
    /\ IF table[r] \in Facts
       THEN /\ Goes(r, "refined", "gold")
            /\ Marks(r, "gold", "running")
            /\ UNCHANGED table
       ELSE Advance(r, "refined") /\ Marks(r, "gold", "skipped")
    /\ UNCHANGED <<bronze, silver, quarantine, gold, status, total, rejected, failures,
                   produced, faults>>

BuildGoldTable(r) ==
    /\ Advance(r, "gold")
    /\ gold' = [gold EXCEPT ![table[r]] = silver[table[r]]]
    /\ Marks(r, "gold", "succeeded")
    /\ UNCHANGED <<bronze, silver, quarantine, status, total, rejected, failures, produced, faults>>

GoldFails(r) ==
    /\ faults < MaxFaults
    /\ Advance(r, "gold")
    /\ Marks(r, "gold", "failed")
    /\ faults' = faults + 1
    /\ UNCHANGED <<bronze, silver, quarantine, gold, status, total, rejected, failures, produced>>

-----------------------------------------------------------------------------
(* (mutant) only a run that produced nothing is not a success. *)
OutcomeOfProduced(r) == IF produced[r] = {} THEN "failed" ELSE "succeeded"

Outcome(r) ==
    CASE failures[r] # {} /\ produced[r] = {} -> "failed"
      [] failures[r] # {} /\ produced[r] # {} -> "partial"
      [] OTHER -> "succeeded"

CloseRun(r) ==
    /\ Goes(r, "closing", "closed")
    /\ status' = [status EXCEPT ![r] = Outcome(r)]
    /\ UNCHANGED <<bronze, silver, quarantine, gold, table, total, rejected, failures,
                   produced, step, faults>>

\* An exception outside the steps, or the end of the process: the run's record
\* and its open step stay as they are.
Die(r) ==
    /\ InFlight(r)
    /\ faults < MaxFaults
    /\ at' = [at EXCEPT ![r] = "dead"]
    /\ faults' = faults + 1
    /\ UNCHANGED <<bronze, silver, quarantine, gold, status, table, total, rejected, failures,
                   produced, step>>

Refine(r) ==
    \/ OpenSilver(r)
    \/ CountBronze(r)
    \/ InsertRejected(r)
    \/ CountRejected(r)
    \/ Refuse(r)
    \/ Publish(r)
    \/ CloseSilver(r)
    \/ SilverFails(r)

Next ==
    \E r \in Runs :
        \/ StartRun(r)
        \/ OpenIngest(r)
        \/ \E rows \in SUBSET Rows, outcome \in {"succeeded", "skipped"} : Land(r, rows, outcome)
        \/ \E rows \in SUBSET Rows : IngestFails(r, rows)
        \/ Refine(r)
        \/ OpenGold(r)
        \/ BuildGoldTable(r)
        \/ GoldFails(r)
        \/ CloseRun(r)
        \/ Die(r)

Spec == Init /\ [][Next]_vars

-----------------------------------------------------------------------------
(* What a run promises.                                                      *)

HeldBy(r, t) == {q.row : q \in {p \in quarantine[t] : p.run = r}}

\* While a run reports on a table it has published, every row of bronze is in
\* silver or in quarantine under this run, and none is in both: nothing is
\* dropped in silence, and nothing that was rejected is published.
RowsAccountedFor ==
    \A r \in Runs :
        at[r] \in {"published", "refined", "gold"} =>
            LET t == table[r]
            IN  /\ bronze[t] = silver[t] \cup HeldBy(r, t)
                /\ silver[t] \cap HeldBy(r, t) = {}

\* "A load that quietly publishes 40% of its rows is worse than one that stops":
\* silver is replaced only from a bronze whose rejected share is tolerated.
NoPartialLoadPublished ==
    [][\A t \in Tables : silver'[t] # silver[t] =>
            ~Breached(Cardinality(bronze[t]), Cardinality(Caught(t)))]_vars

\* The status of a run is what its steps say: succeeded means that every table
\* was landed and published by it, failed that none was, partial that some were not.
StatusTellsSteps ==
    \A r \in Runs :
        LET landed(t) == step[r][t]["ingest"] \in {"succeeded", "skipped"}
            published(t) == step[r][t]["silver"] = "succeeded"
        IN  /\ status[r] = "succeeded" => \A t \in Tables : landed(t) /\ published(t)
            /\ status[r] = "failed" => \A t \in Tables : ~published(t)
            /\ status[r] = "partial" => \E t, u \in Tables : published(t) /\ ~published(u)

\* "The reason the load should fail, or None if it is within tolerance": a load
\* is refused only when the rows this load rejected are too many.
RefusedOnlyForItsOwnRows ==
    [][\A r \in Runs : Refuse(r) =>
            Breached(Cardinality(bronze[table[r]]), Cardinality(Caught(table[r])))]_vars
=============================================================================
