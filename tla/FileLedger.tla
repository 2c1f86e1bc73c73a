----------------------------- MODULE FileLedger -----------------------------
(***************************************************************************)
(* One dataset that is a file, from known_file_etags to record_file:       *)
(* connectors/file_base.py, ingestion/store.py, ingestion/models.py and    *)
(* _ingest of medallion/pipeline.py.                                       *)
(*                                                                         *)
(* A file is read as a whole or not at all.  A run reads the markers       *)
(* (etags) of the versions it landed before, asks the store for the        *)
(* marker of the present one, and skips the file when the two agree.       *)
(* Otherwise it empties the bronze table, reads the file into it, and then *)
(* records the marker it was told before it read.  The file may be         *)
(* replaced between any two steps, and the run may fail at any step.       *)
(***************************************************************************)
EXTENDS Integers

CONSTANTS
    MaxVersion,     \* bound: versions of the file
    Marker,         \* the marker the store gives each version
    Blank,          \* the marker "", of a store that reports none
    NoMarker,       \* no marker: no row in the ledger, no file in the plan
    Returns,        \* whether an earlier version may come back
    InOrder,        \* whether the database returns rows as they were inserted
    BlindMayFail,   \* whether a load without a marker may fail
    MaxFailures     \* bound: failed runs

Versions == 1..MaxVersion

Markers == {Marker[v] : v \in Versions} \cup {Blank}

ASSUME MarkerAssumption ==
    /\ MaxVersion \in Nat \ {0}
    /\ Marker \in [Versions -> Markers]
    /\ NoMarker \notin Markers

ASSUME ModeAssumption ==
    /\ {Returns, InOrder, BlindMayFail} \subseteq BOOLEAN
    /\ MaxFailures \in Nat

VARIABLES
    content,    \* the version of the file in the store
    ledger,     \* markers of the file's rows in ingested_files, all LANDED
    newest,     \* the row inserted last
    bronze,     \* the bronze table: which version, and whether all of it
    pc,         \* where the run is
    known,      \* the run's known[file_key]
    seen,       \* the marker of the plan's file; none in a full reload
    failures

vars == <<content, ledger, newest, bronze, pc, known, seen, failures>>

Whole(v) == [ver |-> v, whole |-> TRUE]
Part(v)  == [ver |-> v, whole |-> FALSE]
Empty    == Part(0)

Steps == {"idle", "loaded", "planned", "opened", "reading", "written"}

TypeOK ==
    /\ content \in Versions
    /\ ledger \subseteq Markers
    /\ newest \in ledger \cup {NoMarker}
    /\ newest = NoMarker => ledger = {}
    /\ bronze \in [ver : Versions \cup {0}, whole : BOOLEAN]
    /\ pc \in Steps
    /\ known \in Markers \cup {NoMarker}
    /\ seen \in Markers \cup {NoMarker}
    /\ failures \in 0..MaxFailures

Init ==
    /\ content = 1
    /\ ledger = {}
    /\ newest = NoMarker
    /\ bronze = Empty
    /\ pc = "idle"
    /\ known = NoMarker
    /\ seen = NoMarker
    /\ failures = 0

-----------------------------------------------------------------------------
\* The owner of the file puts another version in its place.
Replace(v) ==
    /\ IF Returns THEN v # content ELSE v > content
    /\ content' = v
    /\ UNCHANGED <<ledger, newest, bronze, pc, known, seen, failures>>

\* (mutant) of several rows of the file, any one
KnownEtagsAny == IF ledger = {} THEN {NoMarker} ELSE ledger

\* The dictionary has one entry per file: of several rows, the last one read.
KnownEtags ==
    CASE ledger = {} -> {NoMarker}
      [] ledger # {} /\ InOrder -> {newest}
      [] OTHER -> ledger

Load ==
    /\ pc = "idle"
    /\ pc' = "loaded"
    /\ known' \in KnownEtags
    /\ UNCHANGED <<content, ledger, newest, bronze, seen, failures>>

\* (mutant) a file that was landed before is known, whatever its version
UnchangedByName(m) == known # NoMarker

\* plan_ingestion: both markers are there, and they agree.
Unchanged(m) == known \notin {NoMarker, Blank} /\ known = m

Skip ==
    /\ pc = "loaded"
    /\ Unchanged(Marker[content])
    /\ pc' = "idle"
    /\ known' = NoMarker
    /\ UNCHANGED <<content, ledger, newest, bronze, seen, failures>>

\* The file is new or changed; the plan carries the marker stat returned.
PlanFile ==
    /\ pc = "loaded"
    /\ ~Unchanged(Marker[content])
    /\ pc' = "planned"
    /\ seen' = Marker[content]
    /\ known' = NoMarker
    /\ UNCHANGED <<content, ledger, newest, bronze, failures>>

\* stat raised: a full reload with no file in the plan.
PlanBlind ==
    /\ pc = "loaded"
    /\ pc' = "planned"
    /\ seen' = NoMarker
    /\ known' = NoMarker
    /\ UNCHANGED <<content, ledger, newest, bronze, failures>>

\* write in replace mode: CREATE OR REPLACE comes before the first byte is read.
Open ==
    /\ pc = "planned"
    /\ pc' = "opened"
    /\ bronze' = Empty
    /\ UNCHANGED <<content, ledger, newest, known, seen, failures>>

\* The first batches of the version that is there now.
Read ==
    /\ pc = "opened"
    /\ pc' = "reading"
    /\ bronze' = Part(content)
    /\ UNCHANGED <<content, ledger, newest, known, seen, failures>>

\* The last batch; a file that was replaced meanwhile may come out torn.
Finish ==
    /\ pc = "reading"
    /\ pc' = "written"
    /\ bronze' \in {Whole(bronze.ver)} \cup (IF bronze.ver = content THEN {} ELSE {bronze})
    /\ UNCHANGED <<content, ledger, newest, known, seen, failures>>

\* (mutant) the marker is asked for again when the load is recorded
RecordedNow == IF seen = NoMarker THEN {} ELSE {Marker[content]}

\* (mutant) a plan without a file is recorded too
RecordedAlways == {seen}

\* The plan's files, as the marker of each.
Recorded == IF seen = NoMarker THEN {} ELSE {seen}

\* record_file: a row with this marker is updated where it is, else inserted.
Commit ==
    /\ pc = "written"
    /\ pc' = "idle"
    /\ ledger' = ledger \cup Recorded
    /\ newest' \in IF Recorded \subseteq ledger THEN {newest} ELSE Recorded
    /\ seen' = NoMarker
    /\ UNCHANGED <<content, bronze, known, failures>>

\* The step is closed as failed, or the process dies; the ledger is not touched.
Fail ==
    /\ pc # "idle"
    /\ failures < MaxFailures
    /\ pc \in {"opened", "reading"} /\ seen = NoMarker => BlindMayFail
    /\ failures' = failures + 1
    /\ pc' = "idle"
    /\ known' = NoMarker
    /\ seen' = NoMarker
    /\ UNCHANGED <<content, ledger, newest, bronze>>

RunStep == Load \/ Skip \/ PlanFile \/ PlanBlind \/ Open \/ Read \/ Finish \/ Commit

Next == RunStep \/ Fail \/ \E v \in Versions : Replace(v)

Spec == Init /\ [][Next]_vars

\* A run goes on once it is started, and the schedule starts the next one.
FairSpec == Spec /\ WF_vars(RunStep)

-----------------------------------------------------------------------------
\* A file is only skipped when bronze holds all of its present version: what an
\* earlier run recorded is neither a version that was replaced while it was
\* read, nor a load that was undone since.
SkipIsSafe == [][Skip => bronze = Whole(content)]_vars

\* A version whose marker is in the ledger is not read again, unless the database
\* returns rows in another order than it was given them and an earlier version of
\* the file has a row too: the query for the rows names no order, and the last
\* one it returns is taken for the present version.
NoReread ==
    [][PlanFile /\ Marker[content] \in ledger \ {Blank}
        => ~InOrder /\ ledger # {Marker[content]}]_vars

\* Bronze catches up with the file again and again, whenever it was replaced
\* and however many runs have failed.
CatchesUp == []<>(bronze = Whole(content))
=============================================================================
