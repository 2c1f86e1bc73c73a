-------------------------------- MODULE Scd2 --------------------------------
(***************************************************************************)
(* Loading a slowly changing dimension: merge_scd2 of engine/base.py.      *)
(*                                                                         *)
(* A load stages its rows, closes the versions that changed, inserts the   *)
(* new ones and records which columns the hashes were taken of; each is a  *)
(* statement that commits by itself, and a load may fail between any two.  *)
(* A row is its key and its hash over the tracked columns; the interval of *)
(* a version is the statements' own time, and is open (_is_current, no     *)
(* _valid_to) as long as it ends at Open.                                  *)
(***************************************************************************)
EXTENDS Integers, FiniteSets

CONSTANTS
    Tables,         \* the dimensions, each loaded by one load at a time
    Keys,           \* keys of the rows; a key is never NULL and staged once
    Contents,       \* what the source columns of a row hold
    Trackings,      \* the column sets a load may track
    MaxLoads        \* bound: loads in all

ASSUME Scd2Assumption == MaxLoads \in Nat

Open == 0           \* the _valid_to of a version that is current
Untracked == "none"

Hashes == Trackings \X Contents
Version == [key: Keys, hash: Hashes, from: Nat, to: Nat]

\* The rows of a load: some of the keys, each with one hash.
Stagings(tracked) == UNION {[S -> {tracked} \X Contents] : S \in SUBSET Keys}

VARIABLES
    rows,           \* the versions in each dimension
    exists,         \* whether its table exists
    meta,           \* the columns its hashes are known to be taken of
    staged,         \* the rows of the load in progress
    tracking,       \* the columns it tracks
    stage,          \* where it is
    time,           \* the time of the last statement that wrote versions
    loads

scdVars == <<rows, exists, meta, staged, tracking, stage, time, loads>>

Stages == {"idle", "staged", "closed", "recording"}

ScdTypeOK ==
    /\ rows \in [Tables -> SUBSET Version]
    /\ \A t \in Tables : \A v \in rows[t] : v.from \in 1..time /\ v.to \in 0..time
    /\ exists \in [Tables -> BOOLEAN]
    /\ meta \in [Tables -> Trackings \cup {Untracked}]
    /\ staged = [t \in Tables |-> staged[t]]
    /\ \A t \in Tables : DOMAIN staged[t] \subseteq Keys
    /\ \A t \in Tables : \A k \in DOMAIN staged[t] : staged[t][k] \in Hashes
    /\ tracking \in [Tables -> Trackings]
    /\ stage \in [Tables -> Stages]
    /\ time \in Nat
    /\ loads \in 0..MaxLoads

NoRows == [k \in {} |-> CHOOSE h \in Hashes : TRUE]

ScdInit ==
    /\ rows = [t \in Tables |-> {}]
    /\ exists = [t \in Tables |-> FALSE]
    /\ meta = [t \in Tables |-> Untracked]
    /\ staged = [t \in Tables |-> NoRows]
    /\ tracking \in [Tables -> Trackings]
    /\ stage = [t \in Tables |-> "idle"]
    /\ time = 0
    /\ loads = 0

-----------------------------------------------------------------------------
\* The staging table is written; nothing else has happened yet.
Stage(t, cols, content) ==
    /\ stage[t] = "idle"
    /\ loads < MaxLoads
    /\ loads' = loads + 1
    /\ staged' = [staged EXCEPT ![t] = content]
    /\ tracking' = [tracking EXCEPT ![t] = cols]
    /\ stage' = [stage EXCEPT ![t] = "staged"]
    /\ UNCHANGED <<rows, exists, meta, time>>

Now == time + 1

Fresh(t, keys, at) ==
    {[key |-> k, hash |-> staged[t][k], from |-> at, to |-> Open] : k \in keys}

\* CREATE TABLE ... AS: everything is a new current version.
CreateFirst(t) ==
    /\ stage[t] = "staged"
    /\ ~exists[t]
    /\ time' = Now
    /\ rows' = [rows EXCEPT ![t] = Fresh(t, DOMAIN staged[t], Now)]
    /\ exists' = [exists EXCEPT ![t] = TRUE]
    /\ stage' = [stage EXCEPT ![t] = "recording"]
    /\ UNCHANGED <<meta, staged, tracking, loads>>

\* (mutant) every version of a staged key is closed again, current or not
ChangedEver(t, v) == v.key \in DOMAIN staged[t] /\ v.hash # staged[t][v.key]

Changed(t, v) ==
    /\ v.to = Open
    /\ v.key \in DOMAIN staged[t]
    /\ v.hash # staged[t][v.key]

\* Step 1: the MERGE that ends the versions that have changed.
CloseChanged(t) ==
    /\ stage[t] = "staged"
    /\ exists[t]
    /\ time' = Now
    /\ rows' = [rows EXCEPT ![t] =
                  {IF Changed(t, v) THEN [v EXCEPT !.to = Now] ELSE v : v \in rows[t]}]
    /\ stage' = [stage EXCEPT ![t] = "closed"]
    /\ UNCHANGED <<exists, meta, staged, tracking, loads>>

\* (mutant) only keys the dimension has never had
NeverSeen(t) == {k \in DOMAIN staged[t] : ~\E v \in rows[t] : v.key = k}

Missing(t) == {k \in DOMAIN staged[t] : ~\E v \in rows[t] : v.key = k /\ v.to = Open}

\* Step 2: what no current version matches is inserted, new or changed.
InsertNew(t) ==
    /\ stage[t] = "closed"
    /\ time' = Now
    /\ rows' = [rows EXCEPT ![t] = @ \cup Fresh(t, Missing(t), Now)]
    /\ stage' = [stage EXCEPT ![t] = "recording"]
    /\ UNCHANGED <<exists, meta, staged, tracking, loads>>

\* The staging table goes with the load, in the finally clause.
Ended(t) ==
    /\ stage' = [stage EXCEPT ![t] = "idle"]
    /\ staged' = [staged EXCEPT ![t] = NoRows]

\* The DELETE and INSERT of _record_scd_tracked.
Record(t) ==
    /\ stage[t] = "recording"
    /\ meta' = [meta EXCEPT ![t] = tracking[t]]
    /\ Ended(t)
    /\ UNCHANGED <<rows, exists, tracking, time, loads>>

\* A statement fails or the process dies: what was written stays, and the
\* record of the columns may have been deleted and not inserted.
FailLoad(t) ==
    /\ stage[t] # "idle"
    /\ \/ UNCHANGED meta
       \/ stage[t] = "recording" /\ meta' = [meta EXCEPT ![t] = Untracked]
    /\ Ended(t)
    /\ UNCHANGED <<rows, exists, tracking, time, loads>>

Statement(t) == CreateFirst(t) \/ CloseChanged(t) \/ InsertNew(t) \/ Record(t)

ScdNext ==
    \E t \in Tables :
        \/ \E cols \in Trackings : \E content \in Stagings(cols) : Stage(t, cols, content)
        \/ Statement(t)
        \/ FailLoad(t)

ScdSpec == ScdInit /\ [][ScdNext]_scdVars

-----------------------------------------------------------------------------
(* What the history promises.                                                *)

Valid(v, at) == v.from <= at /\ (v.to = Open \/ at < v.to)

Apart(v, w) == \/ v.to # Open /\ v.to <= w.from
               \/ w.to # Open /\ w.to <= v.from

\* "What was the rent last quarter" has at most one answer: whatever loads did
\* or did not finish, no two versions of one key were ever valid at once.
OneVersionAtATime ==
    \A t \in Tables : \A v, w \in rows[t] : v.key = w.key /\ v # w => Apart(v, w)

\* A load that reaches its end leaves each of its rows current, also when
\* the one before it died between closing a version and replacing it.
LoadedIsCurrent ==
    \A t \in Tables : stage[t] = "recording" =>
        \A k \in DOMAIN staged[t] :
            \E v \in rows[t] : v.key = k /\ v.to = Open /\ v.hash = staged[t][k]
=============================================================================
