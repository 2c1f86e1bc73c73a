----------------------------- MODULE Profiling ------------------------------
(***************************************************************************)
(* What profiling/profiler.py measures of a table and what                 *)
(* profiling/relationships.py infers from it: uniqueness, keys, and the    *)
(* joins between tables.                                                   *)
(*                                                                         *)
(* A table is a record: its name, the singular of its name, its columns,   *)
(* its rows (functions from column names to values), whether its source    *)
(* answers SQL, and whether the counting query is allowed there.  Values   *)
(* are texts, sequences of characters.  Descriptive statistics are left    *)
(* out: nothing is decided by them here.                                   *)
(***************************************************************************)
EXTENDS Naming, Texts, Lists

\* connector.sample: the first rows.
Sample(table, limit) == SubSeq(table.rows, 1, IF limit < Len(table.rows) THEN limit ELSE Len(table.rows))

ColumnOf(rows, name) == [i \in DOMAIN rows |-> rows[i][name]]
Distinct(values) == {values[i] : i \in DOMAIN values} \ {Null}

\* The exact counts, where the source answers and the query goes through.
PushdownAvailable(table) == table.sql /\ table.countable

ProfileColumn(table, c, limit) ==
    LET sampled == ColumnOf(Sample(table, limit), c.name)
        exact == PushdownAvailable(table)
        values == IF exact THEN ColumnOf(table.rows, c.name) ELSE sampled
        distinct == Cardinality(Distinct(values))
        seen == Distinct(sampled)
        nulls == Cardinality({i \in DOMAIN values : values[i] = Null})
    IN  [name |-> c.name, logical |-> c.logical, shadow |-> c.shadow, pii |-> c.pii,
         position |-> c.position, nulls |-> nulls, distinct |-> distinct,
         \* the top values, when they are all there is
         domain |-> IF /\ c.logical \notin Numeric \cup Temporal
                       /\ Cardinality(seen) \in distinct..10
                    THEN seen ELSE {},
         unique |-> /\ distinct = Len(values) /\ nulls = 0
                    /\ exact \/ Len(values) > 1]

\* Identifier-shaped names first, personal data last, then the column order.
KeyRank(c) == <<IF LooksLikeId(c.name) THEN 0 ELSE 1, IF c.pii # "none" THEN 1 ELSE 0, c.position>>

\* Columns with more distinct values than a twentieth of the rows.
Candidates(columns, eligible, total) ==
    {i \in eligible : columns[i].nulls = 0 /\ 20 * columns[i].distinct > total}
MaxCandidates == 8

Identifies(names, rows) ==
    \A i, j \in DOMAIN rows :
        (\A n \in names : rows[i][n] = rows[j][n]) => i = j

\* The unique column of the best rank, with those of the next two that look like
\* identifiers; or else the first pair of columns that tells every sampled row
\* from every other.
KeyCandidates(columns, rows, total) ==
    LET eligible == {i \in DOMAIN columns :
                        IsKeyEligible(columns[i].name, columns[i].logical, columns[i].shadow)}
        unique == Listed({KeyRank(columns[i]) \o <<i>> : i \in {j \in eligible : columns[j].unique}})
        single == [k \in DOMAIN unique |-> <<columns[unique[k][4]].name>>]
        others == {k \in (DOMAIN unique) \cap (2..3) : LooksLikeId(single[k][1])}
        tried == Listed({<<-columns[i].distinct, i>> : i \in Candidates(columns, eligible, total)})
        name(k) == columns[tried[k][2]].name
        pairs == {p \in (DOMAIN tried) \X (DOMAIN tried) :
                     p[1] < p[2] /\ p[2] <= MaxCandidates /\ Identifies({name(p[1]), name(p[2])}, rows)}
        pair == Listed(pairs)[1]
    IN  IF unique # <<>> THEN Picked(single, {1} \cup others)
        ELSE IF pairs = {} THEN <<>> ELSE <<<<name(pair[1]), name(pair[2])>>>>

ProfileDataset(table, limit) ==
    LET rows == Sample(table, limit)
        columns == [i \in DOMAIN table.columns |-> ProfileColumn(table, table.columns[i], limit)]
        total == IF PushdownAvailable(table) THEN Len(table.rows) ELSE Len(rows)
    IN  [columns |-> IF rows = <<>>
                     THEN [i \in DOMAIN columns |-> [columns[i] EXCEPT !.unique = FALSE, !.distinct = 0]]
                     ELSE columns,
         keys |-> IF rows = <<>> THEN <<>> ELSE KeyCandidates(columns, rows, total),
         duplicates |-> Cardinality({rows[i] : i \in DOMAIN rows}) < Len(rows)]

-----------------------------------------------------------------------------
(* Join paths.  A possible link is its place: those of the child and of the  *)
(* parent among the tables, of the parent's key and of the child's column.   *)

JoinableTypes == {"string", "integer", "decimal"}

StartsIn(child, parent) == Len(parent) <= Len(child) /\ SubSeq(child, 1, Len(parent)) = parent

\* How strongly a column's name points at a parent's key, in hundredths.
NameAffinity(child, parent, key) ==
    LET isKey == EndsWith(child, {"id", "key", "code"})
        within == \E i \in 1..Len(child) : StartsIn(SubSeq(child, i, Len(child)), parent)
    IN  IF child = key /\ child \notin {<<"id">>, <<"key">>, <<"code">>} THEN 90
        ELSE IF isKey /\ StartsIn(child, parent) /\ Len(child) = Len(parent) + 1 THEN 100
        ELSE IF isKey /\ StartsIn(child, parent) THEN 85
        ELSE IF isKey /\ within THEN 70
        ELSE IF child = key THEN 45 ELSE 0

\* (mutant) the first column of a composite key stands for the key
ParentKeysOfAny(profile) ==
    {profile.columns[i].name : i \in {j \in DOMAIN profile.columns : profile.columns[j].unique}}
        \cup {profile.keys[i][1] : i \in DOMAIN profile.keys}

ParentKeys(profile) ==
    LET unique == {i \in DOMAIN profile.columns : profile.columns[i].unique}
    IN  IF unique # {} THEN {profile.columns[i].name : i \in unique}
        ELSE {profile.keys[i][1] : i \in {j \in DOMAIN profile.keys : Len(profile.keys[j]) = 1}}

\* Values are compared as trimmed text.
RelationshipSample == 5000
SampleValues(table, name) ==
    {Trim(v) : v \in {w \in Distinct(ColumnOf(Sample(table, RelationshipSample), name)) : ~Blank(w)}}

Cardinalities(child, name) ==
    IF \E i \in DOMAIN child.columns : child.columns[i].name = name /\ child.columns[i].unique
    THEN "one_to_one" ELSE "many_to_one"

KeyAt(tables, p) == tables[p[2]].columns[p[3]]
ChildAt(tables, p) == tables[p[1]].columns[p[4]]
Ends(r) == <<r.from, r.column, r.to, r.target>>
EndsAt(tables, p) == <<tables[p[1]].name, ChildAt(tables, p).name, tables[p[2]].name, KeyAt(tables, p).name>>

Affinity(tables, p) == NameAffinity(ChildAt(tables, p).name, tables[p[2]].singular, KeyAt(tables, p).name)
Mine(tables, p) == SampleValues(tables[p[1]], ChildAt(tables, p).name)
Shared(tables, p) == Mine(tables, p) \cap SampleValues(tables[p[2]], KeyAt(tables, p).name)

\* A name that points at a key, confirmed by an overlap of the values.
Confirmed(tables, profiles, p) ==
    /\ p[1] # p[2] /\ KeyAt(tables, p).name \in ParentKeys(profiles[p[2]])
    /\ {KeyAt(tables, p).logical, ChildAt(tables, p).logical} \subseteq JoinableTypes
    /\ Affinity(tables, p) >= 45
    /\ Shared(tables, p) # {} /\ 4 * Cardinality(Shared(tables, p)) >= 3 * Cardinality(Mine(tables, p))

\* Only a declared link is certain.
Certain == 10000
Capped(confidence) == IF confidence > 9900 THEN 9900 ELSE confidence
Confidence(tables, p) ==
    Capped((6500 * Cardinality(Shared(tables, p))) \div Cardinality(Mine(tables, p)) + 35 * Affinity(tables, p))

\* Between any two of the datasets that have a profile.
LinkPlaces(tables, profiles) ==
    UNION {{q[1]} \X {q[2]} \X (DOMAIN tables[q[2]].columns) \X (DOMAIN tables[q[1]].columns) :
              q \in (DOMAIN profiles) \X (DOMAIN profiles)}

Relationship(ends, confidence, childProfile) ==
    [from |-> ends[1], column |-> ends[2], to |-> ends[3], target |-> ends[4], accepted |-> TRUE,
     confidence |-> confidence, cardinality |-> Cardinalities(childProfile, ends[2])]

\* The foreign keys the source declares are taken as given, between two of the
\* datasets.
NamedTable(tables, profiles, n) == {i \in DOMAIN profiles : tables[i].name = n}
Declared(links, tables, profiles) ==
    {i \in DOMAIN links : /\ links[i].from # links[i].to
                          /\ NamedTable(tables, profiles, links[i].from) # {}
                          /\ NamedTable(tables, profiles, links[i].to) # {}}
Inferred(links, tables, profiles) ==
    {p \in LinkPlaces(tables, profiles) :
        /\ Confirmed(tables, profiles, p)
        /\ \A i \in Declared(links, tables, profiles) : EndsAt(tables, p) # Ends(links[i])}

\* Every relationship, the most certain first; tables are in a sequence, the
\* profiles of those that have one under their places.
InferRelationships(links, tables, profiles) ==
    LET child(i) == CHOOSE k \in NamedTable(tables, profiles, links[i].from) : TRUE
        order == Listed({<<-Certain, child(i), 0, 0, i>> : i \in Declared(links, tables, profiles)}
                            \cup {<<-Confidence(tables, p), p[1], p[2], p[3], p[4]>> :
                                     p \in Inferred(links, tables, profiles)})
        found(x) == IF x[3] = 0 THEN Ends(links[x[5]]) ELSE EndsAt(tables, Tail(x))
    IN  [k \in DOMAIN order |-> Relationship(found(order[k]), -order[k][1], profiles[order[k][2]])]
=============================================================================
