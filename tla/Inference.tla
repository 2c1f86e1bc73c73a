----------------------------- MODULE Inference ------------------------------
(***************************************************************************)
(* From a source to an answer: its tables are profiled, joins between them *)
(* are inferred and may be rejected, silver is refined, the semantic model *)
(* is built of what is there at the time, and questions are asked of it.   *)
(*                                                                         *)
(* A source is a record of its tables, the foreign keys it declares and    *)
(* the questions that will be asked.  It does not change meanwhile.        *)
(***************************************************************************)
EXTENDS Profiling, Silver, Semantic, Answers

CONSTANTS
    Sources,
    SampleSize       \* profile_sample_rows

\* No two rows share a value that is not NULL.
Keyed(rows, column) ==
    \A m, n \in DOMAIN rows : rows[m][column] = rows[n][column] /\ rows[m][column] # Null => m = n

\* Tables and their columns have names of their own; what a foreign key refers
\* to, the source keeps unique.
IsSource(s) ==
    /\ IsSequence(s.tables) /\ NamesDiffer(s.tables)
    /\ \A i \in DOMAIN s.tables :
          /\ IsSequence(s.tables[i].columns) /\ NamesDiffer(s.tables[i].columns)
          /\ IsSequence(s.tables[i].rows)
    /\ IsSequence(s.links)
    /\ \A k \in DOMAIN s.links, i \in DOMAIN s.tables :
          s.tables[i].name = s.links[k].to => Keyed(s.tables[i].rows, s.links[k].target)
    /\ \A q \in s.questions : IsSequence(q.measures)

ASSUME InferenceAssumption == SampleSize \in Nat \ {0} /\ \A s \in Sources : IsSource(s)

VARIABLES
    source,
    profiled,        \* the profiles, under the places of the tables that have one
    detected,        \* the rows of dataset_relationships
    refined,         \* the silver tables
    modelled,        \* the semantic model, once there is one
    replied          \* the question last answered: as compiled, with its answer
                     \* and what it was answered from

inferenceVars == <<source, profiled, detected, refined, modelled, replied>>

InferenceInit ==
    /\ source \in Sources
    /\ profiled = <<>> /\ detected = <<>> /\ refined = <<>>
    /\ modelled = <<>> /\ replied = <<>>

ProfileTable(i) ==
    /\ profiled' = [k \in DOMAIN profiled \cup {i} |->
                       IF k = i THEN ProfileDataset(source.tables[i], SampleSize) ELSE profiled[k]]
    /\ UNCHANGED <<source, detected, refined, modelled, replied>>

-----------------------------------------------------------------------------
(* Relationships.                                                            *)

Rejected == {i \in DOMAIN detected : ~detected[i].accepted}

\* What is found replaces what was accepted; what was rejected stays rejected.
DetectRelationships ==
    LET found == InferRelationships(source.links, source.tables, profiled)
        no == {Ends(detected[i]) : i \in Rejected}
    IN  /\ Cardinality(DOMAIN profiled) >= 2
        /\ detected' = Picked(detected, Rejected)
                                \o Picked(found, {k \in DOMAIN found : Ends(found[k]) \notin no})
        /\ UNCHANGED <<source, profiled, refined, modelled, replied>>

SetRelationshipAccepted(i, accepted) ==
    /\ detected' = [detected EXCEPT ![i].accepted = accepted]
    /\ UNCHANGED <<source, profiled, refined, modelled, replied>>

-----------------------------------------------------------------------------
(* Silver and the model.                                                     *)

\* The first key candidate, which a load merges on.
KeysOf(profile) == IF profile.keys = <<>> THEN {} ELSE {profile.keys[1][k] : k \in DOMAIN profile.keys[1]}

SampledRows(table) == Len(Sample(table, SampleSize))

SilverOf(table, profile) ==
    PlanSilver(profile, Clean(DerivePolicy(profile, KeysOf(profile), SampledRows(table)), table.rows))

RefineTable(i) ==
    LET t == source.tables[i]
    IN  /\ refined' = [n \in DOMAIN refined \cup {t.name} |->
                          IF n = t.name THEN SilverOf(t, profiled[i]) ELSE refined[n]]
        /\ UNCHANGED <<source, profiled, detected, modelled, replied>>

\* A dataset as the builder sees it: with the columns silver has, if silver has it.
\* (Its size is looked at by dashboards only.)
Dataset(i) ==
    LET t == source.tables[i]
        p == profiled[i]
    IN  IF i \in DOMAIN profiled
        THEN [name |-> t.name, internal |-> FALSE, silver |-> t.name \in DOMAIN refined, magnitude |-> 0,
              key |-> KeysOf(p), columns |-> Picked(p.columns, KeptColumns(p.columns))]
        ELSE [name |-> t.name, internal |-> FALSE, silver |-> FALSE, magnitude |-> 0, key |-> {},
              columns |-> <<>>]

\* The query for the relationships has no order.
Arranged(s) ==
    {[k \in DOMAIN s |-> s[f[k]]] :
        f \in {g \in [DOMAIN s -> DOMAIN s] : \A i \in DOMAIN s : \E k \in DOMAIN s : g[k] = i}}

BuildSemantic ==
    /\ \E rows \in Arranged(detected) :
          modelled' = <<BuildModel([i \in DOMAIN source.tables |-> Dataset(i)], rows)>>
    /\ UNCHANGED <<source, profiled, detected, refined, replied>>

RunQuery(q, seePii) ==
    LET c == Compile(modelled[1], q, seePii)
    IN  /\ c # <<>>
        /\ Executable(c[1])
        /\ replied' = <<[model |-> modelled[1], silver |-> refined, profiles |-> profiled,
                         compiled |-> c[1], answer |-> Answer(c[1], refined)]>>
        /\ UNCHANGED <<source, profiled, detected, refined, modelled>>

InferenceNext ==
    \/ \E i \in DOMAIN source.tables : ProfileTable(i)
    \/ DetectRelationships
    \/ \E i \in DOMAIN detected, accepted \in BOOLEAN : SetRelationshipAccepted(i, accepted)
    \/ \E i \in DOMAIN profiled : RefineTable(i)
    \/ BuildSemantic
    \/ \E k \in DOMAIN modelled : \E q \in source.questions, seePii \in BOOLEAN : RunQuery(q, seePii)

InferenceSpec == InferenceInit /\ [][InferenceNext]_inferenceVars

-----------------------------------------------------------------------------

SeenWhole(table) == PushdownAvailable(table) \/ Len(table.rows) <= SampleSize

\* Trimming and casting tell apart the values of a column that differ.
ToldApart(c, rows) ==
    \A m, n \in DOMAIN rows :
        LET silver(k) == Project(c, rows[k][c.name])
        IN  silver(m) = silver(n) /\ silver(m) # Null => rows[m][c.name] = rows[n][c.name]

\* What a join leads to was profiled whole, and is a column silver keeps, with
\* the values it had but for what refining does to each of them alone.
KeyKept(table, profile, column) ==
    /\ SeenWhole(table)
    /\ \E k \in KeptColumns(profile.columns) :
          profile.columns[k].name = column /\ ToldApart(profile.columns[k], table.rows)

\* When the profiles saw every row and the keys that are joined to are told
\* apart in silver, an answer broken down along inferred joins breaks down the
\* silver table and adds up to its totals, whatever was profiled, detected,
\* rejected, refined and built in whatever order: what is inferred as a key is
\* one in the table that is joined.
TotalsSurviveInference ==
    replied # <<>> =>
        LET r == replied[1]
            c == r.compiled
            table == r.silver[c.base]
        IN  /\ \A k \in DOMAIN r.model.joins, i \in DOMAIN r.profiles :
                  LET j == r.model.joins[k]
                  IN  source.tables[i].name = j.to => KeyKept(source.tables[i], r.profiles[i], j.target)
            /\ Summable(c, table)
            /\ c.where = <<>>
            => BreaksDown(c, table, r.answer) /\ AddsUp(c, table, r.answer)
=============================================================================
