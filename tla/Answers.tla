------------------------------- MODULE Answers ------------------------------
(***************************************************************************)
(* Questions asked of a warehouse, and whether the answers can be relied   *)
(* on: that a total is not changed by what it is broken down by, and that  *)
(* personal data does not show.                                            *)
(*                                                                         *)
(* A warehouse is a record of its semantic model, its silver tables, the   *)
(* questions that are asked of it, and a twin: tables that may differ from *)
(* the silver ones, and of which the same questions are asked.             *)
(***************************************************************************)
EXTENDS Compiler, Lists

CONSTANT Warehouses

Tables(db) == \A t \in DOMAIN db : IsSequence(db[t])

\* Joins and measures are of tables the warehouse has.
WellFormed(w) ==
    /\ Tables(w.silver) /\ Tables(w.twin)
    /\ IsSequence(w.model.joins)
    /\ \A i \in DOMAIN w.model.joins :
          {w.model.joins[i].from, w.model.joins[i].to} \subseteq DOMAIN w.silver
    /\ IsSequence(w.model.measures)
    /\ \A i \in DOMAIN w.model.measures : w.model.measures[i].entity \in DOMAIN w.silver
    /\ IsSequence(w.model.entities)
    /\ \A i \in DOMAIN w.model.entities : IsSequence(w.model.entities[i].attributes)
    /\ \A q \in w.questions : IsSequence(q.measures)

ASSUME WarehousesAssumption == \A w \in Warehouses : WellFormed(w)

VARIABLES
    warehouse,
    reply       \* the question last answered, as it was compiled, and the answers

answersVars == <<warehouse, reply>>

AnswersInit == warehouse \in Warehouses /\ reply = <<>>

\* QueryCompiler.compile, and the query it makes run by the engine.
AskQuestion(q, seePii) ==
    LET c == Compile(warehouse.model, q, seePii)
    IN  /\ reply' = IF c = <<>> \/ ~Executable(c[1]) THEN <<>>
                    ELSE <<[query |-> q, seePii |-> seePii, compiled |-> c[1],
                            answer |-> Answer(c[1], warehouse.silver),
                            twin |-> Answer(c[1], warehouse.twin)]>>
        /\ UNCHANGED warehouse

AnswersNext == \E q \in warehouse.questions, seePii \in BOOLEAN : AskQuestion(q, seePii)

AnswersSpec == AnswersInit /\ [][AnswersNext]_answersVars

-----------------------------------------------------------------------------
(* Totals.                                                                   *)

\* The model says of a join that each row has one partner at most only where
\* that is so.
CardinalitiesHold(model, db) ==
    \A i \in DOMAIN model.joins :
        LET j == model.joins[i]
        IN  j.cardinality # "one_to_many" =>
                \A m, n \in DOMAIN db[j.to] :
                    (db[j.to][m][j.target] = db[j.to][n][j.target] /\ db[j.to][m][j.target] # Null) => m = n

\* What is summed is a number in every row, or NULL.
Summable(c, table) ==
    \A i \in DOMAIN c.aggregates :
        c.aggregates[i].op \in {"sum", "avg"} =>
            \A n \in DOMAIN table : Argument(c.aggregates[i], table[n]) \in Int \cup {Null}

\* The aggregate of some rows of a table by itself.
TotalOf(a, table, part) == Figure(a.op, [n \in part |-> Argument(a, table[n])])

\* The answer breaks the table down: each of its rows is in one group, and the
\* figures of a group are those of its rows.
BreaksDown(c, table, answer) ==
    \E group \in [DOMAIN table -> DOMAIN answer] :
        \A k \in DOMAIN answer : \A i \in DOMAIN c.aggregates :
            answer[k][i] = TotalOf(c.aggregates[i], table, {n \in DOMAIN table : group[n] = k})

\* The groups of a sum, a count or an average, both terms of its fraction, add
\* up to that of the table.
AddsUp(c, table, answer) ==
    \A i \in DOMAIN c.aggregates :
        LET total == TotalOf(c.aggregates[i], table, DOMAIN table)
            known == {k \in DOMAIN answer : answer[k][i] # <<>>}
        IN  c.aggregates[i].op \in {"sum", "avg", "count"} =>
                \A p \in DOMAIN total : SumOf([k \in known |-> answer[k][i][p]], known) = total[p]

\* Whatever joins a model holds, a question broken down by the columns of other
\* tables is answered of the rows of the table that carries the measure, each
\* in one group, so that what adds up still does: no join the compiler accepts
\* repeats a row of that table, and none loses one.
TotalsSurviveJoins ==
    reply # <<>> =>
        LET c == reply[1].compiled
            table == warehouse.silver[c.base]
        IN  /\ CardinalitiesHold(warehouse.model, warehouse.silver)
            /\ Summable(c, table)
            /\ c.where = <<>>
            => BreaksDown(c, table, reply[1].answer) /\ AddsUp(c, table, reply[1].answer)

-----------------------------------------------------------------------------
(* Personal data.                                                            *)

Alike(silver, twin, t, column, kind) ==
    \A n \in DOMAIN silver[t] : Shown(kind, silver[t][n][column]) = Shown(kind, twin[t][n][column])

\* The twin differs in personal data only, shows the same masks, and is joined
\* along the same values.
LooksAlike(model, silver, twin) ==
    /\ DOMAIN silver = DOMAIN twin
    /\ \A t \in DOMAIN silver : DOMAIN silver[t] = DOMAIN twin[t]
    /\ \A i \in DOMAIN model.entities :
          LET e == model.entities[i]
          IN  \A k \in DOMAIN e.attributes :
                Alike(silver, twin, e.id, e.attributes[k].name, e.attributes[k].pii)
    /\ \A i \in DOMAIN model.joins :
          LET j == model.joins[i]
          IN  /\ Alike(silver, twin, j.from, j.column, "none")
              /\ Alike(silver, twin, j.to, j.target, "none")

\* The constraints of the measures asked for hold of the same rows in both.
PicksAlike(c, silver, twin) ==
    \A i \in DOMAIN c.aggregates : \A n \in DOMAIN silver[c.base] :
        LET constraint == c.aggregates[i].constraint
        IN  Met(constraint, silver[c.base][n]) = Met(constraint, twin[c.base][n])

Hidden == reply # <<>> /\ ~reply[1].seePii /\ LooksAlike(warehouse.model, warehouse.silver, warehouse.twin)

\* Without the permission to see personal data, no question the compiler
\* accepts tells apart two warehouses that show the same masks and of which the
\* constraints of its measures pick the same rows: neither the values, nor the
\* number of groups, nor which rows a filter keeps.
PersonalStaysHidden ==
    Hidden /\ PicksAlike(reply[1].compiled, warehouse.silver, warehouse.twin)
        => reply[1].answer = reply[1].twin

\* False of the code, and so in no run: every path that names a column is masked,
\* as the compiler says of itself, so that two warehouses that show the same masks
\* are not told apart whatever constraints the measures have.
EveryPathIsMasked == Hidden => reply[1].answer = reply[1].twin
=============================================================================
