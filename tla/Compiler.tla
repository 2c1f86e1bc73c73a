------------------------------ MODULE Compiler ------------------------------
(***************************************************************************)
(* The query semantic/compiler.py makes of a question, with the masks of   *)
(* semantic/masking.py, and what the SQL engine answers.                   *)
(*                                                                         *)
(* A model is a record of its entities, its measures and its joins, each a *)
(* sequence: the one Semantic derives, or one that was edited by hand.     *)
(* Entities and attributes have the names of their tables and columns, as  *)
(* builder.py gives them.  A database gives each entity the sequence of    *)
(* its rows.  Labels, notes and the text of the SQL are left out.          *)
(***************************************************************************)
EXTENDS Texts, Sums

-----------------------------------------------------------------------------
(* Masking.                                                                  *)

StrategyFor(kind) ==
    CASE kind = "email" -> "domain"
      [] kind = "phone" -> "last4"
      [] kind \in {"ip_address", "postal_code"} -> "prefix"
      [] kind = "date_of_birth" -> "year"
      [] kind = "person_name" -> "initials"
      [] OTHER -> "redact"

Masked == <<"*", "masked">>     \* the constant shown in place of a value
Dots == <<"*">>

\* NULL stays NULL; a value the strategy does not fit is redacted.
MaskExpression(kind, v) ==
    LET strategy == StrategyFor(kind)
        ats == {i \in DOMAIN v : v[i] = "@"}
    IN  IF v = Null THEN Null
        ELSE CASE strategy = "domain" /\ ats # {} ->
                Dots \o <<"@">> \o SubSeq(v, (CHOOSE i \in ats : \A j \in ats : i <= j) + 1, Len(v))
          [] strategy = "last4" /\ Len(v) >= 4 -> Dots \o SubSeq(v, Len(v) - 3, Len(v))
          [] strategy = "initials" /\ Len(v) >= 1 -> SubSeq(v, 1, 1) \o Dots
          [] strategy = "prefix" /\ Len(v) >= 3 -> SubSeq(v, 1, 3) \o Dots
          [] strategy = "year" -> SubSeq(v, 1, IF Len(v) < 4 THEN Len(v) ELSE 4) \o Dots
          [] OTHER -> Masked

\* A value of a column as it is shown under a mask, if there is one.
Shown(kind, v) == IF kind = "none" THEN v ELSE MaskExpression(kind, v)

-----------------------------------------------------------------------------
(* Names.                                                                    *)

\* The entities, attributes and measures a name may stand for; the first does.
EntitiesAt(model, id) == {i \in DOMAIN model.entities : model.entities[i].id = id}
MeasuresAt(model, id) == {i \in DOMAIN model.measures : model.measures[i].id = id}
First(places) == CHOOSE i \in places : \A j \in places : i <= j

AttributesAt(model, ref) ==
    LET attributes == model.entities[First(EntitiesAt(model, ref.entity))].attributes
    IN  {i \in DOMAIN attributes : attributes[i].name = ref.attribute}

Resolves(model, ref) == EntitiesAt(model, ref.entity) # {} /\ AttributesAt(model, ref) # {}
ResolveField(model, ref) ==
    model.entities[First(EntitiesAt(model, ref.entity))].attributes[First(AttributesAt(model, ref))]

\* (mutant) the grouping keeps the column, only what is displayed is masked
ColumnInTheClear(model, ref, seePii) ==
    [entity |-> ref.entity, column |-> ref.attribute, kind |-> "none"]

\* A column as a query names it, except in the constraint of a measure.
Column(model, ref, seePii) ==
    LET a == ResolveField(model, ref)
    IN  [entity |-> ref.entity, column |-> ref.attribute,
         kind |-> IF a.pii # "none" /\ ~seePii THEN a.pii ELSE "none"]

-----------------------------------------------------------------------------
(* Joins.                                                                    *)

\* (mutant) a hop from the one side to the many is as good as any other
TraversableAny(join) == TRUE

\* A hop may only go from the many side to the one side.
Traversable(join) == join.cardinality # "one_to_many"

\* The paths found, with the one to where a join leads.
Extend(found, j) ==
    [e \in DOMAIN found \cup {j.to} |-> IF e = j.to THEN Append(found[j.from], j) ELSE found[e]]

\* A breadth-first search looks at one join after the other for the entity at
\* the head of its queue; found has the path to each entity met.
Look(joins, s) ==
    IF s.queue = <<>> THEN s
    ELSE IF s.next > Len(joins)
    THEN [found |-> s.found, queue |-> Tail(s.queue), next |-> 1]
    ELSE LET j == joins[s.next]
             new == j.from = Head(s.queue) /\ j.to \notin DOMAIN s.found /\ Traversable(j)
         IN  [found |-> IF new THEN Extend(s.found, j) ELSE s.found,
              queue |-> IF new THEN Append(s.queue, j.to) ELSE s.queue,
              next |-> s.next + 1]

SearchFrom(base) == [found |-> [e \in {base} |-> <<>>], queue |-> <<base>>, next |-> 1]

\* Each entity is queued once, and looks at every join.
Searched(joins, base) ==
    LET after[n \in Nat] == IF n = 0 THEN SearchFrom(base) ELSE Look(joins, after[n - 1])
    IN  after[(Len(joins) + 1) * (Len(joins) + 1)]

\* The path to every entity the search reaches.
Reached(model, base) == Searched(model.joins, base).found

\* The joins of the paths to the targets, each once.
JoinPath(model, base, targets) ==
    LET found == Reached(model, base)
    IN  UNION {{found[t][k] : k \in DOMAIN found[t]} : t \in targets}

-----------------------------------------------------------------------------
(* Compiling a question.                                                     *)

\* The values an operator of a filter takes; -1 stands for one or more.
Arity == [eq |-> 1, ne |-> 1, gt |-> 1, gte |-> 1, lt |-> 1, lte |-> 1, in |-> -1, not_in |-> -1,
          contains |-> 1, starts_with |-> 1, between |-> 2, is_null |-> 0, is_not_null |-> 0]

\* An operator that takes no values ignores those it is given.
FilterAllowed(model, f, seePii) ==
    /\ ResolveField(model, f.field).pii = "none" \/ seePii
    /\ f.op \in DOMAIN Arity
    /\ Arity[f.op] > 0 => Len(f.values) = Arity[f.op]
    /\ Arity[f.op] < 0 => f.values # <<>>

AGGREGATIONS == {"sum", "avg", "min", "max", "count", "count_distinct", "median"}

Fields(q) == q.time \o q.dimensions
MaxLimit == 50000

MeasuresIn(model, q) ==
    [i \in DOMAIN q.measures |-> model.measures[First(MeasuresAt(model, q.measures[i]))]]

\* The table of the measures, which are all of one.
BaseOf(model, q) == MeasuresIn(model, q)[1].entity

Mentioned(q) == {Fields(q)[i] : i \in DOMAIN Fields(q)} \cup {q.filters[i].field : i \in DOMAIN q.filters}
Targets(model, q) == {f.entity : f \in Mentioned(q)} \ {BaseOf(model, q)}

\* A count of rows is over no column.
CountsRows(m) == m.aggregation = "count" /\ m.column = <<>>
Over(m) == [entity |-> m.entity, attribute |-> m.column]

Grain(q) == IF q.grain = "" THEN "month" ELSE q.grain

\* A name that several entities have an attribute of is prefixed with the entity's.
DimensionAlias(model, ref) ==
    IF Cardinality({i \in DOMAIN model.entities :
                       \E k \in DOMAIN model.entities[i].attributes :
                          model.entities[i].attributes[k].name = ref.attribute}) > 1
    THEN ref.entity \o ref.attribute ELSE ref.attribute

OutputColumns(model, q) ==
    {<<Grain(q), "of">> \o q.time[i].attribute : i \in DOMAIN q.time}
        \cup {DimensionAlias(model, q.dimensions[i]) : i \in DOMAIN q.dimensions}
        \cup {MeasuresIn(model, q)[i].name : i \in DOMAIN q.measures}

OrderKnown(model, q) ==
    \A i \in DOMAIN q.order :
        \/ q.order[i] \in OutputColumns(model, q)
        \/ /\ MeasuresAt(model, q.order[i]) # {}
           /\ model.measures[First(MeasuresAt(model, q.order[i]))].name \in OutputColumns(model, q)

Answerable(model, q, seePii) ==
    /\ q.measures # <<>>
    /\ \A i \in DOMAIN q.measures : MeasuresAt(model, q.measures[i]) # {}
    /\ \A i \in DOMAIN q.measures : MeasuresIn(model, q)[i].aggregation \in AGGREGATIONS
    /\ \A i \in DOMAIN q.measures : MeasuresIn(model, q)[i].entity = BaseOf(model, q)
    /\ \A f \in Mentioned(q) : Resolves(model, f)
    /\ Targets(model, q) \subseteq DOMAIN Reached(model, BaseOf(model, q))
    /\ EntitiesAt(model, BaseOf(model, q)) # {}
    /\ \A j \in JoinPath(model, BaseOf(model, q), Targets(model, q)) : EntitiesAt(model, j.to) # {}
    /\ \A i \in DOMAIN q.measures :
          LET m == MeasuresIn(model, q)[i] IN CountsRows(m) \/ Resolves(model, Over(m))
    /\ \A i \in DOMAIN q.filters : FilterAllowed(model, q.filters[i], seePii)
    /\ OrderKnown(model, q)

\* The constraint of a measure is SQL of the model, put into the aggregate as it
\* stands: no constraint, or one that reads columns of the measure's table and
\* holds of some of their values.
AggregateOf(model, m, seePii) ==
    [op |-> m.aggregation, constraint |-> m.constraint,
     over |-> IF CountsRows(m) THEN {} ELSE {Column(model, Over(m), seePii)}]

Compiled(model, q, seePii) ==
    [base |-> BaseOf(model, q),
     joins |-> JoinPath(model, BaseOf(model, q), Targets(model, q)),
     groups |-> [i \in DOMAIN Fields(q) |-> Column(model, Fields(q)[i], seePii)],
     grains |-> [i \in DOMAIN Fields(q) |-> IF i \in DOMAIN q.time THEN Grain(q) ELSE ""],
     aggregates |-> [i \in DOMAIN q.measures |-> AggregateOf(model, MeasuresIn(model, q)[i], seePii)],
     where |-> [i \in DOMAIN q.filters |->
        [column |-> Column(model, q.filters[i].field, seePii),
         op |-> q.filters[i].op, values |-> q.filters[i].values]],
     limit |-> IF q.limit < 1 THEN 1 ELSE IF q.limit > MaxLimit THEN MaxLimit ELSE q.limit]

\* The compiled query, or <<>> when the question is refused.
Compile(model, q, seePii) ==
    IF Answerable(model, q, seePii) THEN <<Compiled(model, q, seePii)>> ELSE <<>>

-----------------------------------------------------------------------------
(* What the SQL engine does with it, up to the limit.                        *)

\* A joined row gives each table of the query its row, or 0 where the LEFT
\* JOIN found none.
Cell(db, r, table, column) ==
    IF r[table] \in DOMAIN db[table] THEN db[table][r[table]][column] ELSE Null

Matches(db, j, r) ==
    {i \in DOMAIN db[j.to] :
        /\ Cell(db, r, j.from, j.column) # Null
        /\ db[j.to][i][j.target] = Cell(db, r, j.from, j.column)}

TablesOf(c) == {c.base} \cup {j.to : j \in c.joins}

Joined(c, db) ==
    {r \in [TablesOf(c) -> UNION {0..Len(db[t]) : t \in TablesOf(c)}] :
        /\ r[c.base] \in DOMAIN db[c.base]
        /\ \A j \in c.joins :
              IF Matches(db, j, r) = {} THEN r[j.to] = 0 ELSE r[j.to] \in Matches(db, j, r)}

ValueAt(c, db, r) == Shown(c.kind, Cell(db, r, c.entity, c.column))

\* LIKE: a % stands for any text, a _ for any character.
Like(v, pattern) ==
    LET from[p \in 1..(Len(pattern) + 1), k \in 1..(Len(v) + 1)] ==
            IF p > Len(pattern) THEN k > Len(v)
            ELSE IF pattern[p] = "%" THEN from[p + 1, k] \/ (k <= Len(v) /\ from[p, k + 1])
            ELSE k <= Len(v) /\ pattern[p] \in {"_", v[k]} /\ from[p + 1, k + 1]
    IN  from[1, 1]

\* What is asked for is not NULL.  A % or _ in it is not escaped.
Compares(op, v, asked) ==
    CASE op = "eq" -> v = asked[1]
      [] op = "ne" -> v # asked[1]
      [] op = "gt" -> v > asked[1]
      [] op = "gte" -> v >= asked[1]
      [] op = "lt" -> v < asked[1]
      [] op = "lte" -> v <= asked[1]
      [] op = "between" -> asked[1] <= v /\ v <= asked[2]
      [] op = "contains" -> Like(v, <<"%">> \o asked[1] \o <<"%">>)
      [] op = "starts_with" -> Like(v, asked[1] \o <<"%">>)
      [] op = "in" -> \E i \in DOMAIN asked : v = asked[i]
      [] op = "not_in" -> \A i \in DOMAIN asked : v # asked[i]

Holds(f, db, r) ==
    LET v == ValueAt(f.column, db, r)
    IN  CASE f.op = "is_null" -> v = Null
          [] f.op = "is_not_null" -> v # Null
          [] OTHER -> v # Null /\ Compares(f.op, v, f.values)

RowsKept(c, db) == {r \in Joined(c, db) : \A i \in DOMAIN c.where : Holds(c.where[i], db, r)}

\* DATE_TRUNC.  A date is known by the periods it lies in.
Truncated(grain, v) == IF grain = "" \/ v = Null THEN v ELSE v[grain]

GroupOf(c, db, r) ==
    [i \in DOMAIN c.groups |-> Truncated(c.grains[i], ValueAt(c.groups[i], db, r))]

Met(constraint, row) ==
    \A i \in DOMAIN constraint : [column \in constraint[i].reads |-> row[column]] \in constraint[i].holds

\* What an aggregate is given of a row of the base table; COUNT(*) takes any value.
Argument(a, row) ==
    IF ~Met(a.constraint, row) THEN Null
    ELSE IF a.over = {} THEN <<>>
    ELSE LET o == CHOOSE o \in a.over : TRUE IN Shown(o.kind, row[o.column])

\* The k-th member of S by what f gives to it.
Ranked(f, S, k) ==
    CHOOSE x \in {f[n] : n \in S} :
        /\ Cardinality({n \in S : f[n] < x}) < k
        /\ k <= Cardinality({n \in S : f[n] <= x})

\* What one aggregate makes of the arguments f.  NULLs do not count.  An average
\* is kept as a fraction, and a median as the two values in the middle.
Figure(op, f) ==
    LET S == {r \in DOMAIN f : f[r] # Null}
        n == Cardinality(S)
    IN  IF op = "count" THEN <<n>>
        ELSE IF op = "count_distinct" THEN <<Cardinality({f[r] : r \in S})>>
        ELSE IF n = 0 THEN <<>>      \* NULL
        ELSE CASE op = "sum" -> <<SumOf(f, S)>>
               [] op = "avg" -> <<SumOf(f, S), n>>
               [] op = "min" -> <<Ranked(f, S, 1)>>
               [] op = "max" -> <<Ranked(f, S, n)>>
               [] op = "median" -> <<Ranked(f, S, (n + 1) \div 2), Ranked(f, S, n \div 2 + 1)>>

Aggregate(a, c, db, rows) == Figure(a.op, [r \in rows |-> Argument(a, db[c.base][r[c.base]])])

\* Without groups the answer is one row, even of no rows.
Answer(c, db) ==
    [k \in {GroupOf(c, db, r) : r \in RowsKept(c, db)} \cup (IF c.groups = <<>> THEN {<<>>} ELSE {}) |->
        [i \in DOMAIN c.aggregates |->
            Aggregate(c.aggregates[i], c, db, {r \in RowsKept(c, db) : GroupOf(c, db, r) = k})]]

\* A mask makes a text of a date and of a number, which is then not truncated or
\* summed; and CASE WHEN .. THEN * END is no SQL.  The engine refuses these.
Executable(c) ==
    /\ \A i \in DOMAIN c.groups : c.grains[i] = "" \/ c.groups[i].kind = "none"
    /\ \A i \in DOMAIN c.aggregates :
          LET a == c.aggregates[i]
          IN  /\ a.op \in {"sum", "avg"} => \A o \in a.over : o.kind = "none"
              /\ a.over = {} => a.constraint = <<>>
=============================================================================
