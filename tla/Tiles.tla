------------------------------- MODULE Tiles --------------------------------
(***************************************************************************)
(* What a tile of a dashboard shows of the rows its query returns          *)
(* (dashboards/runner.py).                                                 *)
(*                                                                         *)
(* A query of a tile is a record of the tile (its type, its limit, whether *)
(* it is drawn over time, whether it folds its tail, the number of its     *)
(* measures), the rows the engine groups, in any order, and the first      *)
(* measure's value over all of them.  A row has a label and the values of  *)
(* the measures, which may be NULL; no two rows have the same label.  The  *)
(* label of a timeline is its period.                                      *)
(***************************************************************************)
EXTENDS Compiler

CONSTANT TileQueries

IsNumber(v) == v \in Int \cup {Null}

IsResult(q) ==
    /\ Len(q.rows) \in Nat /\ DOMAIN q.rows = 1..Len(q.rows)
    /\ q.tile.measures \in Nat \ {0} /\ q.tile.limit \in Nat \ {0}
    /\ \A i \in DOMAIN q.rows :
          /\ IsNumber(q.rows[i].label)
          /\ DOMAIN q.rows[i].values = 1..q.tile.measures
          /\ \A m \in 1..q.tile.measures : IsNumber(q.rows[i].values[m])
    /\ \A i, j \in DOMAIN q.rows : q.rows[i].label = q.rows[j].label => i = j

ASSUME TileQueriesAssumption == (\A q \in TileQueries : IsResult(q)) /\ Null \notin Int

VARIABLE shown      \* the query last run, and what its tile shows

-----------------------------------------------------------------------------
(* Orders.  An order of rows is the set of the pairs of places of which the  *)
(* first comes before the second.                                            *)

MaxDonutSlices == 6
MaxStackBands == 8
MaxPeriods == 60

Timeline == {"stat", "line", "area", "combo"}
Folding == {"donut", "stacked_bar", "bar"}

FirstN(s, n) == [k \in 1..(IF Len(s) < n THEN Len(s) ELSE n) |-> s[k]]

Pairs(rows) == (1..Len(rows)) \X (1..Len(rows))

\* NULL comes last.
Earlier(a, b) == a # Null /\ (b = Null \/ a < b)
Larger(a, b) == a # Null /\ (b = Null \/ a > b)

\* ORDER BY 1 ASC, and ORDER BY the first measure DESC
OldestFirst(rows) ==
    {p \in Pairs(rows) : Earlier(rows[p[1]].label, rows[p[2]].label)}
LargestFirst(rows) ==
    {p \in Pairs(rows) :
        LET a == rows[p[1]].values[1]
            b == rows[p[2]].values[1]
        IN  Larger(a, b) \/ (a = b /\ p[1] < p[2])}

\* The size of a bar or a slice; no value draws as zero.
Size(point) ==
    LET v == point.values[1]
    IN  IF v = Null THEN 0 ELSE IF v < 0 THEN -v ELSE v
BySize(points) ==
    {p \in Pairs(points) :
        LET a == Size(points[p[1]])
            b == Size(points[p[2]])
        IN  a > b \/ (a = b /\ p[1] < p[2])}

PlaceIn(order, n, k) == CHOOSE i \in 1..n : Cardinality({j \in 1..n : <<j, i>> \in order}) = k - 1
Sorted(rows, order) == [k \in 1..Len(rows) |-> rows[PlaceIn(order, Len(rows), k)]]

\* (mutant) the tiles of a timeline keep the order of the compiler
ExecutedLargestFirst(type, limit, rows) == FirstN(Sorted(rows, LargestFirst(rows)), limit)

\* The compiler's order is the largest first; a timeline replaces it, and the
\* limit applies after either.
Executed(type, limit, rows) ==
    FirstN(Sorted(rows, IF type \in Timeline THEN OldestFirst(rows) ELSE LargestFirst(rows)), limit)

-----------------------------------------------------------------------------
(* Grouped tiles.                                                            *)

\* The sum of a measure over the points at some places, without the NULLs.
SumAt(points, places, m) ==
    LET known == {k \in places : points[k].values[m] # Null}
    IN  SumOf([k \in known |-> points[k].values[m]], known)

Keep(tile) == IF tile.type = "donut" THEN MaxDonutSlices ELSE MaxStackBands

\* The categories at some places as one; without a value if none has one.
Other(tile, points, places) ==
    [label |-> Null, folds |-> Cardinality(places),
     values |-> [m \in 1..tile.measures |->
                    IF \A k \in places : points[k].values[m] = Null THEN Null
                    ELSE SumAt(points, places, m)]]

\* (mutant) the tail is left off
FoldTailDropped(tile, points) == FirstN(Sorted(points, BySize(points)), Keep(tile))

\* What is past the readable limit becomes one category.
FoldTail(tile, points) ==
    LET keep == Keep(tile)
        ordered == Sorted(points, BySize(points))
    IN  IF Len(points) <= keep + 1 THEN points
        ELSE [k \in 1..(keep + 1) |->
                 IF k <= keep THEN ordered[k]
                 ELSE Other(tile, ordered, (keep + 1)..Len(points))]

RunGrouped(q) ==
    LET rows == Executed(q.tile.type, q.tile.limit, q.rows)
        points == [k \in 1..Len(rows) |->
                      [label |-> rows[k].label, folds |-> 0, values |-> rows[k].values]]
    IN  IF q.tile.type \in Folding /\ q.tile.foldTail THEN FoldTail(q.tile, points) ELSE points

-----------------------------------------------------------------------------
(* Headlines.                                                                *)

Difference(a, b) == IF a = Null \/ b = Null THEN Null ELSE a - b

\* The headline is a value over everything; its movement is that of the last
\* two points of its series.
RunStat(q) ==
    LET series == Executed(q.tile.type, MaxPeriods, q.rows)
        n == Len(series)
        moves == q.tile.dated /\ n >= 2
        value(k) == series[k].values[1]
    IN  [value |-> IF moves /\ q.total = Null THEN value(n) ELSE q.total,
         sparkline |-> IF q.tile.dated THEN [k \in 1..n |-> value(k)] ELSE <<>>,
         previous |-> IF moves THEN value(n - 1) ELSE Null,
         delta |-> IF moves THEN Difference(value(n), value(n - 1)) ELSE Null]

TilesInit == shown = <<>>

RunTile(q) ==
    shown' = IF q.tile.type = "stat" THEN <<[query |-> q, stat |-> RunStat(q)]>>
             ELSE <<[query |-> q, points |-> RunGrouped(q)]>>

TilesNext == \E q \in TileQueries : RunTile(q)

TilesSpec == TilesInit /\ [][TilesNext]_shown

-----------------------------------------------------------------------------

Drawn(q, point, row) == point.folds = 0 /\ point.label = row.label /\ point.values = row.values

\* While the groups are within the tile's limit, what is drawn adds up to the
\* whole, measure by measure: the categories folded into one keep their total,
\* and each of them is no larger than any that is drawn by itself.
PartsSumToWhole ==
    (shown # <<>> /\ shown[1].query.tile.type # "stat") =>
        LET q == shown[1].query
            points == shown[1].points
        IN  Len(q.rows) <= q.tile.limit =>
            /\ \A m \in 1..q.tile.measures :
                  SumAt(points, DOMAIN points, m) = SumAt(q.rows, DOMAIN q.rows, m)
            /\ \A i \in DOMAIN q.rows :
                  \/ \E k \in DOMAIN points : Drawn(q, points[k], q.rows[i])
                  \/ /\ q.tile.foldTail
                     /\ \A k \in DOMAIN points : points[k].folds = 0 => Size(points[k]) >= Size(q.rows[i])

\* A headline's movement is that of the latest period from the one before, in
\* whatever order the periods arrive and their values rank.
CurrentIsLatest ==
    (shown # <<>> /\ shown[1].query.tile.type = "stat") =>
        LET q == shown[1].query
            stat == shown[1].stat
            before(i) == {j \in DOMAIN q.rows : q.rows[j].label < q.rows[i].label}
        IN  (/\ q.tile.dated /\ Len(q.rows) \in 2..MaxPeriods
             /\ \A i \in DOMAIN q.rows : q.rows[i].label # Null) =>
            \A i, j \in DOMAIN q.rows :
                (i # j /\ before(i) = DOMAIN q.rows \ {i} /\ before(j) = DOMAIN q.rows \ {i, j}) =>
                    /\ stat.previous = q.rows[j].values[1]
                    /\ stat.delta = Difference(q.rows[i].values[1], q.rows[j].values[1])
                    /\ q.total = Null => stat.value = q.rows[i].values[1]
=============================================================================
