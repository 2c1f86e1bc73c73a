----------------------------- MODULE Dashboards -----------------------------
(***************************************************************************)
(* Dashboards: the tiles dashboards/generator.py draws up from a semantic  *)
(* model, what a reader changes of them by drilling and cross-filtering,   *)
(* and the questions they ask.  The filter bar is left out: it offers the  *)
(* columns of every table, also of those a tile cannot be joined to.       *)
(*                                                                         *)
(* A workspace is a record of the datasets and relationships its semantic  *)
(* model is built of.                                                      *)
(***************************************************************************)
EXTENDS Semantic, Tiles

CONSTANTS
    Workspaces,
    ClickedValues,   \* what the bars of a chart stand for
    MaxClicks        \* (bound) of a behaviour

\* Columns have names of their own; so have datasets, of one schema (of two with
\* one name silver would have one table).
IsWorkspace(w) ==
    /\ IsSequence(w.datasets) /\ NamesDiffer(w.datasets)
    /\ \A i \in DOMAIN w.datasets :
          /\ w.datasets[i].magnitude \in Nat
          /\ IsSequence(w.datasets[i].columns) /\ NamesDiffer(w.datasets[i].columns)
    /\ IsSequence(w.relationships)

ASSUME WorkspacesAssumption == \A w \in Workspaces : IsWorkspace(w)

VARIABLES
    board,      \* the dashboard that is shown, with the model it is of
    picked,     \* the filters of the page
    clicks

boardVars == <<board, picked, clicks>>

MaxChartCardinality == 24
MaxStats == 4
MaxBreakdowns == 3
DefaultLimit == 12

-----------------------------------------------------------------------------
(* What a dashboard is built around.                                         *)

HasTime(e) == \E i \in DOMAIN e.attributes : e.attributes[i].role = "time"
MeasuresOf(model, e) == {i \in DOMAIN model.measures : model.measures[i].entity = e.id}
Hub(model, e) == \E i \in DOMAIN model.joins : model.joins[i].from = e.id

\* A timeline, joins, grain and measures, in tenths; rows count by their
\* order of magnitude.
Score(model, e) ==
    (IF HasTime(e) THEN 40 ELSE 0) + (IF Hub(model, e) THEN 30 ELSE 0)
        + (IF e.magnitude < 3 THEN 10 * e.magnitude ELSE 30)
        + (LET n == 4 * Cardinality(MeasuresOf(model, e)) IN IF n < 20 THEN n ELSE 20)

Facts(model) == {i \in DOMAIN model.entities : model.entities[i].fact}

\* The fact with the best score, and the largest of those.
PrimaryFact(model) ==
    LET key(i) == <<-Score(model, model.entities[i]), -model.entities[i].magnitude, i>>
    IN  model.entities[Listed({key(i) : i \in Facts(model)})[1][3]]

\* A count leads, then totals, then averages; money before other numbers.
Rank(m) == (CASE m.aggregation = "count" -> 0 [] m.aggregation = "sum" -> 2 [] OTHER -> 6)
               + (IF m.format = "currency" THEN 0 ELSE 1)
RankedMeasures(model, fact) ==
    LET order == Listed({<<Rank(model.measures[i]), i>> : i \in MeasuresOf(model, fact)})
    IN  [k \in DOMAIN order |-> model.measures[order[k][2]]]

\* (mutant) joined tables of either direction are broken down by
NearbyAny(model, fact) ==
    {fact.id} \cup {model.joins[i].to : i \in {j \in DOMAIN model.joins : model.joins[j].from = fact.id}}

Nearby(model, fact) ==
    {fact.id} \cup {model.joins[i].to : i \in {j \in DOMAIN model.joins :
        model.joins[j].from = fact.id /\ model.joins[j].cardinality # "one_to_many"}}

\* A column is the place of its entity and its own.
AttributeAt(model, p) == model.entities[p[1]].attributes[p[2]]
Plottable(model, fact) ==
    {p \in UNION {{i} \X (DOMAIN model.entities[i].attributes) : i \in DOMAIN model.entities} :
        LET a == AttributeAt(model, p)
        IN  /\ model.entities[p[1]].id \in Nearby(model, fact)
            /\ ~a.hidden /\ a.pii = "none" /\ a.role \in {"dimension", "key"}
            /\ a.cardinality \in 2..MaxChartCardinality}

\* The fact's own columns first, and the smallest domains first.
ChartableDimensions(model, fact) ==
    LET distance(p) == IF model.entities[p[1]].id = fact.id THEN 0 ELSE 1
        order == Listed({<<distance(p), AttributeAt(model, p).cardinality, p[1], p[2]>> :
                            p \in Plottable(model, fact)})
    IN  [k \in DOMAIN order |-> <<order[k][3], order[k][4]>>]

Ref(model, p) == [entity |-> model.entities[p[1]].id, attribute |-> AttributeAt(model, p).name]

Timed(fact) == {i \in DOMAIN fact.attributes : fact.attributes[i].role = "time"}
TimeOf(fact) ==
    IF Timed(fact) = {} THEN <<>>
    ELSE <<[entity |-> fact.id, attribute |-> fact.attributes[First(Timed(fact))].name]>>

-----------------------------------------------------------------------------
(* Generating.                                                               *)

Business(measures) == {k \in DOMAIN measures : measures[k].aggregation # "count"}

\* The measure a chart plots: a business figure, if there is one.
Lead(measures) ==
    measures[First(IF Business(measures) # {} THEN Business(measures) ELSE DOMAIN measures)]

\* Two measures of different units, business measures before the count.
PairForCombo(measures) ==
    LET pairs(pool) == Listed({p \in pool \X pool : /\ measures[p[1]].id # measures[p[2]].id
                                                    /\ measures[p[1]].format # measures[p[2]].format})
        found == IF pairs(Business(measures)) # <<>> THEN pairs(Business(measures))
                 ELSE pairs(DOMAIN measures)
    IN  IF found = <<>> THEN <<>> ELSE <<measures[found[1][1]], measures[found[1][2]]>>

Ids(measures) == [k \in DOMAIN measures |-> measures[k].id]

\* The path is what the tile can be drilled along.
Tile(id, type, measures, dimension, path, time, limit) ==
    [id |-> id, type |-> type, measures |-> Ids(measures),
     secondary |-> IF type = "combo" THEN {measures[2].id} ELSE {},
     dimension |-> dimension, path |-> path, time |-> time, limit |-> limit, foldTail |-> TRUE]

TilesFor(model, fact) ==
    LET measures == RankedMeasures(model, fact)
        time == TimeOf(fact)
        dimensions == ChartableDimensions(model, fact)
        ref(k) == Ref(model, dimensions[k])
        refs == {ref(k) : k \in DOMAIN dimensions}
        lead == <<Lead(measures)>>
        cardinality(k) == AttributeAt(model, dimensions[k]).cardinality
        smallest == First({k \in DOMAIN dimensions :
                              \A l \in DOMAIN dimensions : cardinality(k) <= cardinality(l)})
        combo == PairForCombo(measures)
        top == FirstN(measures, MaxStats)
    IN  {Tile(<<"stat", k>>, "stat", <<top[k]>>, <<>>, {}, time, DefaultLimit) : k \in DOMAIN top}
        \cup (IF time = <<>> THEN {}
              ELSE {Tile(<<"trend", 1>>, "line", lead, <<>>, {}, time, DefaultLimit)})
        \cup {Tile(<<"breakdown", k>>, "bar", lead, <<ref(k)>>, refs \ {ref(k)}, <<>>, MaxChartCardinality) :
                  k \in DOMAIN FirstN(dimensions, MaxBreakdowns)}
        \cup (IF dimensions = <<>> \/ cardinality(smallest) > MaxDonutSlices THEN {}
              ELSE {Tile(<<"share", 1>>, "donut", lead, <<ref(smallest)>>, {}, <<>>, MaxDonutSlices)})
        \cup (IF time = <<>> \/ combo = <<>> THEN {}
              ELSE {Tile(<<"combo", 1>>, "combo", combo, <<>>, {}, time, DefaultLimit)})
        \cup (IF dimensions = <<>> THEN {}
              ELSE {Tile(<<"detail", 1>>, "table", top, <<ref(1)>>, {}, time, 200)})

GenerateDashboard(model) ==
    IF Facts(model) = {} THEN {} ELSE TilesFor(model, PrimaryFact(model))

-----------------------------------------------------------------------------
(* Saving and running.                                                       *)

SingleMeasureTypes == {"line", "area", "bar", "donut"}
PairedMeasureTypes == {"combo", "scatter"}

\* What keeps a tile from being drawn as asked.
Drawable(tile) ==
    LET n == Len(tile.measures)
    IN  /\ n > 0 \/ tile.type = "table"
        /\ tile.type \in SingleMeasureTypes => n <= 1
        /\ tile.type \in PairedMeasureTypes => n >= 2
        /\ tile.type = "scatter" => n = 2
        /\ tile.type = "combo" => tile.secondary # {}
        /\ tile.type \in {"bar", "stacked_bar", "donut", "scatter"} => tile.dimension # <<>>
        /\ tile.type \in {"line", "area"} => tile.time # <<>> \/ tile.dimension # <<>>
        /\ tile.type = "donut" => tile.limit <= MaxDonutSlices \/ tile.foldTail

\* A dashboard is stored as it is submitted, and no longer counts as generated,
\* or refused when one of its tiles cannot be drawn.
SaveDashboard(record, tiles) ==
    IF \A t \in tiles : Drawable(t) THEN [record EXCEPT !.tiles = tiles, !.generated = FALSE]
    ELSE record

\* The questions of a headline: its value over everything, and its series.  What
\* is drawn over time is so by month.
StatQueries(model, tile, filters) ==
    LET id == tile.measures[1]
        name == model.measures[First(MeasuresAt(model, id))].name
    IN  {[measures |-> <<id>>, dimensions |-> <<>>, time |-> <<>>, grain |-> "",
          filters |-> filters, order |-> <<>>, limit |-> 1]}
        \cup (IF tile.time = <<>> THEN {}
              ELSE {[measures |-> <<id>>, dimensions |-> <<>>, time |-> tile.time, grain |-> "month",
                     filters |-> filters, order |-> <<name>>, limit |-> MaxPeriods]})

GroupedQuery(tile, filters) ==
    [measures |-> tile.measures, dimensions |-> tile.dimension,
     time |-> IF tile.type \in Timeline \cup {"table"} THEN tile.time ELSE <<>>,
     grain |-> "month", filters |-> filters, order |-> <<>>, limit |-> tile.limit]

QueriesOf(model, tile, filters) ==
    IF tile.type = "stat" THEN StatQueries(model, tile, filters) ELSE {GroupedQuery(tile, filters)}

-----------------------------------------------------------------------------
(* The page.                                                                 *)

BoardInit == board = <<>> /\ picked = <<>> /\ clicks = 0

\* The generate route, of the model build_model has left.
GenerateBoard(w) ==
    LET model == BuildModel(w.datasets, w.relationships)
    IN  /\ board = <<>>
        /\ board' = <<[model |-> model, tiles |-> GenerateDashboard(model), generated |-> TRUE]>>
        /\ UNCHANGED <<picked, clicks>>

Click == board # <<>> /\ clicks < MaxClicks /\ clicks' = clicks + 1

DimensionsOf(tile) == {tile.dimension[k] : k \in DOMAIN tile.dimension}

\* A tile is broken down by another dimension, and the dashboard is saved.
Drill(tile, dimension) ==
    LET drilled == [tile EXCEPT !.dimension = <<dimension>>,
                                !.path = (@ \ {dimension}) \cup DimensionsOf(tile)]
    IN  /\ Click
        /\ tile.path # {}
        /\ board' = <<SaveDashboard(board[1], (board[1].tiles \ {tile}) \cup {drilled})>>
        /\ UNCHANGED picked

\* The charts of which a part can be selected.
Selectable == {"bar", "stacked_bar", "donut", "scatter"}

\* A click on a bar filters the page to its value, in place of another value of
\* the dimension, or clears the filter if it was there already.
CrossFilter(tile, field, value) ==
    LET others == Picked(picked, {i \in DOMAIN picked : picked[i].field # field})
        filter == [field |-> field, op |-> "eq", values |-> <<value>>]
    IN  /\ Click
        /\ tile.type \in Selectable
        /\ picked' = IF \E i \in DOMAIN picked : picked[i] = filter THEN others ELSE Append(others, filter)
        /\ UNCHANGED board

BoardNext ==
    \/ \E w \in Workspaces : GenerateBoard(w)
    \/ \E k \in DOMAIN board : \E tile \in board[k].tiles :
          \/ \E dimension \in tile.path \cup DimensionsOf(tile) : Drill(tile, dimension)
          \/ \E field \in DimensionsOf(tile), value \in ClickedValues : CrossFilter(tile, field, value)

BoardSpec == BoardInit /\ [][BoardNext]_boardVars

-----------------------------------------------------------------------------

\* Where there is a fact there is something to show; and however its tiles are
\* drilled and its page is filtered, every tile can be drawn and every question
\* it asks compiles, for a reader who may not see personal data: the generator
\* only proposes columns the compiler can join to the measures' table, and that
\* anybody may group and filter by.
GeneratedTilesCompile ==
    board # <<>> =>
        LET model == board[1].model
        IN  /\ Facts(model) # {} => board[1].tiles # {}
            /\ \A tile \in board[1].tiles :
                  /\ Drawable(tile)
                  /\ \A q \in QueriesOf(model, tile, picked) : Compile(model, q, FALSE) # <<>>
=============================================================================
