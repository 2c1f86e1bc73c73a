------------------------------- MODULE Lineage ------------------------------
(***************************************************************************)
(* Column lineage: the graph lineage/service.py assembles from the steps   *)
(* of a run, the semantic model and the dashboards, and the walks over it  *)
(* of lineage/graph.py, one asked after the other: where a tile comes      *)
(* from, and what a source breaks.                                         *)
(*                                                                         *)
(* A node is <<kind, table, column>>, an edge a record of two nodes.  A    *)
(* dataset is the set of its columns, each with the name at the source and *)
(* the safe one.  A step has its kind, its layer, its dataset, the table   *)
(* it makes, its status, and what the parser makes of its SQL: "none" when *)
(* it recorded none, "unreadable" when it does not parse, or "read", with  *)
(* its derivations: a column, the layer its reference names or "", and the *)
(* column made of it.  The order of edges is left out, and what tells two  *)
(* edges between the same columns apart: it is the order of the answer,    *)
(* and decides what a walk that is cut short has found.                    *)
(***************************************************************************)
EXTENDS Integers, FiniteSets

CONSTANT Lineages       \* a run with what is built on it, and what is asked

Layered == {"bronze", "silver", "gold"}
Upstream == [bronze |-> "source", silver |-> "bronze", gold |-> "silver"]

\* A step of the pipeline is at bronze when it ingests, and reads the layer below.
IsLineage(l) ==
    /\ \A step \in l.steps :
          /\ step.layer \in Layered /\ (step.layer = "bronze" <=> step.kind = "ingest")
          /\ \A p \in step.derivations : p.layer \in {"", Upstream[step.layer]}
    /\ \A m \in l.measures : m.layer \in Layered
    /\ l.source[1] = "source" /\ l.tile[1] = "tile"

ASSUME LineagesAssumption == \A l \in Lineages : IsLineage(l)

VARIABLES
    traced,     \* the lineage asked about and its graph
    up,         \* the walk from its tile
    down        \* the walk from its source

lineageVars == <<traced, up, down>>

-----------------------------------------------------------------------------
(* The graph.                                                                *)

Edge(source, target) == [source |-> source, target |-> target]

\* An ingestion carries every column over; of a dataset without a schema only
\* the table is known.
IngestEdges(step, columns) ==
    IF columns = {}
    THEN {Edge(<<"source", step.dataset, "*">>, <<"bronze", step.table, "*">>)}
    ELSE {Edge(<<"source", step.dataset, c.raw>>, <<"bronze", step.table, c.safe>>) : c \in columns}

\* A step without SQL moved a table up a layer as it was.
PassthroughEdges(step, columns) ==
    {Edge(<<Upstream[step.layer], step.table, c.safe>>, <<step.layer, step.table, c.safe>>) : c \in columns}

\* Of a step's SQL, the columns each of its columns was read from; a reference
\* that names no layer is to the one below.
EdgesFromStep(step) ==
    {Edge(<<IF p.layer = "" THEN Upstream[step.layer] ELSE p.layer, p.table, p.column>>,
          <<step.layer, step.table, p.made>>) : p \in step.derivations}

\* The columns of a step's dataset, none when it is gone.
ColumnsOf(l, step) ==
    IF step.dataset \in DOMAIN l.datasets THEN l.datasets[step.dataset] ELSE {}

Contributing(l) == {step \in l.steps : step.status = "succeeded"}

StepEdges(l, step) ==
    CASE step.kind = "ingest" -> IngestEdges(step, ColumnsOf(l, step))
      [] step.kind # "ingest" /\ step.sql = "none" -> PassthroughEdges(step, ColumnsOf(l, step))
      [] step.kind # "ingest" /\ step.sql = "read" -> EdgesFromStep(step)
      [] OTHER -> {}

Unparsed(l, step) ==
    /\ step.kind # "ingest"
    /\ step.sql = "unreadable" \/ (step.sql = "none" /\ ColumnsOf(l, step) = {})

\* Measures are fed by a column of their entity, a count by its table.
SemanticEdges(measures) ==
    {Edge(<<m.layer, m.table, m.column>>, <<"measure", "model", m.id>>) : m \in measures}
DashboardEdges(tiles) ==
    UNION {{Edge(<<"measure", "model", m>>, <<"tile", "board", t.id>>) : m \in t.measures} : t \in tiles}

\* Of a connection without a run that succeeded nothing is known.
BuildForConnection(l) ==
    IF l.succeeded
    THEN [edges |-> (UNION {StepEdges(l, step) : step \in Contributing(l)})
                        \cup SemanticEdges(l.measures) \cup DashboardEdges(l.tiles),
          unparsed |-> {step \in Contributing(l) : Unparsed(l, step)} # {}]
    ELSE [edges |-> {}, unparsed |-> TRUE]

-----------------------------------------------------------------------------
(* Walking.                                                                  *)

\* (mutant) the edges are followed from their target whatever the question
NearTarget(e, forward) == e.target

Near(e, forward) == IF forward THEN e.source ELSE e.target
Far(e, forward) == IF forward THEN e.target ELSE e.source

Start(node) == [waiting |-> {node}, seen |-> {node}, found |-> {}]
Unasked == [waiting |-> {}, seen |-> {}, found |-> {}]

\* The walk after its next node.
Visited(edges, walk, node, forward) ==
    LET new == {e \in edges : Near(e, forward) = node} \ walk.found
        next == {Far(e, forward) : e \in new} \ walk.seen
    IN  [waiting |-> (walk.waiting \ {node}) \cup next, seen |-> walk.seen \cup next,
         found |-> walk.found \cup new]

\* A walk stops when limit edges are found.
Cut(walk, limit) == Cardinality(walk.found) >= limit
Ended(walk, limit) == walk.waiting = {} \/ Cut(walk, limit)

Provenance(graph, found) ==
    [origins |-> {n \in {e.source : e \in found} : n[1] = "source"}, complete |-> ~graph.unparsed]

Impact(graph, found) ==
    LET affected == {e.target : e \in found}
    IN  [tiles |-> {n \in affected : n[1] = "tile"}, measures |-> {n \in affected : n[1] = "measure"},
         complete |-> ~graph.unparsed]

-----------------------------------------------------------------------------
LineageInit == traced = <<>> /\ up = Unasked /\ down = Unasked

AskProvenance ==
    /\ traced = <<>>
    /\ \E l \in Lineages :
          /\ traced' = <<[lineage |-> l, graph |-> BuildForConnection(l)]>>
          /\ up' = Start(l.tile)
    /\ UNCHANGED down

\* Once the tile is explained, what its source breaks is asked of the same graph.
AskImpact ==
    /\ down = Unasked
    /\ \E i \in DOMAIN traced :
          /\ Ended(up, traced[i].lineage.limit)
          /\ down' = Start(traced[i].lineage.source)
    /\ UNCHANGED <<traced, up>>

VisitUp ==
    /\ \E i \in DOMAIN traced :
          /\ ~Cut(up, traced[i].lineage.limit)
          /\ \E node \in up.waiting : up' = Visited(traced[i].graph.edges, up, node, FALSE)
    /\ UNCHANGED <<traced, down>>

VisitDown ==
    /\ \E i \in DOMAIN traced :
          /\ ~Cut(down, traced[i].lineage.limit)
          /\ \E node \in down.waiting : down' = Visited(traced[i].graph.edges, down, node, TRUE)
    /\ UNCHANGED <<traced, up>>

LineageNext == AskProvenance \/ VisitUp \/ AskImpact \/ VisitDown

LineageSpec == LineageInit /\ [][LineageNext]_lineageVars

-----------------------------------------------------------------------------
(* What must hold of the answers.                                            *)

Fed(edges, nodes) == {e.target : e \in {f \in edges : f.source \in nodes}}

\* What the steps of a layer that succeeded derive from nodes of the layer below.
Derived(l, layer, nodes) ==
    Fed(UNION {StepEdges(l, step) :
                  step \in {s \in l.steps : s.layer = layer /\ s.status = "succeeded"}}, nodes)

\* Layer by layer, whether steps that succeeded carry the source to a measure
\* of the tile.
Carried(l) ==
    LET bronze == Derived(l, "bronze", {l.source})
        silver == Derived(l, "silver", bronze)
        gold == Derived(l, "gold", silver)
        measures == Fed(SemanticEdges(l.measures), bronze \cup silver \cup gold)
    IN  l.succeeded /\ l.tile \in Fed(DashboardEdges(l.tiles), measures)

\* Asked both ways, lineage gives the same answer: a tile names a source, and
\* the source the tile, only when steps that succeeded carry the one to the
\* other, and then always, unless the walk was cut short; and a step that
\* could not be read is admitted.
LineageAgrees ==
    \A i \in DOMAIN traced :
        LET l == traced[i].lineage
            provenance == Provenance(traced[i].graph, up.found)
            impact == Impact(traced[i].graph, down.found)
        IN  /\ (l.source \in provenance.origins \/ l.tile \in impact.tiles) => Carried(l)
            /\ Carried(l) => /\ up.waiting = {} => l.source \in provenance.origins
                             /\ (down # Unasked /\ down.waiting = {}) => l.tile \in impact.tiles
            /\ (\E step \in l.steps :
                    step.layer # "bronze" /\ step.status = "succeeded" /\ step.sql = "unreadable")
                  => ~provenance.complete /\ ~impact.complete
=============================================================================
