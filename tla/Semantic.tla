------------------------------ MODULE Semantic ------------------------------
(***************************************************************************)
(* The semantic layer: the model semantic/builder.py derives from the      *)
(* silver tables, which Compiler answers questions from.                   *)
(*                                                                         *)
(* A name is the sequence of its words.  Labels, formats and notes are     *)
(* left out.                                                               *)
(***************************************************************************)
EXTENDS Naming, Lists

RatioWords == {"avg", "rate"}
SumWords == {"total"}
AvgWords == {"avg"}
StartsWith(name, words) == Len(name) > 1 /\ Head(name) \in words

-----------------------------------------------------------------------------
(* Building the model.  A dataset is a record of its name, whether it is a   *)
(* table of the product's own, whether silver has it, the order of magnitude *)
(* of its rows, the columns of its first key candidate, and its columns with *)
(* what profiling says of them.                                              *)

MaxDimensionCardinality == 200

Role(col, logical, keys, foreign) ==
    IF col.name \in keys THEN "key"
    ELSE IF col.name \in foreign THEN "foreign_key"
    ELSE IF logical \in Temporal THEN "time"
    ELSE IF logical \in Numeric THEN "attribute" ELSE "dimension"

AttributeOf(col, keys, foreign) ==
    LET logical == IF col.shadow # "" THEN col.shadow ELSE col.logical
        role == Role(col, logical, keys, foreign)
    IN  [name |-> col.name, logical |-> logical, role |-> role, pii |-> col.pii,
         cardinality |-> col.distinct,
         hidden |-> /\ role \in {"dimension", "attribute"}
                    /\ col.distinct > MaxDimensionCardinality]

NameMeasure(name, aggregation) ==
    IF aggregation = "sum"
    THEN IF StartsWith(name, SumWords) THEN name ELSE <<"total">> \o name
    ELSE IF StartsWith(name, AvgWords) THEN name ELSE <<"avg">> \o name

Format(column) == IF Has(column, {"rate"}) THEN "percent"
                  ELSE IF Has(column, {"amount", "rent"}) THEN "currency" ELSE "number"

Measure(entity, name, aggregation, column) ==
    [id |-> <<entity, name>>, entity |-> entity, name |-> name, aggregation |-> aggregation,
     column |-> column, constraint |-> <<>>, format |-> Format(column)]

Measurable(a) ==
    /\ a.logical \in Numeric
    /\ a.role \notin {"key", "foreign_key"}
    /\ ~LooksLikeId(a.name)
    /\ ReadsAsMeasure(a.name) \/ a.logical # "integer"

\* Ratio-shaped columns get an average only.
Aggregations(a) == IF Has(a.name, RatioWords) THEN <<"avg">> ELSE <<"sum", "avg">>

\* A place of a measure is that of its entity, that of its column, or 0 for the
\* count of rows, and that of its aggregation.
MeasurePlaces(entities) ==
    {<<i, 0, 1>> : i \in DOMAIN entities}
        \cup (UNION {{p \in {i} \X (DOMAIN entities[i].attributes) \X (1..2) :
                         LET a == entities[i].attributes[p[2]]
                         IN  Measurable(a) /\ p[3] \in DOMAIN Aggregations(a)} :
                        i \in DOMAIN entities})

MeasureOf(entities, place) ==
    LET e == entities[place[1]]
    IN  IF place[2] = 0 THEN Measure(e.id, <<"record", "count">>, "count", <<>>)
        ELSE LET a == e.attributes[place[2]]
                 aggregation == Aggregations(a)[place[3]]
             IN  Measure(e.id, NameMeasure(a.name, aggregation), aggregation, a.name)

MeasuresFor(entities) ==
    LET order == Listed(MeasurePlaces(entities))
    IN  [k \in DOMAIN order |-> MeasureOf(entities, order[k])]

\* A fact carries more than the count of its rows.
EntityOf(dataset, relationships) ==
    LET foreign == {relationships[i].column :
                       i \in {j \in DOMAIN relationships : relationships[j].from = dataset.name}}
        attributes == [k \in DOMAIN dataset.columns |->
                          AttributeOf(dataset.columns[k], dataset.key, foreign)]
    IN  [id |-> dataset.name, magnitude |-> dataset.magnitude, attributes |-> attributes,
         fact |-> \E k \in DOMAIN attributes : Measurable(attributes[k])]

JoinsFrom(relationships, names) ==
    LET kept == Picked(relationships, {i \in DOMAIN relationships :
                    LET r == relationships[i]
                    IN  r.accepted /\ r.from \in names /\ r.to \in names /\ r.from # r.to})
    IN  [i \in DOMAIN kept |->
            [from |-> kept[i].from, column |-> kept[i].column, to |-> kept[i].to,
             target |-> kept[i].target, cardinality |-> kept[i].cardinality]]

BuildModel(datasets, relationships) ==
    LET used == Picked(datasets, {i \in DOMAIN datasets : ~datasets[i].internal /\ datasets[i].silver})
        entities == [i \in DOMAIN used |-> EntityOf(used[i], relationships)]
    IN  [entities |-> entities, measures |-> MeasuresFor(entities),
         joins |-> JoinsFrom(relationships, {used[i].name : i \in DOMAIN used})]
=============================================================================
