------------------------------- MODULE Layers -------------------------------
(***************************************************************************)
(* Which layer of the medallion a dataset is already at                    *)
(* (medallion/classifier.py), and the reporting table gold makes of it     *)
(* (plan_gold of medallion/transforms.py).                                 *)
(*                                                                         *)
(* A profile is a record of its columns, the size of the sample, the exact *)
(* duplicates in a thousand sampled rows, and its keys: "declared",        *)
(* "exact", "sampled" or "none".  Weights are in tenths.                   *)
(***************************************************************************)
EXTENDS Naming, Sums

CONSTANT Datasets       \* a name and a profile each

IsColumn(c) == c.name \in Seq(STRING) \ {<<>>}

ASSUME DatasetsAssumption ==
    \A d \in Datasets :
        /\ DOMAIN d.profile.columns = 1..Len(d.profile.columns) /\ Len(d.profile.columns) \in Nat
        /\ \A i \in DOMAIN d.profile.columns : IsColumn(d.profile.columns[i])

VARIABLE classified     \* the dataset last profiled, and the layer found for it

GrainWords == {"month", "region", "date"}
AuditNames == {"ingested", "batch"}
LayerWords == [bronze |-> {"raw", "stg"}, gold |-> {"fact", "summary"}, silver |-> {"clean", "core"}]
NamingCap == 15

-----------------------------------------------------------------------------
(* The evidence, each signal for one layer or none.                          *)

Signal(verdict, weight) == [verdict |-> verdict, weight |-> weight]
Silent == Signal("neutral", 0)

TypePurity(columns) ==
    LET n == Cardinality(DOMAIN columns)
        mistyped == Cardinality({i \in DOMAIN columns : columns[i].shadow # ""})
    IN  IF 5 * mistyped >= n THEN Signal("bronze", IF 5 * mistyped >= 2 * n THEN 25 ELSE 18)
        ELSE IF mistyped = 0 THEN Signal("silver", 15) ELSE Silent

\* nullPct is in hundredths.
NullDensity(columns) ==
    LET n == Cardinality(DOMAIN columns)
        total == SumOf([i \in DOMAIN columns |-> columns[i].nullPct], DOMAIN columns)
        sparse == Cardinality({i \in DOMAIN columns : columns[i].nullPct > 60})
        tooMany == IF n \div 4 > 2 THEN n \div 4 ELSE 2
    IN  IF total >= 25 * n \/ sparse >= tooMany THEN Signal("bronze", 16)
        ELSE IF total <= 5 * n THEN Signal("silver", 10) ELSE Silent

Duplicates(profile) ==
    IF profile.duplicates >= 10 THEN Signal("bronze", IF profile.duplicates >= 50 THEN 22 ELSE 14)
    ELSE IF profile.sampled > 50 THEN Signal("silver", 9) ELSE Silent

KeySignal(profile) ==
    CASE profile.keys = "declared" -> Signal("silver", 18)
      [] profile.keys = "exact" -> Signal("silver", 14)
      [] profile.keys = "sampled" -> Signal("silver", 10)
      [] OTHER -> Signal("bronze", 18)

BlankValues(columns) ==
    IF \E i \in DOMAIN columns : columns[i].blanks > 0 THEN Signal("bronze", 12) ELSE Silent

AuditColumns(columns) ==
    IF \E i \in DOMAIN columns : Has(columns[i].name, AuditNames) THEN Signal("bronze", 15) ELSE Silent

Measured(columns) == {i \in DOMAIN columns : columns[i].logical \in Numeric /\ ReadsAsMeasure(columns[i].name)}
Grained(columns) ==
    \E i \in DOMAIN columns : Has(columns[i].name, GrainWords) \/ columns[i].logical \in Temporal
Identified(columns) ==
    \E i \in DOMAIN columns :
        columns[i].unique /\ IsKeyEligible(columns[i].name, columns[i].logical, columns[i].shadow)

\* Measures summarised by a grain, or else a table as wide as a mart.
Aggregated(columns) ==
    LET many == Cardinality(Measured(columns)) >= 2
    IN  IF many /\ Grained(columns) /\ ~Identified(columns) THEN Signal("gold", 26)
        ELSE IF many /\ Cardinality(DOMAIN columns) >= 12 THEN Signal("gold", 16) ELSE Silent

Normalised(profile) ==
    LET columns == profile.columns
        small == {i \in DOMAIN columns : columns[i].distinct \in 2..12}
    IN  IF Cardinality(small) >= 2 /\ profile.sampled > 100 /\ Measured(columns) = {}
        THEN Signal("silver", 11) ELSE Silent

\* The first vocabulary the name matches.
NamingSignal(name) ==
    IF Has(name, LayerWords.bronze) THEN Signal("bronze", NamingCap)
    ELSE IF Has(name, LayerWords.gold) THEN Signal("gold", NamingCap)
    ELSE IF Has(name, LayerWords.silver) THEN Signal("silver", NamingCap)
    ELSE Silent

Evidence(name, profile) ==
    LET columns == profile.columns
    IN  [types |-> TypePurity(columns), nulls |-> NullDensity(columns),
         duplicates |-> Duplicates(profile), key |-> KeySignal(profile),
         blanks |-> BlankValues(columns), audit |-> AuditColumns(columns),
         aggregated |-> Aggregated(columns), normalised |-> Normalised(profile),
         naming |-> NamingSignal(name)]

Scored(evidence, layer) ==
    LET For(signal) == IF signal.verdict = layer THEN signal.weight ELSE 0
    IN  For(evidence.types) + For(evidence.nulls) + For(evidence.duplicates) + For(evidence.key)
            + For(evidence.blanks) + For(evidence.audit) + For(evidence.aggregated)
            + For(evidence.normalised) + For(evidence.naming)

\* (mutant) the name alone clears the bar
LadderAtTheCap(raw, clean, business) ==
    IF raw > clean THEN "bronze" ELSE IF business >= NamingCap THEN "gold" ELSE "silver"

\* A ladder: rawness against cleanliness first, then business-readiness.
Ladder(raw, clean, business) ==
    IF raw > clean THEN "bronze" ELSE IF business > NamingCap THEN "gold" ELSE "silver"

ClassifyLayer(name, profile) ==
    LET evidence == Evidence(name, profile)
    IN  IF DOMAIN profile.columns = {} THEN "bronze"
        ELSE Ladder(Scored(evidence, "bronze"), Scored(evidence, "silver"), Scored(evidence, "gold"))

-----------------------------------------------------------------------------
(* Gold.                                                                     *)

RatioNames == {"avg", "rate"}
IsRatio(name) == ReadsAsMeasure(name) /\ Has(name, RatioNames)

IsMeasure(c) == /\ c.logical \in Numeric
                /\ ~c.unique
                /\ ~EndsWith(c.name, {"id", "key"})
IsGrain(c) == /\ c.logical \notin Numeric \cup Temporal
              /\ Has(c.name, GrainWords) \/ c.distinct \in 1..50

FirstOf(places, n) == {i \in places : Cardinality({j \in places : j < i}) < n}

\* The places of the columns to sum, of those to group by, and of the dates.
ReadShape(columns) ==
    [measures |-> {i \in DOMAIN columns : IsMeasure(columns[i])},
     dimensions |-> {i \in DOMAIN columns : IsGrain(columns[i])},
     dates |-> {i \in DOMAIN columns : columns[i].logical \in Temporal}]

\* The columns a measure becomes: a rate is averaged, never summed.
AggregatesOf(name) ==
    IF IsRatio(name) THEN {<<"avg">> \o name} ELSE {<<"total">> \o name, <<"avg">> \o name}

Month == <<"period", "month">>

\* The table gold makes, its columns to group by and its aggregates: none when
\* there is nothing to summarise.
PlanGold(columns) ==
    LET shape == ReadShape(columns)
        groups == (IF shape.dates = {} THEN {} ELSE {Month})
                      \cup {columns[i].name : i \in FirstOf(shape.dimensions, 4)}
    IN  IF shape.measures = {} \/ groups = {} THEN {}
        ELSE {[groups |-> groups,
               aggregates |-> {<<"record", "count">>}
                    \cup UNION {AggregatesOf(columns[i].name) : i \in FirstOf(shape.measures, 8)}]}

-----------------------------------------------------------------------------
(* A dataset is profiled and classified.                                     *)

LayersInit == classified = <<>>

RunProfile ==
    \E d \in Datasets : classified' = <<[dataset |-> d, layer |-> ClassifyLayer(d.name, d.profile)]>>

LayersNext == RunProfile

LayersSpec == LayersInit /\ [][LayersNext]_classified

-----------------------------------------------------------------------------
(* What must hold of the layer found.                                        *)

Unnamed == <<>>

\* What a profile says of the table gold makes: no types in disguise, no NULLs,
\* and no key, as it was not looked for.
Report(plan, sampled) ==
    [columns |-> [c \in ({"group"} \X plan.groups) \cup ({"aggregate"} \X plan.aggregates) |->
                    [name |-> c[2], shadow |-> "", nullPct |-> 0, blanks |-> 0, distinct |-> 5,
                     unique |-> FALSE,
                     logical |-> IF c[1] = "aggregate" THEN "float"
                                 ELSE IF c[2] = Month THEN "date" ELSE "string"]],
     duplicates |-> 0, sampled |-> sampled, keys |-> "none"]

\* Whether a report is by period or by another named grain, and whether it is
\* large, or free of the metadata of loads.
HasGrain(plan) == \E g \in plan.groups : Has(g, GrainWords)
Presentable(plan, sampled) ==
    sampled > 50 \/ \A name \in plan.groups \cup plan.aggregates : ~Has(name, AuditNames)

\* A dataset is at gold for the shape of its columns, and without its name it
\* would be there too, unless the name is what takes it out of bronze; and the
\* report gold makes of a dataset is taken for what it is, by its columns
\* alone, and not refined a second time.
GoldFollowsColumns ==
    \A i \in DOMAIN classified :
        LET dataset == classified[i].dataset
            profile == dataset.profile
        IN  /\ classified[i].layer = "gold" =>
                /\ Aggregated(profile.columns).verdict = "gold"
                /\ \/ NamingSignal(dataset.name).verdict = "silver"
                   \/ ClassifyLayer(Unnamed, profile) = "gold"
            /\ \A plan \in PlanGold(profile.columns) :
                  (HasGrain(plan) /\ Presentable(plan, profile.sampled))
                      => ClassifyLayer(Unnamed, Report(plan, profile.sampled)) = "gold"
=============================================================================
