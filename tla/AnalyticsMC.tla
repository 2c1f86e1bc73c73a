----------------------------- MODULE AnalyticsMC ----------------------------
(***************************************************************************)
(* The small machines over small inputs.  A behaviour has one topic: it is *)
(* a behaviour of one of the machines (Inference, Answers, Dashboards,     *)
(* Tiles, Layers, Lineage, Quality, Freshness, SignIn, Credentials,        *)
(* Limiter), whose own invariants are checked, while the others rest.      *)
(***************************************************************************)
EXTENDS Inference, Layers, Dashboards, Freshness, Lineage, SignIn, Credentials, Limiter

LOCAL INSTANCE TLC
LOCAL INSTANCE SequencesExt

VARIABLE topic

Topics == {"inference", "answers", "board", "tiles", "layer", "lineage", "value", "freshness", "codes", "credentials", "requests"}

RECURSIVE Tuples(_, _)
Tuples(S, n) == IF n = 0 THEN {<<>>} ELSE {Append(t, x) : t \in Tuples(S, n - 1), x \in S}
UpTo(S, n) == UNION {Tuples(S, k) : k \in 0..n}

Orders == <<"orders">>
Customers == <<"customers">>
Regions == <<"regions">>
Id == <<"id">>
Amount == <<"amount">>
CustomerId == <<"customer", "id">>
RegionId == <<"region", "id">>
Email == <<"email">>
City == <<"city">>
Placed == <<"placed", "at">>

Col(name, logical, pii, position) ==
    [name |-> name, logical |-> logical, shadow |-> "", pii |-> pii, position |-> position,
     distinct |-> 2]
Data(name, columns) ==
    [name |-> name, internal |-> FALSE, silver |-> TRUE, magnitude |-> 1, key |-> {Id}, columns |-> columns]
Plain(name, position) == Col(name, "string", "none", position)

Query(measures, dimensions, filters) ==
    [measures |-> measures, dimensions |-> dimensions, time |-> <<>>, grain |-> "", filters |-> filters,
     order |-> <<>>, limit |-> 500]

\* Measures written by hand, and a model with them.
Written(entity, aggregation, column, constraint) ==
    [id |-> <<entity, <<aggregation>>>>, entity |-> entity, name |-> <<aggregation>>, aggregation |-> aggregation,
     column |-> column, constraint |-> constraint, format |-> "number"]
Where(column, v) == <<[reads |-> {column}, holds |-> {[c \in {column} |-> v]}]>>
Edited(model, measures) == [model EXCEPT !.measures = @ \o measures]

TotalAmount == <<Orders, <<"total", "amount">>>>
Field(entity, attribute) == [entity |-> entity, attribute |-> attribute]

-----------------------------------------------------------------------------
(* Joins between three tables, with every cardinality declared as it is.     *)

JoinTables == <<
    Data(Orders, <<Plain(Id, 1), Plain(CustomerId, 2), Plain(RegionId, 3),
                   Col(Amount, "integer", "none", 4), Col(Placed, "date", "none", 5)>>),
    Data(Customers, <<Plain(Id, 1), Plain(RegionId, 2)>>),
    Data(Regions, <<Plain(Id, 1)>>)>>

OneToOneOrMany(rows, target) ==
    IF \A i, j \in DOMAIN rows : (rows[i][target] = rows[j][target] /\ rows[i][target] # Null) => i = j
    THEN "many_to_one" ELSE "one_to_many"
Link(db, from, column, to, target) ==
    [from |-> from, column |-> column, to |-> to, target |-> target, accepted |-> TRUE,
     cardinality |-> OneToOneOrMany(db[to], target)]
Links(db) == {Link(db, Orders, CustomerId, Customers, Id), Link(db, Customers, Id, Orders, CustomerId),
              Link(db, Customers, RegionId, Regions, Id), Link(db, Orders, RegionId, Regions, Id),
              Link(db, Regions, Id, Customers, RegionId)}

V == {<<"1">>, <<"2">>}
Database(o, c) ==
    [t \in {Orders, Customers, Regions} |->
        CASE t = Orders -> [i \in 1..2 |-> Id :> <<"1">> @@ CustomerId :> o[i]
                                           @@ RegionId :> o[3 - i] @@ Amount :> <<3, -2>>[i]
                                           @@ Placed :> [month |-> 1, day |-> i]]
          [] t = Customers -> [i \in 1..2 |-> Id :> c[i] @@ RegionId :> c[3]]
          [] OTHER -> [i \in 1..1 |-> Id :> <<"1">>]]

SmallSales == Written(Orders, "sum", Amount, Where(Amount, -2))
ByHand ==
    <<Written(Orders, "min", Amount, <<>>), Written(Orders, "max", Amount, <<>>),
      Written(Orders, "median", Amount, <<>>), Written(Orders, "count_distinct", CustomerId, <<>>),
      SmallSales, Written(Customers, "count_distinct", Email, <<>>),
      Written(Customers, "count", Id, Where(Email, <<"b", "@", "x">>))>>

Warehouse(tables, links, silver, twin, questions) ==
    [model |-> Edited(BuildModel(tables, SetToSeq(links)), ByHand), silver |-> silver, twin |-> twin,
     questions |-> questions]

OrderMeasures ==
    <<TotalAmount, <<Orders, <<"avg", "amount">>>>, <<Orders, <<"record", "count">>>>>>
        \o SubSeq(Ids(ByHand), 1, 5)
ByRegion == Query(OrderMeasures, <<Field(Customers, RegionId)>>, <<>>)
JoinQuestions ==
    {ByRegion, [ByRegion EXCEPT !.dimensions = @ \o <<Field(Regions, Id)>>],
     [ByRegion EXCEPT !.time = <<Field(Orders, Placed)>>], [ByRegion EXCEPT !.dimensions = <<>>]}
JoinWarehouses ==
    UNION {{Warehouse(JoinTables, links, db, db, JoinQuestions) : links \in SUBSET Links(db)} :
              db \in {Database(o, c) : o \in Tuples(V \cup {Null}, 2), c \in Tuples(V, 3)}}

-----------------------------------------------------------------------------
(* Two warehouses that differ in personal data only.                         *)

PersonTables == <<
    Data(Orders, <<Plain(Id, 1), Plain(CustomerId, 2), Plain(City, 3), Col(Amount, "integer", "none", 4)>>),
    Data(Customers, <<Plain(Id, 1), Col(Email, "string", "email", 2)>>)>>
Emails == {<<"a", "@", "x">>, <<"b", "@", "x">>, <<"b", "@", "y">>, <<"q">>, <<"r">>, Null}
PeopleWith(e) ==
    [t \in {Orders, Customers} |->
        IF t = Orders THEN [i \in 1..2 |-> Id :> <<"1">> @@ CustomerId :> <<<<"1">>, <<"2">>>>[i]
                                              @@ City :> <<"1">> @@ Amount :> i]
        ELSE [i \in 1..2 |-> Id :> <<<<"1">>, <<"2">>>>[i] @@ Email :> e[i]]]
Filters == {<<>>, <<[field |-> Field(Orders, City), op |-> "is_null", values |-> <<<<"1">>>>]>>}
    \cup {<<[field |-> f, op |-> op, values |-> <<v>>]>> :
              f \in {Field(Customers, Email), Field(Orders, City)}, op \in {"eq", "ne", "not_in", "contains"},
              v \in {<<"b", "@", "x">>, <<"1">>}}

PersonQuestions ==
    {Query(<<TotalAmount>>, SetToSeq(dims), filters) :
        dims \in SUBSET {Field(Customers, Email), Field(Orders, City)}, filters \in Filters}
    \cup {Query(measures, dims, <<>>) :
              measures \in {<<id>> : id \in {<<Customers, <<"count_distinct">>>>, <<Customers, <<"count">>>>}},
              dims \in {<<>>, <<Field(Customers, Email)>>}}
PersonWarehouses ==
    {Warehouse(PersonTables, {Link(PeopleWith(e[1]), Orders, CustomerId, Customers, Id)},
               PeopleWith(e[1]), PeopleWith(e[2]), PersonQuestions) :
        e \in {p \in Tuples(Emails, 2) \X Tuples(Emails, 2) :
                  \A i \in 1..2 : MaskExpression("email", p[1][i]) = MaskExpression("email", p[2][i])}}

MCWarehouses == JoinWarehouses \cup PersonWarehouses

-----------------------------------------------------------------------------
(* What a source may have.                                                   *)

SourceColumns(name) ==
    IF name = Orders THEN <<Plain(Id, 1), Plain(CustomerId, 2), Col(Amount, "integer", "none", 3)>>
    ELSE <<Plain(Id, 1), Plain(City, 2)>>
Table(name, singular, rows, sql) ==
    [name |-> name, singular |-> singular, columns |-> SourceColumns(name), rows |-> rows,
     sql |-> sql, countable |-> TRUE]

\* A foreign key where the source keeps what it refers to unique.
ForeignKeys(customers) ==
    LET key == [from |-> Orders, column |-> CustomerId, to |-> Customers, target |-> Id]
    IN  {<<>>} \cup (IF Keyed([i \in DOMAIN customers |-> [id |-> customers[i]]], "id") THEN {<<key>>} ELSE {})

\* Keys that are unique, some of them to be trimmed; that are absent or repeat;
\* and that only trimming makes repeat.
MCKeys == {<<<<"1">>, <<"2">>, <<" ", "3">>>>, <<<<"1">>, <<"2">>, Null>>, <<<<"1">>, <<"1">>, <<"2">>>>,
           <<<<"1">>, <<" ", "1">>, <<"2">>>>}
MCReferences == {<<<<"1">>, <<"1">>>>, <<<<" ", "2">>, <<"2">>>>}

MCSources ==
    UNION {{[tables |-> <<Table(Orders, <<"order">>,
                                [i \in 1..2 |-> Id :> <<<<"1">>, <<"2">>>>[i] @@ CustomerId :> refs[i] @@ Amount :> i], sql),
                          Table(Customers, <<"customer">>,
                                [i \in 1..3 |-> Id :> keys[i] @@ City :> <<<<"1">>, <<"2">>, <<"1">>>>[i]], sql)>>,
             links |-> links,
             questions |-> {Query(<<TotalAmount>>, <<Field(Customers, City)>>, <<>>)}] :
               refs \in MCReferences, sql \in BOOLEAN, links \in ForeignKeys(keys)} :
             keys \in MCKeys}

-----------------------------------------------------------------------------
(* What dashboards are generated for.                                        *)

Rate == <<"return", "rate">>
BoardTables(segments, dated, rated, private) ==
    <<Data(Orders, <<Plain(Id, 1), Plain(CustomerId, 2), Col(Amount, "integer", "none", 3)>>
                       \o (IF dated THEN <<Col(Placed, "date", "none", 4)>> ELSE <<>>)
                       \o (IF rated THEN <<Col(Rate, "float", "none", 5)>> ELSE <<>>)),
      Data(Customers, <<Plain(Id, 1), [Plain(City, 2) EXCEPT !.distinct = segments],
                        Col(Email, "string", private, 3)>>)>>

MCWorkspaces ==
    {[datasets |-> BoardTables(segments, dated, rated, private),
      relationships |-> IF cardinality = "none" THEN <<>>
                        ELSE <<[from |-> Orders, column |-> CustomerId, to |-> Customers, target |-> Id,
                                accepted |-> TRUE, cardinality |-> cardinality]>>] :
        segments \in {1, 5, 20, 300}, dated, rated \in BOOLEAN, private \in {"none", "email"},
        cardinality \in {"many_to_one", "one_to_one", "one_to_many", "none"}}

-----------------------------------------------------------------------------
(* The machines' constants.                                                  *)

ShapeColumn(name, logical, shadow, nullPct, unique) ==
    [name |-> name, logical |-> logical, shadow |-> shadow, nullPct |-> nullPct, blanks |-> 0,
     distinct |-> 5, unique |-> unique]
Repeated(c, n) == [i \in 1..n |-> c]

MCColumns ==
    {Repeated(ShapeColumn(Amount, "integer", "", 0, FALSE), measures)
         \o Repeated(ShapeColumn(<<"return", "rate">>, "float", "", 0, FALSE), rates)
         \o Repeated(ShapeColumn(<<"month">>, "string", "", nullPct, FALSE), grains)
         \o Repeated(ShapeColumn(<<"batch">>, "string", "", 0, FALSE), batches)
         \o Repeated(ShapeColumn(Id, "string", shadow, nullPct, unique), others) :
       measures \in 0..2, rates, grains, batches \in 0..1, others \in {0, 1, 11},
       shadow \in {"", "integer"}, nullPct \in {0, 30}, unique \in BOOLEAN}
MCDatasets ==
    {[name |-> name, profile |-> [columns |-> columns, duplicates |-> duplicates, sampled |-> sampled, keys |-> keys]] :
       name \in {<<"sales", "summary">>, <<"core", "sales">>}, columns \in MCColumns,
       duplicates \in {0, 20}, sampled \in {40, 200}, keys \in {"declared", "sampled", "none"}}

Row(label, v, w) == [label |-> label, values |-> <<v, w>>]
Spread(n) == {[i \in 1..n |-> IF i = k THEN v ELSE i - w] : k \in 1..n, v \in {-2, 9, Null}, w \in {0, 3}}
Scrambled(s) == [i \in DOMAIN s |-> s[(2 * i) % (Len(s) + 1)]]   \* for an even length

Chart(type, limit, foldTail) ==
    [type |-> type, limit |-> limit, foldTail |-> foldTail, dated |-> type = "stat", measures |-> 2]
MCGroups ==
    {[tile |-> Chart(type, MaxChartCardinality, foldTail), total |-> Null,
      rows |-> [i \in 1..n |-> Row(i, values[i], IF i > 2 THEN Null ELSE i)]] :
        type \in {"bar", "donut", "stacked_bar", "table"}, foldTail \in BOOLEAN,
        <<n, values>> \in UNION {{n} \X Spread(n) : n \in {1, 7, 8, 9, 10, 11}}}
MCSeries ==
    {[tile |-> Chart("stat", 60, TRUE), total |-> total,
      rows |-> Scrambled([i \in 1..n |-> Row(i, values[i], 0)])] :
        total \in {7, Null},
        <<n, values>> \in UNION {{n} \X [1..n -> {-2, 3, Null}] : n \in {2, 4}}}
MCTileQueries == MCGroups \cup MCSeries

LineageColumns == {[raw |-> "C1", safe |-> "c1"], [raw |-> "C2", safe |-> "c2"]}
LineageStep(kind, layer, dataset, table, status, sql) ==
    [kind |-> kind, layer |-> layer, dataset |-> dataset, table |-> table, status |-> status, sql |-> sql,
     derivations |-> {[layer |-> "", table |-> dataset, column |-> "c1", made |-> "c1"],
                      [layer |-> Upstream[layer], table |-> dataset, column |-> "c2",
                       made |-> IF layer = "gold" THEN "total" ELSE "c2"]}]
Outcomes == {"succeeded", "failed"}
MCLineages ==
    {[succeeded |-> succeeded, limit |-> limit,
      source |-> <<"source", origin, "C2">>, tile |-> <<"tile", "board", tile>>,
      steps |-> {LineageStep("ingest", "bronze", "t1", "t1", "succeeded", "none"),
                 LineageStep("ingest", "bronze", "t2", "t2", ingest, "none"),
                 LineageStep("silver", "silver", "t1", "t1", one, sql),
                 LineageStep("silver", "silver", "t2", "t2", two, "read"),
                 LineageStep("gold", "gold", "t2", "t2_daily", daily, "read")},
      datasets |-> IF known THEN [t1 |-> LineageColumns, t2 |-> LineageColumns] ELSE [t2 |-> LineageColumns],
      measures |-> {[id |-> "m1", layer |-> "silver", table |-> "t1", column |-> "c2"],
                    [id |-> "m2", layer |-> "gold", table |-> "t2_daily", column |-> "total"],
                    [id |-> "m3", layer |-> "silver", table |-> "t2", column |-> "*"]},
      tiles |-> {[id |-> "k1", measures |-> {"m1", "m2"}], [id |-> "k2", measures |-> {"m3"}]}] :
        succeeded, known \in BOOLEAN, limit \in {3, 50}, origin \in {"t1", "t2"}, tile \in {"k1", "k2"},
        ingest, one, two, daily \in Outcomes, sql \in {"none", "read", "unreadable"}}

\* Texts that convert as they stand, after trimming, after stripping or not at all.
MCTexts == {<<" ">>, <<"1">>, <<"$", "1">>, <<" ", "d">>, <<"x">>}
MCCells == MCTexts \cup {Null}
Bronze(name, logical, shadow) ==
    [name |-> name, logical |-> logical, shadow |-> shadow, pii |-> "none", nulls |-> 0, distinct |-> 20,
     domain |-> {}]
Ingested == Bronze(<<"ingested", "at">>, "timestamp", "")
MCLayouts == {<<Bronze(City, "string", shadow), Ingested>> : shadow \in {"", "integer", "date"}}
                 \cup {<<Bronze(City, "string", "integer"), Bronze(Id, "string", "date")>>}

MCSchedule == {t \in 0..26 : t % 5 = 1}

\* Organisations with and without a required second factor and single sign-on.
MCPolicies ==
    {[mfa |-> mfa, grace |-> 0, sso |-> sso, breakGlass |-> ""] : mfa, sso \in BOOLEAN}
MCDrifts == {-1, 0, 1}
MCRecoveryCodes == {[kind |-> "recovery", step |-> 0]}

Always == [k \in {} |-> {}]
MCForm ==
    [host |-> [secret |-> FALSE, required |-> TRUE, default |-> <<>>, shownIf |-> Always, place |-> 1],
     auth |-> [secret |-> FALSE, required |-> TRUE, default |-> <<>>, shownIf |-> Always, place |-> 2],
     user |-> [secret |-> TRUE, required |-> FALSE, default |-> <<>>, shownIf |-> Always, place |-> 3],
     key |-> [secret |-> TRUE, required |-> TRUE, default |-> <<>>, shownIf |-> [auth |-> {<<"k">>}],
              place |-> 4]]
MCSubmissions ==
    {[host |-> <<"h">>, auth |-> auth, user |-> user, key |-> key] :
        auth \in {<<"k">>, <<"n">>}, user \in {<<>>, <<" ", "u">>, <<" ">>}, key \in {<<>>, <<"s", " ">>}}

MCLimits == [ordinary |-> [requests |-> 2, seconds |-> 3], expensive |-> [requests |-> 1, seconds |-> 2]]

\* Two people behind one address, one of them signed in: starting a run is
\* expensive, following it is not.
MCRequests ==
    [token : {"t", ""}, forwarded : {"office"}, address : {"proxy"}, method : {"GET", "POST"},
     path : {{"/connections", "/runs"}}]

-----------------------------------------------------------------------------
machines ==
    <<inferenceVars, answersVars, boardVars, shown, classified, lineageVars, qualityVars, freshnessVars,
      signInVars, credentialVars, limiterVars>>

Init ==
    /\ topic \in Topics
    /\ IF topic = "inference" THEN InferenceInit
       ELSE /\ source = <<>> /\ profiled = <<>> /\ detected = <<>>
            /\ refined = <<>> /\ modelled = <<>> /\ replied = <<>>
    /\ IF topic = "answers" THEN AnswersInit ELSE warehouse = <<>> /\ reply = <<>>
    /\ IF topic = "value" THEN QualityInit ELSE load = <<>> /\ written = <<>> /\ held = <<>>
    /\ IF topic = "codes" THEN SignInInit ELSE SignInInit /\ account = Enrolled(0)
    /\ BoardInit /\ TilesInit /\ LayersInit /\ LineageInit /\ FreshnessInit /\ CredentialsInit /\ LimiterInit

Next ==
    \/ /\ topic = "inference" /\ replied = <<>> /\ InferenceNext
       /\ UNCHANGED <<topic, answersVars, boardVars, shown, classified, lineageVars, qualityVars, freshnessVars, signInVars, credentialVars, limiterVars>>
    \/ /\ topic = "answers" /\ reply = <<>> /\ AnswersNext
       /\ UNCHANGED <<topic, inferenceVars, boardVars, shown, classified, lineageVars, qualityVars, freshnessVars, signInVars, credentialVars, limiterVars>>
    \/ /\ topic = "board" /\ BoardNext
       /\ UNCHANGED <<topic, inferenceVars, answersVars, shown, classified, lineageVars, qualityVars, freshnessVars, signInVars, credentialVars, limiterVars>>
    \/ /\ topic = "tiles" /\ shown = <<>> /\ TilesNext
       /\ UNCHANGED <<topic, inferenceVars, answersVars, boardVars, classified, lineageVars, qualityVars, freshnessVars, signInVars, credentialVars, limiterVars>>
    \/ /\ topic = "layer" /\ classified = <<>> /\ LayersNext
       /\ UNCHANGED <<topic, inferenceVars, answersVars, boardVars, shown, lineageVars, qualityVars, freshnessVars, signInVars, credentialVars, limiterVars>>
    \/ /\ topic = "lineage" /\ LineageNext
       /\ UNCHANGED <<topic, inferenceVars, answersVars, boardVars, shown, classified, qualityVars, freshnessVars, signInVars, credentialVars, limiterVars>>
    \/ /\ topic = "value" /\ RefineLoad
       /\ UNCHANGED <<topic, inferenceVars, answersVars, boardVars, shown, classified, lineageVars, freshnessVars, signInVars, credentialVars, limiterVars>>
    \/ /\ topic = "freshness" /\ FreshnessNext
       /\ UNCHANGED <<topic, inferenceVars, answersVars, boardVars, shown, classified, lineageVars, qualityVars, signInVars, credentialVars, limiterVars>>
    \/ /\ topic = "codes" /\ SignInNext
       /\ UNCHANGED <<topic, inferenceVars, answersVars, boardVars, shown, classified, lineageVars, qualityVars, freshnessVars, credentialVars, limiterVars>>
    \/ /\ topic = "credentials" /\ CredentialsNext
       /\ UNCHANGED <<topic, inferenceVars, answersVars, boardVars, shown, classified, lineageVars, qualityVars, freshnessVars, signInVars, limiterVars>>
    \/ /\ topic = "requests" /\ LimiterNext
       /\ UNCHANGED <<topic, inferenceVars, answersVars, boardVars, shown, classified, lineageVars, qualityVars, freshnessVars, signInVars, credentialVars>>

Spec == Init /\ [][Next]_<<topic, machines>>
=============================================================================
