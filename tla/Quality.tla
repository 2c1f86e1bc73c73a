------------------------------ MODULE Quality -------------------------------
(***************************************************************************)
(* From bronze to silver, row by row: the rules quality/rules.py derives   *)
(* from a profile, the split of the rows quality/sql.py makes with them,   *)
(* and the transformation medallion/transforms.py applies to those kept.   *)
(* The profile is Profiling's; a rule is a record of its kind, its column, *)
(* its severity and, for a type, the type.                                 *)
(***************************************************************************)
EXTENDS Naming, Texts

CONSTANTS
    Layouts,        \* the tables there may be, as the sequences of their columns
    Cells,          \* the values a row may have
    Samples,        \* the sizes a profile's sample may have
    RowIds          \* the rows of a load

\* No two columns of a table have one name.
ASSUME QualityAssumption ==
    /\ Cells \subseteq Seq(STRING) \cup {Null}
    /\ \A layout \in Layouts : \A i, j \in DOMAIN layout :
          layout[i].name = layout[j].name => i = j

VARIABLES
    load,           \* a table's columns, the keys it is merged on, the sample's size, and
                    \* its rows in bronze
    written,        \* the rows written to silver
    held            \* the rows in quarantine, each with the rules it broke

qualityVars == <<load, written, held>>

AuditWords == {"ingested", "batch"}

-----------------------------------------------------------------------------
(* The rules.                                                                *)

Rule(kind, column, severity, param) ==
    [kind |-> kind, column |-> column, severity |-> severity, param |-> param]

\* keys are the columns the load merges on; sampled the size of the sample.
RulesFor(c, keys, sampled) ==
    (IF c.name \in keys THEN {Rule("not_null", c.name, "reject", {})}
     ELSE IF c.nulls = 0 /\ sampled > 50 THEN {Rule("not_null", c.name, "warn", {})}
     ELSE {})
    \cup (IF c.shadow # "" THEN {Rule("type", c.name, "reject", {c.shadow})} ELSE {})
    \cup (IF c.domain # {} /\ c.distinct <= 12
          THEN {Rule("allowed_values", c.name, "warn", c.domain)} ELSE {})

DerivePolicy(profile, keys, sampled) ==
    UNION {RulesFor(profile.columns[i], keys, sampled) : i \in DOMAIN profile.columns}

MinRowsForRatio == 100

\* Whether the load must stop: more than a twentieth of the rows rejected.
Breached(total, rejected) ==
    rejected > 0 /\ total >= MinRowsForRatio /\ 20 * rejected > total

\* (mutant) the conversion is tried on the column as it stands
CandidateRaw(v, type) == v

\* What the type rule tries to convert: no stricter than the transformation.
Candidate(v, type) == IF type \in Numeric THEN StripNonNumeric(v) ELSE v

\* TRUE when the row fails the rule.
Fails(rule, row) ==
    LET v == row[rule.column]
    IN  \/ rule.kind = "not_null" /\ v = Null
        \/ /\ rule.kind = "type" /\ v # Null /\ ~Blank(v)
           /\ \E t \in rule.param : TryCast(Candidate(v, t), t) = Null
        \/ rule.kind = "allowed_values" /\ v # Null /\ v \notin rule.param

Broken(policy, severity, row) == {r \in policy : r.severity = severity /\ Fails(r, row)}

Passes(policy, row) == Broken(policy, "reject", row) = {}

-----------------------------------------------------------------------------
(* The transformation.                                                       *)

\* One text column of silver: what holds something else is cast to its type,
\* other text is trimmed and its blanks made NULL.  (The exact decimal a float
\* of money becomes is left out: numbers have no fraction here.)
Project(c, v) ==
    IF c.shadow # ""
    THEN TryCast(IF c.shadow \in Numeric THEN StripNonNumeric(BlankToNull(v)) ELSE BlankToNull(v),
                 c.shadow)
    ELSE IF c.logical \in {"string", "unknown"} THEN BlankToNull(v) ELSE v

\* Ingestion metadata is dropped.
KeptColumns(columns) == {i \in DOMAIN columns : ~Has(columns[i].name, AuditWords)}
NamesOf(columns, places) == {columns[i].name : i \in places}
ColumnAt(columns, n) == columns[CHOOSE i \in KeptColumns(columns) : columns[i].name = n]

SilverRow(columns, row) ==
    [n \in NamesOf(columns, KeptColumns(columns)) |-> Project(ColumnAt(columns, n), row[n])]

-----------------------------------------------------------------------------
(* A load, refined.                                                          *)

QualityInit ==
    /\ \E columns \in Layouts : \E keys \in SUBSET NamesOf(columns, DOMAIN columns) :
       \E sampled \in Samples, rows \in [RowIds -> [NamesOf(columns, DOMAIN columns) -> Cells]] :
          load = [columns |-> columns, keys |-> keys, sampled |-> sampled, rows |-> rows]
    /\ written = <<>>
    /\ held = <<>>

PolicyOf(table) == DerivePolicy([columns |-> table.columns], table.keys, table.sampled)

\* The rows that break no rule are transformed and written, the others held back.
RefineRows(policy) ==
    LET passing == {i \in RowIds : Passes(policy, load.rows[i])}
    IN  /\ written' = [i \in passing |-> SilverRow(load.columns, load.rows[i])]
        /\ held' = [i \in RowIds \ passing |->
                       [row |-> load.rows[i], rules |-> Broken(policy, "reject", load.rows[i])]]

RefineLoad ==
    /\ written = <<>> /\ held = <<>>
    /\ RefineRows(PolicyOf(load))
    /\ UNCHANGED load

QualitySpec == QualityInit /\ [][RefineLoad]_qualityVars

-----------------------------------------------------------------------------
(* What refining promises.                                                   *)

Meant(v) == v # Null /\ ~Blank(v)
At(row, c) == row[c.name]

\* A value that means something in bronze is there in silver, or its row is in
\* quarantine: the rules and the transformation agree on what converts, so nothing
\* disappears as a NULL.  And no row is held back for a value that would convert:
\* one that is lacks a key, or has a value silver could only make a NULL of.
NothingLostInSilver ==
    /\ \A i \in DOMAIN written : \A k \in KeptColumns(load.columns) :
          Meant(At(load.rows[i], load.columns[k])) => At(written[i], load.columns[k]) # Null
    /\ \A i \in DOMAIN held : \E k \in DOMAIN load.columns :
          LET c == load.columns[k]
              v == At(load.rows[i], c)
          IN  (c.name \in load.keys /\ v = Null) \/ (Meant(v) /\ Project(c, v) = Null)
=============================================================================
