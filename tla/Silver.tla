------------------------------- MODULE Silver -------------------------------
(***************************************************************************)
(* A whole table on its way to silver: the clean rows of quality/sql.py    *)
(* and plan_silver of medallion/transforms.py, over the rules and the      *)
(* transformation of Quality.                                              *)
(***************************************************************************)
EXTENDS Quality, Lists

\* The rows that break no rule.
Clean(policy, rows) == Picked(rows, {i \in DOMAIN rows : Passes(policy, rows[i])})

\* SELECT DISTINCT: of equal rows, one.
Deduplicated(rows) == Picked(rows, {i \in DOMAIN rows : \A j \in 1..(i - 1) : rows[j] # rows[i]})

\* Exact duplicates are dropped when sampling saw some.
PlanSilver(profile, rows) ==
    LET inner == IF profile.duplicates THEN Deduplicated(rows) ELSE rows
    IN  [i \in DOMAIN inner |-> SilverRow(profile.columns, inner[i])]
=============================================================================
