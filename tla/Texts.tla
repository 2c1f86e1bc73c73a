------------------------------- MODULE Texts --------------------------------
(***************************************************************************)
(* Text values and the SQL functions engine/base.py builds on them.  A     *)
(* text is the sequence of its characters; Null stands for SQL's NULL.     *)
(***************************************************************************)
EXTENDS Integers, Sequences, FiniteSets

CONSTANT Null

ASSUME TextsAssumption == Null \notin Seq(STRING)

Blank(v) == \A i \in DOMAIN v : v[i] = " "

Trim(v) ==
    LET solid == {i \in DOMAIN v : v[i] # " "}
        first == CHOOSE i \in solid : \A j \in solid : i <= j
        last == CHOOSE i \in solid : \A j \in solid : j <= i
    IN  IF solid = {} THEN <<>> ELSE SubSeq(v, first, last)

\* NULLIF(TRIM(v), '')
BlankToNull(v) == IF v = Null THEN Null ELSE IF Blank(v) THEN Null ELSE Trim(v)

Digits == {"1", "2"}
KeptInNumbers == Digits \cup {"e", "E", ".", "+", "-"}

\* Where a text has what a number is written with, and the k-th of those places.
Places(v) == {i \in DOMAIN v : v[i] \in KeptInNumbers}
PlaceOf(v, k) == CHOOSE i \in Places(v) : Cardinality({j \in Places(v) : j <= i}) = k

StripNonNumeric(v) ==
    IF v = Null THEN Null ELSE [k \in 1..Cardinality(Places(v)) |-> v[PlaceOf(v, k)]]

\* TRY_CAST: NULL where the text is not a value of the type.  Numbers are
\* their digits here, and a date any text that starts with "d".
TryCast(v, type) ==
    LET numeric == type \in {"integer", "float", "decimal"}
        trimmed == IF v = Null THEN <<>> ELSE Trim(v)
        valid == /\ trimmed # <<>>
                 /\ numeric => \A i \in DOMAIN trimmed : trimmed[i] \in Digits
                 /\ ~numeric => trimmed[1] = "d"
    IN  IF valid THEN trimmed ELSE Null
=============================================================================
