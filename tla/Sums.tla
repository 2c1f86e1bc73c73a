-------------------------------- MODULE Sums --------------------------------
(***************************************************************************)
(* Sums over sets, by counting: SUM of the SQL engine, sum() of Python.    *)
(***************************************************************************)
EXTENDS Integers, FiniteSets

\* The sum of what f gives to the members of S: the units in, less the units out.
Units(f, S) == UNION {{x} \X (1..f[x]) : x \in S}
SumOf(f, S) == Cardinality(Units(f, S)) - Cardinality(Units([x \in S |-> -f[x]], S))
=============================================================================
