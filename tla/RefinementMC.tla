---------------------------- MODULE RefinementMC ----------------------------
(* Small instances of Refinement for TLC.                                    *)
EXTENDS Refinement, TLC

\* Rows that pass every rule are interchangeable.
Symmetric == Permutations(Rows \ Bad)
=============================================================================
