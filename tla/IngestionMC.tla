---------------------------- MODULE IngestionMC ----------------------------
(* Small instances of Ingestion for TLC.                                     *)
EXTENDS Ingestion, TLC

\* Keys are interchangeable, and so are runs.
Symmetric == Permutations(Keys \ Unstamped) \cup Permutations(Runs)
=============================================================================
