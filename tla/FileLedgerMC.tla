---------------------------- MODULE FileLedgerMC ----------------------------
(* Small instances of FileLedger for TLC.                                    *)
EXTENDS FileLedger

\* Five versions; the store gives two of them no marker.
MCMarker == <<"m1", "m2", "", "m4", "">>
=============================================================================
