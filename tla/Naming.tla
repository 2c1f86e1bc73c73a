------------------------------- MODULE Naming -------------------------------
(***************************************************************************)
(* The naming vocabulary of profiling/naming.py.  A name is the sequence   *)
(* of its words: the patterns of the code match whole words between        *)
(* underscores.  Of each pattern only the words the instances use are      *)
(* listed.                                                                 *)
(***************************************************************************)
EXTENDS Integers, Sequences

MeasureWords == {"total", "amount", "avg", "rate", "rent", "count"}
IdentifierWords == {"id", "code"}

Has(name, words) == \E i \in DOMAIN name : name[i] \in words
EndsWith(name, words) == name[Len(name)] \in words

ReadsAsMeasure(name) == Has(name, MeasureWords)
LooksLikeId(name) == EndsWith(name, IdentifierWords)

Numeric == {"integer", "float", "decimal"}
Temporal == {"date", "timestamp"}
KeyEligibleTypes == {"string", "integer", "date", "timestamp"}

\* A continuous measure, or a text that holds numbers, identifies nothing even
\* when its values happen to be distinct.
IsKeyEligible(name, logical, shadow) ==
    /\ logical \in KeyEligibleTypes
    /\ shadow \notin Numeric
    /\ ~ReadsAsMeasure(name)
=============================================================================
