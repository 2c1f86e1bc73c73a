------------------------------- MODULE Lists --------------------------------
(***************************************************************************)
(* Lists made of sets: what sorted(), a filter and a nested loop of Python *)
(* collect.  A member is a key, a tuple of numbers.                        *)
(***************************************************************************)
EXTENDS Integers, Sequences, FiniteSets

IsSequence(s) == Len(s) \in Nat /\ s = [i \in 1..Len(s) |-> s[i]]

\* No two of the sequence have one name.
NamesDiffer(s) == \A i, j \in DOMAIN s : s[i].name = s[j].name => i = j

\* Keys compare by the first number in which they differ.
Precedes(a, b) == \E n \in DOMAIN a : a[n] < b[n] /\ \A m \in 1..(n - 1) : a[m] = b[m]

\* Keys of one length, in their order.
Listed(T) ==
    [k \in 1..Cardinality(T) |-> CHOOSE x \in T : Cardinality({y \in T : Precedes(y, x)}) = k - 1]

\* What a sequence has at some of its places.
Picked(s, places) ==
    LET order == Listed({<<i>> : i \in places}) IN [k \in DOMAIN order |-> s[order[k][1]]]
=============================================================================
