------------------------------ MODULE IdentityMC ----------------------------
(* A small instance of Identity for TLC: an organisation that claims the     *)
(* domains of both people, and has proved that it owns the one of bob.       *)
EXTENDS Identity, TLC

CONSTANTS ann, bob

MCAutoJoin == {bob}
MCClaim == [u \in Users |-> "acme"]
Symmetric == Permutations(Tokens) \cup Permutations(Invitations)
=============================================================================
