----------------------------- MODULE MCPresence -----------------------------
(* Instances of Presence for TLC. *)
EXTENDS Presence, TLC

CONSTANTS n1, n2, c1, c2, u1

\* Clients only differ in their connections.
ClientSymmetry == Permutations(Client)
=============================================================================
