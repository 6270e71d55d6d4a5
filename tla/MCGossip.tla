------------------------------ MODULE MCGossip ------------------------------
(* Instances of Gossip for TLC. *)
EXTENDS Gossip, TLC

\* Two connected nodes, one event each.
PairPeers  == (1 :> {2}) @@ (2 :> {1})
PairOrigin == ("a" :> 1) @@ ("b" :> 2)

\* Three nodes in a line: 1 and 3 hear of each other's events only through 2.
LinePeers  == (1 :> {2}) @@ (2 :> {1, 3}) @@ (3 :> {2})
LineOrigin == ("a" :> 1)

=============================================================================
