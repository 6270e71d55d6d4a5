------------------------------ MODULE MCRooms -------------------------------
(* Instances of Rooms for TLC. *)
EXTENDS Rooms, TLC

CONSTANTS s1, s2, r1

\* Sockets are told apart by nothing but what happens to them.
SocketSymmetry == Permutations(Sock)
=============================================================================
