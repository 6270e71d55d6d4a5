------------------------------ MODULE MCAccess ------------------------------
(* Instances of Access for TLC. *)
EXTENDS Access

\* The administrator logs in on the first node, the other user on the second.
SplitHome == [u \in User |-> IF u \in Admin THEN "n1" ELSE "n2"]
=============================================================================
