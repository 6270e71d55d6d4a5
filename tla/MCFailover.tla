----------------------------- MODULE MCFailover -----------------------------
(* Instances of Failover for TLC. *)
EXTENDS Failover

\* One server in the seed, a second one known from its directory; the second
\* directory has forgotten it.
OneSeed == <<"a">>
SomeDirectories == {<<"a", "b">>, <<"a">>}

TwoSeeds == <<"a", "b">>
NoDirectories == {<<>>}
=============================================================================
