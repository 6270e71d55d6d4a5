----------------------------- MODULE MCBrowser ------------------------------
(* An instance of Browser for TLC. *)
EXTENDS Browser
=============================================================================
