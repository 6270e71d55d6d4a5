---------------------------- MODULE MCLifecycle ----------------------------
(* Instances of Lifecycle for TLC. *)
EXTENDS Lifecycle, TLC

\* A TCP client and a browser.
MixedKind == ("t" :> "tcp") @@ ("w" :> "web")

\* Two TCP clients, one after the other.
TcpKind == ("t" :> "tcp") @@ ("u" :> "tcp")
=============================================================================
