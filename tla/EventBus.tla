------------------------------ MODULE EventBus ------------------------------
(***************************************************************************)
(* What the gossip layer promises the rest of the server, without links,   *)
(* packets or threads: an event is published once, by the node that names  *)
(* it; a node takes an event in only after it was published and only while *)
(* it does not know it; every event taken in is applied once by the worker *)
(* that took it in; and an event is forgotten only for lack of room, one   *)
(* at a time, or with everything else when the process dies.               *)
(* GossipManager is shown to implement this in module Gossip.              *)
(***************************************************************************)
EXTENDS Naturals, FiniteSets

CONSTANTS
    Node, EventId,
    Worker,         \* the threads of a node that can take an event in
    Origin,         \* the node that names each event
    Capacity        \* the number of events a node remembers

VARIABLES
    published,      \* events that exist
    known,          \* known[n]: events n remembers and would not take in again
    pending         \* <<w, e>> \in pending[n]: worker w is to apply e

vars == <<published, known, pending>>

Init ==
    /\ published = {}
    /\ known = [n \in Node |-> {}]
    /\ pending = [n \in Node |-> {}]

\* n takes e in, for worker w to apply; one known event may have to go, but
\* only when there is no room.
TakeIn(n, w, e) ==
    /\ e \notin known[n]
    /\ \E gone \in {{}} \cup {{x} : x \in known[n]} :
          /\ gone = {} <=> Cardinality(known[n]) < Capacity
          /\ known' = [known EXCEPT ![n] = (@ \cup {e}) \ gone]
    /\ pending' = [pending EXCEPT ![n] = @ \cup {<<w, e>>}]

Publish(n, w, e) ==
    /\ Origin[e] = n /\ e \notin published
    /\ published' = published \cup {e}
    /\ TakeIn(n, w, e)

Deliver(n, w, e) ==
    /\ e \in published
    /\ TakeIn(n, w, e)
    /\ UNCHANGED published

Apply(n, w, e) ==
    /\ <<w, e>> \in pending[n]
    /\ pending' = [pending EXCEPT ![n] = @ \ {<<w, e>>}]
    /\ UNCHANGED <<published, known>>

\* The process of n dies; what it remembered and had still to apply is lost.
Die(n) ==
    /\ known' = [known EXCEPT ![n] = {}]
    /\ pending' = [pending EXCEPT ![n] = {}]
    /\ UNCHANGED published

Next ==
    \E n \in Node :
        \/ Die(n)
        \/ \E w \in Worker, e \in EventId :
              Publish(n, w, e) \/ Deliver(n, w, e) \/ Apply(n, w, e)

Spec == Init /\ [][Next]_vars
=============================================================================
