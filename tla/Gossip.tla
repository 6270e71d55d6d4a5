------------------------------- MODULE Gossip -------------------------------
(***************************************************************************)
(* GossipManager (src/server/gossip_manager.cpp): how an event rumored on  *)
(* one node reaches the others.  Each node keeps, in memory only, the set  *)
(* of ids it has seen, the event bodies it can serve, and the order in     *)
(* which the ids were accepted; all three change together under seenMutex. *)
(*                                                                         *)
(* A peer link is one TCP connection, dialled by the node with the smaller *)
(* gossip address.  Each end runs one handler thread that reads packets in *)
(* order; the two ends notice a lost connection independently.  An event   *)
(* is pushed once to the registered peers when it is rumored; receivers do *)
(* not push it further.  Periodic digests let a peer pull what it misses.  *)
(*                                                                         *)
(* The body of an event is a function of its id, so eventLog is the set of *)
(* ids that have a body.  What applyEvent does to the database is modelled *)
(* in module Presence; here it is the step in which an accepted event is   *)
(* applied.                                                                *)
(***************************************************************************)
EXTENDS Naturals, Sequences, FiniteSets, Functions

CONSTANTS
    Node,           \* server processes; the order of their gossip addresses
    EventId,        \* ids of the events rumored in a behaviour
    Origin,         \* the node whose NODE_ID each id carries
    Peers,          \* --peers of each node
    MAX_EVENT_LOG,  \* capacity of the event log (256 in the code)
    MaxBreaks,      \* bound: connections lost in a behaviour
    MaxCrashes,     \* bound: process crashes in a behaviour
    MaxAccepts      \* bound: times one node accepts one id in one life

ASSUME NodeAssumption == Node \subseteq Nat /\ IsFiniteSet(Node)
ASSUME OriginAssumption == Origin \in [EventId -> Node]
ASSUME PeersAssumption ==
    /\ Peers \in [Node -> SUBSET Node]
    /\ \A n \in Node : n \notin Peers[n]
ASSUME BoundAssumption ==
    /\ MAX_EVENT_LOG \in Nat \ {0}
    /\ MaxBreaks \in Nat /\ MaxCrashes \in Nat /\ MaxAccepts \in Nat

VARIABLES
    up,             \* the process is running
    link,           \* link[n][m]: n's end of its connection to m
    chan,           \* chan[n][m]: packets on the wire from n to m, in order
    serving,        \* serving[n][m]: ids of m's PULL that n has yet to look up
    seenEvents,     \* ids that are not accepted again
    eventLog,       \* ids whose body can be served to a PULL
    recentEventIds, \* ids in the order they were accepted
    applying,       \* <<t, e>>: thread t accepted e, has not yet applied it
    rumored,        \* ids already used by their origin
    accepted,       \* history: accepted[n][e] since n's last start
    evicted,        \* history: evicted[n][e] since n's last start
    breaks, crashes \* connections and processes lost so far

logVars  == <<seenEvents, eventLog, recentEventIds, accepted, evicted>>
linkVars == <<link, chan, serving>>
vars == <<up, linkVars, logVars, applying, rumored, breaks, crashes>>

(***************************************************************************)
(* Packets of the peer port.  The ids listed in one packet are a set: the  *)
(* order in which they are then asked for or served is left open.          *)
(***************************************************************************)
Hello       == [type |-> "HELLO"]
Event(e)    == [type |-> "EVENT", id |-> e]
Digest(ids) == [type |-> "DIGEST", ids |-> ids]
Pull(ids)   == [type |-> "PULL", ids |-> ids]

Packet == {Hello}
          \cup [type : {"EVENT"}, id : EventId]
          \cup [type : {"DIGEST", "PULL"}, ids : SUBSET EventId]

(***************************************************************************)
(* One end of a connection: "none" (no socket), "hello" (open, the peer's  *)
(* HELLO not read yet), "registered" (in clientPeers), "broken" (the       *)
(* connection is gone; the handler has not returned from its read, so the  *)
(* peer still counts as live).                                             *)
(***************************************************************************)
LinkState == {"none", "hello", "registered", "broken"}
Open(n, m) == link[n][m] \in {"hello", "registered"}

\* The nodes n takes for live (isNodeLive): entries of clientPeers.
LivePeers(n) == {m \in Node : link[n][m] \in {"registered", "broken"}}

\* Besides the types: a process that is not running holds no event.
TypeOK ==
    /\ up \in [Node -> BOOLEAN]
    /\ link \in [Node -> [Node -> LinkState]]
    /\ chan \in [Node -> [Node -> Seq(Packet)]]
    /\ serving \in [Node -> [Node -> SUBSET EventId]]
    /\ seenEvents \in [Node -> SUBSET EventId]
    /\ eventLog \in [Node -> SUBSET EventId]
    /\ recentEventIds \in [Node -> Seq(EventId)]
    /\ applying \in [Node -> SUBSET (Node \X EventId)]
    /\ rumored \subseteq EventId
    /\ accepted \in [Node -> [EventId -> Nat]]
    /\ evicted \in [Node -> [EventId -> Nat]]
    /\ breaks \in Nat /\ crashes \in Nat
    /\ \A n \in Node : ~up[n] => seenEvents[n] = {} /\ applying[n] = {}

Init ==
    /\ up = [n \in Node |-> TRUE]
    /\ link = [n \in Node |-> [m \in Node |-> "none"]]
    /\ chan = [n \in Node |-> [m \in Node |-> <<>>]]
    /\ serving = [n \in Node |-> [m \in Node |-> {}]]
    /\ seenEvents = [n \in Node |-> {}]
    /\ eventLog = [n \in Node |-> {}]
    /\ recentEventIds = [n \in Node |-> <<>>]
    /\ applying = [n \in Node |-> {}]
    /\ rumored = {}
    /\ accepted = [n \in Node |-> [e \in EventId |-> 0]]
    /\ evicted = [n \in Node |-> [e \in EventId |-> 0]]
    /\ breaks = 0 /\ crashes = 0

-----------------------------------------------------------------------------
(***************************************************************************)
(* The event log.                                                          *)
(***************************************************************************)

\* The id that leaves when another is remembered: none while there is room.
Evictee(n) ==
    IF Len(recentEventIds[n]) < MAX_EVENT_LOG THEN {}
    ELSE {Head(recentEventIds[n])}

\* Mutant: eviction forgets seenEvents.erase.
MutKeepSeenOnEvict(n, e) ==
    LET old == Evictee(n)
        q   == Append(recentEventIds[n], e)
    IN /\ recentEventIds' = [recentEventIds EXCEPT
                                ![n] = IF old = {} THEN q ELSE Tail(q)]
       /\ eventLog' = [eventLog EXCEPT ![n] = (@ \cup {e}) \ old]
       /\ seenEvents' = [seenEvents EXCEPT ![n] = @ \cup {e}]
       /\ accepted' = [accepted EXCEPT ![n][e] = @ + 1]
       /\ evicted' = [evicted EXCEPT ![n] =
                        [x \in EventId |-> @[x] + IF x \in old THEN 1 ELSE 0]]

\* seenEvents.insert(id) and rememberEventLocked, one critical section of
\* seenMutex.  The log grows by one id, so its while loop drops at most one.
RememberEvent(n, e) ==
    LET old == Evictee(n)
        q   == Append(recentEventIds[n], e)
    IN /\ recentEventIds' = [recentEventIds EXCEPT
                                ![n] = IF old = {} THEN q ELSE Tail(q)]
       /\ eventLog' = [eventLog EXCEPT ![n] = (@ \cup {e}) \ old]
       /\ seenEvents' = [seenEvents EXCEPT ![n] = (@ \cup {e}) \ old]
       /\ accepted' = [accepted EXCEPT ![n][e] = @ + 1]
       /\ evicted' = [evicted EXCEPT ![n] =
                        [x \in EventId |-> @[x] + IF x \in old THEN 1 ELSE 0]]

\* A thread t of n that accepts e applies it next, outside the lock.
StartApply(n, t, e) == applying' = [applying EXCEPT ![n] = @ \cup {<<t, e>>}]

\* rumor(), first half: a client handler of n publishes a new event.
Rumor(n, e) ==
    /\ up[n]
    /\ Origin[e] = n /\ e \notin rumored
    /\ e \notin seenEvents[n]
    /\ rumored' = rumored \cup {e}
    /\ RememberEvent(n, e)
    /\ StartApply(n, n, e)
    /\ UNCHANGED <<up, linkVars, breaks, crashes>>

\* Writing p to every peer in `to` that still has a connection; a write to a
\* broken one fails and is only logged.
SendToAll(n, to, p) ==
    chan' = [chan EXCEPT ![n] = [m \in Node |->
                IF m \in to /\ link[n][m] = "registered" THEN Append(@[m], p)
                ELSE @[m]]]

\* rumor(), second half: apply locally, then push to the peers of the moment.
FinishRumor(n, e) ==
    /\ up[n]
    /\ <<n, e>> \in applying[n]
    /\ applying' = [applying EXCEPT ![n] = @ \ {<<n, e>>}]
    /\ SendToAll(n, LivePeers(n), Event(e))
    /\ UNCHANGED <<up, link, serving, logVars, rumored, breaks, crashes>>

-----------------------------------------------------------------------------
(***************************************************************************)
(* handlePeer: n's handler thread for the connection to m.  It reads the   *)
(* next packet only when it is done with the previous one.                 *)
(***************************************************************************)
Idle(n, m) ==
    /\ \A e \in EventId : <<m, e>> \notin applying[n]
    /\ serving[n][m] = {}

Reads(n, m, type) ==
    /\ up[n] /\ Open(n, m)
    /\ Idle(n, m)
    /\ chan[m][n] # <<>>
    /\ Head(chan[m][n]).type = type

Consume(n, m) == [chan EXCEPT ![m][n] = Tail(@)]
Registered(n, m) == link[n][m] = "registered"

\* HELLO: registerPeer (a HELLO that would be rejected never gets here: see
\* Dial).
HandleHello(n, m) ==
    /\ Reads(n, m, "HELLO")
    /\ chan' = Consume(n, m)
    /\ link' = [link EXCEPT ![n][m] = "registered"]
    /\ UNCHANGED <<up, serving, logVars, applying, rumored, breaks, crashes>>

\* Mutant: an event read from a peer is applied but not entered in the log.
MutNotRemembered(n, m) ==
    /\ Reads(n, m, "EVENT")
    /\ chan' = Consume(n, m)
    /\ LET e == Head(chan[m][n]).id
       IN \/ /\ Registered(n, m) /\ e \notin seenEvents[n]
             /\ accepted[n][e] < MaxAccepts
             /\ accepted' = [accepted EXCEPT ![n][e] = @ + 1]
             /\ StartApply(n, m, e)
             /\ UNCHANGED <<seenEvents, eventLog, recentEventIds, evicted>>
          \/ /\ ~Registered(n, m) \/ e \in seenEvents[n]
             /\ UNCHANGED <<logVars, applying>>
    /\ UNCHANGED <<up, link, serving, rumored, breaks, crashes>>

\* Mutant: an event read from a peer is accepted whether or not it was seen.
MutNoSeenCheck(n, m) ==
    /\ Reads(n, m, "EVENT")
    /\ chan' = Consume(n, m)
    /\ LET e == Head(chan[m][n]).id
       IN \/ /\ Registered(n, m) /\ accepted[n][e] < MaxAccepts
             /\ RememberEvent(n, e)
             /\ StartApply(n, m, e)
          \/ /\ ~Registered(n, m)
             /\ UNCHANGED <<logVars, applying>>
    /\ UNCHANGED <<up, link, serving, rumored, breaks, crashes>>

\* EVENT: accepted once per stay in seenEvents; an already seen id is dropped.
HandleEvent(n, m) ==
    /\ Reads(n, m, "EVENT")
    /\ chan' = Consume(n, m)
    /\ LET e == Head(chan[m][n]).id
       IN \/ /\ Registered(n, m) /\ e \notin seenEvents[n]
             /\ accepted[n][e] < MaxAccepts
             /\ RememberEvent(n, e)
             /\ StartApply(n, m, e)
          \/ /\ ~Registered(n, m) \/ e \in seenEvents[n]
             /\ UNCHANGED <<logVars, applying>>
    /\ UNCHANGED <<up, link, serving, rumored, breaks, crashes>>

\* The handler thread applies the event it accepted (applyEvent).
ApplyEvent(n, m, e) ==
    /\ up[n] /\ m # n
    /\ <<m, e>> \in applying[n]
    /\ applying' = [applying EXCEPT ![n] = @ \ {<<m, e>>}]
    /\ UNCHANGED <<up, linkVars, logVars, rumored, breaks, crashes>>

\* DIGEST: ask the sender for the ids n has not seen.
HandleDigest(n, m) ==
    /\ Reads(n, m, "DIGEST")
    /\ LET missing == Head(chan[m][n]).ids \ seenEvents[n]
       IN chan' = IF missing = {} \/ ~Registered(n, m) THEN Consume(n, m)
                  ELSE [Consume(n, m) EXCEPT ![n][m] = Append(@, Pull(missing))]
    /\ UNCHANGED <<up, link, serving, logVars, applying, rumored, breaks, crashes>>

\* Mutant: a PULL is not answered.
MutNeverServe(n, m) ==
    /\ Reads(n, m, "PULL")
    /\ chan' = Consume(n, m)
    /\ UNCHANGED <<up, link, serving, logVars, applying, rumored, breaks, crashes>>

\* PULL: look the requested ids up one by one.
HandlePull(n, m) ==
    /\ Reads(n, m, "PULL")
    /\ chan' = Consume(n, m)
    /\ serving' = [serving EXCEPT ![n][m] =
                     IF Registered(n, m) THEN Head(chan[m][n]).ids ELSE {}]
    /\ UNCHANGED <<up, link, logVars, applying, rumored, breaks, crashes>>

\* One turn of PULL's loop: seenMutex is held only for the lookup, so an id may
\* have been evicted since the digest that listed it; it is then skipped.
ServePull(n, m, e) ==
    /\ up[n] /\ e \in serving[n][m]
    /\ serving' = [serving EXCEPT ![n][m] = @ \ {e}]
    /\ chan' = IF e \in eventLog[n] /\ Registered(n, m)
               THEN [chan EXCEPT ![n][m] = Append(@, Event(e))]
               ELSE chan
    /\ UNCHANGED <<up, link, logVars, applying, rumored, breaks, crashes>>

\* Bound: a digest waits until the previous one and its PULL are done with.
RoundInFlight(n, m) ==
    \/ \E i \in 1..Len(chan[n][m]) : chan[n][m][i].type = "DIGEST"
    \/ \E i \in 1..Len(chan[m][n]) : chan[m][n][i].type = "PULL"
    \/ serving[n][m] # {}

\* antiEntropyLoop: the ids of the log to every peer.  An empty digest has no
\* effect on its receiver, so it is not sent here.
AntiEntropy(n) ==
    LET to == {m \in LivePeers(n) : Registered(n, m) /\ ~RoundInFlight(n, m)}
    IN /\ up[n] /\ to # {} /\ recentEventIds[n] # <<>>
       /\ SendToAll(n, to, Digest(Range(recentEventIds[n])))
       /\ UNCHANGED <<up, link, serving, logVars, applying, rumored, breaks, crashes>>

-----------------------------------------------------------------------------
(***************************************************************************)
(* Connections and processes.                                              *)
(***************************************************************************)

\* Mutant: the dialler does not notice that the acceptor rejected it.
MutIgnoreReject(n, m) ==
    /\ up[n] /\ up[m]
    /\ m \in Peers[n] /\ n < m
    /\ Cardinality(LivePeers(n)) < Cardinality(Peers[n])
    /\ link[n][m] = "none"
    /\ link' = [link EXCEPT ![n][m] = "hello",
                            ![m][n] = IF @ = "none" THEN "hello" ELSE @]
    /\ chan' = [chan EXCEPT ![n][m] = <<Hello>>, ![m][n] = <<Hello>>]
    /\ UNCHANGED <<up, serving, logVars, applying, rumored, breaks, crashes>>

\* Mutant: the dialler sends no HELLO of its own.
MutDiallerSilent(n, m) ==
    /\ up[n] /\ up[m]
    /\ m \in Peers[n] /\ n < m
    /\ Cardinality(LivePeers(n)) < Cardinality(Peers[n])
    /\ link[n][m] = "none" /\ link[m][n] = "none"
    /\ link' = [link EXCEPT ![n][m] = "hello", ![m][n] = "hello"]
    /\ chan' = [chan EXCEPT ![m][n] = <<Hello>>]
    /\ UNCHANGED <<up, serving, logVars, applying, rumored, breaks, crashes>>

\* dialLoop connects and acceptLoop accepts; both send HELLO at once.  When m
\* still holds a registration for a dead connection to n, it rejects n's HELLO
\* and closes: n is left with a connection that is gone.
Dial(n, m) ==
    /\ up[n] /\ up[m]
    /\ m \in Peers[n] /\ n < m
    /\ Cardinality(LivePeers(n)) < Cardinality(Peers[n])
    /\ link[n][m] = "none"
    /\ \/ /\ link[m][n] = "none"
          /\ link' = [link EXCEPT ![n][m] = "hello", ![m][n] = "hello"]
          /\ chan' = [chan EXCEPT ![n][m] = <<Hello>>, ![m][n] = <<Hello>>]
       \/ /\ link[m][n] # "none"
          /\ link' = [link EXCEPT ![n][m] = "broken"]
          /\ UNCHANGED chan
    /\ UNCHANGED <<up, serving, logVars, applying, rumored, breaks, crashes>>

\* The connection between n and m is lost with what was on the wire.
Break(n, m) ==
    /\ Open(n, m) /\ breaks < MaxBreaks
    /\ breaks' = breaks + 1
    /\ link' = [link EXCEPT ![n][m] = "broken", ![m][n] = "broken"]
    /\ chan' = [chan EXCEPT ![n][m] = <<>>, ![m][n] = <<>>]
    /\ serving' = [serving EXCEPT ![n][m] = {}, ![m][n] = {}]
    /\ UNCHANGED <<up, logVars, applying, rumored, crashes>>

\* n's handler returns from its failed read: removePeer, close.
Disconnect(n, m) ==
    /\ up[n] /\ link[n][m] = "broken"
    /\ Idle(n, m)
    /\ link' = [link EXCEPT ![n][m] = "none"]
    /\ UNCHANGED <<up, chan, serving, logVars, applying, rumored, breaks, crashes>>

\* Mutant: seenEvents survives the stop, like the members GossipManager::stop
\* does not clear.
MutKeepSeenOnStop(n) ==
    /\ up[n] /\ crashes < MaxCrashes
    /\ crashes' = crashes + 1
    /\ up' = [up EXCEPT ![n] = FALSE]
    /\ link' = [a \in Node |-> [b \in Node |->
                  IF a = n THEN "none"
                  ELSE IF b = n /\ link[a][b] # "none" THEN "broken"
                  ELSE link[a][b]]]
    /\ chan' = [a \in Node |-> [b \in Node |->
                  IF n \in {a, b} THEN <<>> ELSE chan[a][b]]]
    /\ serving' = [a \in Node |-> [b \in Node |->
                     IF n \in {a, b} THEN {} ELSE serving[a][b]]]
    /\ eventLog' = [eventLog EXCEPT ![n] = {}]
    /\ recentEventIds' = [recentEventIds EXCEPT ![n] = <<>>]
    /\ applying' = [applying EXCEPT ![n] = {}]
    /\ accepted' = [accepted EXCEPT ![n] = [e \in EventId |-> 0]]
    /\ evicted' = [evicted EXCEPT ![n] = [e \in EventId |-> 0]]
    /\ UNCHANGED <<seenEvents, rumored, breaks>>

\* The process of n dies: everything it held in memory is gone.
Crash(n) ==
    /\ up[n] /\ crashes < MaxCrashes
    /\ crashes' = crashes + 1
    /\ up' = [up EXCEPT ![n] = FALSE]
    /\ link' = [a \in Node |-> [b \in Node |->
                  IF a = n THEN "none"
                  ELSE IF b = n /\ link[a][b] # "none" THEN "broken"
                  ELSE link[a][b]]]
    /\ chan' = [a \in Node |-> [b \in Node |->
                  IF n \in {a, b} THEN <<>> ELSE chan[a][b]]]
    /\ serving' = [a \in Node |-> [b \in Node |->
                     IF n \in {a, b} THEN {} ELSE serving[a][b]]]
    /\ seenEvents' = [seenEvents EXCEPT ![n] = {}]
    /\ eventLog' = [eventLog EXCEPT ![n] = {}]
    /\ recentEventIds' = [recentEventIds EXCEPT ![n] = <<>>]
    /\ applying' = [applying EXCEPT ![n] = {}]
    /\ accepted' = [accepted EXCEPT ![n] = [e \in EventId |-> 0]]
    /\ evicted' = [evicted EXCEPT ![n] = [e \in EventId |-> 0]]
    /\ UNCHANGED <<rumored, breaks>>

\* start(): listen again with an empty log.
Start(n) ==
    /\ ~up[n]
    /\ up' = [up EXCEPT ![n] = TRUE]
    /\ UNCHANGED <<linkVars, logVars, applying, rumored, breaks, crashes>>

HandlePeer(n, m) ==
    \/ HandleHello(n, m) \/ HandleEvent(n, m)
    \/ HandleDigest(n, m) \/ HandlePull(n, m)

Next ==
    \E n \in Node :
        \/ AntiEntropy(n) \/ Crash(n) \/ Start(n)
        \/ \E e \in EventId : Rumor(n, e) \/ FinishRumor(n, e)
        \/ \E m \in Node :
            \/ HandlePeer(n, m)
            \/ Dial(n, m) \/ Break(n, m) \/ Disconnect(n, m)
            \/ \E e \in EventId : ApplyEvent(n, m, e) \/ ServePull(n, m, e)

Spec == Init /\ [][Next]_vars

(***************************************************************************)
(* The threads keep running: dial and anti-entropy repeat every few        *)
(* seconds, handlers read while their socket lives, an accepted event is   *)
(* applied, a dead socket is noticed and a crashed node is started again.  *)
(* Nothing makes a client rumor an event or a connection break.            *)
(***************************************************************************)
Fairness ==
    \A n \in Node :
        /\ WF_vars(AntiEntropy(n)) /\ WF_vars(Start(n))
        /\ \A e \in EventId : WF_vars(FinishRumor(n, e))
        /\ \A m \in Node :
            /\ WF_vars(HandlePeer(n, m))
            /\ WF_vars(Dial(n, m)) /\ WF_vars(Disconnect(n, m))
            /\ \A e \in EventId :
                  WF_vars(ApplyEvent(n, m, e)) /\ WF_vars(ServePull(n, m, e))

FairSpec == Spec /\ Fairness

-----------------------------------------------------------------------------
(***************************************************************************)
(* Properties.                                                             *)
(***************************************************************************)

\* The three structures rememberEventLocked maintains never disagree: a node
\* advertises in its digest exactly the ids it can serve to a PULL and exactly
\* the ids it refuses as duplicates, each once, and never more than the bound.
LogConsistent ==
    \A n \in Node :
        /\ seenEvents[n] = eventLog[n]
        /\ seenEvents[n] = Range(recentEventIds[n])
        /\ \A i, j \in 1..Len(recentEventIds[n]) :
              recentEventIds[n][i] = recentEventIds[n][j] => i = j
        /\ Len(recentEventIds[n]) <= MAX_EVENT_LOG

\* However an event reaches a node (pushed by its origin, pulled from several
\* peers, pulled twice), a node applies it again only after having evicted it
\* from its log since the previous time.
ReappliedOnlyAfterEviction ==
    \A n \in Node, e \in EventId : accepted[n][e] <= evicted[n][e] + 1

\* The `if (!registered) break;` of handlePeer never throws away an event, a
\* digest or a request: HELLO precedes everything else on a connection.
HelloFirst ==
    \A n, m \in Node :
        (Open(n, m) /\ ~Registered(n, m) /\ chan[m][n] # <<>>)
            => Head(chan[m][n]) = Hello

\* Both ends agree that a connection is open, so exactly one connection serves
\* an edge and a HELLO is rejected only for a connection already lost.
OneConnectionPerEdge == \A n, m \in Node : Open(n, m) <=> Open(m, n)

\* An event that stays in one node's log ends up in every node's log, across
\* edges its origin has no connection to, and in spite of lost connections and
\* restarts: what digests and pulls are for.
EventualDelivery ==
    \A e \in EventId : \A n, m \in Node :
        <>[](e \in seenEvents[n]) => <>[](e \in seenEvents[m])

(***************************************************************************)
(* The abstract specification.  A node knows the ids in seenEvents; the    *)
(* workers of n are its handler threads, named by the peer they serve, and *)
(* its client handlers, which share the name n.                            *)
(***************************************************************************)
Bus == INSTANCE EventBus WITH
    Worker <- Node, Capacity <- MAX_EVENT_LOG,
    published <- rumored, known <- seenEvents, pending <- applying

\* Links, digests, pulls, lost connections, duplicates and restarts together
\* implement the event bus: no node ever applies an event its origin has not
\* rumored, none is accepted while it is remembered, each acceptance is applied
\* by one thread, and a full log forgets exactly one id per new one.
ImplementsBus == Bus!Spec
=============================================================================
