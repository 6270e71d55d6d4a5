----------------------------- MODULE BusProofs ------------------------------
(***************************************************************************)
(* Gossip implements EventBus, for every set of nodes, every topology,     *)
(* every set of events and every log capacity.                             *)
(***************************************************************************)
EXTENDS GossipProofs, FiniteSetTheorems

(***************************************************************************)
(* What the mapping needs besides IInv: nothing is remembered, waits to be *)
(* applied or is on the wire that was not rumored before.                  *)
(***************************************************************************)
Vouched(q) == \A i \in 1..Len(q) : q[i].type = "EVENT" => q[i].id \in rumored

Provenance ==
    /\ \A n \in Node : seenEvents[n] \subseteq rumored
    /\ \A n \in Node : \A x \in applying[n] : x[2] \in rumored
    /\ \A n, m \in Node : Vouched(chan[n][m])

-----------------------------------------------------------------------------
(***************************************************************************)
(* The number of ids a node remembers is the length of its queue.          *)
(***************************************************************************)

\* A queue without repetitions is as long as the set of its entries is large.
LEMMA DistinctCardinality ==
    ASSUME NEW S, NEW q \in Seq(S), Distinct(q)
    PROVE  Cardinality(Range(q)) = Len(q)
<1>1. Len(q) \in Nat /\ DOMAIN q = 1..Len(q)
  OBVIOUS
<1>2. q \in [1..Len(q) -> Range(q)]
  BY <1>1 DEF Range
<1>3. q \in Injection(1..Len(q), Range(q))
  BY <1>2 DEF Injection, Distinct, IsInjective
<1>4. q \in Surjection(1..Len(q), Range(q))
  BY <1>1, <1>2 DEF Surjection, Range
<1>5. ExistsBijection(1..Len(q), Range(q))
  BY <1>3, <1>4 DEF ExistsBijection, Bijection
<1> QED BY <1>1, <1>5, FS_CountingElements

\* EventBus and Gossip count with the same operator.
LEMMA SameCardinality == \A S : Bus!Cardinality(S) = Cardinality(S)
BY DEF Bus!Cardinality, Cardinality

\* rememberEventLocked takes an event in as the event bus does: one id has to
\* go when the log is full, none when it is not.
LEMMA RememberTakesIn ==
    ASSUME IInv, NEW n \in Node, NEW w \in Node, NEW e \in EventId,
           e \notin seenEvents[n], RememberEvent(n, e), StartApply(n, w, e)
    PROVE  Bus!TakeIn(n, w, e)
<1> DEFINE q == recentEventIds[n]
           old == Evictee(n)
<1>1. /\ q \in Seq(EventId) /\ seenEvents[n] = Range(q) /\ Distinct(q)
      /\ MAX_EVENT_LOG \in Nat \ {0} /\ Len(q) \in Nat
  BY BoundAssumption DEF IInv, TypeOK, LogConsistent, Distinct
<1>2. Cardinality(seenEvents[n]) = Len(q)
  BY <1>1, DistinctCardinality
<1>3. seenEvents' = [seenEvents EXCEPT ![n] = (@ \cup {e}) \ old]
  BY DEF RememberEvent
<1>4. applying' = [applying EXCEPT ![n] = @ \cup {<<w, e>>}]
  BY DEF StartApply
<1>5. /\ old \in {{}} \cup {{x} : x \in seenEvents[n]}
      /\ old = {} <=> Cardinality(seenEvents[n]) < MAX_EVENT_LOG
  <2>1. CASE Len(q) < MAX_EVENT_LOG
    BY <2>1, <1>2 DEF Evictee
  <2>2. CASE ~(Len(q) < MAX_EVENT_LOG)
    <3>1. old = {Head(q)}
      BY <2>2 DEF Evictee
    <3>2. Head(q) \in Range(q)
      BY <2>2, <1>1 DEF Range
    <3> HIDE DEF q, old
    <3> QED BY <2>2, <3>1, <3>2, <1>1, <1>2
  <2> QED BY <2>1, <2>2
<1> HIDE DEF old
<1> QED BY <1>3, <1>4, <1>5, SameCardinality DEF Bus!TakeIn

-----------------------------------------------------------------------------
(***************************************************************************)
(* Provenance is inductive.                                                *)
(***************************************************************************)

\* A channel whose events are vouched for stays so when it is read, emptied,
\* or gets a packet that is no event or a vouched one.
LEMMA VouchedKept ==
    ASSUME NEW q \in Seq(Packet), Vouched(q), rumored \subseteq rumored',
           NEW r, \/ r = q \/ r = <<>> \/ r = <<Hello>>
                  \/ q # <<>> /\ r = Tail(q)
                  \/ \E p \in Packet : /\ r = Append(q, p)
                                       /\ p.type = "EVENT" => p.id \in rumored
                  \/ q # <<>> /\ \E p \in Packet : r = Append(Tail(q), p) /\ p.type # "EVENT"
    PROVE  \A i \in 1..Len(r) : r[i].type = "EVENT" => r[i].id \in rumored'
<1>1. CASE r = q
  BY <1>1 DEF Vouched
<1>2. CASE r = <<>>
  BY <1>2
<1>3. CASE r = <<Hello>>
  BY <1>3 DEF Hello
<1>4. CASE q # <<>> /\ r = Tail(q)
  <2>1. \A i \in 1..Len(r) : i + 1 \in 1..Len(q) /\ r[i] = q[i + 1]
    BY <1>4
  <2> QED BY <2>1 DEF Vouched
<1>5. ASSUME NEW p \in Packet, r = Append(q, p), p.type = "EVENT" => p.id \in rumored
      PROVE  \A i \in 1..Len(r) : r[i].type = "EVENT" => r[i].id \in rumored'
  <2>1. \A i \in 1..Len(r) : (i \in 1..Len(q) /\ r[i] = q[i]) \/ r[i] = p
    BY <1>5
  <2> QED BY <2>1, <1>5 DEF Vouched
<1>6. ASSUME q # <<>>, NEW p \in Packet, r = Append(Tail(q), p), p.type # "EVENT"
      PROVE  \A i \in 1..Len(r) : r[i].type = "EVENT" => r[i].id \in rumored'
  <2>1. Tail(q) \in Seq(Packet)
        /\ \A i \in 1..Len(Tail(q)) : i + 1 \in 1..Len(q) /\ Tail(q)[i] = q[i + 1]
    BY <1>6
  <2>2. \A i \in 1..Len(r) : (i \in 1..Len(Tail(q)) /\ r[i] = Tail(q)[i]) \/ r[i] = p
    BY <1>6, <2>1
  <2> QED BY <2>1, <2>2, <1>6 DEF Vouched
<1> QED BY <1>1, <1>2, <1>3, <1>4, <1>5, <1>6

\* What a step may do to one channel.
ChanStep(q, r) ==
    \/ r = q \/ r = <<>> \/ r = <<Hello>>
    \/ q # <<>> /\ r = Tail(q)
    \/ \E p \in Packet : /\ r = Append(q, p)
                         /\ p.type = "EVENT" => p.id \in rumored
    \/ q # <<>> /\ \E p \in Packet : r = Append(Tail(q), p) /\ p.type # "EVENT"

\* Provenance is preserved by a step that only remembers and starts to apply
\* events that have been rumored, and only sends such events.
LEMMA ProvenanceKept ==
    ASSUME Provenance, ChanTypes, rumored \subseteq rumored',
           \A n \in Node : seenEvents'[n] \subseteq seenEvents[n] \cup rumored',
           \A n \in Node : \A x \in applying'[n] : x \in applying[n] \/ x[2] \in rumored',
           \A k, l \in Node : ChanStep(chan[k][l], chan'[k][l])
    PROVE  Provenance'
<1>1. \A n \in Node : seenEvents'[n] \subseteq rumored'
  BY DEF Provenance
<1>2. \A n \in Node : \A x \in applying'[n] : x[2] \in rumored'
  BY DEF Provenance
<1>3. ASSUME NEW k \in Node, NEW l \in Node PROVE Vouched(chan[k][l])'
  <2>1. chan[k][l] \in Seq(Packet) /\ Vouched(chan[k][l])
    BY DEF Provenance, ChanTypes
  <2>2. ChanStep(chan[k][l], chan'[k][l])
    OBVIOUS
  <2> DEFINE q == chan[k][l]
             r == chan'[k][l]
  <2> HIDE DEF q, r
  <2>3. \A i \in 1..Len(r) : r[i].type = "EVENT" => r[i].id \in rumored'
    BY <2>1, <2>2, VouchedKept DEF ChanStep, q, r
  <2> QED BY <2>3 DEF Vouched, r
<1> QED BY <1>1, <1>2, <1>3 DEF Provenance

\* Every step keeps what is remembered, pending or on the wire vouched for.
LEMMA ProvenanceStep == IInv /\ Provenance /\ [Next]_vars => Provenance'
<1> SUFFICES ASSUME IInv, Provenance, [Next]_vars
             PROVE  Provenance'
  OBVIOUS
<1>0. /\ ChanTypes /\ LogConsistent /\ rumored \subseteq EventId
      /\ seenEvents \in [Node -> SUBSET EventId]
      /\ applying \in [Node -> SUBSET (Node \X EventId)]
      /\ \A k, l \in Node : chan[k][l] \in Seq(Packet)
  BY Disassemble DEF LogTypes, ChanTypes
<1> DEFINE Quiet == \A k, l \in Node : ChanStep(chan[k][l], chan'[k][l])
<1>a. chan' = chan => Quiet
  BY DEF ChanStep
<1>b. ASSUME NEW n \in Node, NEW m \in Node, NEW t, Reads(n, m, t), chan' = Consume(n, m)
      PROVE  Quiet
  BY <1>0, <1>b DEF Reads, Consume, ChanTypes, ChanStep
<1>c. ASSUME NEW n \in Node, NEW to, NEW p \in Packet, SendToAll(n, to, p),
             p.type = "EVENT" => p.id \in rumored
      PROVE  Quiet
  BY <1>0, <1>c, SendToAllTyped DEF ChanStep
<1> HIDE DEF Quiet
<1>1. ASSUME NEW n \in Node, NEW e \in EventId, Rumor(n, e)
      PROVE  Provenance'
  <2>1. /\ rumored' = rumored \cup {e} /\ chan' = chan
        /\ applying' = [applying EXCEPT ![n] = @ \cup {<<n, e>>}]
        /\ seenEvents' = [seenEvents EXCEPT ![n] = (@ \cup {e}) \ Evictee(n)]
    BY <1>1 DEF Rumor, RememberEvent, StartApply, linkVars
  <2> QED BY <1>0, <1>a, <2>1, ProvenanceKept DEF Quiet
<1>2. ASSUME NEW n \in Node, NEW e \in EventId, FinishRumor(n, e)
      PROVE  Provenance'
  <2>1. /\ <<n, e>> \in applying[n]
        /\ applying' = [applying EXCEPT ![n] = @ \ {<<n, e>>}]
        /\ SendToAll(n, LivePeers(n), Event(e))
        /\ UNCHANGED <<seenEvents, rumored>>
    BY <1>2 DEF FinishRumor, logVars
  <2>2. e \in rumored /\ Event(e) \in Packet /\ Event(e).id = e
    BY <2>1, PacketsMade DEF Provenance, Event
  <2>3. Quiet
    BY <2>1, <2>2, <1>c
  <2> QED BY <1>0, <2>1, <2>3, ProvenanceKept DEF Quiet
<1>3. ASSUME NEW n \in Node, NEW m \in Node, HandleHello(n, m)
      PROVE  Provenance'
  BY <1>0, <1>3, <1>b, ProvenanceKept DEF HandleHello, logVars, Quiet
<1>4. ASSUME NEW n \in Node, NEW m \in Node, HandleEvent(n, m)
      PROVE  Provenance'
  <2> DEFINE e == Head(chan[m][n]).id
  <2>1. Reads(n, m, "EVENT") /\ chan' = Consume(n, m) /\ rumored' = rumored
    BY <1>4 DEF HandleEvent
  <2>2. e \in rumored
    <3>1. /\ chan[m][n] \in Seq(Packet) /\ chan[m][n] # <<>>
          /\ Head(chan[m][n]).type = "EVENT" /\ Vouched(chan[m][n])
      BY <1>0, <2>1 DEF Reads, Provenance
    <3>2. 1 \in 1..Len(chan[m][n]) /\ Head(chan[m][n]) = chan[m][n][1]
      BY <3>1
    <3> QED BY <3>1, <3>2 DEF Vouched
  <2>3. \/ /\ seenEvents' = [seenEvents EXCEPT ![n] = (@ \cup {e}) \ Evictee(n)]
           /\ applying' = [applying EXCEPT ![n] = @ \cup {<<m, e>>}]
        \/ UNCHANGED <<seenEvents, applying>>
    BY <1>4 DEF HandleEvent, RememberEvent, StartApply, logVars
  <2> HIDE DEF e
  <2> QED BY <1>0, <1>b, <2>1, <2>2, <2>3, ProvenanceKept DEF Quiet
<1>5. ASSUME NEW n \in Node, NEW m \in Node, NEW e \in EventId, ApplyEvent(n, m, e)
      PROVE  Provenance'
  BY <1>0, <1>5, <1>a, ProvenanceKept DEF ApplyEvent, logVars, linkVars, Quiet
<1>6. ASSUME NEW n \in Node, NEW m \in Node, HandleDigest(n, m)
      PROVE  Provenance'
  <2> DEFINE missing == Head(chan[m][n]).ids \ seenEvents[n]
  <2>1. /\ Reads(n, m, "DIGEST")
        /\ \/ chan' = Consume(n, m)
           \/ chan' = [Consume(n, m) EXCEPT ![n][m] = Append(@, Pull(missing))]
        /\ UNCHANGED <<seenEvents, rumored, applying>>
    BY <1>6 DEF HandleDigest, logVars
  <2>2. Pull(missing) \in Packet /\ Pull(missing).type # "EVENT"
    BY <1>0, <2>1, ReadsTyped, PacketFields, PacketsMade DEF Pull
  <2> HIDE DEF missing
  <2>3. Quiet
    <3>1. CASE chan' = Consume(n, m)
      BY <2>1, <3>1, <1>b
    <3>2. CASE chan' = [Consume(n, m) EXCEPT ![n][m] = Append(@, Pull(missing))]
      <4> DEFINE c == Consume(n, m)
                 v == Append(c[n][m], Pull(missing))
      <4>1. /\ c \in [Node -> [Node -> Seq(Packet)]]
            /\ \A k, l \in Node : c[k][l] = IF k = m /\ l = n THEN Tail(chan[m][n])
                                            ELSE chan[k][l]
        BY <1>0, <2>1, ReadsTyped DEF Consume, ChanTypes
      <4>2. v \in Seq(Packet)
        BY <4>1, <2>2
      <4>3. chan' = [c EXCEPT ![n][m] = v]
        BY <3>2
      <4> HIDE DEF c, v
      <4>4. \A k, l \in Node : chan'[k][l] = IF k = n /\ l = m THEN v ELSE c[k][l]
        BY <4>1, <4>2, <4>3, TableUpdate
      <4>5. v = Append(IF n = m THEN Tail(chan[m][n]) ELSE chan[n][m], Pull(missing))
        BY <4>1 DEF v
      <4>6. chan[m][n] # <<>>
        BY <2>1 DEF Reads
      <4>7. ASSUME NEW k \in Node, NEW l \in Node PROVE ChanStep(chan[k][l], chan'[k][l])
        <5>1. CASE k = n /\ l = m
          BY <5>1, <4>4, <4>5, <4>6, <2>2 DEF ChanStep
        <5>2. CASE ~(k = n /\ l = m)
          BY <5>2, <4>1, <4>4, <4>6 DEF ChanStep
        <5> QED BY <5>1, <5>2
      <4> QED BY <4>7 DEF Quiet
    <3> QED BY <2>1, <3>1, <3>2
  <2> QED BY <1>0, <2>1, <2>3, ProvenanceKept DEF Quiet
<1>7. ASSUME NEW n \in Node, NEW m \in Node, HandlePull(n, m)
      PROVE  Provenance'
  BY <1>0, <1>7, <1>b, ProvenanceKept DEF HandlePull, logVars, Quiet
<1>8. ASSUME NEW n \in Node, NEW m \in Node, NEW e \in EventId, ServePull(n, m, e)
      PROVE  Provenance'
  <2>1. /\ chan' = IF e \in eventLog[n] /\ Registered(n, m)
                   THEN [chan EXCEPT ![n][m] = Append(@, Event(e))] ELSE chan
        /\ UNCHANGED <<seenEvents, rumored, applying>>
    BY <1>8 DEF ServePull, logVars
  <2>2. Event(e) \in Packet /\ Event(e).id = e
    BY PacketsMade DEF Event
  <2>3. CASE e \in eventLog[n] /\ Registered(n, m)
    <3> DEFINE v == Append(chan[n][m], Event(e))
    <3>1. e \in rumored
      BY <2>3, <1>0 DEF LogConsistent, Provenance
    <3>2. v \in Seq(Packet) /\ chan' = [chan EXCEPT ![n][m] = v]
      BY <2>1, <2>2, <2>3, <1>0
    <3> HIDE DEF v
    <3>3. \A k, l \in Node : chan'[k][l] = IF k = n /\ l = m THEN v ELSE chan[k][l]
      BY <1>0, <3>2, TableUpdate DEF ChanTypes
    <3>4. Quiet
      BY <2>2, <3>1, <3>3 DEF Quiet, ChanStep, v
    <3> QED BY <1>0, <2>1, <3>4, ProvenanceKept DEF Quiet
  <2>4. CASE ~(e \in eventLog[n] /\ Registered(n, m))
    BY <1>0, <1>a, <2>1, <2>4, ProvenanceKept DEF Quiet
  <2> QED BY <2>3, <2>4
<1>9. ASSUME NEW n \in Node, AntiEntropy(n)
      PROVE  Provenance'
  <2> DEFINE to == {m \in LivePeers(n) : Registered(n, m) /\ ~RoundInFlight(n, m)}
             ids == Range(recentEventIds[n])
  <2>1. /\ SendToAll(n, to, Digest(ids))
        /\ UNCHANGED <<seenEvents, rumored, applying>>
    BY <1>9 DEF AntiEntropy, logVars
  <2>2. ids \in SUBSET EventId
    BY <1>0 DEF LogConsistent
  <2> HIDE DEF to, ids
  <2>3. Digest(ids) \in Packet /\ Digest(ids).type # "EVENT"
    BY <2>2, PacketsMade DEF Digest
  <2>4. Quiet
    BY <2>1, <2>3, <1>c
  <2> QED BY <1>0, <2>1, <2>4, ProvenanceKept DEF Quiet
<1>10. ASSUME NEW n \in Node, NEW m \in Node, Dial(n, m) \/ Break(n, m) \/ Disconnect(n, m)
       PROVE  Provenance'
  <2>1. /\ \/ chan' = chan
           \/ \E h \in {<<>>, <<Hello>>} : chan' = [chan EXCEPT ![n][m] = h, ![m][n] = h]
        /\ UNCHANGED <<seenEvents, rumored, applying>>
    BY <1>10 DEF Dial, Break, Disconnect, logVars
  <2>2. ASSUME NEW h \in {<<>>, <<Hello>>}, chan' = [chan EXCEPT ![n][m] = h, ![m][n] = h]
        PROVE  Quiet
    <3>1. h \in Seq(Packet)
      <4>1. Hello \in Packet
        BY PacketsMade
      <4>2. <<>> \in Seq(Packet) /\ <<Hello>> \in Seq(Packet)
        BY <4>1
      <4> QED BY <4>2
    <3>2. ASSUME NEW k \in Node, NEW l \in Node
          PROVE  chan'[k][l] = h \/ chan'[k][l] = chan[k][l]
      <4> DEFINE V == Seq(Packet)
      <4>1. chan \in [Node -> [Node -> V]] /\ h \in V
        BY <1>0, <3>1 DEF ChanTypes
      <4> HIDE DEF V
      <4>2. chan' = [chan EXCEPT ![n][m] = h, ![m][n] = h]
        BY <2>2
      <4> QED BY <4>1, <4>2, EdgeUpdate
    <3>3. h = <<>> \/ h = <<Hello>>
      OBVIOUS
    <3> QED BY <3>2, <3>3 DEF Quiet, ChanStep
  <2> QED BY <1>0, <1>a, <2>1, <2>2, ProvenanceKept DEF Quiet
<1>11. ASSUME NEW n \in Node, Crash(n)
       PROVE  Provenance'
  <2>1. /\ chan' = [a \in Node |-> [b \in Node |->
                      IF n \in {a, b} THEN <<>> ELSE chan[a][b]]]
        /\ seenEvents' = [seenEvents EXCEPT ![n] = {}]
        /\ applying' = [applying EXCEPT ![n] = {}]
        /\ rumored' = rumored
    BY <1>11 DEF Crash
  <2>2. Quiet
    BY <2>1 DEF Quiet, ChanStep
  <2> QED BY <1>0, <2>1, <2>2, ProvenanceKept DEF Quiet
<1>12. ASSUME NEW n \in Node, Start(n)
       PROVE  Provenance'
  BY <1>0, <1>12, <1>a, ProvenanceKept DEF Start, linkVars, logVars, Quiet
<1>13. CASE UNCHANGED vars
  BY <1>0, <1>13, <1>a, ProvenanceKept DEF vars, linkVars, logVars, Quiet
<1> QED BY <1>1, <1>2, <1>3, <1>4, <1>5, <1>6, <1>7, <1>8, <1>9, <1>10, <1>11, <1>12,
           <1>13 DEF Next, HandlePeer

-----------------------------------------------------------------------------
(***************************************************************************)
(* The refinement.                                                         *)
(***************************************************************************)

\* Every step of the gossip layer is a step of the event bus or none at all:
\* rumoring publishes, accepting from a peer delivers, applying applies, a
\* crash forgets; links, digests, pulls and packets on the wire are invisible.
LEMMA BusStep == IInv /\ Provenance /\ [Next]_vars => [Bus!Next]_(Bus!vars)
<1> SUFFICES ASSUME IInv, Provenance, [Next]_vars
             PROVE  Bus!Next \/ UNCHANGED <<seenEvents, rumored, applying>>
  BY DEF Bus!vars
<1> USE DEF logVars
<1>1. ASSUME NEW n \in Node, NEW e \in EventId, Rumor(n, e)
      PROVE  Bus!Publish(n, n, e)
  BY <1>1, RememberTakesIn DEF Rumor, Bus!Publish
<1>2. ASSUME NEW n \in Node, NEW e \in EventId, FinishRumor(n, e)
      PROVE  Bus!Apply(n, n, e)
  BY <1>2 DEF FinishRumor, Bus!Apply
<1>3. ASSUME NEW n \in Node, NEW m \in Node, NEW e \in EventId, ApplyEvent(n, m, e)
      PROVE  Bus!Apply(n, m, e)
  BY <1>3 DEF ApplyEvent, Bus!Apply
<1>4. ASSUME NEW n \in Node, NEW m \in Node, HandleEvent(n, m)
      PROVE  \/ \E e \in EventId : Bus!Deliver(n, m, e)
             \/ UNCHANGED <<seenEvents, rumored, applying>>
  <2> DEFINE e == Head(chan[m][n]).id
  <2>1. /\ chan[m][n] \in Seq(Packet) /\ chan[m][n] # <<>>
        /\ Head(chan[m][n]).type = "EVENT" /\ Vouched(chan[m][n])
    BY <1>4 DEF HandleEvent, Reads, Provenance, IInv, TypeOK
  <2>2. 1 \in 1..Len(chan[m][n]) /\ Head(chan[m][n]) = chan[m][n][1]
    BY <2>1
  <2>3. e \in rumored /\ e \in EventId
    BY <2>1, <2>2 DEF Vouched, IInv, TypeOK
  <2>4. \/ e \notin seenEvents[n] /\ RememberEvent(n, e) /\ StartApply(n, m, e) /\ rumored' = rumored
        \/ UNCHANGED <<seenEvents, rumored, applying>>
    BY <1>4 DEF HandleEvent
  <2> HIDE DEF e
  <2>5. ASSUME e \notin seenEvents[n], RememberEvent(n, e), StartApply(n, m, e), rumored' = rumored
        PROVE  Bus!Deliver(n, m, e)
    BY <2>3, <2>5, RememberTakesIn DEF Bus!Deliver
  <2> QED BY <2>3, <2>4, <2>5
<1>5. ASSUME NEW n \in Node, Crash(n)
      PROVE  Bus!Die(n)
  BY <1>5 DEF Crash, Bus!Die
<1>6. ASSUME NEW n \in Node, AntiEntropy(n) \/ Start(n)
      PROVE  UNCHANGED <<seenEvents, rumored, applying>>
  BY <1>6 DEF AntiEntropy, Start
<1>7. ASSUME NEW n \in Node, NEW m \in Node,
             \/ HandleHello(n, m) \/ HandleDigest(n, m) \/ HandlePull(n, m)
             \/ Dial(n, m) \/ Break(n, m) \/ Disconnect(n, m)
             \/ \E e \in EventId : ServePull(n, m, e)
      PROVE  UNCHANGED <<seenEvents, rumored, applying>>
  BY <1>7 DEF HandleHello, HandleDigest, HandlePull, Dial, Break, Disconnect, ServePull
<1>8. CASE UNCHANGED vars
  BY <1>8 DEF vars
<1>9. ASSUME NEW n \in Node, NEW w \in Node, NEW e \in EventId,
             Bus!Publish(n, w, e) \/ Bus!Deliver(n, w, e) \/ Bus!Apply(n, w, e)
      PROVE  Bus!Next
  BY <1>9 DEF Bus!Next
<1>10. ASSUME NEW n \in Node, Bus!Die(n) PROVE Bus!Next
  BY <1>10 DEF Bus!Next
<1> QED BY <1>1, <1>2, <1>3, <1>4, <1>5, <1>6, <1>7, <1>8, <1>9, <1>10 DEF Next, HandlePeer

\* The gossip layer implements the event bus: over whatever links, duplicates,
\* pulls, evictions and restarts it travels, a node only takes in events their
\* origin has rumored, none while it remembers it, applies what it took in once,
\* and forgets exactly one id per new one when its log is full.
THEOREM GossipImplementsBus == Spec => ImplementsBus
<1>1. Init => Bus!Init
  BY DEF Init, Bus!Init
<1>2. Init => Provenance
  BY DEF Init, Provenance, Vouched
<1> QED BY <1>1, <1>2, Invariance, ProvenanceStep, BusStep, PTL DEF Spec, ImplementsBus, Bus!Spec
=============================================================================
