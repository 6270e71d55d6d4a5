---------------------------- MODULE GossipProofs ----------------------------
(***************************************************************************)
(* Theorems about Gossip, for every set of nodes, every topology, every    *)
(* set of events and every log capacity.                                   *)
(***************************************************************************)
EXTENDS Gossip, TLAPS

(***************************************************************************)
(* The inductive invariant.  LogConsistent alone is inductive, but what it *)
(* says about re-application is not: the exact balance of accepted and     *)
(* evicted is.  HelloFirst is inductive once it also says that the HELLO   *)
(* is still there to be read.                                              *)
(***************************************************************************)
LogTypes ==
    /\ seenEvents \in [Node -> SUBSET EventId]
    /\ eventLog \in [Node -> SUBSET EventId]
    /\ recentEventIds \in [Node -> Seq(EventId)]
    /\ accepted \in [Node -> [EventId -> Nat]]
    /\ evicted \in [Node -> [EventId -> Nat]]

Balance ==
    \A n \in Node, e \in EventId :
        accepted[n][e] = evicted[n][e] + (IF e \in seenEvents[n] THEN 1 ELSE 0)

HelloPending ==
    \A n, m \in Node :
        link[n][m] = "hello" => chan[m][n] # <<>> /\ Head(chan[m][n]) = Hello

IInv ==
    /\ TypeOK
    /\ LogConsistent
    /\ Balance
    /\ OneConnectionPerEdge
    /\ HelloPending

Distinct(q) == \A i, j \in 1..Len(q) : q[i] = q[j] => i = j

-----------------------------------------------------------------------------
(***************************************************************************)
(* Sequences without repetition.                                           *)
(***************************************************************************)

\* push_back of a new id keeps recentEventIds free of repetitions and adds
\* exactly that id.
LEMMA AppendDistinct ==
    ASSUME NEW S, NEW q \in Seq(S), NEW e \in S, Distinct(q), e \notin Range(q)
    PROVE  /\ Append(q, e) \in Seq(S)
           /\ Len(Append(q, e)) = Len(q) + 1
           /\ Distinct(Append(q, e))
           /\ Range(Append(q, e)) = Range(q) \cup {e}
<1> DEFINE a == Append(q, e)
<1>1. /\ a \in Seq(S) /\ Len(a) = Len(q) + 1
      /\ \A i \in 1..Len(q) : a[i] = q[i]
      /\ a[Len(q) + 1] = e
      /\ Len(q) \in Nat
  OBVIOUS
<1>2. DOMAIN a = 1..(Len(q) + 1) /\ DOMAIN q = 1..Len(q)
  OBVIOUS
<1>3. \A i \in 1..Len(q) : q[i] # e
  BY <1>2 DEF Range
<1> HIDE DEF a
<1>4. Distinct(a)
  BY <1>1, <1>3 DEF Distinct
<1>5. Range(a) = Range(q) \cup {e}
  BY <1>1, <1>2 DEF Range
<1> QED BY <1>1, <1>4, <1>5 DEF a

\* pop_front removes exactly the oldest id.
LEMMA TailDistinct ==
    ASSUME NEW S, NEW q \in Seq(S), q # <<>>, Distinct(q)
    PROVE  /\ Tail(q) \in Seq(S)
           /\ Len(Tail(q)) = Len(q) - 1
           /\ Distinct(Tail(q))
           /\ Range(Tail(q)) = Range(q) \ {Head(q)}
<1> DEFINE t == Tail(q)
<1>1. /\ t \in Seq(S) /\ Len(t) = Len(q) - 1 /\ Len(q) \in Nat /\ Len(q) > 0
      /\ \A i \in 1..Len(t) : t[i] = q[i + 1]
      /\ Head(q) = q[1]
  OBVIOUS
<1>2. DOMAIN t = 1..Len(t) /\ DOMAIN q = 1..Len(q)
  OBVIOUS
<1> HIDE DEF t
<1>3. Distinct(t)
  <2> SUFFICES ASSUME NEW i \in 1..Len(t), NEW j \in 1..Len(t), t[i] = t[j]
               PROVE  i = j
    BY DEF Distinct
  <2>1. i + 1 \in 1..Len(q) /\ j + 1 \in 1..Len(q) /\ q[i + 1] = q[j + 1]
    BY <1>1
  <2> QED BY <2>1, <1>1 DEF Distinct
<1>4. \A x : x \in Range(t) <=> x \in Range(q) /\ x # Head(q)
  <2> TAKE x
  <2>1. ASSUME x \in Range(t) PROVE x \in Range(q) /\ x # Head(q)
    <3>1. PICK i \in 1..Len(t) : t[i] = x
      BY <2>1, <1>2 DEF Range
    <3>2. i + 1 \in 1..Len(q) /\ x = q[i + 1] /\ 1 \in 1..Len(q) /\ i + 1 # 1
      BY <3>1, <1>1
    <3> QED BY <3>2, <1>1, <1>2 DEF Range, Distinct
  <2>2. ASSUME x \in Range(q), x # Head(q) PROVE x \in Range(t)
    <3>1. PICK i \in 1..Len(q) : q[i] = x
      BY <2>2, <1>2 DEF Range
    <3>2. i # 1
      BY <3>1, <2>2, <1>1
    <3>3. i - 1 \in 1..Len(t) /\ (i - 1) + 1 = i
      BY <3>2, <1>1
    <3>4. t[i - 1] = x
      BY <3>3, <3>1, <1>1
    <3> QED BY <3>3, <3>4, <1>2 DEF Range
  <2> QED BY <2>1, <2>2
<1> QED BY <1>1, <1>3, <1>4 DEF t

-----------------------------------------------------------------------------
(***************************************************************************)
(* Accepting an event.                                                     *)
(***************************************************************************)

\* One critical section of seenMutex (insert, push_back, and pop_front with
\* both erases when the log is full) keeps the log consistent and the
\* balance of accepted and evicted exact.
LEMMA RememberPreserves ==
    ASSUME LogTypes, LogConsistent, Balance,
           NEW n \in Node, NEW e \in EventId, e \notin seenEvents[n],
           RememberEvent(n, e)
    PROVE  /\ LogTypes' /\ LogConsistent' /\ Balance'
           /\ \A k \in Node \ {n} : seenEvents'[k] = seenEvents[k]
<1> DEFINE q == recentEventIds[n]
           old == Evictee(n)
           r == IF old = {} THEN Append(q, e) ELSE Tail(Append(q, e))
<1>0. /\ q \in Seq(EventId) /\ seenEvents[n] = eventLog[n]
      /\ seenEvents[n] = Range(q) /\ Distinct(q) /\ Len(q) <= MAX_EVENT_LOG
      /\ MAX_EVENT_LOG \in Nat \ {0}
  BY BoundAssumption DEF LogTypes, LogConsistent, Distinct
<1>1. /\ recentEventIds' = [recentEventIds EXCEPT ![n] = r]
      /\ eventLog' = [eventLog EXCEPT ![n] = (@ \cup {e}) \ old]
      /\ seenEvents' = [seenEvents EXCEPT ![n] = (@ \cup {e}) \ old]
      /\ accepted' = [accepted EXCEPT ![n][e] = @ + 1]
      /\ evicted' = [evicted EXCEPT ![n] =
                       [x \in EventId |-> @[x] + IF x \in old THEN 1 ELSE 0]]
  BY DEF RememberEvent
<1>2. /\ Append(q, e) \in Seq(EventId) /\ Len(Append(q, e)) = Len(q) + 1
      /\ Distinct(Append(q, e)) /\ Range(Append(q, e)) = Range(q) \cup {e}
  BY <1>0, AppendDistinct
<1>3. /\ r \in Seq(EventId) /\ Distinct(r) /\ Len(r) <= MAX_EVENT_LOG
      /\ Range(r) = (Range(q) \cup {e}) \ old
      /\ old \subseteq seenEvents[n]
  <2>1. CASE Len(q) < MAX_EVENT_LOG
    <3>1. old = {}
      BY <2>1 DEF Evictee
    <3>2. r = Append(q, e)
      BY <3>1
    <3> QED BY <3>1, <3>2, <2>1, <1>0, <1>2
  <2>2. CASE ~(Len(q) < MAX_EVENT_LOG)
    <3>1. old = {Head(q)}
      BY <2>2 DEF Evictee
    <3>2. q # <<>> /\ Append(q, e) # <<>> /\ Head(Append(q, e)) = Head(q)
      BY <2>2, <1>0
    <3>3. /\ Tail(Append(q, e)) \in Seq(EventId)
          /\ Len(Tail(Append(q, e))) = Len(q)
          /\ Distinct(Tail(Append(q, e)))
          /\ Range(Tail(Append(q, e))) = (Range(q) \cup {e}) \ {Head(q)}
      <4> DEFINE a == Append(q, e)
      <4>1. /\ a \in Seq(EventId) /\ a # <<>> /\ Distinct(a)
            /\ Len(a) = Len(q) + 1 /\ Len(q) \in Nat
            /\ Range(a) = Range(q) \cup {e} /\ Head(a) = Head(q)
        BY <1>0, <1>2, <3>2
      <4> HIDE DEF a, q
      <4>2. /\ Tail(a) \in Seq(EventId) /\ Len(Tail(a)) = Len(a) - 1
            /\ Distinct(Tail(a)) /\ Range(Tail(a)) = Range(a) \ {Head(a)}
        BY <4>1, TailDistinct
      <4>3. Len(Tail(a)) = Len(q)
        BY <4>1, <4>2
      <4> QED BY <4>1, <4>2, <4>3 DEF a
    <3>4. Head(q) \in Range(q)
      BY <3>2, <1>0 DEF Range
    <3>5. r = Tail(Append(q, e))
      BY <3>1
    <3> HIDE DEF r, old
    <3> QED BY <3>1, <3>3, <3>4, <3>5, <1>0
  <2> QED BY <2>1, <2>2
<1>4. e \notin old
  BY <1>3
<1> HIDE DEF q, old, r
<1>5. LogTypes'
  <2>1. /\ seenEvents' \in [Node -> SUBSET EventId]
        /\ eventLog' \in [Node -> SUBSET EventId]
    BY <1>1 DEF LogTypes
  <2>2. recentEventIds' \in [Node -> Seq(EventId)]
    BY <1>1, <1>3 DEF LogTypes
  <2>3. accepted' \in [Node -> [EventId -> Nat]]
    BY <1>1 DEF LogTypes
  <2>4. evicted' \in [Node -> [EventId -> Nat]]
    BY <1>1 DEF LogTypes
  <2> QED BY <2>1, <2>2, <2>3, <2>4 DEF LogTypes
<1>6. LogConsistent'
  <2> SUFFICES ASSUME NEW k \in Node
               PROVE  /\ seenEvents'[k] = eventLog'[k]
                      /\ seenEvents'[k] = Range(recentEventIds'[k])
                      /\ Distinct(recentEventIds'[k])
                      /\ Len(recentEventIds'[k]) <= MAX_EVENT_LOG
    BY DEF LogConsistent, Distinct
  <2>1. CASE k = n
    <3>1. /\ recentEventIds'[n] = r
          /\ seenEvents'[n] = (seenEvents[n] \cup {e}) \ old
          /\ eventLog'[n] = (eventLog[n] \cup {e}) \ old
      BY <1>1 DEF LogTypes
    <3> QED BY <2>1, <3>1, <1>0, <1>3
  <2>2. CASE k # n
    <3>1. /\ recentEventIds'[k] = recentEventIds[k]
          /\ seenEvents'[k] = seenEvents[k] /\ eventLog'[k] = eventLog[k]
      BY <2>2, <1>1 DEF LogTypes
    <3> QED BY <3>1 DEF LogConsistent, Distinct
  <2> QED BY <2>1, <2>2
<1>7. Balance'
  <2> SUFFICES ASSUME NEW k \in Node, NEW x \in EventId
               PROVE  accepted'[k][x] = evicted'[k][x]
                        + (IF x \in seenEvents'[k] THEN 1 ELSE 0)
    BY DEF Balance
  <2>1. CASE k # n
    <3>1. accepted'[k] = accepted[k] /\ evicted'[k] = evicted[k]
          /\ seenEvents'[k] = seenEvents[k]
      BY <2>1, <1>1 DEF LogTypes
    <3> QED BY <3>1 DEF Balance
  <2>2. CASE k = n
    <3>1. /\ accepted'[n][x] = accepted[n][x] + (IF x = e THEN 1 ELSE 0)
          /\ evicted'[n][x] = evicted[n][x] + (IF x \in old THEN 1 ELSE 0)
          /\ accepted[n][x] \in Nat /\ evicted[n][x] \in Nat
      BY <1>1 DEF LogTypes
    <3>2. x \in seenEvents'[n] <=> (x \in seenEvents[n] \/ x = e) /\ x \notin old
      BY <1>1 DEF LogTypes
    <3>3. accepted[n][x] = evicted[n][x] + (IF x \in seenEvents[n] THEN 1 ELSE 0)
      BY DEF Balance
    <3> QED BY <2>2, <3>1, <3>2, <3>3, <1>3, <1>4
  <2> QED BY <2>1, <2>2
<1>8. \A k \in Node \ {n} : seenEvents'[k] = seenEvents[k]
  BY <1>1 DEF LogTypes
<1> QED BY <1>5, <1>6, <1>7, <1>8
-----------------------------------------------------------------------------
(***************************************************************************)
(* Packets and channels.                                                   *)
(***************************************************************************)

\* Updating one entry of a two-level table (link, chan, serving).
LEMMA TableUpdate ==
    ASSUME NEW A, NEW V, NEW f \in [A -> [A -> V]],
           NEW a \in A, NEW b \in A, NEW v \in V,
           NEW g, g = [f EXCEPT ![a][b] = v]
    PROVE  /\ g \in [A -> [A -> V]]
           /\ \A k, l \in A : g[k][l] = IF k = a /\ l = b THEN v ELSE f[k][l]
OBVIOUS

\* The same for the two directions of an edge.
LEMMA EdgeUpdate ==
    ASSUME NEW A, NEW V, NEW f \in [A -> [A -> V]],
           NEW a \in A, NEW b \in A, NEW v \in V,
           NEW g, g = [f EXCEPT ![a][b] = v, ![b][a] = v]
    PROVE  /\ g \in [A -> [A -> V]]
           /\ \A k, l \in A :
                 g[k][l] = IF <<k, l>> \in {<<a, b>>, <<b, a>>} THEN v
                           ELSE f[k][l]
OBVIOUS

ChanTypes == chan \in [Node -> [Node -> Seq(Packet)]]

\* What a handler reads is a packet of the kind it looks at.
LEMMA ReadsTyped ==
    ASSUME ChanTypes, NEW n \in Node, NEW m \in Node, NEW t, Reads(n, m, t)
    PROVE  /\ Consume(n, m) \in [Node -> [Node -> Seq(Packet)]]
           /\ Head(chan[m][n]) \in Packet /\ Head(chan[m][n]).type = t
           /\ chan[m][n] # <<>>
<1>1. chan[m][n] \in Seq(Packet) /\ chan[m][n] # <<>>
  BY DEF ChanTypes, Reads
<1>2. Tail(chan[m][n]) \in Seq(Packet) /\ Head(chan[m][n]) \in Packet
  BY <1>1
<1>3. Consume(n, m) \in [Node -> [Node -> Seq(Packet)]]
  BY <1>2 DEF Consume, ChanTypes
<1> QED BY <1>1, <1>2, <1>3 DEF Reads

\* The fields of a packet by its type.
LEMMA PacketFields ==
    ASSUME NEW p \in Packet
    PROVE  /\ p.type = "EVENT" => p.id \in EventId
           /\ p.type \in {"DIGEST", "PULL"} => p.ids \in SUBSET EventId
BY DEF Packet, Hello

\* The packets the actions send.
LEMMA PacketsMade ==
    /\ Hello \in Packet
    /\ \A e \in EventId : Event(e) \in Packet
    /\ \A ids \in SUBSET EventId : Digest(ids) \in Packet /\ Pull(ids) \in Packet
BY DEF Packet, Hello, Event, Digest, Pull

\* A HELLO that waits at the head of a channel stays there while the channel
\* only grows and its reader stays unregistered.
LEMMA HelloKept ==
    ASSUME ChanTypes, HelloPending,
           \A k, l \in Node : link'[l][k] = "hello" =>
               /\ link[l][k] = "hello"
               /\ \/ chan'[k][l] = chan[k][l]
                  \/ \E p \in Packet : chan'[k][l] = Append(chan[k][l], p)
    PROVE  HelloPending'
<1> SUFFICES ASSUME NEW l \in Node, NEW k \in Node, link'[l][k] = "hello"
             PROVE  chan'[k][l] # <<>> /\ Head(chan'[k][l]) = Hello
  BY DEF HelloPending
<1>1. /\ chan[k][l] \in Seq(Packet) /\ chan[k][l] # <<>>
      /\ Head(chan[k][l]) = Hello
  BY DEF ChanTypes, HelloPending
<1>2. CASE chan'[k][l] = chan[k][l]
  BY <1>1, <1>2
<1>3. ASSUME NEW p \in Packet, chan'[k][l] = Append(chan[k][l], p)
      PROVE  chan'[k][l] # <<>> /\ Head(chan'[k][l]) = Hello
  BY <1>1, <1>3
<1> QED BY <1>2, <1>3

\* Writing one packet to a set of peers.
LEMMA SendToAllTyped ==
    ASSUME ChanTypes, NEW n \in Node, NEW to, NEW p \in Packet,
           SendToAll(n, to, p)
    PROVE  /\ ChanTypes'
           /\ \A k, l \in Node : \/ chan'[k][l] = chan[k][l]
                                  \/ chan'[k][l] = Append(chan[k][l], p)
<1>1. \A k, l \in Node : chan[k][l] \in Seq(Packet) /\ Append(chan[k][l], p) \in Seq(Packet)
  BY DEF ChanTypes
<1> QED BY <1>1 DEF SendToAll, ChanTypes
-----------------------------------------------------------------------------
(***************************************************************************)
(* The invariant is inductive.                                             *)
(***************************************************************************)

\* The log part of the invariant only depends on the variables of the log.
LEMMA LogUnchanged ==
    ASSUME IInv, UNCHANGED logVars
    PROVE  LogTypes' /\ LogConsistent' /\ Balance'
<1>1. LogTypes /\ LogConsistent /\ Balance
  BY DEF IInv, TypeOK, LogTypes
<1>2. /\ seenEvents' = seenEvents /\ eventLog' = eventLog
      /\ recentEventIds' = recentEventIds
      /\ accepted' = accepted /\ evicted' = evicted
  BY DEF logVars
<1> QED BY <1>1, <1>2 DEF LogTypes, LogConsistent, Balance

\* A process that is not running holds no event.
DownEmpty == \A n \in Node : ~up[n] => seenEvents[n] = {} /\ applying[n] = {}

\* The invariant taken apart, in the form the steps below use.
LEMMA Disassemble ==
    ASSUME IInv
    PROVE  /\ LogTypes /\ LogConsistent /\ Balance /\ OneConnectionPerEdge
           /\ HelloPending /\ DownEmpty /\ ChanTypes
           /\ up \in [Node -> BOOLEAN]
           /\ link \in [Node -> [Node -> LinkState]]
           /\ serving \in [Node -> [Node -> SUBSET EventId]]
           /\ applying \in [Node -> SUBSET (Node \X EventId)]
           /\ rumored \subseteq EventId /\ breaks \in Nat /\ crashes \in Nat
BY DEF IInv, TypeOK, LogTypes, DownEmpty, ChanTypes

\* A handler that reads an event, a digest or a request is past the HELLO, so
\* taking that packet off the channel disturbs no pending HELLO.
LEMMA HelloNotConsumed ==
    ASSUME ChanTypes, HelloPending, UNCHANGED link,
           NEW n \in Node, NEW m \in Node, NEW t, t # "HELLO", Reads(n, m, t),
           chan' = Consume(n, m)
    PROVE  HelloPending'
<1>1. link[n][m] # "hello"
  BY DEF Reads, HelloPending, Hello
<1>2. \A k, l \in Node : link'[l][k] = "hello" =>
          link[l][k] = "hello" /\ chan'[k][l] = chan[k][l]
  BY <1>1 DEF Consume, ChanTypes
<1> QED BY <1>2, HelloKept


\* Every step of the specification preserves the invariant.
LEMMA InductiveStep == IInv /\ [Next]_vars => IInv'
<1> SUFFICES ASSUME IInv, [Next]_vars
             PROVE  IInv'
  OBVIOUS
<1>0. /\ LogTypes /\ LogConsistent /\ Balance /\ OneConnectionPerEdge
      /\ HelloPending /\ DownEmpty /\ ChanTypes
      /\ up \in [Node -> BOOLEAN]
      /\ link \in [Node -> [Node -> LinkState]]
      /\ serving \in [Node -> [Node -> SUBSET EventId]]
      /\ applying \in [Node -> SUBSET (Node \X EventId)]
      /\ rumored \subseteq EventId /\ breaks \in Nat /\ crashes \in Nat
  BY Disassemble
<1>1. ASSUME NEW n \in Node, NEW e \in EventId, Rumor(n, e)
      PROVE  IInv'
  <2>1. /\ up[n] /\ e \notin seenEvents[n] /\ RememberEvent(n, e)
        /\ rumored' = rumored \cup {e}
        /\ applying' = [applying EXCEPT ![n] = @ \cup {<<n, e>>}]
        /\ UNCHANGED <<up, link, chan, serving, breaks, crashes>>
    BY <1>1 DEF Rumor, StartApply, linkVars
  <2>2. /\ LogTypes' /\ LogConsistent' /\ Balance'
        /\ \A k \in Node \ {n} : seenEvents'[k] = seenEvents[k]
    BY <1>0, <2>1, RememberPreserves
  <2>3. OneConnectionPerEdge' /\ HelloPending'
    BY <1>0, <2>1 DEF OneConnectionPerEdge, HelloPending, Open
  <2>4. applying' \in [Node -> SUBSET (Node \X EventId)]
    BY <1>0, <2>1
  <2>5. DownEmpty'
    BY <1>0, <2>1, <2>2 DEF DownEmpty
  <2> QED BY <1>0, <2>1, <2>2, <2>3, <2>4, <2>5 DEF IInv, TypeOK, LogTypes, DownEmpty, ChanTypes
<1>2. ASSUME NEW n \in Node, NEW e \in EventId, FinishRumor(n, e)
      PROVE  IInv'
  <2>1. /\ applying' = [applying EXCEPT ![n] = @ \ {<<n, e>>}]
        /\ SendToAll(n, LivePeers(n), Event(e))
        /\ UNCHANGED <<up, link, serving, logVars, rumored, breaks, crashes>>
    BY <1>2 DEF FinishRumor
  <2>2. LogTypes' /\ LogConsistent' /\ Balance'
    BY <2>1, LogUnchanged
  <2>3. /\ ChanTypes'
        /\ \A k, l \in Node : \/ chan'[k][l] = chan[k][l]
                              \/ chan'[k][l] = Append(chan[k][l], Event(e))
    BY <1>0, <2>1, SendToAllTyped, PacketsMade
  <2>4. HelloPending'
    BY <1>0, <2>1, <2>3, HelloKept, PacketsMade
  <2>5. OneConnectionPerEdge'
    BY <1>0, <2>1 DEF OneConnectionPerEdge, Open
  <2>6. applying' \in [Node -> SUBSET (Node \X EventId)]
    BY <1>0, <2>1
  <2>7. DownEmpty'
    BY <1>0, <2>1 DEF DownEmpty, logVars
  <2> QED BY <1>0, <2>1, <2>2, <2>3, <2>4, <2>5, <2>6, <2>7 DEF IInv, TypeOK, LogTypes, DownEmpty, ChanTypes
<1>3. ASSUME NEW n \in Node, NEW m \in Node, HandleHello(n, m)
      PROVE  IInv'
  <2>1. /\ Reads(n, m, "HELLO") /\ chan' = Consume(n, m)
        /\ link' = [link EXCEPT ![n][m] = "registered"]
        /\ UNCHANGED <<up, serving, logVars, applying, rumored, breaks, crashes>>
    BY <1>3 DEF HandleHello
  <2>2. LogTypes' /\ LogConsistent' /\ Balance'
    BY <2>1, LogUnchanged
  <2>3. ChanTypes'
    BY <1>0, <2>1, ReadsTyped DEF ChanTypes
  <2>4. link' \in [Node -> [Node -> LinkState]]
    BY <1>0, <2>1 DEF LinkState
  <2>5. OneConnectionPerEdge'
    BY <1>0, <2>1 DEF OneConnectionPerEdge, Open, Reads
  <2>6. \A k, l \in Node : link'[l][k] = "hello" =>
            link[l][k] = "hello" /\ chan'[k][l] = chan[k][l]
    BY <1>0, <2>1 DEF Consume, ChanTypes
  <2>7. HelloPending'
    BY <1>0, <2>6, HelloKept
  <2>8. DownEmpty'
    BY <1>0, <2>1 DEF DownEmpty, logVars
  <2> QED BY <1>0, <2>1, <2>2, <2>3, <2>4, <2>5, <2>7, <2>8 DEF IInv, TypeOK, LogTypes, DownEmpty, ChanTypes
<1>4. ASSUME NEW n \in Node, NEW m \in Node, HandleEvent(n, m)
      PROVE  IInv'
  <2> DEFINE e == Head(chan[m][n]).id
  <2>1. /\ Reads(n, m, "EVENT") /\ chan' = Consume(n, m)
        /\ UNCHANGED <<up, link, serving, rumored, breaks, crashes>>
        /\ \/ /\ e \notin seenEvents[n] /\ RememberEvent(n, e)
              /\ applying' = [applying EXCEPT ![n] = @ \cup {<<m, e>>}]
           \/ UNCHANGED <<logVars, applying>>
    BY <1>4 DEF HandleEvent, StartApply
  <2>2. e \in EventId /\ ChanTypes'
    BY <1>0, <2>1, ReadsTyped, PacketFields DEF ChanTypes
  <2>3. up[n]
    BY <2>1 DEF Reads
  <2>4. HelloPending'
    BY <1>0, <2>1, HelloNotConsumed
  <2>5. OneConnectionPerEdge'
    BY <1>0, <2>1 DEF OneConnectionPerEdge, Open
  <2> HIDE DEF e
  <2>6. CASE UNCHANGED <<logVars, applying>>
    <3>1. LogTypes' /\ LogConsistent' /\ Balance'
      BY <2>6, LogUnchanged
    <3>2. DownEmpty'
      BY <1>0, <2>1, <2>6 DEF DownEmpty, logVars
    <3> QED BY <1>0, <2>1, <2>2, <2>4, <2>5, <2>6, <3>1, <3>2 DEF IInv, TypeOK, LogTypes, DownEmpty, ChanTypes
  <2>7. CASE /\ e \notin seenEvents[n] /\ RememberEvent(n, e)
             /\ applying' = [applying EXCEPT ![n] = @ \cup {<<m, e>>}]
    <3>1. /\ LogTypes' /\ LogConsistent' /\ Balance'
          /\ \A k \in Node \ {n} : seenEvents'[k] = seenEvents[k]
      BY <1>0, <2>2, <2>7, RememberPreserves
    <3>2. applying' \in [Node -> SUBSET (Node \X EventId)]
      BY <1>0, <2>2, <2>7
    <3>3. DownEmpty'
      BY <1>0, <2>1, <2>3, <2>7, <3>1 DEF DownEmpty
    <3> QED BY <1>0, <2>1, <2>2, <2>4, <2>5, <3>1, <3>2, <3>3 DEF IInv, TypeOK, LogTypes, DownEmpty, ChanTypes
  <2> QED BY <2>1, <2>6, <2>7
<1>5. ASSUME NEW n \in Node, NEW m \in Node, NEW e \in EventId, ApplyEvent(n, m, e)
      PROVE  IInv'
  <2>1. /\ applying' = [applying EXCEPT ![n] = @ \ {<<m, e>>}]
        /\ UNCHANGED <<up, link, chan, serving, logVars, rumored, breaks, crashes>>
    BY <1>5 DEF ApplyEvent, linkVars
  <2>2. LogTypes' /\ LogConsistent' /\ Balance'
    BY <2>1, LogUnchanged
  <2>3. OneConnectionPerEdge' /\ HelloPending'
    BY <1>0, <2>1 DEF OneConnectionPerEdge, HelloPending, Open
  <2>4. applying' \in [Node -> SUBSET (Node \X EventId)]
    BY <1>0, <2>1
  <2>5. DownEmpty'
    BY <1>0, <2>1 DEF DownEmpty, logVars
  <2> QED BY <1>0, <2>1, <2>2, <2>3, <2>4, <2>5 DEF IInv, TypeOK, LogTypes, DownEmpty, ChanTypes
<1>6. ASSUME NEW n \in Node, NEW m \in Node, HandleDigest(n, m)
      PROVE  IInv'
  <2> DEFINE missing == Head(chan[m][n]).ids \ seenEvents[n]
  <2>1. /\ Reads(n, m, "DIGEST")
        /\ \/ chan' = Consume(n, m)
           \/ chan' = [Consume(n, m) EXCEPT ![n][m] = Append(@, Pull(missing))]
        /\ UNCHANGED <<up, link, serving, logVars, applying, rumored, breaks, crashes>>
    BY <1>6 DEF HandleDigest
  <2>2. LogTypes' /\ LogConsistent' /\ Balance'
    BY <2>1, LogUnchanged
  <2>3. /\ Consume(n, m) \in [Node -> [Node -> Seq(Packet)]]
        /\ Pull(missing) \in Packet
    BY <1>0, <2>1, ReadsTyped, PacketFields, PacketsMade
  <2>4. link[n][m] # "hello"
    BY <1>0, <2>1 DEF Reads, HelloPending, Hello
  <2> HIDE DEF missing
  <2>5. ChanTypes' /\ HelloPending'
    <3>1. ChanTypes'
      <4>1. Append(Consume(n, m)[n][m], Pull(missing)) \in Seq(Packet)
        BY <2>3
      <4>2. [Consume(n, m) EXCEPT ![n][m] = Append(@, Pull(missing))]
              \in [Node -> [Node -> Seq(Packet)]]
        BY <2>3, <4>1, TableUpdate
      <4> QED BY <2>1, <2>3, <4>2 DEF ChanTypes
    <3>2. \A k, l \in Node : link'[l][k] = "hello" =>
              /\ link[l][k] = "hello"
              /\ \/ chan'[k][l] = chan[k][l]
                 \/ \E p \in Packet : chan'[k][l] = Append(chan[k][l], p)
      <4> SUFFICES ASSUME NEW k \in Node, NEW l \in Node, link[l][k] = "hello"
                   PROVE  \/ chan'[k][l] = chan[k][l]
                          \/ chan'[k][l] = Append(chan[k][l], Pull(missing))
        BY <2>1, <2>3
      <4>1. Consume(n, m)[k][l] = chan[k][l]
        BY <1>0, <2>4 DEF Consume, ChanTypes
      <4>2. CASE chan' = Consume(n, m)
        BY <4>1, <4>2
      <4>3. CASE chan' = [Consume(n, m) EXCEPT ![n][m] = Append(@, Pull(missing))]
        BY <4>1, <4>3, <2>3
      <4> QED BY <2>1, <4>2, <4>3
    <3> QED BY <1>0, <3>1, <3>2, HelloKept
  <2>6. OneConnectionPerEdge'
    BY <1>0, <2>1 DEF OneConnectionPerEdge, Open
  <2>7. DownEmpty'
    BY <1>0, <2>1 DEF DownEmpty, logVars
  <2> QED BY <1>0, <2>1, <2>2, <2>5, <2>6, <2>7 DEF IInv, TypeOK, LogTypes, DownEmpty, ChanTypes
<1>7. ASSUME NEW n \in Node, NEW m \in Node, HandlePull(n, m)
      PROVE  IInv'
  <2> DEFINE ids == IF Registered(n, m) THEN Head(chan[m][n]).ids ELSE {}
  <2>1. /\ Reads(n, m, "PULL") /\ chan' = Consume(n, m)
        /\ serving' = [serving EXCEPT ![n][m] = ids]
        /\ UNCHANGED <<up, link, logVars, applying, rumored, breaks, crashes>>
    BY <1>7 DEF HandlePull
  <2>2. LogTypes' /\ LogConsistent' /\ Balance'
    BY <2>1, LogUnchanged
  <2>3. ids \in SUBSET EventId /\ ChanTypes'
    BY <1>0, <2>1, ReadsTyped, PacketFields DEF ChanTypes
  <2> HIDE DEF ids
  <2>4. serving' \in [Node -> [Node -> SUBSET EventId]]
    BY <1>0, <2>1, <2>3
  <2>5. HelloPending'
    BY <1>0, <2>1, HelloNotConsumed
  <2>6. OneConnectionPerEdge'
    BY <1>0, <2>1 DEF OneConnectionPerEdge, Open
  <2>7. DownEmpty'
    BY <1>0, <2>1 DEF DownEmpty, logVars
  <2> QED BY <1>0, <2>1, <2>2, <2>3, <2>4, <2>5, <2>6, <2>7 DEF IInv, TypeOK, LogTypes, DownEmpty, ChanTypes
<1>8. ASSUME NEW n \in Node, NEW m \in Node, NEW e \in EventId, ServePull(n, m, e)
      PROVE  IInv'
  <2>1. /\ serving' = [serving EXCEPT ![n][m] = @ \ {e}]
        /\ \/ chan' = chan
           \/ chan' = [chan EXCEPT ![n][m] = Append(@, Event(e))]
        /\ UNCHANGED <<up, link, logVars, applying, rumored, breaks, crashes>>
    BY <1>8 DEF ServePull
  <2>2. LogTypes' /\ LogConsistent' /\ Balance'
    BY <2>1, LogUnchanged
  <2>3. Event(e) \in Packet
    BY PacketsMade
  <2>4. Append(chan[n][m], Event(e)) \in Seq(Packet)
    BY <1>0, <2>3 DEF ChanTypes
  <2>5. /\ ChanTypes'
        /\ \A k, l \in Node : \/ chan'[k][l] = chan[k][l]
                              \/ chan'[k][l] = Append(chan[k][l], Event(e))
    <3> DEFINE v == Append(chan[n][m], Event(e))
               g == [chan EXCEPT ![n][m] = v]
    <3>1. /\ g \in [Node -> [Node -> Seq(Packet)]]
          /\ \A k, l \in Node : g[k][l] = IF k = n /\ l = m THEN v ELSE chan[k][l]
      <4> HIDE DEF v
      <4> QED BY <1>0, <2>4, TableUpdate DEF ChanTypes, v
    <3>2. chan' = chan \/ chan' = g
      BY <2>1
    <3> HIDE DEF g
    <3> QED BY <1>0, <3>1, <3>2 DEF ChanTypes
  <2>6. HelloPending'
    BY <1>0, <2>1, <2>3, <2>5, HelloKept
  <2>7. serving' \in [Node -> [Node -> SUBSET EventId]]
    BY <1>0, <2>1
  <2>8. OneConnectionPerEdge'
    BY <1>0, <2>1 DEF OneConnectionPerEdge, Open
  <2>9. DownEmpty'
    BY <1>0, <2>1 DEF DownEmpty, logVars
  <2> QED BY <1>0, <2>1, <2>2, <2>5, <2>6, <2>7, <2>8, <2>9 DEF IInv, TypeOK, LogTypes, DownEmpty, ChanTypes
<1>9. ASSUME NEW n \in Node, AntiEntropy(n)
      PROVE  IInv'
  <2> DEFINE to == {m \in LivePeers(n) : Registered(n, m) /\ ~RoundInFlight(n, m)}
             ids == Range(recentEventIds[n])
  <2>1. /\ SendToAll(n, to, Digest(ids))
        /\ UNCHANGED <<up, link, serving, logVars, applying, rumored, breaks, crashes>>
    BY <1>9 DEF AntiEntropy
  <2>2. LogTypes' /\ LogConsistent' /\ Balance'
    BY <2>1, LogUnchanged
  <2>3. Digest(ids) \in Packet
    <3>1. ids \in SUBSET EventId
      BY <1>0 DEF LogConsistent, LogTypes
    <3> QED BY <3>1, PacketsMade
  <2> HIDE DEF to, ids
  <2>4. /\ ChanTypes'
        /\ \A k, l \in Node : \/ chan'[k][l] = chan[k][l]
                              \/ chan'[k][l] = Append(chan[k][l], Digest(ids))
    BY <1>0, <2>1, <2>3, SendToAllTyped
  <2>5. HelloPending'
    BY <1>0, <2>1, <2>3, <2>4, HelloKept
  <2>6. OneConnectionPerEdge'
    BY <1>0, <2>1 DEF OneConnectionPerEdge, Open
  <2>7. DownEmpty'
    BY <1>0, <2>1 DEF DownEmpty, logVars
  <2> QED BY <1>0, <2>1, <2>2, <2>4, <2>5, <2>6, <2>7 DEF IInv, TypeOK, LogTypes, DownEmpty, ChanTypes
<1>10. ASSUME NEW n \in Node, NEW m \in Node, Dial(n, m)
       PROVE  IInv'
  <2>1. /\ link[n][m] = "none" /\ n # m
        /\ UNCHANGED <<up, serving, logVars, applying, rumored, breaks, crashes>>
    BY <1>10, NodeAssumption DEF Dial
  <2>2. LogTypes' /\ LogConsistent' /\ Balance'
    BY <2>1, LogUnchanged
  <2>3. DownEmpty'
    BY <1>0, <2>1 DEF DownEmpty, logVars
  <2>4. CASE /\ link[m][n] = "none"
             /\ link' = [link EXCEPT ![n][m] = "hello", ![m][n] = "hello"]
             /\ chan' = [chan EXCEPT ![n][m] = <<Hello>>, ![m][n] = <<Hello>>]
    <3>1. link' \in [Node -> [Node -> LinkState]]
      BY <1>0, <2>4 DEF LinkState
    <3>2. <<Hello>> \in Seq(Packet) /\ <<Hello>> # <<>> /\ Head(<<Hello>>) = Hello
      BY PacketsMade
    <3>3. /\ ChanTypes'
          /\ \A k, l \in Node :
                chan'[k][l] = IF <<k, l>> \in {<<n, m>>, <<m, n>>} THEN <<Hello>>
                              ELSE chan[k][l]
      <4> DEFINE h == <<Hello>>
      <4> DEFINE V == Seq(Packet)
      <4>1. /\ h \in V /\ chan \in [Node -> [Node -> V]]
            /\ chan' = [chan EXCEPT ![n][m] = h, ![m][n] = h]
        BY <1>0, <2>4, <3>2 DEF ChanTypes
      <4> HIDE DEF h, V
      <4>2. /\ chan' \in [Node -> [Node -> V]]
            /\ \A k, l \in Node :
                  chan'[k][l] = IF <<k, l>> \in {<<n, m>>, <<m, n>>} THEN h
                                ELSE chan[k][l]
        BY <4>1
      <4> QED BY <4>2 DEF ChanTypes, h, V
    <3>4. OneConnectionPerEdge'
      BY <1>0, <2>1, <2>4 DEF OneConnectionPerEdge, Open
    <3>5. HelloPending'
      <4> SUFFICES ASSUME NEW l \in Node, NEW k \in Node, link'[l][k] = "hello"
                   PROVE  chan'[k][l] # <<>> /\ Head(chan'[k][l]) = Hello
        BY DEF HelloPending
      <4>1. CASE <<k, l>> \in {<<n, m>>, <<m, n>>}
        BY <4>1, <3>2, <3>3
      <4>2. CASE <<k, l>> \notin {<<n, m>>, <<m, n>>}
        <5>1. chan'[k][l] = chan[k][l]
          BY <4>2, <3>3
        <5>2. ~(k = n /\ l = m) /\ ~(k = m /\ l = n)
          BY <4>2
        <5>3. link'[l][k] = link[l][k]
          BY <5>2, <1>0, <2>4
        <5> QED BY <5>1, <5>3, <1>0 DEF HelloPending
      <4> QED BY <4>1, <4>2
    <3> QED BY <1>0, <2>1, <2>2, <2>3, <3>1, <3>3, <3>4, <3>5 DEF IInv, TypeOK, LogTypes, DownEmpty, ChanTypes
  <2>5. CASE /\ link[m][n] # "none"
             /\ link' = [link EXCEPT ![n][m] = "broken"]
             /\ chan' = chan
    <3>1. link' \in [Node -> [Node -> LinkState]]
      BY <1>0, <2>5 DEF LinkState
    <3>2. OneConnectionPerEdge'
      BY <1>0, <2>1, <2>5 DEF OneConnectionPerEdge, Open
    <3>3. HelloPending' /\ ChanTypes'
      BY <1>0, <2>5 DEF HelloPending, ChanTypes
    <3> QED BY <1>0, <2>1, <2>2, <2>3, <3>1, <3>2, <3>3 DEF IInv, TypeOK, LogTypes, DownEmpty, ChanTypes
  <2> QED BY <1>10, <2>4, <2>5 DEF Dial
<1>11. ASSUME NEW n \in Node, NEW m \in Node, Break(n, m)
       PROVE  IInv'
  <2>1. /\ breaks' = breaks + 1
        /\ link' = [link EXCEPT ![n][m] = "broken", ![m][n] = "broken"]
        /\ chan' = [chan EXCEPT ![n][m] = <<>>, ![m][n] = <<>>]
        /\ serving' = [serving EXCEPT ![n][m] = {}, ![m][n] = {}]
        /\ UNCHANGED <<up, logVars, applying, rumored, crashes>>
    BY <1>11 DEF Break
  <2>2. LogTypes' /\ LogConsistent' /\ Balance'
    BY <2>1, LogUnchanged
  <2>3. /\ link' \in [Node -> [Node -> LinkState]]
        /\ serving' \in [Node -> [Node -> SUBSET EventId]]
        /\ breaks' \in Nat
    <3>1. "broken" \in LinkState /\ {} \in SUBSET EventId /\ breaks' \in Nat
      BY <1>0, <2>1 DEF LinkState
    <3>2. link' \in [Node -> [Node -> LinkState]]
      BY <1>0, <2>1, <3>1, EdgeUpdate
    <3>3. serving' \in [Node -> [Node -> SUBSET EventId]]
      BY <1>0, <2>1, <3>1, EdgeUpdate
    <3> QED BY <3>1, <3>2, <3>3
  <2>4. ChanTypes'
    <3>1. <<>> \in Seq(Packet)
      OBVIOUS
    <3> QED BY <1>0, <2>1, <3>1, EdgeUpdate DEF ChanTypes
  <2>5. OneConnectionPerEdge'
    BY <1>0, <2>1 DEF OneConnectionPerEdge, Open
  <2>6. \A k, l \in Node : link'[l][k] = "hello" =>
            link[l][k] = "hello" /\ chan'[k][l] = chan[k][l]
    BY <1>0, <2>1 DEF ChanTypes
  <2>7. HelloPending'
    BY <1>0, <2>6, HelloKept
  <2>8. DownEmpty'
    BY <1>0, <2>1 DEF DownEmpty, logVars
  <2> QED BY <1>0, <2>1, <2>2, <2>3, <2>4, <2>5, <2>7, <2>8 DEF IInv, TypeOK, LogTypes, DownEmpty, ChanTypes
<1>12. ASSUME NEW n \in Node, NEW m \in Node, Disconnect(n, m)
       PROVE  IInv'
  <2>1. /\ link[n][m] = "broken"
        /\ link' = [link EXCEPT ![n][m] = "none"]
        /\ UNCHANGED <<up, chan, serving, logVars, applying, rumored, breaks, crashes>>
    BY <1>12 DEF Disconnect
  <2>2. LogTypes' /\ LogConsistent' /\ Balance'
    BY <2>1, LogUnchanged
  <2>3. link' \in [Node -> [Node -> LinkState]]
    BY <1>0, <2>1 DEF LinkState
  <2>4. OneConnectionPerEdge'
    BY <1>0, <2>1 DEF OneConnectionPerEdge, Open
  <2>5. HelloPending' /\ ChanTypes'
    BY <1>0, <2>1 DEF HelloPending, ChanTypes
  <2>6. DownEmpty'
    BY <1>0, <2>1 DEF DownEmpty, logVars
  <2> QED BY <1>0, <2>1, <2>2, <2>3, <2>4, <2>5, <2>6 DEF IInv, TypeOK, LogTypes, DownEmpty, ChanTypes
<1>13. ASSUME NEW n \in Node, Crash(n)
       PROVE  IInv'
  <2>1. /\ crashes' = crashes + 1 /\ up' = [up EXCEPT ![n] = FALSE]
        /\ link' = [a \in Node |-> [b \in Node |->
                      IF a = n THEN "none"
                      ELSE IF b = n /\ link[a][b] # "none" THEN "broken"
                      ELSE link[a][b]]]
        /\ chan' = [a \in Node |-> [b \in Node |->
                      IF n \in {a, b} THEN <<>> ELSE chan[a][b]]]
        /\ serving' = [a \in Node |-> [b \in Node |->
                         IF n \in {a, b} THEN {} ELSE serving[a][b]]]
        /\ seenEvents' = [seenEvents EXCEPT ![n] = {}]
        /\ eventLog' = [eventLog EXCEPT ![n] = {}]
        /\ recentEventIds' = [recentEventIds EXCEPT ![n] = <<>>]
        /\ applying' = [applying EXCEPT ![n] = {}]
        /\ accepted' = [accepted EXCEPT ![n] = [e \in EventId |-> 0]]
        /\ evicted' = [evicted EXCEPT ![n] = [e \in EventId |-> 0]]
        /\ UNCHANGED <<rumored, breaks>>
    BY <1>13 DEF Crash
  <2>2. LogTypes'
    BY <1>0, <2>1 DEF LogTypes
  <2>3. LogConsistent'
    <3>1. Range(<<>>) = {} /\ Len(<<>>) = 0 /\ 0 <= MAX_EVENT_LOG
      BY BoundAssumption DEF Range
    <3> SUFFICES ASSUME NEW k \in Node
                 PROVE  /\ seenEvents'[k] = eventLog'[k]
                        /\ seenEvents'[k] = Range(recentEventIds'[k])
                        /\ Distinct(recentEventIds'[k])
                        /\ Len(recentEventIds'[k]) <= MAX_EVENT_LOG
      BY DEF LogConsistent, Distinct
    <3>2. CASE k = n
      <4>1. /\ seenEvents'[k] = {} /\ eventLog'[k] = {}
            /\ recentEventIds'[k] = <<>>
        BY <3>2, <1>0, <2>1 DEF LogTypes
      <4> QED BY <3>1, <4>1 DEF Distinct
    <3>3. CASE k # n
      <4>1. /\ seenEvents'[k] = seenEvents[k] /\ eventLog'[k] = eventLog[k]
            /\ recentEventIds'[k] = recentEventIds[k]
        BY <3>3, <1>0, <2>1 DEF LogTypes
      <4> QED BY <4>1, <1>0 DEF LogConsistent, Distinct
    <3> QED BY <3>2, <3>3
  <2>4. Balance'
    BY <1>0, <2>1 DEF Balance, LogTypes
  <2>5. /\ link' \in [Node -> [Node -> LinkState]]
        /\ serving' \in [Node -> [Node -> SUBSET EventId]]
        /\ up' \in [Node -> BOOLEAN]
        /\ applying' \in [Node -> SUBSET (Node \X EventId)]
        /\ crashes' \in Nat
    BY <1>0, <2>1 DEF LinkState
  <2>6. ChanTypes'
    BY <1>0, <2>1 DEF ChanTypes
  <2>7. OneConnectionPerEdge'
    BY <1>0, <2>1 DEF OneConnectionPerEdge, Open
  <2>8. \A k, l \in Node : link'[l][k] = "hello" =>
            link[l][k] = "hello" /\ chan'[k][l] = chan[k][l]
    BY <1>0, <2>1
  <2>9. HelloPending'
    BY <1>0, <2>8, HelloKept
  <2>10. DownEmpty'
    BY <1>0, <2>1 DEF DownEmpty, LogTypes
  <2> QED BY <1>0, <2>1, <2>2, <2>3, <2>4, <2>5, <2>6, <2>7, <2>9, <2>10 DEF IInv, TypeOK, LogTypes, DownEmpty, ChanTypes
<1>14. ASSUME NEW n \in Node, Start(n)
       PROVE  IInv'
  <2>1. /\ up' = [up EXCEPT ![n] = TRUE]
        /\ UNCHANGED <<link, chan, serving, logVars, applying, rumored, breaks, crashes>>
    BY <1>14 DEF Start, linkVars
  <2>2. LogTypes' /\ LogConsistent' /\ Balance'
    BY <2>1, LogUnchanged
  <2>3. OneConnectionPerEdge' /\ HelloPending'
    BY <1>0, <2>1 DEF OneConnectionPerEdge, HelloPending, Open
  <2>4. DownEmpty' /\ up' \in [Node -> BOOLEAN]
    BY <1>0, <2>1 DEF DownEmpty, logVars
  <2> QED BY <1>0, <2>1, <2>2, <2>3, <2>4 DEF IInv, TypeOK, LogTypes, DownEmpty, ChanTypes
<1>15. CASE UNCHANGED vars
  <2>1. UNCHANGED <<up, link, chan, serving, logVars, applying, rumored, breaks, crashes>>
    BY <1>15 DEF vars, linkVars
  <2>2. LogTypes' /\ LogConsistent' /\ Balance'
    BY <2>1, LogUnchanged
  <2>3. OneConnectionPerEdge' /\ HelloPending' /\ DownEmpty'
    BY <1>0, <2>1 DEF OneConnectionPerEdge, HelloPending, Open, DownEmpty, logVars
  <2> QED BY <1>0, <2>1, <2>2, <2>3 DEF IInv, TypeOK, LogTypes, DownEmpty, ChanTypes
<1> QED BY <1>1, <1>2, <1>3, <1>4, <1>5, <1>6, <1>7, <1>8, <1>9, <1>10, <1>11,
           <1>12, <1>13, <1>14, <1>15 DEF Next, HandlePeer

\* The initial state satisfies the invariant.
LEMMA InitiallyIInv == Init => IInv
<1> SUFFICES ASSUME Init PROVE IInv
  OBVIOUS
<1>1. Range(<<>>) = {} /\ Len(<<>>) = 0 /\ 0 <= MAX_EVENT_LOG
  BY BoundAssumption DEF Range
<1>2. TypeOK
  BY DEF Init, TypeOK, LinkState
<1>3. LogConsistent
  BY <1>1 DEF Init, LogConsistent
<1>4. Balance /\ OneConnectionPerEdge /\ HelloPending
  BY DEF Init, Balance, OneConnectionPerEdge, HelloPending, Open
<1> QED BY <1>2, <1>3, <1>4 DEF IInv

\* Every reachable state satisfies the invariant.
LEMMA Invariance == Spec => []IInv
BY InitiallyIInv, InductiveStep, PTL DEF Spec

-----------------------------------------------------------------------------
(***************************************************************************)
(* The theorems.                                                           *)
(***************************************************************************)

\* Every variable has its type in every reachable state, and a process that is
\* not running holds no event.
THEOREM TypeCorrect == Spec => []TypeOK
<1>1. IInv => TypeOK
  BY DEF IInv
<1> QED BY <1>1, Invariance, PTL

\* Whatever rumors, duplicates, pulls, evictions and crashes occur, a node's
\* digest, its served bodies and its duplicate filter list the same ids, each
\* once, within the capacity of the log.
THEOREM LogAlwaysConsistent == Spec => []LogConsistent
<1>1. IInv => LogConsistent
  BY DEF IInv
<1> QED BY <1>1, Invariance, PTL

\* Between two applications of an event on one node lies its eviction from
\* that node's log; while nothing is evicted, every event is applied at most
\* once, along however many paths it arrives.
THEOREM AtMostOncePerEviction == Spec => []ReappliedOnlyAfterEviction
<1>1. IInv => ReappliedOnlyAfterEviction
  <2> SUFFICES ASSUME IInv, NEW n \in Node, NEW e \in EventId
               PROVE  accepted[n][e] <= evicted[n][e] + 1
    BY DEF ReappliedOnlyAfterEviction
  <2>1. accepted[n][e] \in Nat /\ evicted[n][e] \in Nat
    BY DEF IInv, TypeOK
  <2>2. accepted[n][e] = evicted[n][e] + (IF e \in seenEvents[n] THEN 1 ELSE 0)
    BY DEF IInv, Balance
  <2> QED BY <2>1, <2>2
<1> QED BY <1>1, Invariance, PTL

\* handlePeer never discards an event, a digest or a pull for want of a
\* registration.
THEOREM HelloComesFirst == Spec => []HelloFirst
<1>1. IInv => HelloFirst
  BY DEF IInv, HelloPending, HelloFirst, Open, Registered
<1> QED BY <1>1, Invariance, PTL

\* The two ends of an edge agree on whether it has a connection, so no edge
\* ever carries two.
THEOREM EdgesAgree == Spec => []OneConnectionPerEdge
<1>1. IInv => OneConnectionPerEdge
  BY DEF IInv
<1> QED BY <1>1, Invariance, PTL
=============================================================================
