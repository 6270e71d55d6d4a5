--------------------------- MODULE PresenceProofs ---------------------------
(***************************************************************************)
(* Proofs about Presence, for any number of nodes, users, clients,         *)
(* connections and requests.                                               *)
(*                                                                         *)
(* Whatever crashes, is cut or lost: the types, and that no row is         *)
(* invented (TInv).  When clients are patient and no process dies, one     *)
(* name is one account (AInv); when no peer connection breaks either, a    *)
(* user has one session in the cluster (OInv), although the rows of the    *)
(* nodes may be stale: a row that is missing is what must not be stale.    *)
(*                                                                         *)
(* With two nodes and accounts that every database has, whatever crashes,  *)
(* is cut or lost: a user who has moved once is recorded where the session *)
(* is (FInv).  Events are told apart by who may still hear of them, since  *)
(* the tables outlive the process and the log does not.                    *)
(*                                                                         *)
(* With two nodes, patient clients and no faults of nodes or of their link *)
(* the tables are exact (PInv): LOGIN and LOGOUT of a user take turns, no  *)
(* connection brings a LOGOUT before the LOGINs that precede it, and each  *)
(* table follows the last event about the user in the log of its node.     *)
(***************************************************************************)
EXTENDS Presence, FiniteSetTheorems, TLAPS

-----------------------------------------------------------------------------
(***************************************************************************)
(* Whatever happens.                                                       *)
(***************************************************************************)

\* A handler has its user, its node and the event it has rumored.
ThreadOk(s) ==
    LET t == thread[s]
    IN /\ t.pc = "idle" => t = Idle
       /\ t.pc # "idle" => t.user \in User /\ host[s] \in Node
       /\ t.pc \notin {"store", "push"} => t.ev = 0
       /\ t.pc \in {"store", "push"} => /\ t.ev \in 1..Len(events)
                                        /\ events[t.ev].user = t.user
                                        /\ events[t.ev].node = host[s]
       /\ t.pc = "store" => events[t.ev].kind = "LOGIN"

Threads == \A s \in Sock : ThreadOk(s)

\* Positions are those of events.
Indices ==
    /\ \A n \in Node : Range(log[n]) \subseteq 1..Len(events)
    /\ \A m, n \in Node : Range(wire[m][n]) \subseteq 1..Len(events)
    /\ \A n, m \in Node : applying[n][m] # 0 =>
          /\ applying[n][m] \in 1..Len(events)
          /\ events[applying[n][m]].kind = "LOGIN"

Clients ==
    /\ \A c \in Client : sock[c] # NoSock =>
          host[sock[c]] \in Node /\ sock[c] \in sessions[host[sock[c]]]
    /\ \A c \in resume : me[c] \in User

\* The handler is pushing the event of a new account.
PushesAccount(s) == thread[s].pc = "push" /\ events[thread[s].ev].kind = "USER_CREATED"

\* Users are served where their account is known.
Serving ==
    \A s \in Sock :
        /\ auth[s] # NoUser => /\ host[s] \in Node /\ s \in sessions[host[s]]
                               /\ account[host[s]][auth[s]] # NoNode
        /\ thread[s].pc \in {"create", "set", "claim"} \/ PushesAccount(s) =>
              s \in sessions[host[s]]
        /\ thread[s].pc \in {"set", "claim"} \/ PushesAccount(s) =>
              account[host[s]][thread[s].user] # NoNode

TInv == TypeOK /\ Threads /\ Indices /\ Clients /\ Serving /\ NoInventedRows

-----------------------------------------------------------------------------
(***************************************************************************)
(* When no process dies and clients are patient.                           *)
(***************************************************************************)

Running == \A n \in Node : up[n]

\* An event stays in the log of the node that rumored it.
Origin == \A i \in 1..Len(events) : i \in Range(log[events[i].node])

Creation(i, u) == events[i].kind = "USER_CREATED" /\ events[i].user = u

\* A name is registered once.
OneCreation ==
    /\ \A u \in User, i, j \in 1..Len(events) : Creation(i, u) /\ Creation(j, u) => i = j
    /\ \A s \in Sock : thread[s].pc = "create" =>
          /\ \A i \in 1..Len(events) : ~Creation(i, thread[s].user)
          /\ \A r \in Sock : thread[r].pc = "create" /\ thread[r].user = thread[s].user => r = s

\* The users rows of a node follow from its log.
Accounted ==
    \A n \in Node, u \in User :
        IF u \in SeedUser THEN account[n][u] = Seeded
        ELSE \/ /\ account[n][u] = NoNode
                /\ \A i \in Range(log[n]) : ~Creation(i, u)
             \/ \E i \in Range(log[n]) : Creation(i, u) /\ account[n][u] = events[i].node

AInv == Running /\ Origin /\ OneCreation /\ Accounted

-----------------------------------------------------------------------------
(***************************************************************************)
(* When no peer connection breaks either.                                  *)
(***************************************************************************)

\* Every node has all its peers, and nobody has to be resumed.
Linked ==
    /\ \A n \in Node : live[n] = Node \ {n}
    /\ \A s \in Sock : thread[s].pc \notin {"claim", "moved"}
    /\ \A i \in 1..Len(events) : events[i].kind # "RECONNECT"

\* Event i starts or ends a session of u.
About(i, u) == events[i].user = u /\ events[i].kind # "USER_CREATED"

\* Every node has applied event k.
Done(k) ==
    /\ \A n \in Node : k \in Range(log[n])
    /\ \A n, m \in Node : applying[n][m] # k
    /\ \A s \in Sock : thread[s].ev # k

\* The handler will rumor a LOGIN.
Starting(s) == thread[s].pc \in {"create", "set", "rumor"} \/ PushesAccount(s)

\* Before a user logs in, everything about the last session is done.
Past ==
    /\ \A s \in Sock : Starting(s) =>
          \A k \in 1..Len(events) : About(k, thread[s].user) => Done(k)
    /\ \A i \in 1..Len(events) : events[i].kind = "LOGIN" =>
          \A k \in 1..(i - 1) : About(k, events[i].user) => Done(k)

Leaving(s) ==
    thread[s].pc = "bye" \/ (thread[s].pc = "push" /\ events[thread[s].ev].kind = "LOGOUT")

\* A session is anonymous until SetSession and from the LOGOUT on.
RoleOk(s) ==
    thread[s].pc # "idle" =>
        auth[s] = IF Leaving(s) \/ (Starting(s) /\ thread[s].pc # "rumor")
                  THEN NoUser ELSE thread[s].user

\* Between requests a client knows who it is.
Knows(c) ==
    sock[c] # NoSock /\ thread[sock[c]].pc = "idle" =>
        auth[sock[c]] = NoUser \/ me[c] = auth[sock[c]]

Roles == (\A s \in Sock : RoleOk(s)) /\ (\A c \in Client : Knows(c))

\* s is the user's session, or will be, or was.
Holds(s, u) == auth[s] = u \/ thread[s].user = u

OneHolder == \A u \in User, s, r \in Sock : Holds(s, u) /\ Holds(r, u) => s = r

\* Event i is a LOGIN and the last event about its user's sessions.
LastLogin(i) ==
    /\ events[i].kind = "LOGIN"
    /\ \A k \in 1..Len(events) : About(k, events[i].user) => k <= i

\* Who has a session has logged in last.
Latest ==
    \A s \in Sock : auth[s] # NoUser /\ thread[s].pc # "rumor" =>
        \E i \in 1..Len(events) : LastLogin(i) /\ events[i].user = auth[s]

\* After a LOGIN there is a row, or there will be, on every node that has it.
StoredAt(n, i) ==
    \/ row[n][events[i].user] # NoNode
    \/ \E m \in Node : applying[n][m] = i
    \/ \E s \in Sock : host[s] = n /\ thread[s].pc = "store" /\ thread[s].ev = i

Stored == \A n \in Node : \A i \in Range(log[n]) : LastLogin(i) => StoredAt(n, i)

\* s is u's session at n, or its LOGOUT is about to clear the row.
Backs(s, n, u) ==
    /\ host[s] = n
    /\ (auth[s] = u /\ s \in sessions[n]) \/ (thread[s].pc = "bye" /\ thread[s].user = u)

\* A row that names its own node is backed by a session.
Owned ==
    /\ \A n, m \in Node : applying[n][m] # 0 => events[applying[n][m]].node # n
    /\ \A n \in Node, u \in User : row[n][u] = n => \E s \in Sock : Backs(s, n, u)

OInv == Linked /\ Past /\ Roles /\ OneHolder /\ Latest /\ Stored /\ Owned

-----------------------------------------------------------------------------
(***************************************************************************)
(* Sequences, records, types.                                              *)
(***************************************************************************)

\* What Append adds to a log or a connection.
LEMMA RangeAppend ==
    ASSUME NEW S, NEW q \in Seq(S), NEW x \in S
    PROVE  Append(q, x) \in Seq(S) /\ Range(Append(q, x)) = Range(q) \cup {x}
<1>1. /\ Append(q, x) \in Seq(S) /\ Len(Append(q, x)) = Len(q) + 1
      /\ DOMAIN Append(q, x) = 1..(Len(q) + 1) /\ DOMAIN q = 1..Len(q) /\ Len(q) \in Nat
      /\ \A k \in 1..Len(q) : Append(q, x)[k] = q[k]
      /\ Append(q, x)[Len(q) + 1] = x
  OBVIOUS
<1>2. \A k \in 1..(Len(q) + 1) : k \in 1..Len(q) \/ k = Len(q) + 1
  BY <1>1
<1>3. \A k \in 1..Len(q) : k \in 1..(Len(q) + 1)
  BY <1>1
<1>4. Len(q) + 1 \in 1..(Len(q) + 1)
  BY <1>1
<1> QED BY <1>1, <1>2, <1>3, <1>4 DEF Range

\* What reading takes away.
LEMMA RangeTail ==
    ASSUME NEW S, NEW q \in Seq(S), q # <<>>
    PROVE  Tail(q) \in Seq(S) /\ Range(Tail(q)) \subseteq Range(q) /\ Head(q) \in Range(q)
<1>1. /\ Tail(q) \in Seq(S) /\ Len(q) \in Nat \ {0} /\ DOMAIN q = 1..Len(q)
      /\ DOMAIN Tail(q) = 1..(Len(q) - 1) /\ Head(q) = q[1]
      /\ \A k \in 1..(Len(q) - 1) : Tail(q)[k] = q[k + 1]
  OBVIOUS
<1>2. \A k \in 1..(Len(q) - 1) : k + 1 \in 1..Len(q)
  BY <1>1
<1>3. 1 \in 1..Len(q)
  BY <1>1
<1> QED BY <1>1, <1>2, <1>3 DEF Range

\* A log or a connection holds what its type says.
LEMMA RangeTyped ==
    ASSUME NEW S, NEW q \in Seq(S)
    PROVE  Range(q) \subseteq S /\ (q = <<>> => Range(q) = {}) /\ \A k \in 1..Len(q) : q[k] \in Range(q)
BY DEF Range

ThreadType == [pc : PC, user : User \cup {NoUser}, ev : Nat]

\* The stages of a handler.
LEMMA Stages ==
    /\ Idle \in ThreadType /\ Idle.pc = "idle" /\ Idle.user = NoUser /\ Idle.ev = 0
    /\ \A pc \in PC, u \in User \cup {NoUser}, i \in Nat :
          /\ At(pc, u, i) \in ThreadType
          /\ At(pc, u, i).pc = pc /\ At(pc, u, i).user = u /\ At(pc, u, i).ev = i
    /\ \A t \in ThreadType : t.pc \in PC /\ t.user \in User \cup {NoUser} /\ t.ev \in Nat
                             /\ t = At(t.pc, t.user, t.ev)
BY DEF Idle, At, ThreadType, PC

\* A handler goes on to the next stage.
LEMMA NextStage ==
    ASSUME thread \in [Sock -> ThreadType], NEW s \in Sock, NEW pc \in PC,
           thread' = [thread EXCEPT ![s].pc = pc]
    PROVE  /\ thread' \in [Sock -> ThreadType]
           /\ thread'[s] = At(pc, thread[s].user, thread[s].ev)
           /\ thread'[s].pc = pc /\ thread'[s].user = thread[s].user /\ thread'[s].ev = thread[s].ev
           /\ \A r \in Sock : r # s => thread'[r] = thread[r]
<1>1. PICK t \in ThreadType : t = thread[s]
  OBVIOUS
<1>2. [t EXCEPT !.pc = pc] = At(pc, t.user, t.ev)
  BY DEF ThreadType, At
<1>3. At(pc, t.user, t.ev) \in ThreadType
  BY Stages
<1>4. thread' = [thread EXCEPT ![s] = At(pc, t.user, t.ev)]
  BY <1>1, <1>2
<1>5. /\ At(pc, t.user, t.ev).pc = pc /\ At(pc, t.user, t.ev).user = t.user
      /\ At(pc, t.user, t.ev).ev = t.ev
  BY DEF At
<1> QED BY <1>1, <1>3, <1>4, <1>5

\* The types, once more, in the words of this module.
LEMMA Types ==
    ASSUME TInv
    PROVE  /\ up \in [Node -> BOOLEAN] /\ live \in [Node -> SUBSET Node]
           /\ wire \in [Node -> [Node -> Seq(Nat)]] /\ log \in [Node -> Seq(Nat)]
           /\ events \in Seq(EventOf) /\ Len(events) \in Nat
           /\ applying \in [Node -> [Node -> Nat]]
           /\ account \in [Node -> [User -> Node \cup {NoNode}]]
           /\ row \in [Node -> [User -> Node \cup {NoNode}]]
           /\ sessions \in [Node -> SUBSET Sock] /\ host \in [Sock -> Node \cup {NoNode}]
           /\ auth \in [Sock -> User \cup {NoUser}] /\ thread \in [Sock -> ThreadType]
           /\ sock \in [Client -> Sock \cup {NoSock}] /\ me \in [Client -> User \cup {NoUser}]
           /\ resume \subseteq Client
           /\ requests \in Nat /\ losses \in Nat /\ cuts \in Nat /\ crashes \in Nat
           /\ Threads /\ Indices /\ Clients /\ Serving /\ NoInventedRows
BY DEF TInv, TypeOK, ThreadType

\* A connection carries positions.
LEMMA WireTyped ==
    ASSUME TInv, NEW m \in Node, NEW n \in Node
    PROVE  wire[m][n] \in Seq(Nat)
<1>1. wire \in [Node -> [Node -> Seq(Nat)]]
  BY DEF TInv, TypeOK
<1> QED BY <1>1

\* An event is about a user and comes from a node.
LEMMA EventFields ==
    ASSUME TInv, NEW i \in 1..Len(events)
    PROVE  /\ events[i].user \in User /\ events[i].node \in Node
           /\ events[i].kind \in {"LOGIN", "LOGOUT", "RECONNECT", "USER_CREATED"}
<1>1. events[i] \in EventOf
  BY Types
<1> QED BY <1>1 DEF EventOf

-----------------------------------------------------------------------------
(***************************************************************************)
(* What steps leave as it is.                                              *)
(***************************************************************************)

\* Events are only added.
EventsGrow ==
    /\ events' \in Seq(EventOf) /\ Len(events) <= Len(events')
    /\ \A i \in 1..Len(events) : events'[i] = events[i]

\* Steps that rumor nothing leave the events alone.
LEMMA SameEvents ==
    ASSUME TInv, UNCHANGED events
    PROVE  EventsGrow
BY Types DEF EventsGrow

\* A socket that has a node keeps it.
HostKept(s) == host[s] \in Node => host'[s] = host[s]

\* A handler that does not move stays well.
LEMMA ThreadKept ==
    ASSUME TInv, EventsGrow, NEW s \in Sock, thread'[s] = thread[s], HostKept(s)
    PROVE  ThreadOk(s)' /\ (PushesAccount(s)' <=> PushesAccount(s))
<1>1. ThreadOk(s) /\ Len(events) \in Nat /\ Len(events') \in Nat
  BY Types DEF Threads, EventsGrow
<1>2. thread[s].pc \in {"store", "push"} =>
         thread[s].ev \in 1..Len(events) /\ events'[thread[s].ev] = events[thread[s].ev]
  BY <1>1 DEF ThreadOk, EventsGrow
<1>3. PushesAccount(s)' <=> PushesAccount(s)
  BY <1>2 DEF PushesAccount
<1>4. thread[s].pc \in {"store", "push"} => thread[s].ev \in 1..Len(events')
  BY <1>1, <1>2 DEF EventsGrow
<1> QED BY <1>1, <1>2, <1>3, <1>4 DEF ThreadOk, HostKept

\* Logs, connections and threads that stay as they are still name rumored events
\* when more are rumored.
LEMMA IndicesKept ==
    ASSUME TInv, EventsGrow, UNCHANGED <<log, wire, applying>>
    PROVE  Indices'
<1>1. Len(events) \in Nat /\ Len(events') \in Nat
  BY Types DEF EventsGrow
<1>2. \A i \in 1..Len(events) : i \in 1..Len(events') /\ events'[i] = events[i]
  BY <1>1 DEF EventsGrow
<1>3. Indices
  BY DEF TInv
<1>4. (\A n \in Node : Range(log[n]) \subseteq 1..Len(events))'
  BY <1>2, <1>3 DEF Indices
<1>5. (\A m, n \in Node : Range(wire[m][n]) \subseteq 1..Len(events))'
  BY <1>2, <1>3 DEF Indices
<1>6. (\A n, m \in Node : applying[n][m] # 0 =>
          applying[n][m] \in 1..Len(events) /\ events[applying[n][m]].kind = "LOGIN")'
  BY <1>2, <1>3 DEF Indices
<1> QED BY <1>4, <1>5, <1>6 DEF Indices

ServingOk(s) ==
    /\ auth[s] # NoUser => /\ host[s] \in Node /\ s \in sessions[host[s]]
                           /\ account[host[s]][auth[s]] # NoNode
    /\ thread[s].pc \in {"create", "set", "claim"} \/ PushesAccount(s) =>
          s \in sessions[host[s]]
    /\ thread[s].pc \in {"set", "claim"} \/ PushesAccount(s) =>
          account[host[s]][thread[s].user] # NoNode

\* Serving, read one socket at a time.
LEMMA ServingMeans ==
    /\ Serving <=> \A s \in Sock : ServingOk(s)
    /\ Serving' <=> \A s \in Sock : ServingOk(s)'
BY DEF Serving, ServingOk

\* Accounts are never removed.
AccountsKept ==
    \A n \in Node, u \in User : account[n][u] # NoNode => account'[n][u] # NoNode

\* A socket whose handler does not move and whose session stays (or loses its user,
\* as setAuthenticated(false) does) is still served.
LEMMA ServingKept ==
    ASSUME TInv, EventsGrow, AccountsKept, NEW s \in Sock, thread'[s] = thread[s], HostKept(s),
           auth'[s] = auth[s] \/ auth'[s] = NoUser,
           host[s] \in Node /\ s \in sessions[host[s]] => s \in sessions'[host[s]]
    PROVE  ServingOk(s)'
<1>1. ServingOk(s) /\ ThreadOk(s) /\ auth[s] \in User \cup {NoUser}
  BY Types, ServingMeans DEF Threads
<1>2. PushesAccount(s)' <=> PushesAccount(s)
  BY ThreadKept
<1>3. auth'[s] # NoUser => /\ host'[s] \in Node /\ s \in sessions'[host'[s]]
                           /\ account'[host'[s]][auth'[s]] # NoNode
  BY <1>1 DEF ServingOk, HostKept, AccountsKept
<1>4. CASE thread[s].pc \in {"create", "set", "claim"} \/ PushesAccount(s)
  <2>1. host[s] \in Node /\ thread[s].user \in User /\ host'[s] = host[s]
    BY <1>1, <1>4 DEF ThreadOk, HostKept, PushesAccount
  <2> QED BY <1>1, <1>2, <1>3, <1>4, <2>1 DEF ServingOk, AccountsKept
<1>5. CASE ~(thread[s].pc \in {"create", "set", "claim"} \/ PushesAccount(s))
  BY <1>2, <1>3, <1>5 DEF ServingOk
<1> QED BY <1>4, <1>5

\* m has rumored that u is there.
Rumored(u, m) ==
    \E i \in 1..Len(events) : /\ events[i].kind \in {"LOGIN", "RECONNECT"}
                              /\ events[i].user = u /\ events[i].node = m

\* m is about to.
Moving(u, m) == \E s \in Sock : host[s] = m /\ thread[s] = At("moved", u, 0)

\* NoInventedRows in terms of Rumored and Moving.
LEMMA RowsMeans ==
    /\ NoInventedRows <=> \A n, m \in Node, u \in User : row[n][u] = m =>
          Rumored(u, m) \/ (n = m /\ (~up[n] \/ Moving(u, m)))
    /\ NoInventedRows' <=> \A n, m \in Node, u \in User : row'[n][u] = m =>
          Rumored(u, m)' \/ (n = m /\ (~up'[n] \/ Moving(u, m)'))
BY DEF NoInventedRows, Rumored, Moving

\* What was rumored stays so: no event is taken back.
LEMMA StaysRumored ==
    ASSUME TInv, EventsGrow, NEW u, NEW m, Rumored(u, m)
    PROVE  Rumored(u, m)'
<1>1. PICK i \in 1..Len(events) : /\ events[i].kind \in {"LOGIN", "RECONNECT"}
                                  /\ events[i].user = u /\ events[i].node = m
  BY DEF Rumored
<1>2. i \in 1..Len(events') /\ events'[i] = events[i]
  BY Types DEF EventsGrow
<1> QED BY <1>1, <1>2 DEF Rumored

\* A step that writes rows only for what has been rumored, or will be.
LEMMA RowsKept ==
    ASSUME TInv, EventsGrow,
           \A n \in Node, u \in User :
              \/ row'[n][u] = row[n][u] \/ row'[n][u] = NoNode \/ Rumored(u, row[n][u])'
              \/ row'[n][u] = n /\ Moving(u, n)',
           \A n \in Node : ~up[n] => ~up'[n],
           \A s \in Sock, u \in User, m \in Node : thread[s] = At("moved", u, 0) /\ host[s] = m =>
              \/ thread'[s] = thread[s] /\ host'[s] = host[s]
              \/ Rumored(u, m)' \/ ~up'[m]
    PROVE  NoInventedRows'
<1>1. SUFFICES ASSUME NEW n \in Node, NEW m \in Node, NEW u \in User, row'[n][u] = m
               PROVE  Rumored(u, m)' \/ (n = m /\ (~up'[n] \/ Moving(u, m)'))
  BY RowsMeans
<1>2. m # NoNode
  BY NullAssumption
<1>3. CASE row[n][u] = m
  <2>1. Rumored(u, m) \/ (n = m /\ (~up[n] \/ Moving(u, m)))
    BY <1>3, Types, RowsMeans
  <2>2. CASE Rumored(u, m)
    BY <2>2, StaysRumored
  <2>3. CASE n = m /\ ~up[n]
    BY <2>3
  <2>4. CASE n = m /\ Moving(u, m)
    <3>1. PICK s \in Sock : host[s] = m /\ thread[s] = At("moved", u, 0)
      BY <2>4 DEF Moving
    <3> QED BY <2>4, <3>1 DEF Moving
  <2> QED BY <2>1, <2>2, <2>3, <2>4
<1>4. CASE row[n][u] # m
  BY <1>1, <1>2, <1>4
<1> QED BY <1>3, <1>4

\* A socket on which nothing happens, or which becomes anonymous.
Undisturbed(s) ==
    /\ thread'[s] = thread[s] /\ HostKept(s)
    /\ auth'[s] = auth[s] \/ auth'[s] = NoUser
    /\ host[s] \in Node /\ s \in sessions[host[s]] => s \in sessions'[host[s]]

\* A step keeps TInv when it looks after the sockets it disturbs.
LEMMA StepKeeps ==
    ASSUME TInv, TypeOK', EventsGrow, AccountsKept, Indices', Clients', NoInventedRows',
           \A s \in Sock : Undisturbed(s) \/ (ThreadOk(s)' /\ ServingOk(s)')
    PROVE  TInv'
<1>1. \A s \in Sock : Undisturbed(s) => ThreadOk(s)'
  BY ThreadKept DEF Undisturbed
<1>2. \A s \in Sock : Undisturbed(s) => ServingOk(s)'
  BY ServingKept DEF Undisturbed
<1>3. Threads' /\ Serving'
  BY <1>1, <1>2, ServingMeans DEF Threads
<1> QED BY <1>3 DEF TInv

\* Rows stay as they are and nobody stops moving.
LEMMA RowsStay ==
    ASSUME TInv, EventsGrow, UNCHANGED <<row, up, host>>,
           \A s \in Sock : thread[s].pc = "moved" => thread'[s] = thread[s]
    PROVE  NoInventedRows'
<1>1. \A s \in Sock, u \in User, m \in Node : thread[s] = At("moved", u, 0) /\ host[s] = m =>
         thread'[s] = thread[s] /\ host'[s] = host[s]
  BY DEF At
<1> QED BY <1>1, RowsKept

\* Clients only depends on the connections, what clients remember and the sessions.
LEMMA ClientsStay ==
    ASSUME TInv, UNCHANGED <<sock, me, resume, host, sessions>>
    PROVE  Clients'
BY Types DEF Clients

\* Steps that write no users row remove no account.
LEMMA AccountsStay ==
    ASSUME UNCHANGED account
    PROVE  AccountsKept
BY DEF AccountsKept

\* One handler moves and nothing else happens.
LEMMA HandlerStep ==
    ASSUME TInv, NEW s \in Sock, NEW t \in ThreadType, thread' = [thread EXCEPT ![s] = t],
           UNCHANGED <<up, netVars, dbVars, sessions, host, auth, clientVars>>,
           TypeOK', thread[s].pc # "moved", ThreadOk(s)', ServingOk(s)'
    PROVE  TInv'
<1>1. UNCHANGED <<up, live, wire, events, log, applying, account, row, sessions, host, auth, sock,
                  me, resume>>
  BY DEF netVars, dbVars, clientVars
<1>2. \A r \in Sock : r # s => thread'[r] = thread[r]
  BY Types
<1>3. \A r \in Sock : r # s => Undisturbed(r)
  BY <1>1, <1>2 DEF Undisturbed, HostKept
<1>4. EventsGrow /\ AccountsKept /\ Indices' /\ Clients'
  BY <1>1, SameEvents, AccountsStay, IndicesKept, ClientsStay
<1>5. NoInventedRows'
  BY <1>1, <1>2, <1>4, RowsStay
<1> QED BY <1>3, <1>4, <1>5, StepKeeps

\* A request that has passed its check.
LEMMA Starts ==
    ASSUME TInv, NEW s \in Sock, NEW pc \in {"set", "create", "claim"}, NEW u \in User,
           host[s] \in Node, s \in sessions[host[s]], thread[s] = Idle,
           pc # "create" => account[host[s]][u] # NoNode,
           thread' = [thread EXCEPT ![s] = At(pc, u, 0)], requests' \in Nat,
           UNCHANGED <<up, netVars, dbVars, sessions, host, auth, clientVars,
                       losses, cuts, crashes>>
    PROVE  TInv'
<1>0. pc \in PC /\ 0 \in Nat /\ u \in User \cup {NoUser}
  BY DEF PC
<1>1. PICK t \in ThreadType : t = At(pc, u, 0) /\ t.pc = pc /\ t.user = u /\ t.ev = 0
  BY <1>0, Stages
<1>2. UNCHANGED <<up, live, wire, events, log, applying, account, row, sessions, host, auth, sock,
                  me, resume, losses, cuts, crashes>>
  BY DEF netVars, dbVars, clientVars
<1>3. thread' \in [Sock -> ThreadType] /\ thread'[s] = t
  BY <1>1, Types
<1>4. TypeOK'
  BY <1>2, <1>3, Types DEF TypeOK, ThreadType
<1>5. ThreadOk(s)' /\ ~PushesAccount(s)'
  BY <1>1, <1>2, <1>3 DEF ThreadOk, PushesAccount
<1>6. ServingOk(s)
  BY Types, ServingMeans
<1>7. ServingOk(s)'
  BY <1>1, <1>2, <1>3, <1>5, <1>6 DEF ServingOk
<1>8. thread[s].pc # "moved"
  BY Stages
<1> QED BY <1>1, <1>4, <1>5, <1>7, <1>8, HandlerStep

\* The socket of a client that waits for no reply.
LEMMA ReadySock ==
    ASSUME TInv, NEW c \in Client, Ready(c)
    PROVE  /\ sock[c] \in Sock /\ host[sock[c]] \in Node
           /\ sock[c] \in sessions[host[sock[c]]] /\ thread[sock[c]] = Idle
BY Types DEF Ready, Clients

\* LOGIN, REGISTER and RECONNECT: the check.
LEMMA LoginTyped ==
    ASSUME TInv, NEW c \in Client, NEW u \in User, Login(c, u)
    PROVE  TInv'
<1>1. PICK s \in Sock : s = sock[c]
  BY ReadySock DEF Login
<1>2. /\ host[s] \in Node /\ s \in sessions[host[s]] /\ thread[s] = Idle
      /\ account[host[s]][u] # NoNode /\ thread' = [thread EXCEPT ![s] = At("set", u, 0)]
      /\ requests' \in Nat
      /\ UNCHANGED <<up, netVars, dbVars, sessions, host, auth, clientVars, losses, cuts, crashes>>
  BY <1>1, ReadySock, Types DEF Login
<1> QED BY <1>2, Starts

\* REGISTER, up to its check that the name is free (userExists).
LEMMA RegisterTyped ==
    ASSUME TInv, NEW c \in Client, NEW u \in User, Register(c, u)
    PROVE  TInv'
<1>1. PICK s \in Sock : s = sock[c]
  BY ReadySock DEF Register
<1>2. /\ host[s] \in Node /\ s \in sessions[host[s]] /\ thread[s] = Idle
      /\ thread' = [thread EXCEPT ![s] = At("create", u, 0)]
      /\ requests' \in Nat
      /\ UNCHANGED <<up, netVars, dbVars, sessions, host, auth, clientVars, losses, cuts, crashes>>
  BY <1>1, ReadySock, Types DEF Register
<1> QED BY <1>2, Starts

\* RECONNECT, up to its check that the owner is gone (isNodeLive).
LEMMA ReconnectTyped ==
    ASSUME TInv, NEW c \in Client, Reconnect(c)
    PROVE  TInv'
<1>1. PICK s \in Sock : s = sock[c]
  BY ReadySock DEF Reconnect
<1>2. PICK u \in User : u = me[c]
  BY Types DEF Reconnect, Clients
<1>3. /\ host[s] \in Node /\ s \in sessions[host[s]] /\ thread[s] = Idle
      /\ account[host[s]][u] # NoNode /\ thread' = [thread EXCEPT ![s] = At("claim", u, 0)]
      /\ requests' \in Nat
      /\ UNCHANGED <<up, netVars, dbVars, sessions, host, auth, clientVars, losses, cuts, crashes>>
  BY <1>1, <1>2, ReadySock, Types DEF Reconnect, bounds
<1> QED BY <1>3, Starts

-----------------------------------------------------------------------------
(***************************************************************************)
(* Applying and rumoring.                                                  *)
(***************************************************************************)

\* What applyEvent does on node n, kind by kind.
LEMMA Applied ==
    ASSUME TInv, NEW n \in Node, NEW e \in EventOf, ApplyEvent(n, e)
    PROVE  /\ row' \in [Node -> [User -> Node \cup {NoNode}]]
           /\ account' \in [Node -> [User -> Node \cup {NoNode}]]
           /\ auth' \in [Sock -> User \cup {NoUser}]
           /\ AccountsKept
           /\ \A s \in Sock : auth'[s] = auth[s] \/ auth'[s] = NoUser
           /\ \A m \in Node, u \in User :
                 \/ row'[m][u] = row[m][u]
                 \/ m = n /\ u = e.user /\ e.kind = "LOGOUT" /\ row'[m][u] = NoNode
                 \/ m = n /\ u = e.user /\ e.kind = "RECONNECT" /\ row'[m][u] = e.node
           /\ \A m \in Node, u \in User :
                 \/ account'[m][u] = account[m][u]
                 \/ /\ m = n /\ u = e.user /\ e.kind = "USER_CREATED"
                    /\ account[m][u] = NoNode /\ account'[m][u] = e.node
           /\ e.kind = "USER_CREATED" => account'[n][e.user] # NoNode
           /\ e.kind = "LOGOUT" => row'[n][e.user] = NoNode
           /\ e.kind # "RECONNECT" => UNCHANGED auth
<1>0. e.user \in User /\ e.node \in Node /\ NoNode \notin Node
      /\ e.kind \in {"LOGIN", "LOGOUT", "RECONNECT", "USER_CREATED"}
  BY NullAssumption DEF EventOf
<1>1. CASE e.kind = "LOGIN"
  <2>1. UNCHANGED <<row, account, auth>>
    BY <1>1 DEF ApplyEvent
  <2> QED BY <1>1, <2>1, Types DEF AccountsKept
<1>2. CASE e.kind = "LOGOUT"
  <2>1. row' = [row EXCEPT ![n][e.user] = NoNode] /\ UNCHANGED <<account, auth>>
    BY <1>2 DEF ApplyEvent, SetOnline
  <2>2. /\ row' \in [Node -> [User -> Node \cup {NoNode}]] /\ row'[n][e.user] = NoNode
        /\ \A m \in Node, u \in User : m # n \/ u # e.user => row'[m][u] = row[m][u]
    BY <1>0, <2>1, Types
  <2> QED BY <1>2, <2>1, <2>2, Types DEF AccountsKept
<1>3. CASE e.kind = "USER_CREATED"
  <2> DEFINE new == IF account[n][e.user] = NoNode THEN e.node ELSE account[n][e.user]
  <2>1. account' = [account EXCEPT ![n][e.user] = new] /\ UNCHANGED <<row, auth>>
    BY <1>3 DEF ApplyEvent
  <2>2. new \in Node /\ (account[n][e.user] # NoNode => new = account[n][e.user])
        /\ (account[n][e.user] = NoNode => new = e.node)
    BY <1>0, Types
  <2> HIDE DEF new
  <2>3. /\ account' \in [Node -> [User -> Node \cup {NoNode}]] /\ account'[n][e.user] = new
        /\ \A m \in Node, u \in User : m # n \/ u # e.user => account'[m][u] = account[m][u]
    BY <1>0, <2>1, <2>2, Types
  <2>4. new # NoNode
    BY <1>0, <2>2
  <2>5. AccountsKept
    BY <2>2, <2>3, <2>4 DEF AccountsKept
  <2> QED BY <1>3, <2>1, <2>2, <2>3, <2>4, <2>5, Types
<1>4. CASE e.kind = "RECONNECT"
  <2>1. /\ row' = [row EXCEPT ![n][e.user] = e.node] /\ UNCHANGED account
        /\ auth' = [s \in Sock |-> IF e.node # n /\ s \in sessions[n] /\ auth[s] = e.user
                                   THEN NoUser ELSE auth[s]]
    BY <1>4 DEF ApplyEvent, SetOnline
  <2>2. /\ row' \in [Node -> [User -> Node \cup {NoNode}]] /\ row'[n][e.user] = e.node
        /\ \A m \in Node, u \in User : m # n \/ u # e.user => row'[m][u] = row[m][u]
    BY <1>0, <2>1, Types
  <2>3. /\ auth' \in [Sock -> User \cup {NoUser}]
        /\ \A s \in Sock : auth'[s] = auth[s] \/ auth'[s] = NoUser
    BY <2>1, Types
  <2> QED BY <1>4, <2>1, <2>2, <2>3, Types DEF AccountsKept
<1> QED BY <1>0, <1>1, <1>2, <1>3, <1>4

\* The event e at position i, after which the handler of s is at stage pc.
Rumors(s, kind, u, e, i, pc) ==
    /\ e.kind = kind /\ e.user = u /\ e.node = host[s]
    /\ i = Len(events) + 1 /\ Len(events') = i /\ events'[i] = e
    /\ EventsGrow /\ ApplyEvent(host[s], e)
    /\ pc = "store" <=> kind = "LOGIN" /\ StoresLogin(host[s], e)
    /\ thread' \in [Sock -> ThreadType] /\ thread'[s] = At(pc, u, i)
    /\ \A r \in Sock : r # s => thread'[r] = thread[r]
    /\ log' \in [Node -> Seq(Nat)]
    /\ Range(log'[host[s]]) = Range(log[host[s]]) \cup {i}
    /\ \A n \in Node : n # host[s] => log'[n] = log[n]

\* What rumor() does to the events, the log of its node and its handler.
LEMMA RumorFacts ==
    ASSUME TInv, NEW s \in Sock, NEW kind \in {"LOGIN", "LOGOUT", "RECONNECT", "USER_CREATED"},
           NEW u \in User, host[s] \in Node, Rumor(s, kind, u)
    PROVE  \E e \in EventOf, i \in Nat, pc \in {"store", "push"} : Rumors(s, kind, u, e, i, pc)
<1> DEFINE n == host[s]
           e == [kind |-> kind, user |-> u, node |-> n]
           i == Len(events) + 1
           pc == IF kind = "LOGIN" /\ StoresLogin(n, e) THEN "store" ELSE "push"
<1>1. e \in EventOf /\ e.kind = kind /\ e.user = u /\ e.node = host[s]
  BY DEF EventOf
<1>2. /\ events' = Append(events, e) /\ log' = [log EXCEPT ![n] = Append(@, i)]
      /\ ApplyEvent(n, e) /\ thread' = [thread EXCEPT ![s] = At(pc, u, i)]
  BY DEF Rumor
<1>3. i \in Nat /\ pc \in {"store", "push"} /\ pc \in PC /\ n \in Node
      /\ (pc = "store" <=> kind = "LOGIN" /\ StoresLogin(n, e))
  BY Types DEF PC
<1> HIDE DEF e, pc
<1>4. /\ Len(events') = i /\ events'[i] = e /\ events' \in Seq(EventOf)
      /\ \A k \in 1..Len(events) : events'[k] = events[k]
  BY <1>1, <1>2, Types
<1>5. EventsGrow
  BY <1>4, Types DEF EventsGrow
<1>6. /\ thread' \in [Sock -> ThreadType] /\ thread'[s] = At(pc, u, i)
      /\ \A r \in Sock : r # s => thread'[r] = thread[r]
  <2>1. At(pc, u, i) \in ThreadType
    BY <1>3, Stages
  <2> QED BY <1>2, <2>1, Types
<1>7. /\ log' \in [Node -> Seq(Nat)] /\ Range(log'[n]) = Range(log[n]) \cup {i}
      /\ \A m \in Node : m # n => log'[m] = log[m]
  <2>1. Append(log[n], i) \in Seq(Nat) /\ Range(Append(log[n], i)) = Range(log[n]) \cup {i}
    <3>1. log[n] \in Seq(Nat) /\ i \in Nat
      BY <1>3, Types
    <3> HIDE DEF n, i
    <3> QED BY <3>1, RangeAppend
  <2> HIDE DEF n, i
  <2>2. /\ log' = [log EXCEPT ![n] = Append(log[n], i)] /\ n \in Node
        /\ log \in [Node -> Seq(Nat)]
    BY <1>2, <1>3, Types
  <2>3. /\ log' \in [Node -> Seq(Nat)] /\ log'[n] = Append(log[n], i)
        /\ \A m \in Node : m # n => log'[m] = log[m]
    BY <2>1, <2>2
  <2> QED BY <2>1, <2>3
<1>8. Rumors(s, kind, u, e, i, pc)
  BY <1>1, <1>2, <1>3, <1>4, <1>5, <1>6, <1>7 DEF Rumors
<1> QED BY <1>1, <1>3, <1>8

\* rumor() keeps TInv.
LEMMA RumorTyped ==
    ASSUME TInv, NEW s \in Sock, NEW kind \in {"LOGIN", "LOGOUT", "RECONNECT", "USER_CREATED"},
           NEW u \in User, host[s] \in Node, Rumor(s, kind, u),
           UNCHANGED <<up, live, wire, applying, sessions, host, clientVars, bounds>>,
           kind = "USER_CREATED" => s \in sessions[host[s]],
           thread[s].pc = "moved" => kind = "RECONNECT" /\ thread[s].user = u
    PROVE  TInv'
<1>0. UNCHANGED <<sock, me, resume, requests, losses, cuts, crashes>>
  BY DEF clientVars, bounds
<1>r. PICK e \in EventOf, i \in Nat, pc \in {"store", "push"} : Rumors(s, kind, u, e, i, pc)
  BY RumorFacts
<1>1. /\ e.kind = kind /\ e.user = u /\ e.node = host[s]
      /\ i = Len(events) + 1 /\ Len(events') = i /\ events'[i] = e
      /\ EventsGrow /\ ApplyEvent(host[s], e)
      /\ pc = "store" <=> kind = "LOGIN" /\ StoresLogin(host[s], e)
      /\ thread' \in [Sock -> ThreadType] /\ thread'[s] = At(pc, u, i)
      /\ \A r \in Sock : r # s => thread'[r] = thread[r]
      /\ log' \in [Node -> Seq(Nat)]
      /\ Range(log'[host[s]]) = Range(log[host[s]]) \cup {i}
      /\ \A n \in Node : n # host[s] => log'[n] = log[n]
  BY <1>r DEF Rumors
<1>2. /\ row' \in [Node -> [User -> Node \cup {NoNode}]]
      /\ account' \in [Node -> [User -> Node \cup {NoNode}]]
      /\ auth' \in [Sock -> User \cup {NoUser}]
      /\ AccountsKept
      /\ \A r \in Sock : auth'[r] = auth[r] \/ auth'[r] = NoUser
      /\ \A m \in Node, v \in User :
            row'[m][v] = row[m][v] \/ row'[m][v] = NoNode
            \/ (v = u /\ e.kind = "RECONNECT" /\ row'[m][v] = host[s])
      /\ e.kind = "USER_CREATED" => account'[host[s]][u] # NoNode
  BY <1>1, Applied
<1>3. TypeOK'
  BY <1>0, <1>1, <1>2, Types DEF TypeOK, ThreadType, EventsGrow
<1>4. i \in 1..Len(events') /\ Len(events) \in Nat /\ \A k \in 1..Len(events) : k \in 1..Len(events')
  BY <1>1, Types
<1>5. Indices'
  <2>1. \A n \in Node : Range(log'[n]) \subseteq 1..Len(events')
    <3>1. \A n \in Node : Range(log[n]) \subseteq 1..Len(events')
      BY <1>4, Types DEF Indices
    <3>2. Range(log'[host[s]]) \subseteq 1..Len(events')
      BY <1>1, <1>4, <3>1
    <3>3. \A n \in Node : n # host[s] => log'[n] = log[n]
      BY <1>1
    <3> QED BY <3>1, <3>2, <3>3
  <2>2. \A m, n \in Node : Range(wire[m][n]) \subseteq 1..Len(events')
    BY <1>4, Types DEF Indices
  <2>3. \A n, m \in Node : applying[n][m] # 0 =>
          /\ applying[n][m] \in 1..Len(events')
          /\ events'[applying[n][m]].kind = "LOGIN"
    <3>1. \A k \in 1..Len(events) : k \in 1..Len(events') /\ events'[k] = events[k]
      BY <1>1, <1>4 DEF EventsGrow
    <3>2. \A n, m \in Node : applying[n][m] # 0 =>
            applying[n][m] \in 1..Len(events) /\ events[applying[n][m]].kind = "LOGIN"
      BY Types DEF Indices
    <3> QED BY <3>1, <3>2
  <2> QED BY <2>1, <2>2, <2>3 DEF Indices
<1>6. Clients'
  BY <1>0, ClientsStay
<1>7. \A r \in Sock : r # s => Undisturbed(r)
  BY <1>1, <1>2 DEF Undisturbed, HostKept
<1>8. thread'[s].pc = pc /\ thread'[s].user = u /\ thread'[s].ev = i
  BY <1>1, Stages DEF PC
<1>9. ThreadOk(s)' /\ (PushesAccount(s)' <=> kind = "USER_CREATED")
  BY <1>1, <1>4, <1>8 DEF ThreadOk, PushesAccount
<1>10. ServingOk(s)'
  <2>1. ServingOk(s) /\ auth[s] \in User \cup {NoUser}
    BY Types, ServingMeans
  <2>2. auth'[s] # NoUser => /\ host'[s] \in Node /\ s \in sessions'[host'[s]]
                             /\ account'[host'[s]][auth'[s]] # NoNode
    BY <1>2, <2>1 DEF ServingOk, AccountsKept
  <2> QED BY <1>1, <1>2, <1>8, <1>9, <2>2 DEF ServingOk
<1>11. NoInventedRows'
  <2>1. kind = "RECONNECT" => \A m : m = host[s] => Rumored(u, m)'
    BY <1>1, <1>4 DEF Rumored
  <2>2. \A n \in Node, v \in User :
           row'[n][v] = row[n][v] \/ row'[n][v] = NoNode \/ Rumored(v, row[n][v])'
    <3>1. SUFFICES ASSUME NEW n \in Node, NEW v \in User, row'[n][v] # row[n][v], row'[n][v] # NoNode
                   PROVE  Rumored(v, row[n][v])'
      OBVIOUS
    <3>2. v = u /\ kind = "RECONNECT" /\ row'[n][v] = host[s]
      BY <1>1, <1>2, <3>1
    <3> QED BY <2>1, <3>2 DEF Rumored
  <2>3. \A r \in Sock, v \in User, m \in Node : thread[r] = At("moved", v, 0) /\ host[r] = m =>
              \/ thread'[r] = thread[r] /\ host'[r] = host[r]
              \/ Rumored(v, m)' \/ ~up'[m]
    <3>1. \A v \in User : thread[s] = At("moved", v, 0) => v = u /\ kind = "RECONNECT"
      BY DEF At
    <3> QED BY <1>1, <2>1, <3>1
  <2>4. \A n \in Node : ~up[n] => ~up'[n]
    OBVIOUS
  <2> QED BY <1>1, <2>2, <2>3, <2>4, RowsKept
<1> QED BY <1>1, <1>2, <1>3, <1>5, <1>6, <1>7, <1>9, <1>10, <1>11, StepKeeps

\* The handler of a session that the step disturbs, and nobody else.
LEMMA OneSocket ==
    ASSUME TInv, NEW s \in Sock, TypeOK', UNCHANGED <<events, account, host>>,
           Indices', Clients', NoInventedRows', ThreadOk(s)', ServingOk(s)',
           \A r \in Sock : r # s => /\ thread'[r] = thread[r] /\ auth'[r] = auth[r]
                                    /\ \A n \in Node : r \in sessions[n] => r \in sessions'[n]
    PROVE  TInv'
<1>1. EventsGrow /\ AccountsKept
  BY SameEvents, AccountsStay
<1>2. \A r \in Sock : r # s => Undisturbed(r)
  BY DEF Undisturbed, HostKept
<1> QED BY <1>1, <1>2, StepKeeps

\* The session becomes the user's: LOGIN and REGISTER.
LEMMA SetSessionTyped ==
    ASSUME TInv, NEW s \in Sock, SetSession(s)
    PROVE  TInv'
<1>1. /\ thread[s].pc = "set" /\ auth' = [auth EXCEPT ![s] = thread[s].user]
      /\ thread' = [thread EXCEPT ![s].pc = "rumor"]
      /\ UNCHANGED <<up, live, wire, events, log, applying, account, row, sessions, host, sock, me,
                     resume, requests, losses, cuts, crashes>>
  BY DEF SetSession, netVars, dbVars, clientVars, bounds
<1>2. ThreadOk(s) /\ ServingOk(s) /\ thread[s] \in ThreadType
  BY Types, ServingMeans DEF Threads
<1>3. /\ thread' \in [Sock -> ThreadType] /\ \A r \in Sock : r # s => thread'[r] = thread[r]
      /\ thread'[s].pc = "rumor" /\ thread'[s].user = thread[s].user
      /\ thread'[s].ev = thread[s].ev
  <2>1. "rumor" \in PC /\ thread[s].user \in User \cup {NoUser} /\ thread[s].ev \in Nat
    BY <1>2, Stages DEF PC
  <2>2. thread \in [Sock -> ThreadType] /\ thread' = [thread EXCEPT ![s].pc = "rumor"]
    BY <1>1, Types
  <2> QED BY <2>1, <2>2, NextStage
<1>4. thread[s].user \in User /\ host[s] \in Node /\ thread[s].ev = 0 /\ s \in sessions[host[s]]
      /\ account[host[s]][thread[s].user] # NoNode
  BY <1>1, <1>2 DEF ThreadOk, ServingOk
<1>5. /\ auth' \in [Sock -> User \cup {NoUser}] /\ auth'[s] = thread[s].user
      /\ \A r \in Sock : r # s => auth'[r] = auth[r]
  BY <1>1, <1>4, Types
<1>6. TypeOK'
  BY <1>1, <1>3, <1>5, Types DEF TypeOK, ThreadType
<1>7. ThreadOk(s)' /\ ServingOk(s)'
  BY <1>1, <1>3, <1>4, <1>5 DEF ThreadOk, ServingOk, PushesAccount
<1>8. Indices' /\ Clients' /\ EventsGrow
  BY <1>1, SameEvents, IndicesKept, ClientsStay
<1>9. NoInventedRows'
  <2>1. \A r \in Sock : thread[r].pc = "moved" => thread'[r] = thread[r]
    BY <1>1, <1>3
  <2> QED BY <1>1, <1>8, <2>1, RowsStay
<1> QED BY <1>1, <1>3, <1>5, <1>6, <1>7, <1>8, <1>9, OneSocket

\* RECONNECT: session and row become this node's.
LEMMA ClaimTyped ==
    ASSUME TInv, NEW s \in Sock, Claim(s)
    PROVE  TInv'
<1>1. /\ thread[s].pc = "claim" /\ auth' = [auth EXCEPT ![s] = thread[s].user]
      /\ row' = [row EXCEPT ![host[s]][thread[s].user] = host[s]]
      /\ thread' = [thread EXCEPT ![s].pc = "moved"]
      /\ UNCHANGED <<up, live, wire, events, log, applying, account, sessions, host, sock, me,
                     resume, requests, losses, cuts, crashes>>
  BY DEF Claim, SetOnline, netVars, clientVars, bounds
<1>2. ThreadOk(s) /\ ServingOk(s) /\ thread[s] \in ThreadType
  BY Types, ServingMeans DEF Threads
<1>4. thread[s].user \in User /\ host[s] \in Node /\ thread[s].ev = 0 /\ s \in sessions[host[s]]
      /\ account[host[s]][thread[s].user] # NoNode
  BY <1>1, <1>2 DEF ThreadOk, ServingOk
<1>3. /\ thread' \in [Sock -> ThreadType] /\ \A r \in Sock : r # s => thread'[r] = thread[r]
      /\ thread'[s] = At("moved", thread[s].user, 0)
      /\ thread'[s].pc = "moved" /\ thread'[s].user = thread[s].user /\ thread'[s].ev = 0
  <2>1. "moved" \in PC /\ thread[s].user \in User \cup {NoUser} /\ 0 \in Nat
    BY <1>4 DEF PC
  <2>2. thread \in [Sock -> ThreadType] /\ thread' = [thread EXCEPT ![s].pc = "moved"]
    BY <1>1, Types
  <2> QED BY <2>1, <2>2, NextStage, <1>4
<1>5. /\ auth' \in [Sock -> User \cup {NoUser}] /\ auth'[s] = thread[s].user
      /\ \A r \in Sock : r # s => auth'[r] = auth[r]
  BY <1>1, <1>4, Types
<1>6. /\ row' \in [Node -> [User -> Node \cup {NoNode}]]
      /\ row'[host[s]][thread[s].user] = host[s]
      /\ \A n \in Node, u \in User : n # host[s] \/ u # thread[s].user => row'[n][u] = row[n][u]
  BY <1>1, <1>4, Types
<1>7. TypeOK'
  BY <1>1, <1>3, <1>5, <1>6, Types DEF TypeOK, ThreadType
<1>8. ThreadOk(s)' /\ ServingOk(s)'
  BY <1>1, <1>3, <1>4, <1>5 DEF ThreadOk, ServingOk, PushesAccount
<1>9. Indices' /\ Clients' /\ EventsGrow
  BY <1>1, SameEvents, IndicesKept, ClientsStay
<1>10. NoInventedRows'
  <2>1. \A n \in Node, u \in User :
           row'[n][u] = row[n][u] \/ (row'[n][u] = n /\ Moving(u, n)')
    BY <1>1, <1>3, <1>4, <1>6 DEF Moving
  <2>2. \A r \in Sock, u \in User, m \in Node : thread[r] = At("moved", u, 0) /\ host[r] = m =>
           thread'[r] = thread[r] /\ host'[r] = host[r]
    <3>1. \A u \in User : thread[s] # At("moved", u, 0)
      BY <1>1 DEF At
    <3> QED BY <1>1, <1>3, <3>1
  <2>3. \A n \in Node : ~up[n] => ~up'[n]
    BY <1>1
  <2> QED BY <1>9, <2>1, <2>2, <2>3, RowsKept
<1> QED BY <1>1, <1>3, <1>5, <1>7, <1>8, <1>9, <1>10, OneSocket

\* The rumors of the handlers.
LEMMA RumorsTyped ==
    ASSUME TInv, NEW s \in Sock, RumorLogin(s) \/ RumorLogout(s) \/ RumorReconnect(s)
    PROVE  TInv'
<1>1. UNCHANGED <<up, live, wire, applying, sessions, host, clientVars, bounds>>
  BY DEF RumorLogin, RumorLogout, RumorReconnect
<1>2. ThreadOk(s) /\ thread[s].pc \in {"rumor", "bye", "moved"}
  BY Types DEF Threads, RumorLogin, RumorLogout, RumorReconnect
<1>3. PICK u \in User : u = thread[s].user /\ host[s] \in Node
  BY <1>2 DEF ThreadOk
<1>4. CASE RumorLogin(s)
  BY <1>1, <1>3, <1>4, RumorTyped DEF RumorLogin
<1>5. CASE RumorLogout(s)
  BY <1>1, <1>3, <1>5, RumorTyped DEF RumorLogout
<1>6. CASE RumorReconnect(s)
  BY <1>1, <1>3, <1>6, RumorTyped DEF RumorReconnect
<1> QED BY <1>4, <1>5, <1>6

\* REGISTER: the account is created, or was since the check.
LEMMA CreateUserTyped ==
    ASSUME TInv, NEW s \in Sock, CreateUser(s)
    PROVE  TInv'
<1>1. /\ UNCHANGED <<up, live, wire, applying, sessions, host, clientVars, bounds>>
      /\ thread[s].pc = "create"
  BY DEF CreateUser
<1>2. ThreadOk(s) /\ ServingOk(s)
  BY Types, ServingMeans DEF Threads
<1>3. PICK u \in User : u = thread[s].user /\ host[s] \in Node /\ s \in sessions[host[s]]
  BY <1>1, <1>2 DEF ThreadOk, ServingOk
<1>4. CASE Rumor(s, "USER_CREATED", thread[s].user)
  BY <1>1, <1>3, <1>4, RumorTyped
<1>5. CASE ~Rumor(s, "USER_CREATED", thread[s].user)
  <2>1. thread' = [thread EXCEPT ![s] = Idle] /\ UNCHANGED <<events, log, account, row, auth>>
    BY <1>5 DEF CreateUser
  <2>2. UNCHANGED <<up, netVars, dbVars, sessions, host, auth, clientVars>>
    BY <1>1, <2>1 DEF netVars, dbVars
  <2>3. PICK t \in ThreadType : t = Idle /\ t.pc = "idle"
    BY Stages
  <2>4. thread' \in [Sock -> ThreadType] /\ thread'[s] = t
    BY <2>1, <2>3, Types
  <2>5. TypeOK'
    BY <1>1, <2>1, <2>4, Types DEF TypeOK, ThreadType, clientVars, bounds
  <2>6. ThreadOk(s)' /\ ServingOk(s)'
    BY <1>1, <1>2, <2>1, <2>3, <2>4 DEF ThreadOk, ServingOk, PushesAccount, Idle
  <2> QED BY <1>1, <2>1, <2>2, <2>3, <2>5, <2>6, HandlerStep
<1> QED BY <1>4, <1>5

\* LOGIN is stored where it was rumored.
LEMMA StoreLoginTyped ==
    ASSUME TInv, NEW s \in Sock, StoreLogin(s)
    PROVE  TInv'
<1>1. /\ thread[s].pc = "store"
      /\ row' = [row EXCEPT ![host[s]][thread[s].user] = events[thread[s].ev].node]
      /\ thread' = [thread EXCEPT ![s].pc = "push"]
      /\ UNCHANGED <<up, live, wire, events, log, applying, account, sessions, host, auth, sock, me,
                     resume, requests, losses, cuts, crashes>>
  BY DEF StoreLogin, SetOnline, netVars, clientVars, bounds
<1>2. ThreadOk(s) /\ ServingOk(s) /\ thread[s] \in ThreadType
  BY Types, ServingMeans DEF Threads
<1>3. /\ thread[s].user \in User /\ host[s] \in Node /\ thread[s].ev \in 1..Len(events)
      /\ events[thread[s].ev].user = thread[s].user /\ events[thread[s].ev].node = host[s]
      /\ events[thread[s].ev].kind = "LOGIN"
  BY <1>1, <1>2 DEF ThreadOk
<1>4. /\ thread' \in [Sock -> ThreadType] /\ \A r \in Sock : r # s => thread'[r] = thread[r]
      /\ thread'[s].pc = "push" /\ thread'[s].user = thread[s].user
      /\ thread'[s].ev = thread[s].ev
  <2>1. "push" \in PC /\ thread[s].user \in User \cup {NoUser} /\ thread[s].ev \in Nat
    BY <1>2, Stages DEF PC
  <2>2. thread \in [Sock -> ThreadType] /\ thread' = [thread EXCEPT ![s].pc = "push"]
    BY <1>1, Types
  <2> QED BY <2>1, <2>2, NextStage
<1>5. /\ row' \in [Node -> [User -> Node \cup {NoNode}]]
      /\ row'[host[s]][thread[s].user] = host[s]
      /\ \A n \in Node, u \in User : n # host[s] \/ u # thread[s].user => row'[n][u] = row[n][u]
  BY <1>1, <1>3, Types
<1>6. TypeOK'
  BY <1>1, <1>4, <1>5, Types DEF TypeOK, ThreadType
<1>7. ThreadOk(s)' /\ ServingOk(s)'
  BY <1>1, <1>2, <1>3, <1>4 DEF ThreadOk, ServingOk, PushesAccount
<1>8. Indices' /\ Clients' /\ EventsGrow
  BY <1>1, SameEvents, IndicesKept, ClientsStay
<1>9. NoInventedRows'
  <2>1. \A n \in Node, u \in User :
           row'[n][u] = row[n][u] \/ Rumored(u, row[n][u])'
    <3>1. \A m : m = host[s] => Rumored(thread[s].user, m)
      BY <1>3 DEF Rumored
    <3>2. \A u, m : Rumored(u, m) => Rumored(u, m)'
      BY <1>1 DEF Rumored
    <3>3. \A u, n : u = thread[s].user /\ row'[n][u] = host[s] => Rumored(u, row[n][u])'
      BY <1>1, <1>3 DEF Rumored
    <3> QED BY <1>5, <3>3
  <2>2. \A r \in Sock, u \in User, m \in Node : thread[r] = At("moved", u, 0) /\ host[r] = m =>
           thread'[r] = thread[r] /\ host'[r] = host[r]
    <3>1. \A u \in User : thread[s] # At("moved", u, 0)
      BY <1>1 DEF At
    <3> QED BY <1>1, <1>4, <3>1
  <2>3. \A n \in Node : ~up[n] => ~up'[n]
    BY <1>1
  <2> QED BY <1>8, <2>1, <2>2, <2>3, RowsKept
<1> QED BY <1>1, <1>4, <1>6, <1>7, <1>8, <1>9, OneSocket

-----------------------------------------------------------------------------
(***************************************************************************)
(* Ends of requests and of sessions.                                       *)
(***************************************************************************)

\* A handler starts on LOGOUT, or on the LOGOUT of a lost session; there is
\* nothing to say about a guest.
LEMMA Leaves ==
    ASSUME TInv, NEW s \in Sock, host[s] \in Node, thread[s] = Idle, TypeOK',
           auth' = [auth EXCEPT ![s] = NoUser],
           thread' = [thread EXCEPT ![s] = IF auth[s] = NoUser THEN Idle ELSE At("bye", auth[s], 0)],
           UNCHANGED <<up, events, log, wire, applying, account, row, host>>, Clients',
           \A r \in Sock \ {s} : \A n \in Node : r \in sessions[n] => r \in sessions'[n]
    PROVE  TInv'
<1>1. auth[s] \in User \cup {NoUser} /\ ThreadOk(s) /\ thread[s].pc = "idle"
  BY Types, Stages DEF Threads
<1> DEFINE t == IF auth[s] = NoUser THEN Idle ELSE At("bye", auth[s], 0)
<1>2. /\ t \in ThreadType /\ t.pc = (IF auth[s] = NoUser THEN "idle" ELSE "bye")
      /\ t.ev = 0 /\ t.user = auth[s] /\ (auth[s] = NoUser => t = Idle)
  <2>1. CASE auth[s] = NoUser
    BY <2>1, Stages
  <2>2. CASE auth[s] # NoUser
    <3>1. t = At("bye", auth[s], 0)
      BY <2>2
    <3> HIDE DEF t
    <3> QED BY <1>1, <2>2, <3>1 DEF At, ThreadType, PC
  <2> QED BY <2>1, <2>2
<1>t. thread' = [thread EXCEPT ![s] = t]
  OBVIOUS
<1> HIDE DEF t
<1>3. /\ thread'[s] = t /\ auth'[s] = NoUser
      /\ \A r \in Sock : r # s => thread'[r] = thread[r] /\ auth'[r] = auth[r]
  BY <1>2, <1>t, Types
<1>4. ThreadOk(s)' /\ ServingOk(s)'
  BY <1>1, <1>2, <1>3 DEF ThreadOk, ServingOk, PushesAccount
<1>5. EventsGrow /\ Indices'
  BY SameEvents, IndicesKept
<1>6. NoInventedRows'
  <2>1. \A r \in Sock : thread[r].pc = "moved" => thread'[r] = thread[r]
    BY <1>1, <1>3
  <2> QED BY <1>5, <2>1, RowsStay
<1> QED BY <1>3, <1>4, <1>5, <1>6, OneSocket

\* The type of what Leaves writes.
LEMMA LeavesTyped ==
    ASSUME TInv, NEW s \in Sock, auth' = [auth EXCEPT ![s] = NoUser],
           thread' = [thread EXCEPT ![s] = IF auth[s] = NoUser THEN Idle ELSE At("bye", auth[s], 0)]
    PROVE  auth' \in [Sock -> User \cup {NoUser}] /\ thread' \in [Sock -> ThreadType]
<1>1. auth[s] \in User \cup {NoUser}
  BY Types
<1>2. (IF auth[s] = NoUser THEN Idle ELSE At("bye", auth[s], 0)) \in ThreadType
  BY <1>1 DEF Idle, At, ThreadType, PC
<1> QED BY <1>2, Types

\* LOGOUT.
LEMMA LogoutTyped ==
    ASSUME TInv, NEW c \in Client, Logout(c)
    PROVE  TInv'
<1>1. PICK s \in Sock : /\ s = sock[c] /\ host[s] \in Node /\ s \in sessions[host[s]]
                        /\ thread[s] = Idle
  BY ReadySock DEF Logout
<1>2. /\ auth' = [auth EXCEPT ![s] = NoUser]
      /\ thread' = [thread EXCEPT ![s] = IF auth[s] = NoUser THEN Idle ELSE At("bye", auth[s], 0)]
      /\ me' = [me EXCEPT ![c] = IF auth[s] = NoUser THEN NoUser ELSE @]
      /\ resume' = resume \ {c} /\ requests' = requests + 1
      /\ UNCHANGED <<up, live, wire, events, log, applying, account, row, sessions, host, sock,
                     losses, cuts, crashes>>
  BY <1>1 DEF Logout, netVars, dbVars
<1>3. /\ me' \in [Client -> User \cup {NoUser}] /\ resume' \subseteq Client /\ requests' \in Nat
      /\ \A d \in Client : d # c => me'[d] = me[d]
  BY <1>2, Types
<1>4. auth' \in [Sock -> User \cup {NoUser}] /\ thread' \in [Sock -> ThreadType]
  BY <1>2, LeavesTyped
<1>5. TypeOK'
  BY <1>2, <1>3, <1>4, Types DEF TypeOK, ThreadType
<1>6. Clients'
  BY <1>2, <1>3, Types DEF Clients
<1> QED BY <1>1, <1>2, <1>5, <1>6, Leaves

\* removeSession.
LEMMA RemoveSessionTyped ==
    ASSUME TInv, NEW s \in Sock, RemoveSession(s)
    PROVE  TInv'
<1>1. /\ host[s] \in Node /\ s \in sessions[host[s]] /\ Orphan(s) /\ thread[s] = Idle
      /\ sessions' = [sessions EXCEPT ![host[s]] = @ \ {s}]
      /\ auth' = [auth EXCEPT ![s] = NoUser]
      /\ thread' = [thread EXCEPT ![s] = IF auth[s] = NoUser THEN Idle ELSE At("bye", auth[s], 0)]
      /\ UNCHANGED <<up, live, wire, events, log, applying, account, row, host, sock, me, resume,
                     requests, losses, cuts, crashes>>
  BY Types DEF RemoveSession, netVars, dbVars, clientVars, bounds
<1>2. /\ sessions' \in [Node -> SUBSET Sock]
      /\ \A r \in Sock \ {s} : \A n \in Node : r \in sessions[n] => r \in sessions'[n]
  BY <1>1, Types
<1>3. auth' \in [Sock -> User \cup {NoUser}] /\ thread' \in [Sock -> ThreadType]
  BY <1>1, LeavesTyped
<1>4. TypeOK'
  BY <1>1, <1>2, <1>3, Types DEF TypeOK, ThreadType
<1>5. Clients'
  <2>1. \A c \in Client : sock[c] # s /\ sock[c] \in Sock \cup {NoSock}
    BY <1>1, Types DEF Orphan
  <2> QED BY <1>1, <1>2, <2>1, Types DEF Clients
<1> QED BY <1>1, <1>2, <1>4, <1>5, Leaves

\* The push to the peers and the reply.
LEMMA PushTyped ==
    ASSUME TInv, NEW s \in Sock, Push(s)
    PROVE  TInv'
<1> DEFINE n == host[s]
           i == thread[s].ev
           t == IF events[i].kind = "USER_CREATED" THEN At("set", thread[s].user, 0) ELSE Idle
<1>1. /\ thread[s].pc = "push"
      /\ wire' = [wire EXCEPT ![n] = [m \in Node |->
                     IF Connected(n, m) THEN Append(wire[n][m], i) ELSE wire[n][m]]]
      /\ thread' = [thread EXCEPT ![s] = t]
      /\ me' = [c \in Client |->
                  IF sock[c] # s \/ events[i].kind = "USER_CREATED" THEN me[c]
                  ELSE IF events[i].kind = "LOGOUT" THEN NoUser ELSE thread[s].user]
      /\ resume' = {c \in resume : sock[c] # s}
      /\ UNCHANGED <<up, live, events, log, applying, account, row, sessions, host, auth, sock,
                     requests, losses, cuts, crashes>>
  BY DEF Push, dbVars, bounds
<1>2. ThreadOk(s) /\ ServingOk(s) /\ thread[s] \in ThreadType
  BY Types, ServingMeans DEF Threads
<1>3. /\ n \in Node /\ i \in 1..Len(events) /\ i \in Nat /\ thread[s].user \in User
      /\ events[i].user = thread[s].user
      /\ events[i].kind = "USER_CREATED" => /\ s \in sessions[n]
                                            /\ account[n][thread[s].user] # NoNode
  BY <1>1, <1>2, Types DEF ThreadOk, ServingOk, PushesAccount
<1>4. /\ t \in ThreadType /\ t.ev = 0 /\ t.pc \in {"set", "idle"}
      /\ t.pc = "idle" => t = Idle
      /\ t.pc = "set" => t.user = thread[s].user /\ events[i].kind = "USER_CREATED"
  BY <1>3 DEF Idle, At, ThreadType, PC
<1> HIDE DEF n, i, t
<1>5. /\ thread' \in [Sock -> ThreadType] /\ thread'[s] = t
      /\ \A r \in Sock : r # s => thread'[r] = thread[r]
  BY <1>1, <1>4, Types
<1>6. /\ wire' \in [Node -> [Node -> Seq(Nat)]]
      /\ \A m, k \in Node : Range(wire'[m][k]) \subseteq Range(wire[m][k]) \cup {i}
  <2>1. \A k \in Node : /\ wire[n][k] \in Seq(Nat) /\ Append(wire[n][k], i) \in Seq(Nat)
                        /\ Range(Append(wire[n][k], i)) = Range(wire[n][k]) \cup {i}
    <3>1. \A k \in Node : wire[n][k] \in Seq(Nat)
      BY <1>3, Types
    <3> QED BY <1>3, <3>1, RangeAppend
  <2>2. \A m \in Node : m # n => wire'[m] = wire[m]
    BY <1>1, Types
  <2>3. wire'[n] = [m \in Node |-> IF Connected(n, m) THEN Append(wire[n][m], i) ELSE wire[n][m]]
    BY <1>1, <1>3, Types
  <2>4. \A k \in Node : wire'[n][k] = Append(wire[n][k], i) \/ wire'[n][k] = wire[n][k]
    BY <2>3
  <2>5. \A k \in Node : wire'[n][k] \in Seq(Nat) /\ Range(wire'[n][k]) \subseteq Range(wire[n][k]) \cup {i}
    BY <2>1, <2>4
  <2>6. wire'[n] \in [Node -> Seq(Nat)]
    BY <2>3, <2>5
  <2>7. DOMAIN wire' = Node /\ wire' = [m \in Node |-> wire'[m]]
    BY <1>1, Types
  <2> QED BY <2>2, <2>5, <2>6, <2>7, Types
<1>7. /\ me' \in [Client -> User \cup {NoUser}] /\ resume' \subseteq Client
      /\ \A c \in resume' : c \in resume /\ me'[c] = me[c]
  BY <1>1, <1>3, Types
<1>8. TypeOK'
  BY <1>1, <1>5, <1>6, <1>7, Types DEF TypeOK, ThreadType
<1>9. ThreadOk(s)' /\ ServingOk(s)'
  <2>1. thread'[s].pc \in {"set", "idle"} /\ ~PushesAccount(s)'
    BY <1>4, <1>5 DEF PushesAccount
  <2>2. ThreadOk(s)'
    BY <1>1, <1>3, <1>4, <1>5, <2>1 DEF ThreadOk, n
  <2> QED BY <1>1, <1>2, <1>3, <1>4, <1>5, <2>1, <2>2 DEF ServingOk, n
<1>10. Indices'
  <2>1. \A m, k \in Node : Range(wire'[m][k]) \subseteq 1..Len(events)
    <3>1. \A m, k \in Node : Range(wire[m][k]) \subseteq 1..Len(events)
      BY Types DEF Indices
    <3>2. SUFFICES ASSUME NEW m \in Node, NEW k \in Node, NEW x \in Range(wire'[m][k])
                   PROVE  x \in 1..Len(events)
      OBVIOUS
    <3>3. x \in Range(wire[m][k]) \/ x = i
      BY <1>6
    <3> QED BY <1>3, <3>1, <3>3
  <2>2. UNCHANGED <<events, log, applying>> /\ Indices
    BY <1>1, Types
  <2> QED BY <2>1, <2>2 DEF Indices
<1>11. Clients'
  BY <1>1, <1>7, Types DEF Clients
<1>12. NoInventedRows'
  <2>1. \A r \in Sock : thread[r].pc = "moved" => thread'[r] = thread[r]
    BY <1>1, <1>5
  <2>2. EventsGrow
    BY <1>1, SameEvents
  <2> QED BY <1>1, <2>1, <2>2, RowsStay
<1> QED BY <1>1, <1>5, <1>8, <1>9, <1>10, <1>11, <1>12, OneSocket

-----------------------------------------------------------------------------
(***************************************************************************)
(* Clients and peers come and go.                                          *)
(***************************************************************************)

\* Steps that leave the sessions and the tables alone.
LEMMA QuietStep ==
    ASSUME TInv, TypeOK', Indices', Clients', UNCHANGED <<up, events, dbVars, sessionVars>>
    PROVE  TInv'
<1>1. UNCHANGED <<up, events, account, row, sessions, host, auth, thread>>
  BY DEF dbVars, sessionVars
<1>2. EventsGrow /\ AccountsKept
  BY <1>1, SameEvents, AccountsStay
<1>3. NoInventedRows'
  BY <1>1, <1>2, RowsStay
<1>4. \A s \in Sock : Undisturbed(s)
  BY <1>1 DEF Undisturbed, HostKept
<1> QED BY <1>2, <1>3, <1>4, StepKeeps

\* A client gives up resuming, or loses its connection.
LEMMA ClientLeavesTyped ==
    ASSUME TInv, NEW c \in Client, GiveUp(c) \/ LoseLink(c)
    PROVE  TInv'
<1>1. /\ UNCHANGED <<up, live, wire, events, log, applying, dbVars, sessionVars, me,
                     requests, cuts, crashes>>
      /\ losses' \in Nat /\ resume' = resume \ {c}
      /\ sock' = sock \/ sock' = [sock EXCEPT ![c] = NoSock]
  BY Types DEF GiveUp, LoseLink, netVars, bounds
<1>2. UNCHANGED <<account, row, sessions, host, auth, thread>>
  BY <1>1 DEF dbVars, sessionVars
<1>3. /\ sock' \in [Client -> Sock \cup {NoSock}]
      /\ \A d \in Client : sock'[d] = sock[d] \/ sock'[d] = NoSock
  BY <1>1, Types
<1>4. TypeOK'
  BY <1>1, <1>2, <1>3, Types DEF TypeOK, ThreadType
<1>5. Indices'
  BY <1>1, SameEvents, IndicesKept
<1>6. Clients'
  BY <1>1, <1>2, <1>3, Types DEF Clients
<1> QED BY <1>1, <1>4, <1>5, <1>6, QuietStep

\* openSession.
LEMMA ConnectTyped ==
    ASSUME TInv, NEW c \in Client, NEW n \in Node, Connect(c, n)
    PROVE  TInv'
<1>1. PICK s \in Sock : /\ host[s] = NoNode
                        /\ sock' = [sock EXCEPT ![c] = s] /\ host' = [host EXCEPT ![s] = n]
                        /\ sessions' = [sessions EXCEPT ![n] = @ \cup {s}]
  BY DEF Connect
<1>2. /\ resume' = (IF me[c] = NoUser THEN resume ELSE resume \cup {c})
      /\ UNCHANGED <<up, live, wire, events, log, applying, account, row, auth, thread, me,
                     requests, losses, cuts, crashes>>
  BY DEF Connect, netVars, dbVars, bounds
<1>3. /\ sock' \in [Client -> Sock \cup {NoSock}] /\ sock'[c] = s
      /\ \A d \in Client : d # c => sock'[d] = sock[d]
      /\ host' \in [Sock -> Node \cup {NoNode}] /\ host'[s] = n
      /\ \A r \in Sock : r # s => host'[r] = host[r]
      /\ sessions' \in [Node -> SUBSET Sock] /\ s \in sessions'[n]
      /\ \A k \in Node : sessions[k] \subseteq sessions'[k]
      /\ resume' \subseteq Client
  BY <1>1, <1>2, Types
<1>4. TypeOK'
  BY <1>2, <1>3, Types DEF TypeOK, ThreadType
<1>5. \A r \in Sock : HostKept(r)
  BY <1>1, <1>3, NullAssumption DEF HostKept
<1>6. EventsGrow /\ AccountsKept /\ Indices'
  BY <1>2, SameEvents, AccountsStay, IndicesKept
<1>7. \A r \in Sock : Undisturbed(r)
  BY <1>2, <1>3, <1>5 DEF Undisturbed
<1>8. Clients'
  <2>1. \A d \in Client : d # c /\ sock'[d] # NoSock =>
           host'[sock'[d]] \in Node /\ sock'[d] \in sessions'[host'[sock'[d]]]
    <3>1. SUFFICES ASSUME NEW d \in Client, d # c, sock'[d] # NoSock
                   PROVE  host'[sock'[d]] \in Node /\ sock'[d] \in sessions'[host'[sock'[d]]]
      OBVIOUS
    <3>2. PICK r \in Sock : r = sock[d] /\ r = sock'[d] /\ host[r] \in Node /\ r \in sessions[host[r]]
      BY <1>3, <3>1, Types DEF Clients
    <3> QED BY <1>3, <1>5, <3>2 DEF HostKept
  <2>2. \A d \in resume' : me'[d] \in User
    BY <1>2, Types DEF Clients
  <2> QED BY <1>3, <2>1, <2>2 DEF Clients
<1>9. NoInventedRows'
  <2>1. \A r \in Sock, u \in User, m \in Node : thread[r] = At("moved", u, 0) /\ host[r] = m =>
           thread'[r] = thread[r] /\ host'[r] = host[r]
    BY <1>2, <1>5 DEF HostKept
  <2> QED BY <1>2, <1>6, <2>1, RowsKept
<1> QED BY <1>4, <1>6, <1>7, <1>8, <1>9, StepKeeps

-----------------------------------------------------------------------------
(***************************************************************************)
(* Gossip and processes.                                                   *)
(***************************************************************************)

\* An event on its way is accepted, or was before.
LEMMA DeliverTyped ==
    ASSUME TInv, NEW n \in Node, NEW m \in Node, Deliver(n, m)
    PROVE  TInv'
<1> DEFINE i == Head(wire[m][n])
           x == IF events[i].kind = "LOGIN" /\ StoresLogin(n, events[i]) THEN i ELSE 0
<1>1. /\ wire[m][n] # <<>> /\ wire' = [wire EXCEPT ![m][n] = Tail(wire[m][n])]
      /\ UNCHANGED <<up, live, events, sessions, host, thread, sock, me, resume,
                     requests, losses, cuts, crashes>>
      /\ \/ UNCHANGED <<log, applying, row, account, auth>>
         \/ /\ log' = [log EXCEPT ![n] = Append(log[n], i)]
            /\ applying' = [applying EXCEPT ![n][m] = x] /\ ApplyEvent(n, events[i])
  BY DEF Deliver, clientVars, bounds
<1>2. /\ wire[m][n] \in Seq(Nat) /\ Tail(wire[m][n]) \in Seq(Nat)
      /\ Range(Tail(wire[m][n])) \subseteq Range(wire[m][n]) /\ i \in Range(wire[m][n])
  <2>1. wire[m][n] \in Seq(Nat)
    BY Types
  <2> QED BY <1>1, <2>1, RangeTail
<1>3. i \in 1..Len(events) /\ events[i] \in EventOf
  <2>1. i \in 1..Len(events)
    BY <1>2, Types DEF Indices
  <2> HIDE DEF i
  <2>2. events \in Seq(EventOf)
    BY Types
  <2> QED BY <2>1, <2>2
<1> HIDE DEF i
<1>4. i \in Nat /\ x \in Nat /\ (x # 0 => x = i /\ events[i].kind = "LOGIN")
  <2>1. i \in Nat
    BY <1>3
  <2> QED BY <2>1
<1> HIDE DEF x
<1>5. /\ wire' \in [Node -> [Node -> Seq(Nat)]]
      /\ \A k, l \in Node : Range(wire'[k][l]) \subseteq Range(wire[k][l])
  BY <1>1, <1>2, Types
<1>6. /\ log' \in [Node -> Seq(Nat)] /\ \A k \in Node : Range(log'[k]) \subseteq Range(log[k]) \cup {i}
  <2>1. CASE UNCHANGED log
    BY <2>1, Types
  <2>2. CASE log' = [log EXCEPT ![n] = Append(log[n], i)]
    <3>1. log[n] \in Seq(Nat)
      BY Types
    <3>2. Append(log[n], i) \in Seq(Nat) /\ Range(Append(log[n], i)) = Range(log[n]) \cup {i}
      BY <1>4, <3>1, RangeAppend
    <3>3. log' \in [Node -> Seq(Nat)] /\ log'[n] = Append(log[n], i)
          /\ \A k \in Node : k # n => log'[k] = log[k]
      BY <2>2, <3>2, Types
    <3> QED BY <3>2, <3>3
  <2> QED BY <1>1, <2>1, <2>2
<1>7. /\ applying' \in [Node -> [Node -> Nat]]
      /\ \A k, l \in Node : applying'[k][l] = applying[k][l] \/ applying'[k][l] = x
  <2>1. CASE UNCHANGED applying
    BY <2>1, Types
  <2>2. CASE applying' = [applying EXCEPT ![n][m] = x]
    BY <1>4, <2>2, Types
  <2> QED BY <1>1, <2>1, <2>2
<1>8. /\ row' \in [Node -> [User -> Node \cup {NoNode}]]
      /\ account' \in [Node -> [User -> Node \cup {NoNode}]]
      /\ auth' \in [Sock -> User \cup {NoUser}]
      /\ AccountsKept
      /\ \A s \in Sock : auth'[s] = auth[s] \/ auth'[s] = NoUser
      /\ \A k \in Node, u \in User :
            \/ row'[k][u] = row[k][u] \/ row'[k][u] = NoNode
            \/ u = events[i].user /\ events[i].kind = "RECONNECT" /\ row'[k][u] = events[i].node
  <2>1. CASE UNCHANGED <<row, account, auth>>
    BY <2>1, Types, AccountsStay
  <2>2. CASE ApplyEvent(n, events[i])
    BY <1>3, <2>2, Applied
  <2> QED BY <1>1, <2>1, <2>2
<1>9. TypeOK'
  BY <1>1, <1>5, <1>6, <1>7, <1>8, Types DEF TypeOK, ThreadType
<1>10. Indices'
  <2>1. \A k \in Node : Range(log[k]) \subseteq 1..Len(events)
    BY Types DEF Indices
  <2>2. \A k \in Node : Range(log'[k]) \subseteq 1..Len(events)
    BY <1>3, <1>6, <2>1
  <2>3. \A k, l \in Node : Range(wire'[k][l]) \subseteq 1..Len(events)
    BY <1>5, Types DEF Indices
  <2>4. \A k, l \in Node : applying'[k][l] # 0 =>
           applying'[k][l] \in 1..Len(events) /\ events[applying'[k][l]].kind = "LOGIN"
    <3>1. \A k, l \in Node : applying[k][l] # 0 =>
             applying[k][l] \in 1..Len(events) /\ events[applying[k][l]].kind = "LOGIN"
      BY Types DEF Indices
    <3>2. SUFFICES ASSUME NEW k \in Node, NEW l \in Node, applying'[k][l] # 0
                   PROVE  /\ applying'[k][l] \in 1..Len(events)
                          /\ events[applying'[k][l]].kind = "LOGIN"
      OBVIOUS
    <3>3. CASE applying'[k][l] = applying[k][l]
      BY <3>1, <3>2, <3>3
    <3>4. CASE applying'[k][l] = x
      BY <1>3, <1>4, <3>2, <3>4
    <3> QED BY <1>7, <3>3, <3>4
  <2> QED BY <1>1, <2>2, <2>3, <2>4 DEF Indices
<1>11. EventsGrow /\ Clients'
  BY <1>1, SameEvents, ClientsStay
<1>12. NoInventedRows'
  <2>1. \A k \in Node, u \in User :
           row'[k][u] = row[k][u] \/ row'[k][u] = NoNode \/ Rumored(u, row[k][u])'
    BY <1>1, <1>3, <1>8 DEF Rumored
  <2> QED BY <1>1, <1>11, <2>1, RowsKept
<1>13. \A s \in Sock : Undisturbed(s)
  BY <1>1, <1>8 DEF Undisturbed, HostKept
<1> QED BY <1>8, <1>9, <1>10, <1>11, <1>12, <1>13, StepKeeps

\* The setOnline of an accepted LOGIN.
LEMMA FinishLoginTyped ==
    ASSUME TInv, NEW n \in Node, NEW m \in Node, FinishLogin(n, m)
    PROVE  TInv'
<1> DEFINE i == applying[n][m]
<1>1. /\ i # 0 /\ row' = [row EXCEPT ![n][events[i].user] = events[i].node]
      /\ applying' = [applying EXCEPT ![n][m] = 0]
      /\ UNCHANGED <<up, live, wire, events, log, account, sessions, host, auth, thread, sock, me,
                     resume, requests, losses, cuts, crashes>>
  BY DEF FinishLogin, SetOnline, sessionVars, clientVars, bounds
<1>2. i \in 1..Len(events) /\ events[i].kind = "LOGIN"
  BY <1>1, Types DEF Indices
<1>3. events[i].user \in User /\ events[i].node \in Node
  BY <1>2, EventFields
<1> HIDE DEF i
<1>4. /\ row' \in [Node -> [User -> Node \cup {NoNode}]]
      /\ \A k \in Node, u \in User :
            row'[k][u] = row[k][u] \/ (u = events[i].user /\ row'[k][u] = events[i].node)
  BY <1>1, <1>3, Types
<1>5. /\ applying' \in [Node -> [Node -> Nat]]
      /\ \A k, l \in Node : applying'[k][l] = applying[k][l] \/ applying'[k][l] = 0
  BY <1>1, Types
<1>6. TypeOK'
  BY <1>1, <1>4, <1>5, Types DEF TypeOK, ThreadType
<1>7. Indices'
  <2>1. Indices /\ UNCHANGED <<events, log, wire>>
    BY <1>1, Types
  <2>2. \A k, l \in Node : applying'[k][l] # 0 =>
           applying'[k][l] \in 1..Len(events) /\ events[applying'[k][l]].kind = "LOGIN"
    <3>1. \A k, l \in Node : applying[k][l] # 0 =>
             applying[k][l] \in 1..Len(events) /\ events[applying[k][l]].kind = "LOGIN"
      BY <2>1 DEF Indices
    <3>2. SUFFICES ASSUME NEW k \in Node, NEW l \in Node, applying'[k][l] # 0
                   PROVE  /\ applying'[k][l] \in 1..Len(events)
                          /\ events[applying'[k][l]].kind = "LOGIN"
      OBVIOUS
    <3>3. applying'[k][l] = applying[k][l]
      BY <1>5, <3>2
    <3> QED BY <3>1, <3>2, <3>3
  <2> QED BY <2>1, <2>2 DEF Indices
<1>8. EventsGrow /\ Clients' /\ AccountsKept
  BY <1>1, SameEvents, ClientsStay, AccountsStay
<1>9. NoInventedRows'
  <2>1. \A k \in Node, u \in User : row'[k][u] = row[k][u] \/ Rumored(u, row[k][u])'
    BY <1>1, <1>2, <1>4 DEF Rumored
  <2> QED BY <1>1, <1>8, <2>1, RowsKept
<1>10. \A s \in Sock : Undisturbed(s)
  BY <1>1 DEF Undisturbed, HostKept
<1> QED BY <1>6, <1>7, <1>8, <1>9, <1>10, StepKeeps

\* A missing event is sent.
LEMMA PullTyped ==
    ASSUME TInv, NEW n \in Node, NEW m \in Node, Pull(n, m)
    PROVE  TInv'
<1>1. PICK k \in 1..Len(log[m]) : wire' = [wire EXCEPT ![m][n] = Append(@, log[m][k])]
  BY DEF Pull
<1>2. UNCHANGED <<up, live, events, log, applying, dbVars, sessionVars, sock, me, resume,
                  requests, losses, cuts, crashes>>
  BY DEF Pull, clientVars, bounds
<1>3. UNCHANGED <<account, row, sessions, host, auth, thread>>
  BY <1>2 DEF dbVars, sessionVars
<1>4. PICK i \in Nat : i = log[m][k] /\ i \in 1..Len(events)
  <2>1. log[m] \in Seq(Nat)
    BY Types
  <2>2. log[m][k] \in Range(log[m]) /\ log[m][k] \in Nat
    BY <2>1, RangeTyped
  <2> QED BY <2>2, Types DEF Indices
<1>5. Append(wire[m][n], i) \in Seq(Nat) /\ Range(Append(wire[m][n], i)) = Range(wire[m][n]) \cup {i}
  <2>1. wire[m][n] \in Seq(Nat)
    BY Types
  <2> QED BY <1>4, <2>1, RangeAppend
<1>6. /\ wire' \in [Node -> [Node -> Seq(Nat)]] /\ wire'[m][n] = Append(wire[m][n], i)
      /\ \A k1, l \in Node : k1 # m \/ l # n => wire'[k1][l] = wire[k1][l]
  BY <1>1, <1>4, <1>5, Types
<1>7. TypeOK'
  BY <1>2, <1>3, <1>6, Types DEF TypeOK, ThreadType
<1>8. Indices'
  <2>1. \A k1, l \in Node : Range(wire[k1][l]) \subseteq 1..Len(events)
    BY Types DEF Indices
  <2>2. Range(wire'[m][n]) \subseteq 1..Len(events)
    BY <1>4, <1>5, <1>6, <2>1
  <2>3. \A k1, l \in Node : Range(wire'[k1][l]) \subseteq 1..Len(events)
    BY <1>6, <2>1, <2>2
  <2>4. Indices /\ UNCHANGED <<events, log, applying>>
    BY <1>2, Types
  <2> QED BY <2>3, <2>4 DEF Indices
<1>9. Clients'
  BY <1>2, <1>3, ClientsStay
<1> QED BY <1>2, <1>7, <1>8, <1>9, QuietStep

\* Peers come and go.
LEMMA PeersTyped ==
    ASSUME TInv, NEW n \in Node, NEW m \in Node, RegisterPeer(n, m) \/ RemovePeer(n, m)
    PROVE  TInv'
<1>1. /\ UNCHANGED <<up, events, log, applying, dbVars, sessionVars, sock, me, resume,
                     requests, losses, crashes>>
      /\ cuts' \in Nat
      /\ \/ live' = [live EXCEPT ![n] = @ \cup {m}, ![m] = @ \cup {n}]
         \/ live' = [live EXCEPT ![n] = @ \ {m}]
      /\ \/ UNCHANGED wire \/ wire' = [wire EXCEPT ![n][m] = <<>>, ![m][n] = <<>>]
  <2>1. CASE RegisterPeer(n, m)
    BY <2>1, Types DEF RegisterPeer, clientVars, bounds
  <2>2. CASE RemovePeer(n, m)
    <3>1. cuts' = cuts \/ cuts' = cuts + 1
      BY <2>2 DEF RemovePeer
    <3>2. cuts' \in Nat
      BY <3>1, Types
    <3> QED BY <2>2, <3>2 DEF RemovePeer, clientVars
  <2> QED BY <2>1, <2>2
<1>2. UNCHANGED <<account, row, sessions, host, auth, thread>>
  BY <1>1 DEF dbVars, sessionVars
<1>3. live' \in [Node -> SUBSET Node]
  <2>1. CASE live' = [live EXCEPT ![n] = @ \ {m}]
    BY <2>1, Types
  <2>2. CASE live' = [live EXCEPT ![n] = @ \cup {m}, ![m] = @ \cup {n}]
    <3> DEFINE w == [live EXCEPT ![n] = @ \cup {m}]
    <3>1. w \in [Node -> SUBSET Node]
      BY Types
    <3>2. live' = [w EXCEPT ![m] = @ \cup {n}]
      BY <2>2
    <3> HIDE DEF w
    <3> QED BY <3>1, <3>2
  <2> QED BY <1>1, <2>1, <2>2
<1>4. <<>> \in Seq(Nat) /\ Range(<<>>) = {}
  BY DEF Range
<1>5. /\ wire' \in [Node -> [Node -> Seq(Nat)]]
      /\ \A k, l \in Node : wire'[k][l] = wire[k][l] \/ wire'[k][l] = <<>>
  <2>1. CASE UNCHANGED wire
    BY <2>1, Types
  <2>2. CASE wire' = [wire EXCEPT ![n][m] = <<>>, ![m][n] = <<>>]
    <3> DEFINE w == [wire EXCEPT ![n][m] = <<>>]
    <3>1. /\ w \in [Node -> [Node -> Seq(Nat)]]
          /\ \A k, l \in Node : w[k][l] = wire[k][l] \/ w[k][l] = <<>>
      BY <1>4, Types
    <3>2. wire' = [w EXCEPT ![m][n] = <<>>]
      BY <2>2
    <3> HIDE DEF w
    <3> QED BY <1>4, <3>1, <3>2
  <2> QED BY <1>1, <2>1, <2>2
<1>6. TypeOK'
  BY <1>1, <1>2, <1>3, <1>5, Types DEF TypeOK, ThreadType
<1>7. Indices'
  <2>1. Indices /\ UNCHANGED <<events, log, applying>>
    BY <1>1, Types
  <2>2. \A k, l \in Node : Range(wire'[k][l]) \subseteq 1..Len(events)
    BY <1>4, <1>5, <2>1 DEF Indices
  <2> QED BY <2>1, <2>2 DEF Indices
<1>8. Clients'
  BY <1>1, <1>2, ClientsStay
<1> QED BY <1>1, <1>6, <1>7, <1>8, QuietStep

\* A process dies.
LEMMA CrashTyped ==
    ASSUME TInv, NEW n \in Node, Crash(n)
    PROVE  TInv'
<1> DEFINE lost == {s \in Sock : host[s] = n}
           cut  == {c \in Client : sock[c] \in lost}
<1>1. /\ crashes' = crashes + 1 /\ up' = [up EXCEPT ![n] = FALSE]
      /\ live' = [live EXCEPT ![n] = {}]
      /\ wire' = [m \in Node |-> [wire[m] EXCEPT ![n] = <<>>]]
      /\ log' = [log EXCEPT ![n] = <<>>]
      /\ applying' = [applying EXCEPT ![n] = [m \in Node |-> 0]]
      /\ sessions' = [sessions EXCEPT ![n] = {}]
      /\ auth' = [s \in Sock |-> IF s \in lost THEN NoUser ELSE auth[s]]
      /\ thread' = [s \in Sock |-> IF s \in lost THEN Idle ELSE thread[s]]
      /\ sock' = [c \in Client |-> IF c \in cut THEN NoSock ELSE sock[c]]
      /\ resume' = resume \ cut
      /\ UNCHANGED <<events, account, row, host, me, requests, losses, cuts>>
  BY DEF Crash, dbVars
<1>2. <<>> \in Seq(Nat) /\ Range(<<>>) = {}
  BY DEF Range
<1>3. /\ wire' \in [Node -> [Node -> Seq(Nat)]]
      /\ \A k, l \in Node : wire'[k][l] = wire[k][l] \/ wire'[k][l] = <<>>
  BY <1>1, <1>2, Types
<1>4. /\ log' \in [Node -> Seq(Nat)] /\ \A k \in Node : log'[k] = log[k] \/ log'[k] = <<>>
  BY <1>1, <1>2, Types
<1>5. /\ applying' \in [Node -> [Node -> Nat]]
      /\ \A k, l \in Node : applying'[k][l] = applying[k][l] \/ applying'[k][l] = 0
  BY <1>1, Types
<1>6. /\ up' \in [Node -> BOOLEAN] /\ ~up'[n] /\ \A k \in Node : ~up[k] => ~up'[k]
  BY <1>1, Types
<1>7. live' \in [Node -> SUBSET Node] /\ sessions' \in [Node -> SUBSET Sock]
      /\ \A k \in Node : k # n => sessions'[k] = sessions[k]
  BY <1>1, Types
<1>8. /\ auth' \in [Sock -> User \cup {NoUser}]
      /\ \A s \in Sock : IF host[s] = n THEN auth'[s] = NoUser ELSE auth'[s] = auth[s]
  BY <1>1, Types
<1>9. /\ thread' \in [Sock -> ThreadType]
      /\ \A s \in Sock : IF host[s] = n THEN thread'[s] = Idle ELSE thread'[s] = thread[s]
  BY <1>1, Types, Stages
<1>10. /\ sock' \in [Client -> Sock \cup {NoSock}] /\ resume' \subseteq Client
       /\ resume' \subseteq resume
       /\ \A c \in Client : sock'[c] # NoSock => sock'[c] = sock[c] /\ host[sock[c]] # n
  BY <1>1, Types
<1>11. crashes' \in Nat
  BY <1>1, Types
<1>12. TypeOK'
  BY <1>1, <1>3, <1>4, <1>5, <1>6, <1>7, <1>8, <1>9, <1>10, <1>11, Types DEF TypeOK, ThreadType
<1>13. Indices'
  <2>1. Indices /\ UNCHANGED events
    BY <1>1, Types
  <2>2. (\A k \in Node : Range(log[k]) \subseteq 1..Len(events))'
    BY <1>2, <1>4, <2>1 DEF Indices
  <2>3. (\A k, l \in Node : Range(wire[k][l]) \subseteq 1..Len(events))'
    BY <1>2, <1>3, <2>1 DEF Indices
  <2>4. (\A k, l \in Node : applying[k][l] # 0 =>
            applying[k][l] \in 1..Len(events) /\ events[applying[k][l]].kind = "LOGIN")'
    <3>1. ASSUME NEW k \in Node, NEW l \in Node, applying'[k][l] # 0
          PROVE  applying'[k][l] \in 1..Len(events) /\ events[applying'[k][l]].kind = "LOGIN"
      <4>1. applying'[k][l] = applying[k][l]
        BY <1>5, <3>1
      <4> QED BY <2>1, <3>1, <4>1 DEF Indices
    <3> QED BY <2>1, <3>1
  <2> QED BY <2>2, <2>3, <2>4 DEF Indices
<1>14. Clients'
  BY <1>1, <1>7, <1>10, Types DEF Clients
<1>15. EventsGrow /\ AccountsKept
  BY <1>1, SameEvents, AccountsStay
<1>16. \A s \in Sock : host[s] # n => Undisturbed(s)
  BY <1>1, <1>7, <1>8, <1>9 DEF Undisturbed, HostKept
<1>17. \A s \in Sock : host[s] = n => ThreadOk(s)' /\ ServingOk(s)'
  BY <1>8, <1>9, Stages DEF ThreadOk, ServingOk, PushesAccount
<1>18. NoInventedRows'
  <2>1. \A s \in Sock, u \in User, m \in Node : thread[s] = At("moved", u, 0) /\ host[s] = m =>
           (thread'[s] = thread[s] /\ host'[s] = host[s]) \/ ~up'[m]
    BY <1>1, <1>6, <1>9
  <2> QED BY <1>1, <1>6, <1>15, <2>1, RowsKept
<1> QED BY <1>12, <1>13, <1>14, <1>15, <1>16, <1>17, <1>18, StepKeeps

\* A process starts: its own rows are cleared.
LEMMA StartTyped ==
    ASSUME TInv, NEW n \in Node, Start(n)
    PROVE  TInv'
<1>1. /\ up' = [up EXCEPT ![n] = TRUE]
      /\ row' = [row EXCEPT ![n] = [u \in User |-> IF row[n][u] = n THEN NoNode ELSE row[n][u]]]
      /\ UNCHANGED <<live, wire, events, log, applying, account, sessions, host, auth, thread,
                     sock, me, resume, requests, losses, cuts, crashes>>
  BY DEF Start, netVars, sessionVars, clientVars, bounds
<1>2. up' \in [Node -> BOOLEAN] /\ \A k \in Node : k # n => up'[k] = up[k]
  BY <1>1, Types
<1>3. /\ row' \in [Node -> [User -> Node \cup {NoNode}]]
      /\ \A k \in Node, u \in User : row'[k][u] # NoNode => row'[k][u] = row[k][u] /\ (k = n => row[k][u] # n)
  <2> DEFINE own == [u \in User |-> IF row[n][u] = n THEN NoNode ELSE row[n][u]]
  <2>1. /\ own \in [User -> Node \cup {NoNode}]
        /\ \A u \in User : own[u] # NoNode => own[u] = row[n][u] /\ row[n][u] # n
    BY Types
  <2>2. row' = [row EXCEPT ![n] = own]
    BY <1>1
  <2> HIDE DEF own
  <2>3. row' \in [Node -> [User -> Node \cup {NoNode}]] /\ row'[n] = own
        /\ \A k \in Node : k # n => row'[k] = row[k]
    BY <2>1, <2>2, Types
  <2> QED BY <2>1, <2>3
<1>4. TypeOK'
  BY <1>1, <1>2, <1>3, Types DEF TypeOK, ThreadType
<1>5. EventsGrow /\ AccountsKept /\ Indices' /\ Clients'
  BY <1>1, SameEvents, AccountsStay, IndicesKept, ClientsStay
<1>6. NoInventedRows'
  <2>1. SUFFICES ASSUME NEW k \in Node, NEW m \in Node, NEW u \in User, row'[k][u] = m
                 PROVE  Rumored(u, m)' \/ (k = m /\ (~up'[k] \/ Moving(u, m)'))
    BY RowsMeans
  <2>2. row[k][u] = m /\ (k = n => m # n)
    BY <1>3, <2>1, NullAssumption
  <2>3. Rumored(u, m) \/ (k = m /\ (~up[k] \/ Moving(u, m)))
    BY <2>2, Types, RowsMeans
  <2>4. (Rumored(u, m) => Rumored(u, m)') /\ (Moving(u, m) => Moving(u, m)')
    BY <1>1 DEF Rumored, Moving
  <2> QED BY <1>2, <2>2, <2>3, <2>4
<1>7. \A s \in Sock : Undisturbed(s)
  BY <1>1 DEF Undisturbed, HostKept
<1> QED BY <1>4, <1>5, <1>6, <1>7, StepKeeps

\* TInv holds at the start.
LEMMA InitiallyTyped ==
    ASSUME Init
    PROVE  TInv
<1>1. Idle \in [pc : PC, user : User \cup {NoUser}, ev : Nat] /\ Idle.pc = "idle"
  BY Stages DEF ThreadType
<1>2. <<>> \in Seq(Nat) /\ <<>> \in Seq(EventOf) /\ Range(<<>>) = {}
  BY DEF Range
<1>3. Node # {} => Seeded \in Node
  BY DEF Seeded
<1>4. TypeOK
  <2>1. /\ up \in [Node -> BOOLEAN] /\ live \in [Node -> SUBSET Node]
        /\ row \in [Node -> [User -> Node \cup {NoNode}]]
        /\ sessions \in [Node -> SUBSET Sock] /\ host \in [Sock -> Node \cup {NoNode}]
        /\ auth \in [Sock -> User \cup {NoUser}]
        /\ sock \in [Client -> Sock \cup {NoSock}] /\ me \in [Client -> User \cup {NoUser}]
        /\ resume \subseteq Client
        /\ requests \in Nat /\ losses \in Nat /\ cuts \in Nat /\ crashes \in Nat
    BY DEF Init
  <2>2. /\ wire \in [Node -> [Node -> Seq(Nat)]] /\ events \in Seq(EventOf)
        /\ log \in [Node -> Seq(Nat)] /\ applying \in [Node -> [Node -> Nat]]
    BY <1>2 DEF Init
  <2>3. account \in [Node -> [User -> Node \cup {NoNode}]]
    BY <1>3 DEF Init
  <2>4. thread \in [Sock -> [pc : PC, user : User \cup {NoUser}, ev : Nat]]
    BY <1>1 DEF Init
  <2> QED BY <2>1, <2>2, <2>3, <2>4 DEF TypeOK
<1>5. Threads /\ Serving
  <2>1. \A s \in Sock : thread[s] = Idle /\ thread[s].pc = "idle" /\ auth[s] = NoUser
    BY <1>1 DEF Init
  <2> QED BY <2>1, Stages DEF Threads, ThreadOk, Serving, PushesAccount
<1>6. Indices
  BY <1>2 DEF Init, Indices
<1>7. Clients
  BY DEF Init, Clients
<1>8. NoInventedRows
  BY NullAssumption DEF Init, NoInventedRows
<1> QED BY <1>4, <1>5, <1>6, <1>7, <1>8 DEF TInv

\* Every step keeps TInv.
LEMMA StepTyped ==
    ASSUME TInv, [Next]_vars
    PROVE  TInv'
<1>1. CASE UNCHANGED vars
  <2>1. UNCHANGED <<up, live, wire, events, log, applying, account, row, sessions, host, auth, thread,
                    sock, me, resume, requests, losses, cuts, crashes>>
    BY <1>1 DEF vars, netVars, dbVars, sessionVars, clientVars, bounds
  <2>2. TypeOK'
    BY <2>1, Types DEF TypeOK, ThreadType
  <2>3. Indices' /\ Clients'
    BY <2>1, SameEvents, IndicesKept, ClientsStay
  <2> QED BY <2>1, <2>2, <2>3, QuietStep DEF dbVars, sessionVars
<1>2. ASSUME NEW s \in Sock, Handler(s) PROVE TInv'
  BY <1>2, SetSessionTyped, RumorsTyped, StoreLoginTyped, CreateUserTyped, RemoveSessionTyped,
     ClaimTyped, PushTyped DEF Handler
<1>3. ASSUME NEW c \in Client, Request(c) PROVE TInv'
  BY <1>3, LoginTyped, RegisterTyped, LogoutTyped, ReconnectTyped, ClientLeavesTyped, ConnectTyped
     DEF Request
<1>4. ASSUME NEW n \in Node, NEW m \in Node, Peer(n, m) PROVE TInv'
  BY <1>4, DeliverTyped, FinishLoginTyped, PullTyped, PeersTyped DEF Peer
<1>5. ASSUME NEW n \in Node, Crash(n) \/ Start(n) PROVE TInv'
  BY <1>5, CrashTyped, StartTyped
<1> QED BY <1>1, <1>2, <1>3, <1>4, <1>5 DEF Next

\* Whatever crashes, is cut or lost: TInv is an invariant.
THEOREM PresenceInvariant == Spec => []TInv
BY InitiallyTyped, StepTyped, PTL DEF Spec

\* The variables keep their types.
THEOREM PresenceTyped == Spec => []TypeOK
<1>1. TInv => TypeOK
  BY DEF TInv
<1> QED BY <1>1, PresenceInvariant, PTL

\* No node's online_users names a node that has not rumored the user's LOGIN or
\* RECONNECT, or is about to, or died when it was about to (setOnline of
\* applyEvent and of RECONNECT), whatever crashes, is cut or lost.
THEOREM RowsNotInvented == Spec => []NoInventedRows
<1>1. TInv => NoInventedRows
  BY DEF TInv
<1> QED BY <1>1, PresenceInvariant, PTL

-----------------------------------------------------------------------------
(***************************************************************************)
(* One name, one account.                                                  *)
(***************************************************************************)

\* An event is never rewritten.
LEMMA SameCreation ==
    ASSUME TInv, EventsGrow, NEW i \in 1..Len(events), NEW u
    PROVE  Creation(i, u)' <=> Creation(i, u)
BY DEF Creation, EventsGrow

\* Steps that rumor nothing and accept nothing; nobody starts to register.
LEMMA AccountsQuiet ==
    ASSUME TInv, AInv, UNCHANGED <<up, events, log, account>>,
           \A s \in Sock : thread'[s].pc = "create" =>
              thread[s].pc = "create" /\ thread'[s].user = thread[s].user
    PROVE  AInv'
<1>1. Running' /\ Origin'
  BY DEF AInv, Running, Origin
<1>2. \A i, u : Creation(i, u)' <=> Creation(i, u)
  BY DEF Creation
<1>3. OneCreation'
  BY <1>2 DEF AInv, OneCreation
<1>4. Accounted'
  BY <1>2 DEF AInv, Accounted
<1> QED BY <1>1, <1>3, <1>4 DEF AInv

\* When everything about u has settled, a node without an account of u's name has
\* not heard of one, because there is none.
LEMMA NameFree ==
    ASSUME TInv, AInv, NEW n \in Node, NEW u \in User, Settled(u), account[n][u] = NoNode
    PROVE  \A i \in 1..Len(events) : ~Creation(i, u)
<1>1. SUFFICES ASSUME NEW i \in 1..Len(events), Creation(i, u) PROVE FALSE
  OBVIOUS
<1>2. events[i].node \in Node /\ events[i].user = u
  BY <1>1, EventFields DEF Creation
<1>3. i \in Range(log[events[i].node]) /\ \A m \in Node : up[m]
  BY <1>2 DEF AInv, Origin, Running
<1>4. i \in Range(log[n])
  BY <1>2, <1>3 DEF Settled
<1>5. Seeded \in Node /\ NoNode \notin Node
  BY NullAssumption DEF Seeded
<1>6. \E j \in Range(log[n]) : account[n][u] = events[j].node
  BY <1>1, <1>4, <1>5 DEF AInv, Accounted
<1>7. \A j \in Range(log[n]) : events[j].node \in Node
  BY EventFields, Types DEF Indices
<1> QED BY <1>5, <1>6, <1>7

\* REGISTER, the check.
LEMMA RegisterAgrees ==
    ASSUME TInv, AInv, Patient, NEW c \in Client, NEW u \in User, Register(c, u)
    PROVE  AInv'
<1>1. PICK s \in Sock : s = sock[c] /\ host[s] \in Node
  BY ReadySock DEF Register
<1>2. /\ Settled(u) /\ account[host[s]][u] = NoNode
      /\ thread' = [thread EXCEPT ![s] = At("create", u, 0)]
      /\ UNCHANGED <<up, events, log, account>>
  BY <1>1 DEF Register, MayAct, netVars, dbVars
<1>3. \A i \in 1..Len(events) : ~Creation(i, u)
  BY <1>1, <1>2, NameFree
<1>4. At("create", u, 0).user = u
  BY DEF At
<1>5. thread'[s].user = u /\ \A r \in Sock : r # s => thread'[r] = thread[r]
  BY <1>2, <1>4, Types
<1>6. \A r \in Sock : thread[r].user # u
  BY <1>2 DEF Settled
<1>7. Running' /\ Origin'
  BY <1>2 DEF AInv, Running, Origin
<1>8. \A i, v : Creation(i, v)' <=> Creation(i, v)
  BY <1>2 DEF Creation
<1>9. OneCreation'
  <2>1. \A v \in User, i, j \in 1..Len(events) : Creation(i, v) /\ Creation(j, v) => i = j
    BY DEF AInv, OneCreation
  <2>2. \A r \in Sock : thread'[r].pc = "create" =>
           \A i \in 1..Len(events) : ~Creation(i, thread'[r].user)
    BY <1>3, <1>5 DEF AInv, OneCreation
  <2>3. \A r, q \in Sock : thread'[r].pc = "create" /\ thread'[q].pc = "create"
             /\ thread'[q].user = thread'[r].user => q = r
    <3>1. \A r, q \in Sock : thread[r].pc = "create" /\ thread[q].pc = "create"
             /\ thread[q].user = thread[r].user => q = r
      BY DEF AInv, OneCreation
    <3> QED BY <1>5, <1>6, <3>1
  <2> QED BY <1>2, <1>8, <2>1, <2>2, <2>3 DEF OneCreation
<1>10. Accounted'
  BY <1>2, <1>8 DEF AInv, Accounted
<1> QED BY <1>7, <1>9, <1>10 DEF AInv

\* rumor(): of a new account only when there is none of that name.
LEMMA RumorAgrees ==
    ASSUME TInv, AInv, NEW s \in Sock,
           NEW kind \in {"LOGIN", "LOGOUT", "RECONNECT", "USER_CREATED"},
           NEW u \in User, host[s] \in Node, Rumor(s, kind, u), UNCHANGED up,
           kind = "USER_CREATED" => /\ account[host[s]][u] = NoNode
                                    /\ thread[s].pc = "create" /\ thread[s].user = u
    PROVE  AInv'
<1> DEFINE n == host[s]
<1>r. PICK e \in EventOf, i \in Nat, pc \in {"store", "push"} : Rumors(s, kind, u, e, i, pc)
  BY RumorFacts
<1>1. /\ e.kind = kind /\ e.user = u /\ e.node = n /\ n \in Node
      /\ i = Len(events) + 1 /\ Len(events') = i /\ events'[i] = e
      /\ EventsGrow /\ ApplyEvent(n, e)
      /\ thread'[s] = At(pc, u, i)
      /\ \A r \in Sock : r # s => thread'[r] = thread[r]
      /\ Range(log'[n]) = Range(log[n]) \cup {i}
      /\ \A m \in Node : m # n => log'[m] = log[m]
      /\ Len(events) \in Nat
  BY <1>r, Types DEF Rumors
<1>2. \A m \in Node, v \in User :
         \/ account'[m][v] = account[m][v]
         \/ m = n /\ v = u /\ kind = "USER_CREATED" /\ account'[m][v] = n
  BY <1>1, Applied
<1>3. kind = "USER_CREATED" => account'[n][u] # NoNode
  BY <1>1, Applied
<1> HIDE DEF n
<1>4. \A k \in 1..Len(events') : k \in 1..Len(events) \/ k = i
  BY <1>1
<1>5. /\ \A k \in 1..Len(events) : \A v : Creation(k, v)' <=> Creation(k, v)
      /\ \A v : Creation(i, v)' <=> kind = "USER_CREATED" /\ v = u
  <2>1. \A v : Creation(i, v)' <=> kind = "USER_CREATED" /\ v = u
    BY <1>1 DEF Creation
  <2> QED BY <1>1, <2>1, SameCreation
<1>6. kind = "USER_CREATED" => \A k \in 1..Len(events) : ~Creation(k, u)
  BY DEF AInv, OneCreation
<1>7. \A m \in Node : Range(log[m]) \subseteq 1..Len(events)
  BY Types DEF Indices
<1>8. Running'
  BY DEF AInv, Running
<1>9. Origin'
  <2>1. \A m \in Node : Range(log[m]) \subseteq Range(log'[m])
    BY <1>1
  <2>2. \A k \in 1..Len(events) : k \in Range(log'[events'[k].node])
    <3>1. \A k \in 1..Len(events) : events'[k] = events[k] /\ events[k].node \in Node
      BY <1>1, EventFields DEF EventsGrow
    <3>2. \A k \in 1..Len(events) : k \in Range(log[events[k].node])
      BY DEF AInv, Origin
    <3> QED BY <2>1, <3>1, <3>2
  <2>3. i \in Range(log'[events'[i].node])
    BY <1>1
  <2> QED BY <1>4, <2>2, <2>3 DEF Origin
<1>10. OneCreation'
  <2>1. \A v \in User, j, k \in 1..Len(events') : Creation(j, v)' /\ Creation(k, v)' => j = k
    <3>1. SUFFICES ASSUME NEW v \in User, NEW j \in 1..Len(events'), NEW k \in 1..Len(events'),
                          Creation(j, v)', Creation(k, v)'
                   PROVE  j = k
      OBVIOUS
    <3>2. CASE j \in 1..Len(events) /\ k \in 1..Len(events)
      BY <1>5, <3>1, <3>2 DEF AInv, OneCreation
    <3>3. CASE j = i \/ k = i
      BY <1>4, <1>5, <1>6, <3>1, <3>3
    <3> QED BY <1>4, <3>2, <3>3
  <2>2. thread'[s].pc # "create"
    BY <1>1 DEF At
  <2>3. \A r \in Sock : thread'[r].pc = "create" =>
           /\ r # s /\ thread'[r] = thread[r]
           /\ \A k \in 1..Len(events) : ~Creation(k, thread[r].user)
           /\ kind = "USER_CREATED" => thread[r].user # u
    BY <1>1, <2>2 DEF AInv, OneCreation
  <2>4. \A r \in Sock : thread'[r].pc = "create" =>
           \A k \in 1..Len(events') : ~Creation(k, thread[r].user)'
    <3>1. SUFFICES ASSUME NEW r \in Sock, thread'[r].pc = "create", NEW k \in 1..Len(events')
                   PROVE  ~(events'[k].kind = "USER_CREATED" /\ events'[k].user = thread'[r].user)
      BY DEF Creation
    <3>2. PICK v : v = thread'[r].user
      OBVIOUS
    <3>3. ~Creation(k, v)'
      BY <1>4, <1>5, <2>3, <3>1, <3>2
    <3> QED BY <3>2, <3>3 DEF Creation
  <2>5. \A r, q \in Sock : thread'[r].pc = "create" /\ thread'[q].pc = "create"
             /\ thread'[q].user = thread'[r].user => q = r
    <3>1. \A r, q \in Sock : thread[r].pc = "create" /\ thread[q].pc = "create"
             /\ thread[q].user = thread[r].user => q = r
      BY DEF AInv, OneCreation
    <3> QED BY <2>3, <3>1
  <2> QED BY <2>1, <2>4, <2>5 DEF OneCreation
<1>11. Accounted'
  <2>1. SUFFICES ASSUME NEW m \in Node, NEW v \in User
                 PROVE  IF v \in SeedUser THEN account'[m][v] = Seeded
                        ELSE \/ /\ account'[m][v] = NoNode
                                /\ \A k \in Range(log'[m]) : ~Creation(k, v)'
                             \/ \E k \in Range(log'[m]) : Creation(k, v)' /\ account'[m][v] = events'[k].node
    BY DEF Accounted
  <2>2. IF v \in SeedUser THEN account[m][v] = Seeded
        ELSE \/ /\ account[m][v] = NoNode /\ \A k \in Range(log[m]) : ~Creation(k, v)
             \/ \E k \in Range(log[m]) : Creation(k, v) /\ account[m][v] = events[k].node
    BY DEF AInv, Accounted
  <2>3. \A k \in Range(log[m]) : /\ k \in Range(log'[m]) /\ (Creation(k, v)' <=> Creation(k, v))
                                 /\ events'[k] = events[k]
    BY <1>1, <1>5, <1>7 DEF EventsGrow
  <2>4. Seeded \in Node /\ NoNode \notin Node
    BY NullAssumption DEF Seeded
  <2>5. CASE m = n /\ v = u /\ kind = "USER_CREATED"
    <3>1. account[m][v] = NoNode /\ account'[m][v] = n
      BY <1>2, <1>3, <2>5 DEF n
    <3>2. v \notin SeedUser
      BY <2>2, <2>4, <3>1
    <3>3. i \in Range(log'[m]) /\ Creation(i, v)' /\ events'[i].node = n
      BY <1>1, <1>5, <2>5
    <3> QED BY <3>1, <3>2, <3>3
  <2>6. CASE ~(m = n /\ v = u /\ kind = "USER_CREATED")
    <3>1. account'[m][v] = account[m][v]
      BY <1>2, <2>6
    <3>2. \A k \in Range(log'[m]) : Creation(k, v)' => k \in Range(log[m])
      BY <1>1, <1>5, <2>6
    <3> QED BY <2>2, <2>3, <3>1, <3>2
  <2> QED BY <2>5, <2>6
<1> QED BY <1>8, <1>9, <1>10, <1>11 DEF AInv

\* A handler that does not start to register.
LEMMA NoRegistration ==
    ASSUME TInv, NEW s \in Sock, NEW t, t.pc # "create", thread' = [thread EXCEPT ![s] = t]
    PROVE  \A r \in Sock : thread'[r].pc = "create" =>
              thread[r].pc = "create" /\ thread'[r].user = thread[r].user
<1>1. thread'[s] = t /\ \A r \in Sock : r # s => thread'[r] = thread[r]
  BY Types
<1> QED BY <1>1

\* The steps of a handler that neither rumor nor start to register.
LEMMA HandlersAgree ==
    ASSUME TInv, AInv, NEW s \in Sock,
           SetSession(s) \/ StoreLogin(s) \/ Claim(s) \/ Push(s) \/ RemoveSession(s)
    PROVE  AInv'
<1>1. UNCHANGED <<up, events, log, account>>
  BY DEF SetSession, StoreLogin, Claim, Push, RemoveSession, netVars, dbVars
<1>2. CASE SetSession(s) \/ StoreLogin(s) \/ Claim(s)
  <2>1. PICK pc \in PC : pc # "create" /\ thread' = [thread EXCEPT ![s].pc = pc]
    <3>1. "rumor" \in PC /\ "push" \in PC /\ "moved" \in PC
      BY DEF PC
    <3> QED BY <1>2, <3>1 DEF SetSession, StoreLogin, Claim
  <2>2. thread \in [Sock -> ThreadType]
    BY Types
  <2>3. thread'[s].pc = pc /\ \A r \in Sock : r # s => thread'[r] = thread[r]
    BY <2>1, <2>2, NextStage
  <2> QED BY <1>1, <2>1, <2>3, AccountsQuiet
<1>3. CASE Push(s)
  <2>1. thread' = [thread EXCEPT ![s] = IF events[thread[s].ev].kind = "USER_CREATED"
                                        THEN At("set", thread[s].user, 0) ELSE Idle]
    BY <1>3 DEF Push
  <2>2. At("set", thread[s].user, 0).pc # "create" /\ Idle.pc # "create"
    BY DEF At, Idle
  <2>3. PICK t : t.pc # "create" /\ thread' = [thread EXCEPT ![s] = t]
    BY <2>1, <2>2
  <2> QED BY <1>1, <2>3, NoRegistration, AccountsQuiet
<1>4. CASE RemoveSession(s)
  <2>1. thread' = [thread EXCEPT ![s] = IF auth[s] = NoUser THEN Idle ELSE At("bye", auth[s], 0)]
    BY <1>4 DEF RemoveSession
  <2>2. At("bye", auth[s], 0).pc # "create" /\ Idle.pc # "create"
    BY DEF At, Idle
  <2>3. PICK t : t.pc # "create" /\ thread' = [thread EXCEPT ![s] = t]
    BY <2>1, <2>2
  <2> QED BY <1>1, <2>3, NoRegistration, AccountsQuiet
<1> QED BY <1>2, <1>3, <1>4

\* The rumors of the handlers.
LEMMA RumorsAgree ==
    ASSUME TInv, AInv, NEW s \in Sock,
           RumorLogin(s) \/ RumorLogout(s) \/ RumorReconnect(s) \/ CreateUser(s)
    PROVE  AInv'
<1>1. UNCHANGED up
  BY DEF RumorLogin, RumorLogout, RumorReconnect, CreateUser
<1>2. ThreadOk(s) /\ thread[s].pc \in {"rumor", "bye", "moved", "create"}
  BY Types DEF Threads, RumorLogin, RumorLogout, RumorReconnect, CreateUser
<1>3. PICK u \in User : u = thread[s].user /\ host[s] \in Node
  BY <1>2 DEF ThreadOk
<1>4. CASE RumorLogin(s)
  BY <1>1, <1>3, <1>4, RumorAgrees DEF RumorLogin
<1>5. CASE RumorLogout(s)
  BY <1>1, <1>3, <1>5, RumorAgrees DEF RumorLogout
<1>6. CASE RumorReconnect(s)
  BY <1>1, <1>3, <1>6, RumorAgrees DEF RumorReconnect
<1>7. CASE CreateUser(s)
  <2>1. CASE account[host[s]][u] = NoNode
    <3>1. Rumor(s, "USER_CREATED", u) /\ thread[s].pc = "create"
      BY <1>3, <1>7, <2>1 DEF CreateUser
    <3> QED BY <1>1, <1>3, <2>1, <3>1, RumorAgrees
  <2>2. CASE account[host[s]][u] # NoNode
    <3>1. thread' = [thread EXCEPT ![s] = Idle] /\ UNCHANGED <<events, log, account>>
      BY <1>3, <1>7, <2>2 DEF CreateUser
    <3>2. Idle.pc # "create"
      BY DEF Idle
    <3> QED BY <1>1, <3>1, <3>2, NoRegistration, AccountsQuiet
  <2> QED BY <2>1, <2>2
<1> QED BY <1>4, <1>5, <1>6, <1>7

\* The steps of a client.
LEMMA ClientsAgree ==
    ASSUME TInv, AInv, Patient, NEW c \in Client, Request(c)
    PROVE  AInv'
<1>1. CASE \E u \in User : Register(c, u)
  BY <1>1, RegisterAgrees
<1>2. CASE GiveUp(c) \/ LoseLink(c) \/ \E n \in Node : Connect(c, n)
  <2>1. UNCHANGED <<up, events, log, account, thread>>
    BY <1>2 DEF GiveUp, LoseLink, Connect, netVars, dbVars, sessionVars
  <2> QED BY <2>1, AccountsQuiet
<1>3. CASE (\E u \in User : Login(c, u)) \/ Reconnect(c) \/ Logout(c)
  <2>1. UNCHANGED <<up, events, log, account>>
    BY <1>3 DEF Login, Reconnect, Logout, netVars, dbVars
  <2>2. PICK s \in Sock : s = sock[c]
    BY <1>3, ReadySock DEF Login, Reconnect, Logout
  <2>3. PICK t : t.pc # "create" /\ thread' = [thread EXCEPT ![s] = t]
    <3>1. CASE \E u \in User : Login(c, u)
      BY <2>2, <3>1 DEF Login, At
    <3>2. CASE Reconnect(c)
      BY <2>2, <3>2 DEF Reconnect, At
    <3>3. CASE Logout(c)
      <4>1. thread' = [thread EXCEPT ![s] = IF auth[s] = NoUser THEN Idle ELSE At("bye", auth[s], 0)]
        BY <2>2, <3>3 DEF Logout
      <4>2. At("bye", auth[s], 0).pc # "create" /\ Idle.pc # "create"
        BY DEF At, Idle
      <4> QED BY <4>1, <4>2
    <3> QED BY <1>3, <3>1, <3>2, <3>3
  <2> QED BY <2>1, <2>3, NoRegistration, AccountsQuiet
<1> QED BY <1>1, <1>2, <1>3 DEF Request

\* A peer accepts an event: of a new account, it makes the row.
LEMMA DeliverAgrees ==
    ASSUME TInv, AInv, NEW n \in Node, NEW m \in Node, Deliver(n, m)
    PROVE  AInv'
<1> DEFINE i == Head(wire[m][n])
<1>1. /\ wire[m][n] # <<>> /\ UNCHANGED <<up, events, thread>>
      /\ \/ UNCHANGED <<log, account>>
         \/ log' = [log EXCEPT ![n] = Append(log[n], i)] /\ ApplyEvent(n, events[i])
  BY DEF Deliver
<1>2. i \in 1..Len(events) /\ events[i] \in EventOf /\ i \in Nat
  <2>1. wire[m][n] \in Seq(Nat)
    BY Types
  <2>2. i \in Range(wire[m][n])
    BY <1>1, <2>1, RangeTail
  <2> HIDE DEF i
  <2>3. i \in 1..Len(events) /\ events \in Seq(EventOf) /\ Len(events) \in Nat
    BY <2>2, Types DEF Indices
  <2> QED BY <2>3
<1> HIDE DEF i
<1>3. CASE UNCHANGED <<log, account>>
  BY <1>1, <1>3, AccountsQuiet
<1>4. CASE log' = [log EXCEPT ![n] = Append(log[n], i)] /\ ApplyEvent(n, events[i])
  <2>1. log[n] \in Seq(Nat)
    BY Types
  <2>2. Range(Append(log[n], i)) = Range(log[n]) \cup {i}
    BY <1>2, <2>1, RangeAppend
  <2>3. /\ Range(log'[n]) = Range(log[n]) \cup {i}
        /\ \A k \in Node : k # n => log'[k] = log[k]
    BY <1>4, <2>2, Types
  <2>4. /\ \A k \in Node, u \in User :
             \/ account'[k][u] = account[k][u]
             \/ /\ k = n /\ u = events[i].user /\ events[i].kind = "USER_CREATED"
                /\ account[k][u] = NoNode /\ account'[k][u] = events[i].node
        /\ events[i].kind = "USER_CREATED" => account'[n][events[i].user] # NoNode
    BY <1>2, <1>4, Applied
  <2>5. \A k, u : Creation(k, u)' <=> Creation(k, u)
    BY <1>1 DEF Creation
  <2>6. Running' /\ OneCreation'
    BY <1>1, <2>5 DEF AInv, Running, OneCreation
  <2>7. Origin'
    <3>1. \A k \in Node : Range(log[k]) \subseteq Range(log'[k])
      BY <2>3
    <3>2. \A k \in 1..Len(events) : events[k].node \in Node
      BY EventFields
    <3> QED BY <1>1, <3>1, <3>2 DEF AInv, Origin
  <2>8. Accounted'
    <3>1. SUFFICES ASSUME NEW k \in Node, NEW u \in User
                   PROVE  IF u \in SeedUser THEN account'[k][u] = Seeded
                          ELSE \/ /\ account'[k][u] = NoNode
                                  /\ \A j \in Range(log'[k]) : ~Creation(j, u)
                               \/ \E j \in Range(log'[k]) : Creation(j, u) /\ account'[k][u] = events[j].node
      BY <1>1, <2>5 DEF Accounted
    <3>2. IF u \in SeedUser THEN account[k][u] = Seeded
          ELSE \/ /\ account[k][u] = NoNode /\ \A j \in Range(log[k]) : ~Creation(j, u)
               \/ \E j \in Range(log[k]) : Creation(j, u) /\ account[k][u] = events[j].node
      BY DEF AInv, Accounted
    <3>3. Seeded \in Node /\ NoNode \notin Node
      BY NullAssumption DEF Seeded
    <3>4. Range(log[k]) \subseteq Range(log'[k])
      BY <2>3
    <3>5. CASE account'[k][u] # account[k][u]
      <4>1. /\ account'[k][u] = events[i].node /\ i \in Range(log'[k]) /\ Creation(i, u)
            /\ account[k][u] = NoNode
        BY <2>3, <2>4, <3>5 DEF Creation
      <4> QED BY <3>2, <3>3, <4>1
    <3>6. CASE account'[k][u] = account[k][u]
      <4>1. account'[k][u] = NoNode => \A j \in Range(log'[k]) : Creation(j, u) => j \in Range(log[k])
        BY <2>3, <2>4, <3>6 DEF Creation
      <4> QED BY <3>2, <3>4, <3>6, <4>1
    <3> QED BY <3>5, <3>6
  <2> QED BY <2>6, <2>7, <2>8 DEF AInv
<1> QED BY <1>1, <1>3, <1>4

\* When no process dies and clients are patient, every step keeps AInv.
LEMMA StepAgrees ==
    ASSUME TInv, AInv, Patient, MaxCrashes = 0, [Next]_vars
    PROVE  AInv'
<1>1. CASE UNCHANGED vars
  <2>1. UNCHANGED <<up, events, log, account, thread>>
    BY <1>1 DEF vars, netVars, dbVars, sessionVars
  <2> QED BY <2>1, AccountsQuiet
<1>2. ASSUME NEW s \in Sock, Handler(s) PROVE AInv'
  BY <1>2, HandlersAgree, RumorsAgree DEF Handler
<1>3. ASSUME NEW c \in Client, Request(c) PROVE AInv'
  BY <1>3, ClientsAgree
<1>4. ASSUME NEW n \in Node, NEW m \in Node, Peer(n, m) PROVE AInv'
  <2>1. CASE Deliver(n, m)
    BY <2>1, DeliverAgrees
  <2>2. CASE FinishLogin(n, m) \/ Pull(n, m) \/ RegisterPeer(n, m) \/ RemovePeer(n, m)
    <3>1. UNCHANGED <<up, events, log, account, thread>>
      BY <2>2 DEF FinishLogin, Pull, RegisterPeer, RemovePeer, dbVars, sessionVars
    <3> QED BY <3>1, AccountsQuiet
  <2> QED BY <1>4, <2>1, <2>2 DEF Peer
<1>5. ASSUME NEW n \in Node PROVE ~Crash(n)
  BY Types DEF Crash
<1>6. ASSUME NEW n \in Node PROVE ~Start(n)
  BY DEF AInv, Running, Start
<1> QED BY <1>1, <1>2, <1>3, <1>4, <1>5, <1>6 DEF Next

\* AInv holds at the start.
LEMMA InitiallyAgrees ==
    ASSUME Init
    PROVE  AInv
<1>1. Len(events) = 0 /\ \A n \in Node : Range(log[n]) = {}
  BY DEF Init, Range
<1>2. Running
  BY DEF Init, Running
<1>3. 1..0 = {} /\ Origin
  BY <1>1 DEF Origin
<1>4. OneCreation
  <2>1. \A s \in Sock : thread[s].pc # "create"
    BY DEF Init, Idle
  <2> QED BY <1>1, <2>1 DEF OneCreation
<1>5. Accounted
  <2>1. \A n \in Node, u \in User : account[n][u] = IF u \in SeedUser THEN Seeded ELSE NoNode
    BY DEF Init
  <2> QED BY <1>1, <2>1 DEF Accounted
<1> QED BY <1>2, <1>3, <1>4, <1>5 DEF AInv

\* AInv and TInv are invariants when clients are patient and no process dies.
THEOREM AccountsInvariant ==
    Patient /\ MaxCrashes = 0 => (Spec => [](TInv /\ AInv))
<1>1. SUFFICES ASSUME Patient, MaxCrashes = 0 PROVE Spec => [](TInv /\ AInv)
  OBVIOUS
<1>2. Init => TInv /\ AInv
  BY InitiallyTyped, InitiallyAgrees
<1>3. TInv /\ AInv /\ [Next]_vars => (TInv /\ AInv)'
  BY <1>1, StepTyped, StepAgrees
<1> QED BY <1>2, <1>3, PTL DEF Spec

\* TInv and AInv say that a name is one account.
LEMMA InvariantMeansAgreement ==
    ASSUME TInv, AInv
    PROVE  AccountsAgree
<1>1. \A s \in Sock : auth[s] # NoUser => account[host[s]][auth[s]] # NoNode
  BY Types DEF Serving
<1>2. ASSUME NEW u \in User, Settled(u), NEW n \in Node, NEW m \in Node
      PROVE  account[n][u] = account[m][u]
  <2>1. \A k \in Node : IF u \in SeedUser THEN account[k][u] = Seeded
        ELSE \/ /\ account[k][u] = NoNode /\ \A j \in Range(log[k]) : ~Creation(j, u)
             \/ \E j \in Range(log[k]) : Creation(j, u) /\ account[k][u] = events[j].node
    BY DEF AInv, Accounted
  <2>2. \A k \in Node : Range(log[k]) \subseteq 1..Len(events) /\ up[k]
    BY Types DEF Indices, AInv, Running
  <2>3. \A k, l \in Node : \A j \in Range(log[k]) : Creation(j, u) => j \in Range(log[l])
    BY <1>2, <2>2 DEF Settled, Creation
  <2>4. \A i, j \in 1..Len(events) : Creation(i, u) /\ Creation(j, u) => i = j
    BY DEF AInv, OneCreation
  <2>5. CASE u \in SeedUser
    BY <2>1, <2>5
  <2>6. CASE u \notin SeedUser /\ \E j \in Range(log[n]) : Creation(j, u)
    <3>1. PICK j \in Range(log[n]) : Creation(j, u) /\ j \in Range(log[m]) /\ j \in 1..Len(events)
      BY <2>2, <2>3, <2>6
    <3>2. \A k \in Node : j \in Range(log[k]) => account[k][u] = events[j].node
      <4>1. SUFFICES ASSUME NEW k \in Node, j \in Range(log[k]) PROVE account[k][u] = events[j].node
        OBVIOUS
      <4>2. PICK l \in Range(log[k]) : Creation(l, u) /\ account[k][u] = events[l].node
        BY <2>1, <2>6, <3>1, <4>1
      <4>3. l = j
        BY <2>2, <2>4, <3>1, <4>2
      <4> QED BY <4>2, <4>3
    <3> QED BY <3>1, <3>2
  <2>7. CASE u \notin SeedUser /\ ~\E j \in Range(log[n]) : Creation(j, u)
    <3>1. ~\E j \in Range(log[m]) : Creation(j, u)
      BY <2>3, <2>7
    <3> QED BY <2>1, <2>7, <3>1
  <2> QED BY <2>5, <2>6, <2>7
<1> QED BY <1>1, <1>2 DEF AccountsAgree

\* One username is one account (REGISTER's check, createUser, USER_CREATED of
\* applyEvent): when clients wait for what they see to settle and no process dies,
\* although peer connections may break and events overtake each other.
THEOREM OneAccount ==
    Patient /\ MaxCrashes = 0 => (Spec => []AccountsAgree)
<1>1. SUFFICES ASSUME Patient, MaxCrashes = 0 PROVE Spec => []AccountsAgree
  OBVIOUS
<1>2. Spec => [](TInv /\ AInv)
  BY <1>1, AccountsInvariant
<1>3. TInv /\ AInv => AccountsAgree
  BY InvariantMeansAgreement
<1> QED BY <1>2, <1>3, PTL

-----------------------------------------------------------------------------
(***************************************************************************)
(* One session per user.                                                   *)
(***************************************************************************)

\* What every node has applied stays applied.
LEMMA DoneKept ==
    ASSUME NEW k, Done(k), \A n \in Node : Range(log[n]) \subseteq Range(log'[n]),
           \A n, m \in Node : applying'[n][m] = k => applying[n][m] = k,
           \A s \in Sock : thread'[s].ev = k => thread[s].ev = k
    PROVE  Done(k)'
BY DEF Done

\* Nothing about the events changes while no event is added.
LEMMA SameAbout ==
    ASSUME UNCHANGED events
    PROVE  /\ \A k, u : About(k, u)' <=> About(k, u)
           /\ \A i : LastLogin(i)' <=> LastLogin(i)
<1>1. \A k, u : About(k, u)' <=> About(k, u)
  BY DEF About
<1>2. \A i : LastLogin(i)' <=> LastLogin(i)
  BY <1>1 DEF LastLogin
<1> QED BY <1>1, <1>2

\* A handler that does not move has the role it had.
LEMMA SameRole ==
    ASSUME TInv, EventsGrow, NEW s \in Sock, thread'[s] = thread[s], auth'[s] = auth[s]
    PROVE  /\ Starting(s)' <=> Starting(s)
           /\ Leaving(s)' <=> Leaving(s)
           /\ RoleOk(s)' <=> RoleOk(s)
           /\ \A u : Holds(s, u)' <=> Holds(s, u)
<1>1. thread[s].pc \in {"store", "push"} => events'[thread[s].ev] = events[thread[s].ev]
  BY Types DEF Threads, ThreadOk, EventsGrow
<1>2. (Starting(s)' <=> Starting(s)) /\ (Leaving(s)' <=> Leaving(s))
  BY <1>1 DEF Starting, Leaving, PushesAccount
<1>3. RoleOk(s)' <=> RoleOk(s)
  BY <1>2 DEF RoleOk
<1>4. \A u : Holds(s, u)' <=> Holds(s, u)
  BY DEF Holds
<1> QED BY <1>2, <1>3, <1>4

\* A step of one handler that rumors nothing keeps OInv when the handler starts
\* only when the past is done, takes only a user nobody else has, and backs its row.
LEMMA HandlerHolds ==
    ASSUME TInv, OInv, NEW s \in Sock, UNCHANGED <<live, events, log, applying, host>>,
           \A r \in Sock : r # s =>
              /\ thread'[r] = thread[r] /\ auth'[r] = auth[r]
              /\ \A n \in Node : r \in sessions[n] => r \in sessions'[n],
           thread'[s].ev \in {0, thread[s].ev},
           thread'[s].pc \notin {"claim", "moved", "store"},
           Starting(s)' => \/ Starting(s) /\ thread'[s].user = thread[s].user
                           \/ \A k \in 1..Len(events) : About(k, thread'[s].user) => Done(k),
           RoleOk(s)', \A c \in Client : Knows(c)',
           \A u \in User : Holds(s, u)' => Holds(s, u) \/ \A r \in Sock : r # s => ~Holds(r, u),
           auth'[s] # NoUser /\ thread'[s].pc # "rumor" =>
              auth[s] = auth'[s] /\ thread[s].pc # "rumor",
           \A n \in Node, u \in User :
              \/ row'[n][u] = row[n][u]
              \/ row'[n][u] # NoNode /\ (row'[n][u] = n => \E r \in Sock : Backs(r, n, u)'),
           thread[s].pc = "store" => row'[host[s]][events[thread[s].ev].user] # NoNode,
           \A n \in Node, u \in User : Backs(s, n, u) => Backs(s, n, u)'
    PROVE  OInv'
<1>1. EventsGrow /\ Len(events) \in Nat
  BY SameEvents, Types
<1>2. \A r \in Sock : r # s =>
         /\ Starting(r)' <=> Starting(r)
         /\ RoleOk(r)' <=> RoleOk(r)
         /\ \A u : Holds(r, u)' <=> Holds(r, u)
  BY <1>1, SameRole
<1>3. /\ \A k, u : About(k, u)' <=> About(k, u)
      /\ \A i : LastLogin(i)' <=> LastLogin(i)
  BY SameAbout
<1>4. \A k \in 1..Len(events) : Done(k) => Done(k)'
  <2>1. \A k \in 1..Len(events) : \A r \in Sock : thread'[r].ev = k => thread[r].ev = k
    BY <1>1
  <2> QED BY <2>1, DoneKept
<1>5. Linked'
  BY DEF OInv, Linked
<1>6. Past'
  <2>1. \A r \in Sock : Starting(r)' =>
           \A k \in 1..Len(events) : About(k, thread'[r].user) => Done(k)
    BY <1>2 DEF OInv, Past
  <2>2. \A r \in Sock : Starting(r)' =>
           \A k \in 1..Len(events) :
              events[k].user = thread'[r].user /\ events[k].kind # "USER_CREATED" => Done(k)'
    BY <1>4, <2>1 DEF About
  <2>3. \A i \in 1..Len(events) : events[i].kind = "LOGIN" =>
          \A k \in 1..(i - 1) :
             events[k].user = events[i].user /\ events[k].kind # "USER_CREATED" => Done(k)'
    <3>1. \A i \in 1..Len(events) : \A k \in 1..(i - 1) : k \in 1..Len(events)
      BY <1>1
    <3> QED BY <1>4, <3>1 DEF OInv, Past, About
  <2> QED BY <2>2, <2>3 DEF Past, About
<1>7. Roles'
  BY <1>2 DEF OInv, Roles
<1>8. OneHolder'
  BY <1>2 DEF OInv, OneHolder
<1>9. Latest'
  BY <1>3 DEF OInv, Latest
<1>10. Stored'
  <2>1. SUFFICES ASSUME NEW n \in Node, NEW i \in Range(log[n]), LastLogin(i) PROVE StoredAt(n, i)'
    BY <1>3 DEF Stored
  <2>2. StoredAt(n, i) /\ i \in 1..Len(events)
    BY <2>1, Types DEF OInv, Stored, Indices
  <2>3. events[i].user \in User
    BY <2>2, EventFields
  <2>4. CASE row[n][events[i].user] # NoNode
    BY <2>3, <2>4 DEF StoredAt
  <2>5. CASE \E m \in Node : applying[n][m] = i
    BY <2>5 DEF StoredAt
  <2>6. CASE \E r \in Sock : host[r] = n /\ thread[r].pc = "store" /\ thread[r].ev = i
    BY <2>6 DEF StoredAt
  <2> QED BY <2>2, <2>4, <2>5, <2>6 DEF StoredAt
<1>11. Owned'
  <2>1. \A n \in Node, u \in User : \A r \in Sock : Backs(r, n, u) => Backs(r, n, u)'
    BY DEF Backs
  <2>2. ASSUME NEW n \in Node, NEW u \in User, row'[n][u] = n
        PROVE  \E r \in Sock : Backs(r, n, u)'
    BY <2>1, <2>2 DEF OInv, Owned
  <2>3. \A n, m \in Node : applying'[n][m] # 0 => events'[applying'[n][m]].node # n
    BY DEF OInv, Owned
  <2> QED BY <2>2, <2>3 DEF Owned
<1> QED BY <1>5, <1>6, <1>7, <1>8, <1>9, <1>10, <1>11 DEF OInv

\* Once the events about u have settled, they are done.
LEMMA SettledDone ==
    ASSUME TInv, AInv, NEW u \in User, Settled(u), NEW k \in 1..Len(events), events[k].user = u
    PROVE  Done(k)
<1>1. k \in Range(log[events[k].node]) /\ events[k].node \in Node /\ \A n \in Node : up[n]
  BY EventFields DEF AInv, Origin, Running
<1>2. \A n \in Node : k \in Range(log[n])
  BY <1>1 DEF Settled
<1>3. k # 0
  BY Types
<1>4. \A n, m \in Node : applying[n][m] # k
  BY <1>3 DEF Settled
<1>5. ASSUME NEW s \in Sock, thread[s].ev = k PROVE FALSE
  <2>1. thread[s].user = u
    BY <1>3, <1>5, Types DEF Threads, ThreadOk
  <2> QED BY <2>1 DEF Settled
<1> QED BY <1>2, <1>4, <1>5 DEF Done

\* When everything about u has settled and a node has no row for u, nobody has a
\* session of u: a LOGIN that is the last word is in every table.
LEMMA NobodyIn ==
    ASSUME TInv, AInv, OInv, NEW n \in Node, NEW u \in User, Settled(u), row[n][u] = NoNode,
           NEW r \in Sock
    PROVE  auth[r] # u
<1>1. SUFFICES ASSUME auth[r] = u PROVE FALSE
  OBVIOUS
<1>2. u # NoUser /\ \A s \in Sock : thread[s].user # u
  BY NullAssumption DEF Settled
<1>3. thread[r].pc # "rumor"
  <2>1. RoleOk(r)
    BY DEF OInv, Roles
  <2>2. thread[r].pc = "rumor" => ~Leaving(r)
    BY DEF Leaving
  <2> QED BY <1>1, <1>2, <2>1, <2>2 DEF RoleOk
<1>4. PICK i \in 1..Len(events) : LastLogin(i) /\ events[i].user = u
  BY <1>1, <1>2, <1>3 DEF OInv, Latest
<1>5. Done(i)
  BY <1>4, SettledDone
<1>6. StoredAt(n, i)
  BY <1>4, <1>5 DEF OInv, Stored, Done
<1> QED BY <1>4, <1>5, <1>6 DEF StoredAt, Done

\* LOGIN and REGISTER, when nobody has a session of that user.
LEMMA Begins ==
    ASSUME TInv, AInv, OInv, NEW c \in Client, NEW s \in Sock, NEW u \in User,
           NEW pc \in {"set", "create"}, s = sock[c], Ready(c), me[c] = NoUser, Settled(u),
           \A r \in Sock : auth[r] # u, thread' = [thread EXCEPT ![s] = At(pc, u, 0)],
           UNCHANGED <<live, events, log, applying, host, row, sessions, auth, sock, me>>
    PROVE  OInv'
<1>1. thread[s] = Idle /\ thread[s].pc = "idle" /\ s # NoSock
  BY ReadySock, Stages DEF Ready
<1>2. auth[s] = NoUser
  BY <1>1 DEF OInv, Roles, Knows
<1>3. At(pc, u, 0).pc = pc /\ At(pc, u, 0).user = u /\ At(pc, u, 0).ev = 0
  BY DEF At
<1>4. /\ thread'[s].pc = pc /\ thread'[s].user = u /\ thread'[s].ev = 0
      /\ \A r \in Sock : r # s => thread'[r] = thread[r]
  BY <1>3, Types
<1>5. \A k \in 1..Len(events) : About(k, u) => Done(k)
  BY SettledDone DEF About
<1>6. RoleOk(s)'
  BY <1>2, <1>4 DEF RoleOk, Starting
<1>7. \A d \in Client : Knows(d)'
  BY <1>4, Types DEF OInv, Roles, Knows
<1>8. \A v \in User : Holds(s, v)' => \A r \in Sock : r # s => ~Holds(r, v)
  <2>1. \A v \in User : Holds(s, v)' => v = u
    BY <1>2, <1>4, NullAssumption DEF Holds
  <2>2. \A r \in Sock : ~Holds(r, u)
    BY DEF Holds, Settled
  <2> QED BY <2>1, <2>2
<1>9. \A n \in Node, v \in User : Backs(s, n, v) => Backs(s, n, v)'
  BY <1>1, <1>2, <1>4, NullAssumption DEF Backs
<1> QED BY <1>1, <1>2, <1>4, <1>5, <1>6, <1>7, <1>8, <1>9, HandlerHolds

\* LOGIN: no row here means no session anywhere.
LEMMA LoginHolds ==
    ASSUME TInv, AInv, OInv, Patient, NEW c \in Client, NEW u \in User, Login(c, u)
    PROVE  OInv'
<1>1. PICK s \in Sock : s = sock[c] /\ host[s] \in Node
  BY ReadySock DEF Login
<1>2. /\ Ready(c) /\ me[c] = NoUser /\ Settled(u) /\ row[host[s]][u] = NoNode
      /\ thread' = [thread EXCEPT ![s] = At("set", u, 0)]
      /\ UNCHANGED <<live, events, log, applying, host, row, sessions, auth, sock, me>>
  BY <1>1 DEF Login, MayAct, netVars, dbVars, clientVars
<1>3. \A r \in Sock : auth[r] # u
  BY <1>1, <1>2, NobodyIn
<1> QED BY <1>1, <1>2, <1>3, Begins

\* REGISTER: no account here means no session anywhere.
LEMMA RegisterHolds ==
    ASSUME TInv, AInv, OInv, Patient, NEW c \in Client, NEW u \in User, Register(c, u)
    PROVE  OInv'
<1>1. PICK s \in Sock : s = sock[c] /\ host[s] \in Node
  BY ReadySock DEF Register
<1>2. /\ Ready(c) /\ me[c] = NoUser /\ Settled(u) /\ account[host[s]][u] = NoNode
      /\ thread' = [thread EXCEPT ![s] = At("create", u, 0)]
      /\ UNCHANGED <<live, events, log, applying, host, row, sessions, auth, sock, me>>
  BY <1>1 DEF Register, MayAct, netVars, dbVars, clientVars
<1>3. ASSUME NEW r \in Sock, auth[r] = u PROVE FALSE
  <2>1. host[r] \in Node /\ account[host[r]][u] # NoNode
    BY <1>3, Types, NullAssumption DEF Serving
  <2>2. \A n, m \in Node : account[n][u] = account[m][u]
    BY <1>2, InvariantMeansAgreement DEF AccountsAgree, AInv, Running
  <2> QED BY <1>1, <1>2, <2>1, <2>2
<1> QED BY <1>1, <1>2, <1>3, Begins

\* RECONNECT finds no row whose owner is gone.
LEMMA NothingToResume ==
    ASSUME TInv, OInv, Patient, NEW c \in Client
    PROVE  ~Reconnect(c)
<1>1. SUFFICES ASSUME Reconnect(c) PROVE FALSE
  OBVIOUS
<1>2. PICK s \in Sock : s = sock[c] /\ host[s] \in Node
  BY <1>1, ReadySock DEF Reconnect
<1>3. PICK u \in User : u = me[c]
  BY <1>1, Types DEF Reconnect, Clients
<1>4. PICK n \in Node : n = host[s]
  BY <1>2
<1>5. Settled(u) /\ row[n][u] # NoNode /\ ~HasSession(n, u) /\ ~OwnerLive(n, u)
  BY <1>1, <1>2, <1>3, <1>4 DEF Reconnect
<1>6. row[n][u] \in Node
  BY <1>5, Types
<1>7. CASE row[n][u] = n
  <2>1. PICK r \in Sock : Backs(r, n, u)
    BY <1>7 DEF OInv, Owned
  <2> QED BY <1>5, <2>1 DEF Backs, HasSession, Settled
<1>8. CASE row[n][u] # n
  BY <1>5, <1>6, <1>8 DEF OwnerLive, OInv, Linked
<1> QED BY <1>7, <1>8

\* The session becomes the user's.
LEMMA SetSessionHolds ==
    ASSUME TInv, OInv, NEW s \in Sock, SetSession(s)
    PROVE  OInv'
<1>1. /\ thread[s].pc = "set" /\ auth' = [auth EXCEPT ![s] = thread[s].user]
      /\ thread' = [thread EXCEPT ![s].pc = "rumor"]
      /\ UNCHANGED <<live, events, log, applying, host, row, sessions, sock, me>>
  BY DEF SetSession, netVars, dbVars, clientVars
<1>2. ThreadOk(s) /\ RoleOk(s)
  BY Types DEF Threads, OInv, Roles
<1>3. /\ thread'[s].pc = "rumor" /\ thread'[s].user = thread[s].user /\ thread'[s].ev = thread[s].ev
      /\ \A r \in Sock : r # s => thread'[r] = thread[r]
  <2>1. "rumor" \in PC /\ thread \in [Sock -> ThreadType]
    BY Types DEF PC
  <2> QED BY <1>1, <2>1, NextStage
<1>4. auth'[s] = thread[s].user /\ \A r \in Sock : r # s => auth'[r] = auth[r]
  BY <1>1, Types
<1>5. Starting(s) /\ auth[s] = NoUser /\ thread[s].user \in User
  BY <1>1, <1>2 DEF Starting, RoleOk, ThreadOk
<1>6. RoleOk(s)'
  BY <1>3, <1>4 DEF RoleOk, Leaving
<1>7. \A c \in Client : Knows(c)'
  BY <1>1, <1>3, <1>4, Types DEF OInv, Roles, Knows
<1>8. \A u \in User : Holds(s, u)' => Holds(s, u)
  BY <1>3, <1>4 DEF Holds
<1>9. \A n \in Node, u \in User : Backs(s, n, u) => Backs(s, n, u)'
  BY <1>1, <1>5, NullAssumption DEF Backs
<1> QED BY <1>1, <1>3, <1>4, <1>5, <1>6, <1>7, <1>8, <1>9, HandlerHolds

\* The handler's own LOGIN is stored: the row is backed by the session.
LEMMA StoreLoginHolds ==
    ASSUME TInv, OInv, NEW s \in Sock, StoreLogin(s)
    PROVE  OInv'
<1>1. /\ thread[s].pc = "store"
      /\ row' = [row EXCEPT ![host[s]][thread[s].user] = events[thread[s].ev].node]
      /\ thread' = [thread EXCEPT ![s].pc = "push"]
      /\ UNCHANGED <<live, events, log, applying, host, auth, sessions, sock, me>>
  BY DEF StoreLogin, SetOnline, netVars, clientVars
<1>2. ThreadOk(s) /\ RoleOk(s) /\ ServingOk(s)
  BY Types, ServingMeans DEF Threads, OInv, Roles
<1>3. /\ thread'[s].pc = "push" /\ thread'[s].user = thread[s].user /\ thread'[s].ev = thread[s].ev
      /\ \A r \in Sock : r # s => thread'[r] = thread[r]
  <2>1. "push" \in PC /\ thread \in [Sock -> ThreadType]
    BY Types DEF PC
  <2> QED BY <1>1, <2>1, NextStage
<1>4. /\ thread[s].user \in User /\ host[s] \in Node /\ host[s] # NoNode
      /\ events[thread[s].ev].user = thread[s].user
      /\ events[thread[s].ev].node = host[s] /\ events[thread[s].ev].kind = "LOGIN"
  BY <1>1, <1>2, NullAssumption DEF ThreadOk
<1>5. auth[s] = thread[s].user /\ s \in sessions[host[s]]
  <2>1. auth[s] = thread[s].user
    BY <1>1, <1>2 DEF RoleOk, Leaving, Starting, PushesAccount
  <2> QED BY <1>2, <1>4, <2>1, NullAssumption DEF ServingOk
<1>6. RoleOk(s)' /\ ~Starting(s)'
  BY <1>1, <1>3, <1>4, <1>5 DEF RoleOk, Leaving, Starting, PushesAccount
<1>7. \A c \in Client : Knows(c)'
  BY <1>1, <1>3, Types DEF OInv, Roles, Knows
<1>8. \A u \in User : Holds(s, u)' => Holds(s, u)
  BY <1>1, <1>3 DEF Holds
<1>9. \A n \in Node, u \in User : Backs(s, n, u) => Backs(s, n, u)'
  BY <1>1 DEF Backs
<1>10. /\ row'[host[s]][thread[s].user] = host[s]
       /\ \A n \in Node, u \in User : n # host[s] \/ u # thread[s].user => row'[n][u] = row[n][u]
  BY <1>1, <1>4, Types
<1>11. \A n \in Node, u \in User :
          \/ row'[n][u] = row[n][u]
          \/ row'[n][u] # NoNode /\ (row'[n][u] = n => \E r \in Sock : Backs(r, n, u)')
  <2>1. \A n, u : n = host[s] /\ u = thread[s].user => Backs(s, n, u)'
    BY <1>1, <1>5 DEF Backs
  <2> QED BY <1>4, <1>10, <2>1
<1>12. \A r \in Sock : r # s =>
          /\ thread'[r] = thread[r] /\ auth'[r] = auth[r]
          /\ \A n \in Node : r \in sessions[n] => r \in sessions'[n]
  BY <1>1, <1>3
<1> QED BY <1>1, <1>3, <1>4, <1>6, <1>7, <1>8, <1>9, <1>10, <1>11, <1>12, HandlerHolds

\* The push and the reply: the client learns who it is.
LEMMA PushHolds ==
    ASSUME TInv, OInv, NEW s \in Sock, Push(s)
    PROVE  OInv'
<1> DEFINE e == events[thread[s].ev]
           t == IF e.kind = "USER_CREATED" THEN At("set", thread[s].user, 0) ELSE Idle
<1>1. /\ thread[s].pc = "push" /\ thread' = [thread EXCEPT ![s] = t]
      /\ me' = [c \in Client |->
                  IF sock[c] # s \/ e.kind = "USER_CREATED" THEN me[c]
                  ELSE IF e.kind = "LOGOUT" THEN NoUser ELSE thread[s].user]
      /\ UNCHANGED <<live, events, log, applying, host, row, auth, sessions, sock>>
  BY DEF Push, dbVars
<1>2. ThreadOk(s) /\ RoleOk(s)
  BY Types DEF Threads, OInv, Roles
<1>3. /\ e.kind = "USER_CREATED" => /\ t.pc = "set" /\ t.user = thread[s].user /\ Starting(s)
                                    /\ auth[s] = NoUser
      /\ e.kind # "USER_CREATED" => t.pc = "idle" /\ t.user = NoUser
      /\ e.kind # "USER_CREATED" => auth[s] = IF e.kind = "LOGOUT" THEN NoUser ELSE thread[s].user
      /\ t.ev = 0 /\ t.pc \in {"set", "idle"}
  BY <1>1, <1>2 DEF At, Idle, Starting, PushesAccount, RoleOk, Leaving
<1> HIDE DEF t, e
<1>4. thread'[s] = t /\ \A r \in Sock : r # s => thread'[r] = thread[r]
  BY <1>1, Types
<1>5. RoleOk(s)' /\ (Starting(s)' => e.kind = "USER_CREATED")
  BY <1>1, <1>3, <1>4 DEF RoleOk, Starting, PushesAccount
<1>6. \A c \in Client : Knows(c)'
  <2>1. SUFFICES ASSUME NEW c \in Client, sock[c] # NoSock, thread'[sock[c]].pc = "idle"
                 PROVE  auth[sock[c]] = NoUser \/ me'[c] = auth[sock[c]]
    BY <1>1 DEF Knows
  <2>2. sock[c] \in Sock
    BY <2>1, Types
  <2>3. CASE sock[c] = s
    BY <1>1, <1>3, <1>4, <2>1, <2>3
  <2>4. CASE sock[c] # s
    BY <1>1, <1>4, <2>1, <2>2, <2>4 DEF OInv, Roles, Knows
  <2> QED BY <2>3, <2>4
<1>7. \A u \in User : Holds(s, u)' => Holds(s, u)
  BY <1>1, <1>3, <1>4, NullAssumption DEF Holds
<1>8. \A n \in Node, u \in User : Backs(s, n, u) => Backs(s, n, u)'
  BY <1>1 DEF Backs
<1>9. \A r \in Sock : r # s =>
         /\ thread'[r] = thread[r] /\ auth'[r] = auth[r]
         /\ \A n \in Node : r \in sessions[n] => r \in sessions'[n]
  BY <1>1, <1>4
<1> QED BY <1>1, <1>3, <1>4, <1>5, <1>6, <1>7, <1>8, <1>9, HandlerHolds

\* REGISTER of a name that was taken since the check.
LEMMA TakenHolds ==
    ASSUME TInv, OInv, NEW s \in Sock, thread[s].pc = "create",
           thread' = [thread EXCEPT ![s] = Idle],
           UNCHANGED <<live, events, log, applying, host, row, auth, sessions, sock, me>>
    PROVE  OInv'
<1>1. RoleOk(s) /\ Starting(s)
  BY DEF OInv, Roles, Starting
<1>2. auth[s] = NoUser
  BY <1>1 DEF RoleOk
<1>3. /\ thread'[s].pc = "idle" /\ thread'[s].user = NoUser /\ thread'[s].ev = 0
      /\ \A r \in Sock : r # s => thread'[r] = thread[r]
  BY Types, Stages
<1>4. RoleOk(s)' /\ ~Starting(s)'
  BY <1>3 DEF RoleOk, Starting, PushesAccount
<1>5. \A c \in Client : Knows(c)'
  BY <1>2, <1>3, Types DEF OInv, Roles, Knows
<1>6. \A u \in User : ~Holds(s, u)'
  BY <1>2, <1>3, NullAssumption DEF Holds
<1>7. \A n \in Node, u \in User : Backs(s, n, u) => Backs(s, n, u)'
  BY <1>2, NullAssumption DEF Backs
<1> QED BY <1>2, <1>3, <1>4, <1>5, <1>6, <1>7, HandlerHolds

\* The session becomes anonymous: its row has a LOGOUT coming.
LEMMA LeavesHolds ==
    ASSUME TInv, OInv, NEW s \in Sock, thread[s] = Idle,
           auth' = [auth EXCEPT ![s] = NoUser],
           thread' = [thread EXCEPT ![s] = IF auth[s] = NoUser THEN Idle ELSE At("bye", auth[s], 0)],
           UNCHANGED <<live, events, log, applying, host, row, sock>>,
           \A r \in Sock \ {s} : \A n \in Node : r \in sessions[n] => r \in sessions'[n],
           \A c \in Client : me'[c] = me[c] \/ sock[c] = s
    PROVE  OInv'
<1> DEFINE t == IF auth[s] = NoUser THEN Idle ELSE At("bye", auth[s], 0)
<1>1. /\ t.pc = (IF auth[s] = NoUser THEN "idle" ELSE "bye")
      /\ t.ev = 0 /\ t.user = auth[s]
  BY DEF Idle, At
<1>2. thread' = [thread EXCEPT ![s] = t] /\ thread[s].pc = "idle"
  BY Stages
<1> HIDE DEF t
<1>3. /\ thread'[s] = t /\ auth'[s] = NoUser
      /\ \A r \in Sock : r # s => thread'[r] = thread[r] /\ auth'[r] = auth[r]
  BY <1>2, Types
<1>4. RoleOk(s)' /\ ~Starting(s)'
  BY <1>1, <1>3 DEF RoleOk, Starting, Leaving, PushesAccount
<1>5. \A c \in Client : Knows(c)'
  BY <1>3, Types DEF OInv, Roles, Knows
<1>6. \A u \in User : Holds(s, u)' => Holds(s, u)
  BY <1>1, <1>3, NullAssumption DEF Holds
<1>7. \A n \in Node, u \in User : Backs(s, n, u) => Backs(s, n, u)'
  BY <1>1, <1>2, <1>3, NullAssumption DEF Backs
<1>8. thread'[s].pc \in {"idle", "bye"} /\ thread'[s].ev = 0
  BY <1>1, <1>3
<1> QED BY <1>2, <1>3, <1>4, <1>5, <1>6, <1>7, <1>8, HandlerHolds

\* LOGOUT and removeSession.
LEMMA EndsHold ==
    ASSUME TInv, OInv, (\E c \in Client : Logout(c)) \/ (\E s \in Sock : RemoveSession(s))
    PROVE  OInv'
<1>1. ASSUME NEW c \in Client, Logout(c) PROVE OInv'
  <2>1. PICK s \in Sock : s = sock[c] /\ thread[s] = Idle
    BY <1>1, ReadySock DEF Logout
  <2>2. /\ auth' = [auth EXCEPT ![s] = NoUser]
        /\ thread' = [thread EXCEPT ![s] = IF auth[s] = NoUser THEN Idle ELSE At("bye", auth[s], 0)]
        /\ me' = [me EXCEPT ![c] = IF auth[s] = NoUser THEN NoUser ELSE @]
        /\ UNCHANGED <<live, events, log, applying, host, row, sock, sessions>>
    BY <1>1, <2>1 DEF Logout, netVars, dbVars
  <2>3. \A d \in Client : me'[d] = me[d] \/ sock[d] = s
    BY <2>1, <2>2, Types
  <2> QED BY <2>1, <2>2, <2>3, LeavesHolds
<1>2. ASSUME NEW s \in Sock, RemoveSession(s) PROVE OInv'
  <2>1. /\ thread[s] = Idle /\ auth' = [auth EXCEPT ![s] = NoUser]
        /\ thread' = [thread EXCEPT ![s] = IF auth[s] = NoUser THEN Idle ELSE At("bye", auth[s], 0)]
        /\ sessions' = [sessions EXCEPT ![host[s]] = @ \ {s}]
        /\ UNCHANGED <<live, events, log, applying, host, row, sock, me>>
    BY <1>2 DEF RemoveSession, netVars, dbVars, clientVars
  <2>2. \A r \in Sock \ {s} : \A n \in Node : r \in sessions[n] => r \in sessions'[n]
    BY <2>1, Types
  <2> QED BY <2>1, <2>2, LeavesHolds
<1> QED BY <1>1, <1>2

\* Steps that leave events, tables and handlers alone.
LEMMA QuietHolds ==
    ASSUME TInv, OInv, UNCHANGED <<live, events, log, applying, row, auth, thread>>,
           \A s \in Sock : HostKept(s),
           \A n \in Node : sessions[n] \subseteq sessions'[n],
           \A c \in Client : Knows(c)'
    PROVE  OInv'
<1>1. EventsGrow
  BY SameEvents
<1>2. \A s \in Sock :
         /\ Starting(s)' <=> Starting(s)
         /\ RoleOk(s)' <=> RoleOk(s)
         /\ \A u : Holds(s, u)' <=> Holds(s, u)
  BY <1>1, SameRole
<1>3. /\ \A k, u : About(k, u)' <=> About(k, u)
      /\ \A i : LastLogin(i)' <=> LastLogin(i)
  BY SameAbout
<1>4. \A k : Done(k)' <=> Done(k)
  BY DEF Done
<1>5. Linked' /\ Past'
  BY <1>2, <1>4 DEF OInv, Linked, Past, About
<1>6. Roles' /\ OneHolder'
  BY <1>2 DEF OInv, Roles, OneHolder
<1>7. Latest'
  BY <1>3 DEF OInv, Latest
<1>8. Stored'
  <2>1. \A n \in Node : \A i : StoredAt(n, i) => StoredAt(n, i)'
    BY DEF StoredAt, HostKept
  <2> QED BY <1>3, <2>1 DEF OInv, Stored
<1>9. Owned'
  <2>1. \A s \in Sock, n \in Node, u \in User : Backs(s, n, u) => Backs(s, n, u)'
    BY DEF Backs, HostKept
  <2> QED BY <2>1 DEF OInv, Owned
<1> QED BY <1>5, <1>6, <1>7, <1>8, <1>9 DEF OInv

\* Clients that come and go, and pulls.
LEMMA QuietStepsHold ==
    ASSUME TInv, OInv,
           \/ \E c \in Client : GiveUp(c) \/ LoseLink(c)
           \/ \E n, m \in Node : Pull(n, m)
           \/ UNCHANGED vars
    PROVE  OInv'
<1>1. /\ UNCHANGED <<live, events, log, applying, row, auth, thread, host, sessions, me>>
      /\ sock' = sock \/ \E c \in Client : sock' = [sock EXCEPT ![c] = NoSock]
  BY DEF GiveUp, LoseLink, Pull, vars, netVars, dbVars, sessionVars, clientVars
<1>2. \A c \in Client : sock'[c] = sock[c] \/ sock'[c] = NoSock
  BY <1>1, Types
<1>3. \A c \in Client : Knows(c)'
  BY <1>1, <1>2 DEF OInv, Roles, Knows
<1> QED BY <1>1, <1>3, QuietHolds DEF HostKept

\* openSession: a new socket is a guest's.
LEMMA ConnectHolds ==
    ASSUME TInv, OInv, NEW c \in Client, NEW n \in Node, Connect(c, n)
    PROVE  OInv'
<1>1. PICK s \in Sock : /\ host[s] = NoNode
                        /\ sock' = [sock EXCEPT ![c] = s] /\ host' = [host EXCEPT ![s] = n]
                        /\ sessions' = [sessions EXCEPT ![n] = @ \cup {s}]
  BY DEF Connect
<1>2. UNCHANGED <<live, events, log, applying, row, auth, thread, me>>
  BY DEF Connect, netVars, dbVars
<1>3. /\ sock'[c] = s /\ \A d \in Client : d # c => sock'[d] = sock[d]
      /\ \A r \in Sock : r # s => host'[r] = host[r]
      /\ \A k \in Node : sessions[k] \subseteq sessions'[k]
  BY <1>1, Types
<1>4. \A r \in Sock : HostKept(r)
  BY <1>1, <1>3, NullAssumption DEF HostKept
<1>5. auth[s] = NoUser
  BY <1>1, Types, NullAssumption DEF Serving
<1>6. \A d \in Client : Knows(d)'
  BY <1>2, <1>3, <1>5 DEF OInv, Roles, Knows
<1> QED BY <1>2, <1>3, <1>4, <1>6, QuietHolds

\* rumor() of the only handler that works for u.  Before a LOGIN the past is done;
\* after it this node has the row, or writes it next.
LEMMA RumorHolds ==
    ASSUME TInv, OInv, NEW s \in Sock, NEW kind \in {"LOGIN", "LOGOUT", "USER_CREATED"},
           NEW u \in User, host[s] \in Node, Rumor(s, kind, u), thread[s].user = u,
           UNCHANGED <<live, applying, sessions, host, sock, me>>,
           kind = "LOGIN" => thread[s].pc = "rumor",
           kind = "LOGOUT" => thread[s].pc = "bye",
           kind = "USER_CREATED" => thread[s].pc = "create"
    PROVE  OInv'
<1>n. PICK n \in Node : n = host[s]
  OBVIOUS
<1>r. PICK e \in EventOf, i \in Nat, pc \in {"store", "push"} : Rumors(s, kind, u, e, i, pc)
  <2>1. kind \in {"LOGIN", "LOGOUT", "RECONNECT", "USER_CREATED"}
    OBVIOUS
  <2> QED BY <2>1, RumorFacts
<1>1. /\ e.kind = kind /\ e.user = u /\ e.node = n
      /\ i = Len(events) + 1 /\ Len(events') = i /\ events'[i] = e
      /\ EventsGrow /\ ApplyEvent(n, e)
      /\ pc = "store" <=> kind = "LOGIN" /\ StoresLogin(n, e)
      /\ thread'[s] = At(pc, u, i)
      /\ \A r \in Sock : r # s => thread'[r] = thread[r]
      /\ Range(log'[n]) = Range(log[n]) \cup {i}
      /\ \A m \in Node : m # n => log'[m] = log[m]
  BY <1>n, <1>r DEF Rumors
<1>2. /\ UNCHANGED auth
      /\ \A m \in Node, v \in User :
            row'[m][v] = row[m][v] \/ (m = n /\ v = u /\ kind = "LOGOUT" /\ row'[m][v] = NoNode)
      /\ kind = "LOGOUT" => row'[n][u] = NoNode
  BY <1>1, Applied
<1>3. /\ Len(events) \in Nat /\ i \notin 1..Len(events) /\ i \in 1..Len(events')
      /\ \A k \in 1..Len(events) : k \in 1..Len(events') /\ k < i /\ events'[k] = events[k]
      /\ \A k \in 1..Len(events') : k \in 1..Len(events) \/ k = i
      /\ \A k \in 1..(i - 1) : k \in 1..Len(events)
  <2>1. /\ Len(events) \in Nat /\ i = Len(events) + 1 /\ Len(events') = i
        /\ \A k \in 1..Len(events) : events'[k] = events[k]
    BY <1>1, Types DEF EventsGrow
  <2>2. \A k \in 1..Len(events) : k \in 1..i /\ k < i
    BY <2>1
  <2>3. \A k \in 1..i : k \in 1..Len(events) \/ k = i
    BY <2>1
  <2> QED BY <2>1, <2>2, <2>3
<1>4. thread'[s].pc = pc /\ thread'[s].user = u /\ thread'[s].ev = i
  BY <1>1 DEF At
<1>5. \A r \in Sock : r # s =>
         /\ Starting(r)' <=> Starting(r)
         /\ RoleOk(r)' <=> RoleOk(r)
         /\ \A v : Holds(r, v)' <=> Holds(r, v)
  BY <1>1, <1>2, SameRole
<1>6. \A r \in Sock : Holds(r, u) => r = s
  BY DEF OInv, OneHolder, Holds
<1>7. \A m \in Node : Range(log[m]) \subseteq Range(log'[m]) /\ Range(log[m]) \subseteq 1..Len(events)
  BY <1>1, Types DEF Indices
<1>8. \A k \in 1..Len(events) : Done(k) => Done(k)'
  <2>1. \A k \in 1..Len(events) : \A r \in Sock : thread'[r].ev = k => thread[r].ev = k
    BY <1>1, <1>3, <1>4
  <2> QED BY <1>7, <2>1, DoneKept
<1>9. /\ \A k \in 1..Len(events) : \A v : About(k, v)' <=> About(k, v)
      /\ \A v : About(i, v)' <=> v = u /\ kind # "USER_CREATED"
  BY <1>1, <1>3 DEF About
<1>10. RoleOk(s) /\ RoleOk(s)' /\ (Starting(s)' <=> kind = "USER_CREATED") /\ (kind = "LOGIN" => auth[s] = u)
       /\ (kind = "LOGOUT" => auth[s] = NoUser)
  <2>1. RoleOk(s)
    BY DEF OInv, Roles
  <2>2. /\ Starting(s)' <=> kind = "USER_CREATED"
        /\ Leaving(s)' <=> kind = "LOGOUT"
    BY <1>1, <1>4 DEF Starting, Leaving, PushesAccount
  <2>3. /\ kind = "LOGIN" => auth[s] = u
        /\ kind # "LOGIN" => auth[s] = NoUser
    BY <2>1 DEF RoleOk, Leaving, Starting, PushesAccount
  <2>4. RoleOk(s)'
    BY <1>2, <1>4, <2>2, <2>3 DEF RoleOk
  <2> QED BY <2>1, <2>2, <2>3, <2>4
<1>11. Linked'
  <2>1. \A k \in 1..Len(events') : events'[k].kind # "RECONNECT"
    BY <1>1, <1>3 DEF OInv, Linked
  <2>2. \A r \in Sock : thread'[r].pc \notin {"claim", "moved"}
    BY <1>1, <1>4 DEF OInv, Linked
  <2> QED BY <2>1, <2>2 DEF OInv, Linked
<1>12. Past'
  <2>1. ASSUME NEW r \in Sock, Starting(r)', NEW k \in 1..Len(events'),
               events'[k].user = thread'[r].user, events'[k].kind # "USER_CREATED"
        PROVE  Done(k)'
    <3>1. PICK v : v = thread'[r].user
      OBVIOUS
    <3>2. About(k, v)' /\ thread[r].user = v /\ Starting(r)
      <4>1. About(k, v)'
        BY <2>1, <3>1 DEF About
      <4>2. CASE r = s
        BY <1>4, <1>10, <2>1, <3>1, <4>1, <4>2 DEF Starting
      <4>3. CASE r # s
        BY <1>1, <1>5, <2>1, <3>1, <4>1, <4>3
      <4> QED BY <4>2, <4>3
    <3>3. k # i
      <4>1. v # u \/ r = s
        BY <1>6, <3>2 DEF Holds
      <4> QED BY <1>9, <1>10, <2>1, <3>2, <4>1
    <3>4. k \in 1..Len(events) /\ About(k, v)
      BY <1>3, <1>9, <3>2, <3>3
    <3> QED BY <1>8, <3>2, <3>4 DEF OInv, Past
  <2>2. ASSUME NEW j \in 1..Len(events'), events'[j].kind = "LOGIN", NEW k \in 1..(j - 1),
               events'[k].user = events'[j].user, events'[k].kind # "USER_CREATED"
        PROVE  Done(k)'
    <3>1. CASE j \in 1..Len(events)
      <4>1. k \in 1..Len(events)
        BY <1>3, <3>1
      <4> QED BY <1>3, <1>8, <2>2, <3>1, <4>1 DEF OInv, Past, About
    <3>2. CASE j = i
      <4>1. k \in 1..Len(events) /\ kind = "LOGIN" /\ About(k, u) /\ Starting(s)
        BY <1>1, <1>3, <2>2, <3>2 DEF About, Starting
      <4> QED BY <1>8, <4>1 DEF OInv, Past
    <3> QED BY <1>3, <3>1, <3>2
  <2> QED BY <2>1, <2>2 DEF Past, About
<1>13. Roles'
  <2>1. ASSUME NEW c \in Client PROVE Knows(c)'
    <3>1. Knows(c)
      BY DEF OInv, Roles
    <3>2. sock \in [Client -> Sock \cup {NoSock}]
      BY Types
    <3> QED BY <1>1, <1>2, <1>4, <3>1, <3>2 DEF Knows
  <2> QED BY <1>5, <1>10, <2>1 DEF OInv, Roles
<1>14. OneHolder'
  <2>1. \A v : Holds(s, v)' <=> Holds(s, v)
    BY <1>2, <1>4 DEF Holds
  <2> QED BY <1>5, <2>1 DEF OInv, OneHolder
<1>15. \A j \in 1..Len(events) : LastLogin(j)' =>
          LastLogin(j) /\ (events[j].user # u \/ kind = "USER_CREATED")
  <2>1. SUFFICES ASSUME NEW j \in 1..Len(events), LastLogin(j)'
                 PROVE  LastLogin(j) /\ (events[j].user # u \/ kind = "USER_CREATED")
    OBVIOUS
  <2>2. PICK v : v = events[j].user /\ v = events'[j].user
    BY <1>3
  <2>3. \A k \in 1..Len(events') : About(k, v)' => k <= j
    BY <2>1, <2>2 DEF LastLogin, About
  <2>4. LastLogin(j)
    BY <1>3, <1>9, <2>1, <2>2, <2>3 DEF LastLogin
  <2>5. ~About(i, v)'
    BY <1>3, <2>3
  <2> QED BY <1>9, <2>2, <2>4, <2>5
<1>16. \A j \in 1..Len(events) : LastLogin(j) /\ (events[j].user # u \/ kind = "USER_CREATED") =>
          LastLogin(j)'
  <2>1. SUFFICES ASSUME NEW j \in 1..Len(events), LastLogin(j),
                        events[j].user # u \/ kind = "USER_CREATED"
                 PROVE  LastLogin(j)'
    OBVIOUS
  <2>2. PICK v : v = events[j].user /\ v = events'[j].user
    BY <1>3
  <2>3. \A k \in 1..Len(events') : About(k, v)' => k <= j
    BY <1>3, <1>9, <2>1, <2>2 DEF LastLogin
  <2> QED BY <1>3, <2>1, <2>2, <2>3 DEF LastLogin, About
<1>17. kind = "LOGIN" => LastLogin(i)'
  <2>1. \A k \in 1..Len(events') : k <= i
    BY <1>1, <1>3
  <2> QED BY <1>1, <2>1 DEF LastLogin
<1>18. Latest'
  <2>1. SUFFICES ASSUME NEW r \in Sock, auth[r] # NoUser, thread'[r].pc # "rumor"
                 PROVE  \E j \in 1..Len(events') : LastLogin(j)' /\ events'[j].user = auth[r]
    BY <1>2 DEF Latest
  <2>2. CASE r = s
    <3>1. kind = "LOGIN" /\ auth[r] = u
      BY <1>10, <2>1, <2>2 DEF RoleOk, Starting
    <3> QED BY <1>1, <1>3, <1>17, <3>1
  <2>3. CASE r # s
    <3>1. PICK j \in 1..Len(events) : LastLogin(j) /\ events[j].user = auth[r]
      BY <1>1, <2>1, <2>3 DEF OInv, Latest
    <3>2. auth[r] # u
      BY <1>6, <2>3 DEF Holds
    <3> QED BY <1>3, <1>16, <3>1, <3>2
  <2> QED BY <2>2, <2>3
<1>19. Stored'
  <2>1. SUFFICES ASSUME NEW m \in Node, NEW j \in Range(log'[m]), LastLogin(j)'
                 PROVE  StoredAt(m, j)'
    BY DEF Stored
  <2>2. CASE j = i
    <3>1. m = n /\ kind = "LOGIN"
      BY <1>1, <1>3, <1>7, <2>1, <2>2 DEF LastLogin
    <3>2. CASE pc = "store"
      BY <1>n, <1>4, <2>2, <3>1, <3>2 DEF StoredAt
    <3>3. CASE pc # "store"
      <4>1. row[n][u] # NoNode
        BY <1>1, <3>1, <3>3 DEF StoresLogin
      <4>2. row'[n][u] # NoNode
        BY <1>2, <3>1, <4>1
      <4> QED BY <1>1, <2>2, <3>1, <4>2 DEF StoredAt
    <3> QED BY <3>2, <3>3
  <2>3. CASE j # i
    <3>1. j \in Range(log[m]) /\ j \in 1..Len(events)
      BY <1>1, <1>7, <2>1, <2>3
    <3>2. LastLogin(j) /\ (events[j].user # u \/ kind = "USER_CREATED") /\ events'[j] = events[j]
      BY <1>3, <1>15, <2>1, <3>1
    <3>3. StoredAt(m, j)
      BY <3>1, <3>2 DEF OInv, Stored
    <3>4. events[j].user \in User
      BY <3>1, EventFields
    <3>5. row'[m][events[j].user] = row[m][events[j].user]
      BY <1>2, <3>2, <3>4
    <3>6. \A r \in Sock : thread[r].pc = "store" => r # s /\ thread'[r] = thread[r]
      BY <1>1
    <3> QED BY <3>2, <3>3, <3>5, <3>6 DEF StoredAt
  <2> QED BY <2>2, <2>3
<1>20. Owned'
  <2>1. \A m, l \in Node : applying'[m][l] # 0 => events'[applying'[m][l]].node # m
    <3>1. \A m, l \in Node : applying[m][l] # 0 => applying[m][l] \in 1..Len(events)
      BY Types DEF Indices
    <3> QED BY <1>3, <3>1 DEF OInv, Owned
  <2>2. ASSUME NEW m \in Node, NEW v \in User, row'[m][v] = m
        PROVE  \E r \in Sock : Backs(r, m, v)'
    <3>1. row[m][v] = m /\ (kind = "LOGOUT" => m # n \/ v # u)
      BY <1>2, <2>2, NullAssumption
    <3>2. PICK r \in Sock : Backs(r, m, v)
      BY <3>1 DEF OInv, Owned
    <3>3. CASE r = s
      <4>1. auth[s] = v /\ s \in sessions[m] /\ host[s] = m
        BY <1>n, <1>10, <3>1, <3>2, <3>3, NullAssumption DEF Backs
      <4> QED BY <1>2, <4>1 DEF Backs
    <3>4. CASE r # s
      BY <1>1, <1>2, <3>2, <3>4 DEF Backs
    <3> QED BY <3>3, <3>4
  <2> QED BY <2>1, <2>2 DEF Owned
<1> QED BY <1>11, <1>12, <1>13, <1>14, <1>18, <1>19, <1>20 DEF OInv

\* The rumors of the handlers.
LEMMA RumorsHold ==
    ASSUME TInv, OInv, NEW s \in Sock, RumorLogin(s) \/ RumorLogout(s) \/ CreateUser(s)
    PROVE  OInv'
<1>1. UNCHANGED <<live, applying, sessions, host, sock, me>>
  BY DEF RumorLogin, RumorLogout, CreateUser, clientVars
<1>2. ThreadOk(s) /\ thread[s].pc \in {"rumor", "bye", "create"}
  BY Types DEF Threads, RumorLogin, RumorLogout, CreateUser
<1>3. PICK u \in User : u = thread[s].user /\ host[s] \in Node
  BY <1>2 DEF ThreadOk
<1>4. CASE RumorLogin(s)
  BY <1>1, <1>3, <1>4, RumorHolds DEF RumorLogin
<1>5. CASE RumorLogout(s)
  BY <1>1, <1>3, <1>5, RumorHolds DEF RumorLogout
<1>6. CASE CreateUser(s)
  <2>1. CASE account[host[s]][u] = NoNode
    <3>1. Rumor(s, "USER_CREATED", u) /\ thread[s].pc = "create"
      BY <1>3, <1>6, <2>1 DEF CreateUser
    <3> QED BY <1>1, <1>3, <3>1, RumorHolds
  <2>2. CASE account[host[s]][u] # NoNode
    <3>1. /\ thread' = [thread EXCEPT ![s] = Idle] /\ UNCHANGED <<events, log, row, auth>>
          /\ thread[s].pc = "create"
      BY <1>3, <1>6, <2>2 DEF CreateUser
    <3> QED BY <1>1, <3>1, TakenHolds
  <2> QED BY <2>1, <2>2
<1> QED BY <1>4, <1>5, <1>6

\* A peer accepts an event.  A LOGOUT from before a LOGIN that is still the last
\* word has been applied everywhere, so it is not accepted now.
LEMMA DeliverHolds ==
    ASSUME TInv, AInv, OInv, NEW n \in Node, NEW m \in Node, Deliver(n, m)
    PROVE  OInv'
<1> DEFINE i == Head(wire[m][n])
           x == IF events[i].kind = "LOGIN" /\ StoresLogin(n, events[i]) THEN i ELSE 0
<1>1. /\ wire[m][n] # <<>> /\ applying[n][m] = 0
      /\ UNCHANGED <<live, events, sessions, host, thread, sock, me>>
      /\ \/ UNCHANGED <<log, applying, row, auth>>
         \/ /\ i \notin Range(log[n]) /\ log' = [log EXCEPT ![n] = Append(log[n], i)]
            /\ applying' = [applying EXCEPT ![n][m] = x] /\ ApplyEvent(n, events[i])
  BY DEF Deliver, clientVars
<1>2. i \in 1..Len(events) /\ events[i] \in EventOf /\ i \in Nat /\ i # 0
  <2>1. wire[m][n] \in Seq(Nat)
    BY Types
  <2>2. i \in Range(wire[m][n])
    BY <1>1, <2>1, RangeTail
  <2> HIDE DEF i
  <2>3. i \in 1..Len(events) /\ events \in Seq(EventOf) /\ Len(events) \in Nat
    BY <2>2, Types DEF Indices
  <2> QED BY <2>3
<1>3. /\ x \in {0, i}
      /\ events[i].kind = "LOGIN" => x = i \/ row[n][events[i].user] # NoNode
  BY DEF StoresLogin
<1> HIDE DEF i, x
<1>4. \A c \in Client : Knows(c) /\ (auth' = auth => Knows(c)')
  BY <1>1 DEF OInv, Roles, Knows
<1>5. CASE UNCHANGED <<log, applying, row, auth>>
  BY <1>1, <1>4, <1>5, QuietHolds DEF HostKept
<1>6. CASE /\ i \notin Range(log[n]) /\ log' = [log EXCEPT ![n] = Append(log[n], i)]
           /\ applying' = [applying EXCEPT ![n][m] = x] /\ ApplyEvent(n, events[i])
  <2>1. log[n] \in Seq(Nat)
    BY Types
  <2>2. Range(Append(log[n], i)) = Range(log[n]) \cup {i}
    BY <1>2, <2>1, RangeAppend
  <2>3. /\ Range(log'[n]) = Range(log[n]) \cup {i}
        /\ \A k \in Node : k # n => log'[k] = log[k]
    BY <1>6, <2>2, Types
  <2>4. /\ applying'[n][m] = x
        /\ \A k, l \in Node : k # n \/ l # m => applying'[k][l] = applying[k][l]
    BY <1>6, Types
  <2>5. events[i].kind # "RECONNECT"
    BY <1>2 DEF OInv, Linked
  <2>6. /\ UNCHANGED auth
        /\ \A k \in Node, u \in User :
              \/ row'[k][u] = row[k][u]
              \/ k = n /\ u = events[i].user /\ events[i].kind = "LOGOUT" /\ row'[k][u] = NoNode
    BY <1>2, <1>6, <2>5, Applied
  <2>7. EventsGrow
    BY <1>1, SameEvents
  <2>8. \A s \in Sock :
           /\ Starting(s)' <=> Starting(s)
           /\ RoleOk(s)' <=> RoleOk(s)
           /\ \A u : Holds(s, u)' <=> Holds(s, u)
    BY <1>1, <2>6, <2>7, SameRole
  <2>9. /\ \A k, u : About(k, u)' <=> About(k, u)
        /\ \A j : LastLogin(j)' <=> LastLogin(j)
    BY <1>1, SameAbout
  <2>10. \A k \in 1..Len(events) : Done(k) => Done(k)'
    <3>1. SUFFICES ASSUME NEW k \in 1..Len(events), Done(k) PROVE Done(k)'
      OBVIOUS
    <3>2. k # i /\ k # 0
      BY <1>2, <1>6, <3>1 DEF Done
    <3>3. \A a, b \in Node : applying'[a][b] = k => applying[a][b] = k
      BY <1>3, <2>4, <3>2
    <3>4. \A a \in Node : Range(log[a]) \subseteq Range(log'[a])
      BY <2>3
    <3> QED BY <1>1, <3>1, <3>3, <3>4, DoneKept
  <2>11. Linked' /\ Roles' /\ OneHolder' /\ Latest'
    <3>1. Linked'
      BY <1>1 DEF OInv, Linked
    <3>2. Roles' /\ OneHolder'
      BY <1>4, <2>6, <2>8 DEF OInv, Roles, OneHolder
    <3>3. Latest'
      BY <1>1, <2>6, <2>9 DEF OInv, Latest
    <3> QED BY <3>1, <3>2, <3>3
  <2>12. Past'
    <3>1. \A j \in 1..Len(events) : \A k \in 1..(j - 1) : k \in 1..Len(events)
      BY Types
    <3>2. \A s \in Sock : Starting(s) =>
            \A k \in 1..Len(events) :
              events[k].user = thread[s].user /\ events[k].kind # "USER_CREATED" => Done(k)'
      BY <2>10 DEF OInv, Past, About
    <3>3. \A j \in 1..Len(events) : events[j].kind = "LOGIN" =>
            \A k \in 1..(j - 1) :
              events[k].user = events[j].user /\ events[k].kind # "USER_CREATED" => Done(k)'
      BY <2>10, <3>1 DEF OInv, Past, About
    <3> QED BY <1>1, <2>8, <3>2, <3>3 DEF Past, About
  <2>13. Stored'
    <3>1. SUFFICES ASSUME NEW k \in Node, NEW j \in Range(log'[k]), LastLogin(j)
                   PROVE  StoredAt(k, j)'
      BY <2>9 DEF Stored
    <3>2. CASE j = i /\ k = n
      <4>1. events[i].kind = "LOGIN" /\ events[i].user \in User
        BY <1>2, <3>1, <3>2, EventFields DEF LastLogin
      <4>2. x = i \/ row'[n][events[i].user] # NoNode
        BY <1>3, <2>6, <4>1
      <4> QED BY <1>1, <2>4, <3>2, <4>2 DEF StoredAt
    <3>3. CASE ~(j = i /\ k = n)
      <4>1. j \in Range(log[k])
        BY <2>3, <3>1, <3>3
      <4>2. StoredAt(k, j) /\ j \in 1..Len(events)
        BY <3>1, <4>1, Types DEF OInv, Stored, Indices
      <4>3. events[j].user \in User /\ events[j].kind = "LOGIN"
        BY <3>1, <4>2, EventFields DEF LastLogin
      <4>4. row'[k][events[j].user] = row[k][events[j].user]
        <5>1. SUFFICES ASSUME events[j].user = events[i].user, events[i].kind = "LOGOUT" PROVE FALSE
          BY <2>6, <4>3
        <5>2. About(i, events[j].user)
          BY <5>1 DEF About
        <5>3. i <= j /\ i # j
          BY <1>2, <3>1, <4>3, <5>1, <5>2 DEF LastLogin
        <5>4. i \in 1..(j - 1)
          BY <1>2, <4>2, <5>3, Types
        <5>5. Done(i)
          BY <4>2, <4>3, <5>2, <5>4 DEF OInv, Past
        <5> QED BY <1>6, <5>5 DEF Done
      <4>5. j # 0
        BY <4>2, Types
      <4>6. \A l \in Node : applying[k][l] = j => applying'[k][l] = j
        BY <1>1, <2>4, <4>5
      <4> QED BY <1>1, <4>2, <4>4, <4>6 DEF StoredAt
    <3> QED BY <3>2, <3>3
  <2>14. Owned'
    <3>1. events[i].node # n
      BY <1>2, <1>6 DEF AInv, Origin
    <3>2. \A k, l \in Node : applying'[k][l] # 0 => events[applying'[k][l]].node # k
      <4>1. SUFFICES ASSUME NEW k \in Node, NEW l \in Node, applying'[k][l] # 0
                     PROVE  events[applying'[k][l]].node # k
        OBVIOUS
      <4>2. CASE k = n /\ l = m
        BY <1>3, <2>4, <3>1, <4>1, <4>2
      <4>3. CASE ~(k = n /\ l = m)
        BY <2>4, <4>1, <4>3 DEF OInv, Owned
      <4> QED BY <4>2, <4>3
    <3>3. \A s, k, u : Backs(s, k, u)' <=> Backs(s, k, u)
      BY <1>1, <2>6 DEF Backs
    <3>4. \A k \in Node, u \in User : row'[k][u] = k => row[k][u] = k
      BY <2>6, NullAssumption
    <3> QED BY <1>1, <3>2, <3>3, <3>4 DEF OInv, Owned
  <2> QED BY <2>11, <2>12, <2>13, <2>14 DEF OInv
<1> QED BY <1>1, <1>5, <1>6

\* The setOnline of a LOGIN from elsewhere.
LEMMA FinishLoginHolds ==
    ASSUME TInv, OInv, NEW n \in Node, NEW m \in Node, FinishLogin(n, m)
    PROVE  OInv'
<1> DEFINE i == applying[n][m]
<1>1. /\ i # 0 /\ row' = [row EXCEPT ![n][events[i].user] = events[i].node]
      /\ applying' = [applying EXCEPT ![n][m] = 0]
      /\ UNCHANGED <<live, events, log, sessions, host, auth, thread, sock, me>>
  BY DEF FinishLogin, SetOnline, sessionVars, clientVars
<1>2. i \in 1..Len(events) /\ events[i].node # n
  BY <1>1, Types DEF Indices, OInv, Owned
<1>3. events[i].user \in User /\ events[i].node \in Node /\ events[i].node # NoNode
  BY <1>2, EventFields, NullAssumption
<1> HIDE DEF i
<1>4. /\ row'[n][events[i].user] = events[i].node
      /\ \A k \in Node, u \in User : k # n \/ u # events[i].user => row'[k][u] = row[k][u]
  BY <1>1, <1>3, Types
<1>5. /\ applying'[n][m] = 0
      /\ \A k, l \in Node : k # n \/ l # m => applying'[k][l] = applying[k][l]
  BY <1>1, Types
<1>6. EventsGrow
  BY <1>1, SameEvents
<1>7. \A s \in Sock :
         /\ Starting(s)' <=> Starting(s)
         /\ RoleOk(s)' <=> RoleOk(s)
         /\ \A u : Holds(s, u)' <=> Holds(s, u)
  BY <1>1, <1>6, SameRole
<1>8. /\ \A k, u : About(k, u)' <=> About(k, u)
      /\ \A j : LastLogin(j)' <=> LastLogin(j)
  BY <1>1, SameAbout
<1>9. \A k \in 1..Len(events) : Done(k) => Done(k)'
  <2>1. SUFFICES ASSUME NEW k \in 1..Len(events), Done(k) PROVE Done(k)'
    OBVIOUS
  <2>2. \A a, b \in Node : applying'[a][b] = k => applying[a][b] = k
    <3>1. k # 0
      BY Types
    <3> QED BY <1>5, <3>1
  <2> QED BY <1>1, <2>1, <2>2, DoneKept
<1>10. Linked'
  BY <1>1 DEF OInv, Linked
<1>11. Roles' /\ OneHolder'
  <2>1. \A c \in Client : Knows(c)'
    BY <1>1 DEF OInv, Roles, Knows
  <2> QED BY <1>7, <2>1 DEF OInv, Roles, OneHolder
<1>12. Latest'
  BY <1>1, <1>8 DEF OInv, Latest
<1>13. Past'
  <2>1. \A j \in 1..Len(events) : \A k \in 1..(j - 1) : k \in 1..Len(events)
    BY Types
  <2>2. \A s \in Sock : Starting(s) =>
          \A k \in 1..Len(events) :
            events[k].user = thread[s].user /\ events[k].kind # "USER_CREATED" => Done(k)'
    BY <1>9 DEF OInv, Past, About
  <2>3. \A j \in 1..Len(events) : events[j].kind = "LOGIN" =>
          \A k \in 1..(j - 1) :
            events[k].user = events[j].user /\ events[k].kind # "USER_CREATED" => Done(k)'
    BY <1>9, <2>1 DEF OInv, Past, About
  <2> QED BY <1>1, <1>7, <2>2, <2>3 DEF Past, About
<1>14. Stored'
  <2>1. SUFFICES ASSUME NEW k \in Node, NEW j \in Range(log[k]), LastLogin(j) PROVE StoredAt(k, j)'
    BY <1>1, <1>8 DEF Stored
  <2>2. StoredAt(k, j) /\ j \in 1..Len(events)
    BY <2>1, Types DEF OInv, Stored, Indices
  <2>3. events[j].user \in User
    BY <2>2, EventFields
  <2>4. CASE row[k][events[j].user] # NoNode
    BY <1>1, <1>3, <1>4, <2>3, <2>4 DEF StoredAt
  <2>5. CASE \E l \in Node : applying[k][l] = j
    <3>1. PICK l \in Node : applying[k][l] = j
      BY <2>5
    <3>2. CASE k = n /\ l = m
      BY <1>1, <1>3, <1>4, <3>1, <3>2 DEF StoredAt, i
    <3>3. CASE ~(k = n /\ l = m)
      BY <1>5, <3>1, <3>3 DEF StoredAt
    <3> QED BY <3>2, <3>3
  <2>6. CASE \E s \in Sock : host[s] = k /\ thread[s].pc = "store" /\ thread[s].ev = j
    BY <1>1, <2>6 DEF StoredAt
  <2> QED BY <2>2, <2>4, <2>5, <2>6 DEF StoredAt
<1>15. Owned'
  <2>1. \A k, l \in Node : applying'[k][l] # 0 => events[applying'[k][l]].node # k
    BY <1>5 DEF OInv, Owned
  <2>2. \A s, k, u : Backs(s, k, u)' <=> Backs(s, k, u)
    BY <1>1 DEF Backs
  <2>3. \A k \in Node, u \in User : row'[k][u] = k => row[k][u] = k
    BY <1>2, <1>4
  <2> QED BY <1>1, <2>1, <2>2, <2>3 DEF OInv, Owned
<1> QED BY <1>10, <1>11, <1>12, <1>13, <1>14, <1>15 DEF OInv

\* When no process dies, no peer connection breaks and clients are patient, every
\* step keeps OInv.
LEMMA StepHolds ==
    ASSUME TInv, AInv, OInv, Patient, MaxCuts = 0, MaxCrashes = 0, [Next]_vars
    PROVE  OInv'
<1>1. CASE UNCHANGED vars
  BY <1>1, QuietStepsHold
<1>2. ASSUME NEW s \in Sock, Handler(s) PROVE OInv'
  <2>1. ~Claim(s) /\ ~RumorReconnect(s)
    BY DEF OInv, Linked, Claim, RumorReconnect
  <2> QED BY <1>2, <2>1, SetSessionHolds, RumorsHold, StoreLoginHolds, EndsHold, PushHolds
          DEF Handler
<1>3. ASSUME NEW c \in Client, Request(c) PROVE OInv'
  BY <1>3, LoginHolds, RegisterHolds, EndsHold, NothingToResume, QuietStepsHold, ConnectHolds
     DEF Request
<1>4. ASSUME NEW n \in Node, NEW m \in Node, Peer(n, m) PROVE OInv'
  <2>1. ~RegisterPeer(n, m)
    BY DEF OInv, Linked, RegisterPeer
  <2>2. ~RemovePeer(n, m)
    <3>1. ~(cuts < MaxCuts)
      BY Types
    <3> QED BY <3>1 DEF OInv, Linked, RemovePeer
  <2> QED BY <1>4, <2>1, <2>2, DeliverHolds, FinishLoginHolds, QuietStepsHold DEF Peer
<1>5. ASSUME NEW n \in Node PROVE ~Crash(n) /\ ~Start(n)
  <2>1. ~Crash(n)
    BY Types DEF Crash
  <2>2. ~Start(n)
    BY DEF AInv, Running, Start
  <2> QED BY <2>1, <2>2
<1> QED BY <1>1, <1>2, <1>3, <1>4, <1>5 DEF Next

\* OInv holds at the start.
LEMMA InitiallyHolds ==
    ASSUME Init
    PROVE  OInv
<1>1. Len(events) = 0 /\ 1..0 = {} /\ \A n \in Node : Range(log[n]) = {}
  BY DEF Init, Range
<1>2. \A s \in Sock : thread[s].pc = "idle" /\ thread[s].user = NoUser /\ auth[s] = NoUser
  BY DEF Init, Idle
<1>3. Linked
  BY <1>1, <1>2 DEF Init, Linked
<1>4. Past
  BY <1>1 DEF Past
<1>5. Roles
  <2>1. \A c \in Client : sock[c] = NoSock
    BY DEF Init
  <2> QED BY <1>2, <2>1 DEF Roles, RoleOk, Knows
<1>6. OneHolder /\ Latest
  BY <1>2, NullAssumption DEF OneHolder, Latest, Holds
<1>7. Stored
  BY <1>1 DEF Stored
<1>8. Owned
  BY NullAssumption DEF Init, Owned
<1> QED BY <1>3, <1>4, <1>5, <1>6, <1>7, <1>8 DEF OInv

\* "one live session per user across the cluster" (README.md line 29): on any
\* number of nodes, when clients wait for what they see to settle, no process dies
\* and no peer connection breaks, whatever order events and their applications
\* come in (LOGIN's check, setOnline of applyEvent, LOGOUT of a lost socket).
THEOREM OneSessionPerUser ==
    Patient /\ MaxCuts = 0 /\ MaxCrashes = 0 => (Spec => []OneLiveSession)
<1>1. SUFFICES ASSUME Patient, MaxCuts = 0, MaxCrashes = 0 PROVE Spec => []OneLiveSession
  OBVIOUS
<1>2. Init => TInv /\ AInv /\ OInv
  BY InitiallyTyped, InitiallyAgrees, InitiallyHolds
<1>3. TInv /\ AInv /\ OInv /\ [Next]_vars => (TInv /\ AInv /\ OInv)'
  BY <1>1, StepTyped, StepAgrees, StepHolds
<1>4. TInv /\ AInv /\ OInv => OneLiveSession
  BY DEF OInv, OneHolder, Holds, OneLiveSession, SessionsOf
<1> QED BY <1>2, <1>3, <1>4, PTL DEF Spec

-----------------------------------------------------------------------------
(***************************************************************************)
(* When processes die and links break.  Two nodes, patient clients, and    *)
(* accounts that every database was created with.                          *)
(***************************************************************************)

\* Nobody registers.
Enrolled ==
    /\ \A n \in Node, u \in User : account[n][u] # NoNode
    /\ \A s \in Sock : thread[s].pc # "create"
    /\ \A i \in 1..Len(events) : events[i].kind # "USER_CREATED"

\* A node is not its own peer.
NoSelf == \A n \in Node : n \notin live[n] /\ applying[n][n] = 0

\* A process that is not running has nothing but its database.
Offline ==
    /\ \A n \in Node : ~up[n] =>
          /\ sessions[n] = {} /\ log[n] = <<>>
          /\ \A m \in Node : applying[n][m] = 0
    /\ \A s \in Sock : thread[s].pc # "idle" => up[host[s]]

\* What a node is working on is in its log.
Logged ==
    /\ \A s \in Sock : thread[s].pc \in {"store", "push"} => thread[s].ev \in Range(log[host[s]])
    /\ \A n, m \in Node : applying[n][m] # 0 => applying[n][m] \in Range(log[n])

Steady == Enrolled /\ NoSelf /\ Offline /\ Logged

\* A handler that stays where it is, or begins or ends something, or goes on with
\* the event it has rumored.
Proceeds(s) ==
    /\ HostKept(s)
    /\ \/ thread'[s] = thread[s]
       \/ thread'[s].pc = "idle"
       \/ /\ thread'[s].pc \notin {"create", "store", "push"}
          /\ host[s] \in Node /\ up[host[s]]
       \/ /\ thread[s].pc = "store" /\ thread'[s].pc = "push"
          /\ thread'[s].ev = thread[s].ev

\* Steps that neither rumor nor accept an event, on running nodes.
LEMMA SteadyKept ==
    ASSUME TInv, Steady, UNCHANGED <<up, live, events, log, applying, account>>,
           \A n \in Node : sessions'[n] \subseteq sessions[n] \/ up[n],
           \A s \in Sock : Proceeds(s)
    PROVE  Steady'
<1>1. \A s \in Sock : thread[s].pc # "idle" => host[s] \in Node
  BY Types DEF Threads, ThreadOk
<1>2. Enrolled'
  BY DEF Steady, Enrolled, Proceeds
<1>3. NoSelf'
  BY DEF Steady, NoSelf
<1>4. Offline'
  <2>1. \A n \in Node : ~up'[n] =>
          /\ sessions'[n] = {} /\ log'[n] = <<>>
          /\ \A m \in Node : applying'[n][m] = 0
    BY DEF Steady, Offline
  <2>2. \A s \in Sock : thread'[s].pc # "idle" => up'[host'[s]]
    BY <1>1 DEF Steady, Offline, Proceeds, HostKept
  <2> QED BY <2>1, <2>2 DEF Offline
<1>5. Logged'
  BY <1>1 DEF Steady, Logged, Proceeds, HostKept
<1> QED BY <1>2, <1>3, <1>4, <1>5 DEF Steady

\* A socket with a session is on a running node.
LEMMA ServedUp ==
    ASSUME TInv, Steady, NEW s \in Sock, host[s] \in Node, s \in sessions[host[s]]
    PROVE  up[host[s]]
BY DEF Steady, Offline

\* Requests.  REGISTER has no user to register.
LEMMA RequestSteady ==
    ASSUME TInv, Steady, NEW c \in Client, Request(c)
    PROVE  Steady'
<1>1. ASSUME NEW u \in User, Login(c, u) PROVE Steady'
  <2>1. PICK s \in Sock : s = sock[c] /\ host[s] \in Node /\ s \in sessions[host[s]]
    BY <1>1, ReadySock DEF Login
  <2>2. /\ thread' = [thread EXCEPT ![s] = At("set", u, 0)]
        /\ UNCHANGED <<up, live, events, log, applying, account, sessions, host>>
    BY <1>1, <2>1 DEF Login, netVars, dbVars
  <2>3. At("set", u, 0).pc = "set"
    BY DEF At
  <2>4. \A r \in Sock : Proceeds(r)
    BY <2>1, <2>2, <2>3, Types, ServedUp DEF Proceeds, HostKept
  <2> QED BY <2>2, <2>4, SteadyKept
<1>2. ASSUME NEW u \in User PROVE ~Register(c, u)
  <2>1. ASSUME Register(c, u) PROVE FALSE
    <3>1. host[sock[c]] \in Node
      BY <2>1, ReadySock DEF Register
    <3> QED BY <2>1, <3>1 DEF Register, Steady, Enrolled
  <2> QED BY <2>1
<1>3. ASSUME Logout(c) PROVE Steady'
  <2>1. PICK s \in Sock : s = sock[c] /\ host[s] \in Node /\ s \in sessions[host[s]]
    BY <1>3, ReadySock DEF Logout
  <2> DEFINE t == IF auth[s] = NoUser THEN Idle ELSE At("bye", auth[s], 0)
  <2>2. /\ thread' = [thread EXCEPT ![s] = t]
        /\ UNCHANGED <<up, live, events, log, applying, account, sessions, host>>
    BY <1>3, <2>1 DEF Logout, netVars, dbVars
  <2>3. t.pc \in {"idle", "bye"}
    BY DEF At, Idle
  <2> HIDE DEF t
  <2>4. \A r \in Sock : Proceeds(r)
    BY <2>1, <2>2, <2>3, Types, ServedUp DEF Proceeds, HostKept
  <2> QED BY <2>2, <2>4, SteadyKept
<1>4. ASSUME Reconnect(c) PROVE Steady'
  <2>1. PICK s \in Sock : s = sock[c] /\ host[s] \in Node /\ s \in sessions[host[s]]
    BY <1>4, ReadySock DEF Reconnect
  <2>2. /\ thread' = [thread EXCEPT ![s] = At("claim", me[c], 0)]
        /\ UNCHANGED <<up, live, events, log, applying, account, sessions, host>>
    BY <1>4, <2>1 DEF Reconnect, netVars, dbVars
  <2>3. At("claim", me[c], 0).pc = "claim"
    BY DEF At
  <2>4. \A r \in Sock : Proceeds(r)
    BY <2>1, <2>2, <2>3, Types, ServedUp DEF Proceeds, HostKept
  <2> QED BY <2>2, <2>4, SteadyKept
<1>5. ASSUME GiveUp(c) \/ LoseLink(c) PROVE Steady'
  <2>1. UNCHANGED <<up, live, events, log, applying, account, sessions, host, thread>>
    BY <1>5 DEF GiveUp, LoseLink, netVars, dbVars, sessionVars
  <2>2. \A r \in Sock : Proceeds(r)
    BY <2>1 DEF Proceeds, HostKept
  <2> QED BY <2>1, <2>2, SteadyKept
<1>6. ASSUME NEW n \in Node, Connect(c, n) PROVE Steady'
  <2>1. PICK s \in Sock : /\ host[s] = NoNode /\ host' = [host EXCEPT ![s] = n]
                          /\ sessions' = [sessions EXCEPT ![n] = @ \cup {s}]
    BY <1>6 DEF Connect
  <2>2. up[n] /\ UNCHANGED <<up, live, events, log, applying, account, thread>>
    BY <1>6 DEF Connect, netVars, dbVars
  <2>3. \A k \in Node : sessions'[k] \subseteq sessions[k] \/ up[k]
    BY <2>1, <2>2, Types
  <2>4. \A r \in Sock : Proceeds(r)
    BY <2>1, <2>2, Types, NullAssumption DEF Proceeds, HostKept
  <2> QED BY <2>2, <2>3, <2>4, SteadyKept
<1> QED BY <1>1, <1>2, <1>3, <1>4, <1>5, <1>6 DEF Request

\* The steps of a handler that rumor nothing.
LEMMA HandlerSteady ==
    ASSUME TInv, Steady, NEW s \in Sock,
           SetSession(s) \/ StoreLogin(s) \/ Claim(s) \/ RemoveSession(s) \/ Push(s)
    PROVE  Steady'
<1>1. CASE SetSession(s) \/ StoreLogin(s) \/ Claim(s)
  <2>1. PICK pc \in {"rumor", "push", "moved"} :
           /\ thread' = [thread EXCEPT ![s].pc = pc]
           /\ pc = "push" <=> thread[s].pc = "store"
           /\ thread[s].pc \in {"set", "store", "claim"}
    BY <1>1 DEF SetSession, StoreLogin, Claim
  <2>2. UNCHANGED <<up, live, events, log, applying, account, sessions, host>>
    BY <1>1 DEF SetSession, StoreLogin, Claim, netVars, dbVars
  <2>3. /\ thread'[s].pc = pc /\ thread'[s].ev = thread[s].ev
        /\ \A r \in Sock : r # s => thread'[r] = thread[r]
    <3>1. pc \in PC
      BY DEF PC
    <3> QED BY <2>1, <3>1, NextStage, Types
  <2>4. host[s] \in Node /\ up[host[s]]
    BY <2>1, Types DEF Steady, Offline, Threads, ThreadOk
  <2>5. \A r \in Sock : Proceeds(r)
    BY <2>1, <2>2, <2>3, <2>4 DEF Proceeds, HostKept
  <2> QED BY <2>2, <2>5, SteadyKept
<1>2. CASE RemoveSession(s)
  <2> DEFINE t == IF auth[s] = NoUser THEN Idle ELSE At("bye", auth[s], 0)
  <2>1. /\ host[s] \in Node /\ s \in sessions[host[s]]
        /\ thread' = [thread EXCEPT ![s] = t]
        /\ sessions' = [sessions EXCEPT ![host[s]] = @ \ {s}]
        /\ UNCHANGED <<up, live, events, log, applying, account, host>>
    BY <1>2, Types DEF RemoveSession, netVars, dbVars
  <2>2. t.pc \in {"idle", "bye"}
    BY DEF At, Idle
  <2> HIDE DEF t
  <2>3. \A r \in Sock : Proceeds(r)
    BY <2>1, <2>2, Types, ServedUp DEF Proceeds, HostKept
  <2>4. \A n \in Node : sessions'[n] \subseteq sessions[n]
    BY <2>1, Types
  <2> QED BY <2>1, <2>3, <2>4, SteadyKept
<1>3. CASE Push(s)
  <2>1. thread[s].pc = "push" /\ thread[s].ev \in 1..Len(events)
    BY <1>3, Types DEF Push, Threads, ThreadOk
  <2>2. events[thread[s].ev].kind # "USER_CREATED"
    BY <2>1 DEF Steady, Enrolled
  <2>3. /\ thread' = [thread EXCEPT ![s] = Idle]
        /\ UNCHANGED <<up, live, events, log, applying, account, sessions, host>>
    BY <1>3, <2>2 DEF Push, dbVars
  <2>4. \A r \in Sock : Proceeds(r)
    BY <2>3, Types, Stages DEF Proceeds, HostKept
  <2> QED BY <2>3, <2>4, SteadyKept
<1> QED BY <1>1, <1>2, <1>3

\* rumor() on a running node.
LEMMA RumorSteady ==
    ASSUME TInv, Steady, NEW s \in Sock, NEW kind \in {"LOGIN", "LOGOUT", "RECONNECT"},
           thread[s].pc # "idle", Rumor(s, kind, thread[s].user),
           UNCHANGED <<up, live, applying, sessions, host>>
    PROVE  Steady'
<1>1. host[s] \in Node /\ thread[s].user \in User /\ up[host[s]]
  BY Types DEF Threads, ThreadOk, Steady, Offline
<1>2. PICK e \in EventOf, i \in Nat, pc \in {"store", "push"} :
         Rumors(s, kind, thread[s].user, e, i, pc)
  BY <1>1, RumorFacts
<1>3. /\ e.kind = kind /\ i = Len(events) + 1 /\ Len(events') = i /\ events'[i] = e
      /\ EventsGrow /\ ApplyEvent(host[s], e)
      /\ thread'[s] = At(pc, thread[s].user, i)
      /\ \A r \in Sock : r # s => thread'[r] = thread[r]
      /\ Range(log'[host[s]]) = Range(log[host[s]]) \cup {i}
      /\ \A n \in Node : n # host[s] => log'[n] = log[n]
  BY <1>2 DEF Rumors
<1>4. thread'[s].pc = pc /\ thread'[s].ev = i
  BY <1>3 DEF At
<1>5. AccountsKept
  BY <1>1, <1>3, Applied
<1>6. Enrolled'
  <2>1. \A k \in 1..Len(events') : k \in 1..Len(events) \/ k = i
    BY <1>3, Types
  <2>2. \A k \in 1..Len(events') : events'[k].kind # "USER_CREATED"
    BY <1>3, <2>1 DEF EventsGrow, Steady, Enrolled
  <2> QED BY <1>3, <1>4, <1>5, <2>2 DEF Steady, Enrolled, AccountsKept
<1>7. NoSelf'
  BY DEF Steady, NoSelf
<1>8. Offline'
  BY <1>1, <1>3 DEF Steady, Offline
<1>9. Logged'
  <2>1. \A n \in Node : Range(log[n]) \subseteq Range(log'[n])
    BY <1>3
  <2>2. \A r \in Sock : thread[r].pc # "idle" => host[r] \in Node
    BY Types DEF Threads, ThreadOk
  <2>3. ASSUME NEW r \in Sock, thread'[r].pc \in {"store", "push"}
        PROVE  thread'[r].ev \in Range(log'[host'[r]])
    <3>1. CASE r = s
      BY <1>1, <1>3, <1>4, <3>1
    <3>2. CASE r # s
      <4>1. thread'[r] = thread[r] /\ host'[r] = host[r] /\ host[r] \in Node
        BY <1>3, <2>2, <2>3, <3>2
      <4>2. thread[r].ev \in Range(log[host[r]])
        BY <2>3, <4>1 DEF Steady, Logged
      <4> QED BY <2>1, <4>1, <4>2
    <3> QED BY <3>1, <3>2
  <2> QED BY <2>1, <2>3 DEF Steady, Logged
<1> QED BY <1>6, <1>7, <1>8, <1>9 DEF Steady

\* An event is read.
LEMMA DeliverSteady ==
    ASSUME TInv, Steady, NEW n \in Node, NEW m \in Node, Deliver(n, m)
    PROVE  Steady'
<1> DEFINE i == Head(wire[m][n])
           x == IF events[i].kind = "LOGIN" /\ StoresLogin(n, events[i]) THEN i ELSE 0
<1>1. /\ up[n] /\ m \in live[n] /\ wire[m][n] # <<>>
      /\ UNCHANGED <<up, live, events, sessions, host, thread>>
      /\ \/ UNCHANGED <<log, applying, account>>
         \/ /\ log' = [log EXCEPT ![n] = Append(log[n], i)]
            /\ applying' = [applying EXCEPT ![n][m] = x] /\ ApplyEvent(n, events[i])
  BY DEF Deliver
<1>2. i \in Nat /\ events[i] \in EventOf
  <2>1. wire[m][n] \in Seq(Nat)
    BY Types
  <2>2. i \in Range(wire[m][n])
    BY <1>1, <2>1, RangeTail
  <2> HIDE DEF i
  <2>3. i \in 1..Len(events) /\ events \in Seq(EventOf) /\ Len(events) \in Nat
    BY <2>2, Types DEF Indices
  <2> QED BY <2>3
<1>3. x \in {0, i}
  OBVIOUS
<1> HIDE DEF i, x
<1>4. CASE UNCHANGED <<log, applying, account>>
  <2>1. \A r \in Sock : Proceeds(r)
    BY <1>1 DEF Proceeds, HostKept
  <2> QED BY <1>1, <1>4, <2>1, SteadyKept
<1>5. CASE /\ log' = [log EXCEPT ![n] = Append(log[n], i)]
           /\ applying' = [applying EXCEPT ![n][m] = x] /\ ApplyEvent(n, events[i])
  <2>1. log[n] \in Seq(Nat)
    BY Types
  <2>2. Range(Append(log[n], i)) = Range(log[n]) \cup {i}
    BY <1>2, <2>1, RangeAppend
  <2>3. /\ Range(log'[n]) = Range(log[n]) \cup {i}
        /\ \A k \in Node : k # n => log'[k] = log[k]
    BY <1>5, <2>2, Types
  <2>4. /\ applying'[n][m] = x
        /\ \A k, l \in Node : k # n \/ l # m => applying'[k][l] = applying[k][l]
    BY <1>5, Types
  <2>5. AccountsKept
    BY <1>2, <1>5, Applied
  <2>6. Enrolled'
    BY <1>1, <2>5 DEF Steady, Enrolled, AccountsKept
  <2>7. m # n
    BY <1>1 DEF Steady, NoSelf
  <2>8. NoSelf'
    BY <1>1, <2>4, <2>7 DEF Steady, NoSelf
  <2>9. Offline'
    BY <1>1, <2>3, <2>4 DEF Steady, Offline
  <2>10. Logged'
    <3>1. \A k \in Node : Range(log[k]) \subseteq Range(log'[k])
      BY <2>3
    <3>2. \A k, l \in Node : applying'[k][l] # 0 => applying'[k][l] \in Range(log'[k])
      BY <1>3, <2>3, <2>4, <3>1 DEF Steady, Logged
    <3>3. \A r \in Sock : thread[r].pc # "idle" => host[r] \in Node
      BY Types DEF Threads, ThreadOk
    <3>4. \A r \in Sock : thread[r].pc \in {"store", "push"} => thread[r].ev \in Range(log'[host[r]])
      BY <3>1, <3>3 DEF Steady, Logged
    <3> QED BY <1>1, <3>2, <3>4 DEF Logged
  <2> QED BY <2>6, <2>8, <2>9, <2>10 DEF Steady
<1> QED BY <1>1, <1>4, <1>5

\* The other steps between nodes.
LEMMA PeerSteady ==
    ASSUME TInv, Steady, NEW n \in Node, NEW m \in Node,
           FinishLogin(n, m) \/ Pull(n, m) \/ RegisterPeer(n, m) \/ RemovePeer(n, m)
    PROVE  Steady'
<1>1. CASE Pull(n, m)
  <2>1. UNCHANGED <<up, live, events, log, applying, account, sessions, host, thread>>
    BY <1>1 DEF Pull, dbVars, sessionVars
  <2>2. \A r \in Sock : Proceeds(r)
    BY <2>1 DEF Proceeds, HostKept
  <2> QED BY <2>1, <2>2, SteadyKept
<1>2. CASE FinishLogin(n, m)
  <2>1. /\ applying' = [applying EXCEPT ![n][m] = 0]
        /\ UNCHANGED <<up, live, events, log, account, sessions, host, thread>>
    BY <1>2 DEF FinishLogin, sessionVars
  <2>2. \A k, l \in Node : applying'[k][l] = applying[k][l] \/ applying'[k][l] = 0
    BY <2>1, Types
  <2> QED BY <2>1, <2>2 DEF Steady, Enrolled, NoSelf, Offline, Logged
<1>3. CASE RegisterPeer(n, m) \/ RemovePeer(n, m)
  <2>1. /\ UNCHANGED <<up, events, log, applying, account, sessions, host, thread>>
        /\ \/ live' = [live EXCEPT ![n] = @ \cup {m}, ![m] = @ \cup {n}] /\ n # m
           \/ live' = [live EXCEPT ![n] = @ \ {m}]
    BY <1>3 DEF RegisterPeer, RemovePeer, dbVars, sessionVars
  <2>2. \A k \in Node : k \notin live'[k]
    <3>1. \A k \in Node : k \notin live[k]
      BY DEF Steady, NoSelf
    <3>2. CASE live' = [live EXCEPT ![n] = @ \ {m}]
      BY <3>1, <3>2, Types
    <3>3. CASE live' = [live EXCEPT ![n] = @ \cup {m}, ![m] = @ \cup {n}] /\ n # m
      <4> DEFINE w == [live EXCEPT ![n] = @ \cup {m}]
      <4>1. w \in [Node -> SUBSET Node] /\ \A k \in Node : k \notin w[k]
        BY <3>1, <3>3, Types
      <4>2. live' = [w EXCEPT ![m] = @ \cup {n}]
        BY <3>3
      <4> HIDE DEF w
      <4> QED BY <3>3, <4>1, <4>2
    <3> QED BY <2>1, <3>2, <3>3
  <2> QED BY <2>1, <2>2 DEF Steady, Enrolled, NoSelf, Offline, Logged
<1> QED BY <1>1, <1>2, <1>3

\* What is left of the node that dies, and of the others.
Dies(n) ==
    /\ UNCHANGED <<events, account, row, host>>
    /\ ~up'[n] /\ live'[n] = {} /\ log'[n] = <<>> /\ sessions'[n] = {}
    /\ \A k \in Node : applying'[n][k] = 0
    /\ \A k \in Node : k # n =>
          /\ up'[k] = up[k] /\ live'[k] = live[k] /\ log'[k] = log[k] /\ sessions'[k] = sessions[k]
          /\ \A l \in Node : applying'[k][l] = applying[k][l]
    /\ \A k, l \in Node : wire'[k][l] = wire[k][l] \/ wire'[k][l] = <<>>
    /\ \A s \in Sock : host[s] = n => auth'[s] = NoUser /\ thread'[s] = Idle
    /\ \A s \in Sock : host[s] # n => auth'[s] = auth[s] /\ thread'[s] = thread[s]

\* Crash, point by point.
LEMMA CrashFacts ==
    ASSUME TInv, NEW n \in Node, Crash(n)
    PROVE  Dies(n)
<1> DEFINE lost == {s \in Sock : host[s] = n}
<1>1. /\ up' = [up EXCEPT ![n] = FALSE] /\ live' = [live EXCEPT ![n] = {}]
      /\ wire' = [k \in Node |-> [wire[k] EXCEPT ![n] = <<>>]]
      /\ log' = [log EXCEPT ![n] = <<>>]
      /\ applying' = [applying EXCEPT ![n] = [k \in Node |-> 0]]
      /\ sessions' = [sessions EXCEPT ![n] = {}]
      /\ auth' = [s \in Sock |-> IF s \in lost THEN NoUser ELSE auth[s]]
      /\ thread' = [s \in Sock |-> IF s \in lost THEN Idle ELSE thread[s]]
      /\ UNCHANGED <<events, account, row, host>>
  BY DEF Crash, dbVars
<1>2. /\ ~up'[n] /\ live'[n] = {} /\ log'[n] = <<>> /\ sessions'[n] = {}
      /\ \A k \in Node : applying'[n][k] = 0
  BY <1>1, Types
<1>3. \A k \in Node : k # n =>
          /\ up'[k] = up[k] /\ live'[k] = live[k] /\ log'[k] = log[k] /\ sessions'[k] = sessions[k]
          /\ \A l \in Node : applying'[k][l] = applying[k][l]
  BY <1>1, Types
<1>4. \A k, l \in Node : wire'[k][l] = wire[k][l] \/ wire'[k][l] = <<>>
  BY <1>1, Types
<1>5. /\ \A s \in Sock : host[s] = n => auth'[s] = NoUser /\ thread'[s] = Idle
      /\ \A s \in Sock : host[s] # n => auth'[s] = auth[s] /\ thread'[s] = thread[s]
  BY <1>1, Types
<1> QED BY <1>1, <1>2, <1>3, <1>4, <1>5 DEF Dies

\* A process dies or starts.
LEMMA ProcessSteady ==
    ASSUME TInv, Steady, NEW n \in Node, Crash(n) \/ Start(n)
    PROVE  Steady'
<1>1. CASE Crash(n)
  <2>1. Dies(n)
    BY <1>1, CrashFacts
  <2>2. \A s \in Sock : thread[s].pc # "idle" => host[s] \in Node
    BY Types DEF Threads, ThreadOk
  <2>3. Enrolled'
    BY <2>1, Stages DEF Dies, Steady, Enrolled
  <2>4. NoSelf'
    BY <2>1 DEF Dies, Steady, NoSelf
  <2>5. Offline'
    BY <2>1, <2>2, Stages DEF Dies, Steady, Offline
  <2>6. Logged'
    BY <2>1, <2>2, Stages DEF Dies, Steady, Logged
  <2> QED BY <2>3, <2>4, <2>5, <2>6 DEF Steady
<1>2. CASE Start(n)
  <2>1. /\ up' = [up EXCEPT ![n] = TRUE]
        /\ UNCHANGED <<live, events, log, applying, account, sessions, host, thread>>
    BY <1>2 DEF Start, netVars, sessionVars
  <2>2. \A k \in Node : up[k] => up'[k]
    BY <2>1, Types
  <2>3. \A s \in Sock : thread[s].pc # "idle" => host[s] \in Node
    BY Types DEF Threads, ThreadOk
  <2>4. Enrolled' /\ NoSelf' /\ Logged'
    BY <2>1 DEF Steady, Enrolled, NoSelf, Logged
  <2>5. Offline'
    BY <2>1, <2>2, <2>3 DEF Steady, Offline
  <2> QED BY <2>4, <2>5 DEF Steady
<1> QED BY <1>1, <1>2

\* Every step keeps Steady.
LEMMA StepSteady ==
    ASSUME TInv, Steady, [Next]_vars
    PROVE  Steady'
<1>1. CASE UNCHANGED vars
  <2>1. /\ UNCHANGED <<up, live, events, log, applying, account, sessions, host, thread>>
    BY <1>1 DEF vars, netVars, dbVars, sessionVars
  <2>2. \A r \in Sock : Proceeds(r)
    BY <2>1 DEF Proceeds, HostKept
  <2> QED BY <2>1, <2>2, SteadyKept
<1>2. ASSUME NEW s \in Sock, Handler(s) PROVE Steady'
  <2>1. ~CreateUser(s)
    BY DEF CreateUser, Steady, Enrolled
  <2>2. CASE RumorLogin(s) \/ RumorLogout(s) \/ RumorReconnect(s)
    <3>1. PICK kind \in {"LOGIN", "LOGOUT", "RECONNECT"} :
             /\ thread[s].pc # "idle" /\ Rumor(s, kind, thread[s].user)
             /\ UNCHANGED <<up, live, applying, sessions, host>>
      BY <2>2 DEF RumorLogin, RumorLogout, RumorReconnect
    <3> QED BY <3>1, RumorSteady
  <2> QED BY <1>2, <2>1, <2>2, HandlerSteady DEF Handler
<1>3. ASSUME NEW c \in Client, Request(c) PROVE Steady'
  BY <1>3, RequestSteady
<1>4. ASSUME NEW n \in Node, NEW m \in Node, Peer(n, m) PROVE Steady'
  BY <1>4, DeliverSteady, PeerSteady DEF Peer
<1>5. ASSUME NEW n \in Node, Crash(n) \/ Start(n) PROVE Steady'
  BY <1>5, ProcessSteady
<1> QED BY <1>1, <1>2, <1>3, <1>4, <1>5 DEF Next

\* Steady holds at the start when every account is a seed account.
LEMMA InitiallySteady ==
    ASSUME Init, SeedUser = User
    PROVE  Steady
<1>1. Len(events) = 0 /\ 1..0 = {}
  BY DEF Init
<1>2. \A s \in Sock : thread[s].pc = "idle"
  BY DEF Init, Idle
<1>3. Enrolled
  <2>1. ASSUME NEW n \in Node, NEW u \in User PROVE account[n][u] # NoNode
    <3>1. account[n][u] = Seeded
      BY DEF Init
    <3>2. Seeded \in Node
      BY DEF Seeded
    <3> QED BY <3>1, <3>2, NullAssumption
  <2> QED BY <1>1, <1>2, <2>1 DEF Enrolled
<1>4. NoSelf /\ Offline /\ Logged
  BY <1>2 DEF Init, NoSelf, Offline, Logged
<1> QED BY <1>3, <1>4 DEF Steady

\* Event i is a LOGIN, or a RECONNECT, or one of them.
Enters(i, u) == events[i].kind = "LOGIN" /\ events[i].user = u
Moves(i, u)  == events[i].kind = "RECONNECT" /\ events[i].user = u
Opens(i, u)  == Enters(i, u) \/ Moves(i, u)

\* A user who has not logged out and has moved once.
MovedOnce(u) ==
    /\ \A i \in 1..Len(events) : events[i].user = u => events[i].kind # "LOGOUT"
    /\ \A i, j \in 1..Len(events) : Moves(i, u) /\ Moves(j, u) => i = j

\* Somebody may still hear of event i.
Alive(i) ==
    \/ \E n \in Node : i \in Range(log[n])
    \/ \E n, m \in Node : i \in Range(wire[n][m])

Stage(s, u, P) == thread[s].user = u /\ thread[s].pc \in P

\* The handler of s makes a session of u.
Engaged(s, u) == Stage(s, u, {"set", "rumor", "store", "claim", "moved"})

Works(s, u) == thread[s].user = u /\ thread[s].pc # "bye"

\* A handler of n is about to store a LOGIN of u.
Pending(n, m, u) == applying[n][m] # 0 /\ events[applying[n][m]].user = u

OneWorker(u) == \A s, r \in Sock : Works(s, u) /\ Works(r, u) => s = r

\* There is one LOGIN to hear of: the next one needs every log without it.
OneLogin(u) ==
    \A i, j \in 1..Len(events) :
        Alive(i) /\ Alive(j) /\ Enters(i, u) /\ Enters(j, u) => i = j

\* Who logs in is recorded nowhere, and nothing else is heard of.
LoggingIn(s, u) ==
    Stage(s, u, {"set", "rumor", "store"}) =>
        /\ row[host[s]][u] = NoNode
        /\ \A m \in Node : ~Pending(host[s], m, u)
        /\ \A i \in 1..Len(events) : Alive(i) /\ Opens(i, u) => i = thread[s].ev

\* Who resumes a session does so where everything has been heard.
Claiming(s, u) ==
    Stage(s, u, {"claim", "moved"}) =>
        /\ \A m \in Node : ~Pending(host[s], m, u)
        /\ \A i \in 1..Len(events) : Alive(i) /\ Opens(i, u) => i \in Range(log[host[s]])

\* A session is in the log and the table of its node.
SessionLogged(s, u) ==
    auth[s] = u => \/ Stage(s, u, {"rumor", "moved"})
                   \/ \E i \in Range(log[host[s]]) : Opens(i, u) /\ events[i].node = host[s]
SessionMoved(s, u) ==
    auth[s] = u => \/ Stage(s, u, {"moved"})
                   \/ \A i \in Range(log[host[s]]) : Moves(i, u) => events[i].node = host[s]
SessionRow(s, u) ==
    auth[s] = u => Stage(s, u, {"rumor", "store"}) \/ row[host[s]][u] = host[s]

\* An event in the log is in the table, or will be.
Written(n, u) ==
    \A i \in Range(log[n]) : Opens(i, u) =>
        \/ row[n][u] # NoNode
        \/ \E m \in Node : applying[n][m] = i
        \/ \E s \in Sock : host[s] = n /\ thread[s].pc = "store" /\ thread[s].ev = i

\* A row of a running node that names the node itself is in its log.
OwnRow(n, u) ==
    up[n] /\ row[n][u] = n =>
        Moving(u, n) \/ \E i \in Range(log[n]) : Opens(i, u) /\ events[i].node = n

\* A RECONNECT has the last word.
MoveWins(n, u) ==
    \A i \in Range(log[n]) : Moves(i, u) =>
        /\ row[n][u] = events[i].node \/ Moving(u, n)
        /\ \A m \in Node : Pending(n, m, u) => events[applying[n][m]].node = events[i].node

\* The check that applyEvent made for a LOGIN still holds when it writes.
StillRight(n, u) ==
    \A m \in Node : Pending(n, m, u) => row[n][u] \in {NoNode, events[applying[n][m]].node}

SocketOk(s, u) ==
    /\ LoggingIn(s, u) /\ Claiming(s, u)
    /\ SessionLogged(s, u) /\ SessionMoved(s, u) /\ SessionRow(s, u)

TableOk(n, u) == Written(n, u) /\ OwnRow(n, u) /\ MoveWins(n, u) /\ StillRight(n, u)

Recording(u) ==
    /\ OneWorker(u) /\ OneLogin(u)
    /\ \A s \in Sock : SocketOk(s, u)
    /\ \A n \in Node : TableOk(n, u)

FInv == Steady /\ \A u \in User : MovedOnce(u) => Recording(u)

\* Events are what they were.
LEMMA SameKinds ==
    ASSUME EventsGrow, NEW i \in 1..Len(events), NEW u
    PROVE  /\ events'[i] = events[i]
           /\ Enters(i, u)' <=> Enters(i, u)
           /\ Moves(i, u)' <=> Moves(i, u)
           /\ Opens(i, u)' <=> Opens(i, u)
<1>1. events'[i] = events[i]
  BY DEF EventsGrow
<1> QED BY <1>1 DEF Enters, Moves, Opens

\* Logs and connections name events.
LEMMA KnownEvents ==
    ASSUME TInv
    PROVE  /\ \A n \in Node : \A i \in Range(log[n]) : i \in 1..Len(events) /\ Alive(i) /\ i # 0
           /\ \A n, m \in Node : \A i \in Range(wire[n][m]) : i \in 1..Len(events) /\ Alive(i) /\ i # 0
           /\ \A n, m \in Node : applying[n][m] # 0 => applying[n][m] \in 1..Len(events)
           /\ \A s \in Sock : thread[s].pc # "idle" => host[s] \in Node /\ thread[s].user \in User
           /\ \A s \in Sock : auth[s] # NoUser => host[s] \in Node /\ s \in sessions[host[s]]
<1>1. \A i \in 1..Len(events) : i # 0
  BY Types
<1> QED BY <1>1, Types DEF Indices, Alive, Threads, ThreadOk, Serving

\* What is pending is what was, when no node begins or ends to store a LOGIN.
LEMMA SamePending ==
    ASSUME TInv, EventsGrow, UNCHANGED applying, NEW u, NEW n \in Node, NEW m \in Node
    PROVE  /\ Pending(n, m, u)' <=> Pending(n, m, u)
           /\ Pending(n, m, u) => events'[applying[n][m]] = events[applying[n][m]]
<1>1. applying[n][m] # 0 => events'[applying[n][m]] = events[applying[n][m]]
  BY KnownEvents, SameKinds
<1> QED BY <1>1 DEF Pending

\* Steps that have nothing to do with u.
Aside(u) ==
    /\ EventsGrow
    /\ \A i \in 1..Len(events') : Opens(i, u)' => i \in 1..Len(events)
    /\ \A n \in Node :
          /\ row'[n][u] = row[n][u] /\ up'[n] = up[n]
          /\ Range(log[n]) \subseteq Range(log'[n])
          /\ \A i \in Range(log'[n]) : Opens(i, u)' => i \in Range(log[n])
          /\ \A m \in Node : Pending(n, m, u) \/ Pending(n, m, u)' => applying'[n][m] = applying[n][m]
    /\ \A i \in 1..Len(events) : Alive(i)' /\ Opens(i, u) => Alive(i)
    /\ \A s \in Sock :
          /\ HostKept(s) /\ (auth'[s] = u => auth[s] = u)
          /\ Works(s, u)' => Works(s, u)
          /\ thread'[s] = thread[s] \/ (~Engaged(s, u) /\ ~Engaged(s, u)')

\* What they leave alone, socket by socket.
LEMMA AsideSockets ==
    ASSUME TInv, TInv', NEW u \in User, Aside(u), Recording(u), NEW s \in Sock
    PROVE  SocketOk(s, u)'
<1>1. LoggingIn(s, u) /\ Claiming(s, u) /\ SessionLogged(s, u) /\ SessionMoved(s, u) /\ SessionRow(s, u)
  BY DEF Recording, SocketOk
<1>2. u # NoUser
  BY NullAssumption
<1>3. Engaged(s, u)' \/ auth'[s] = u => host[s] \in Node /\ host'[s] = host[s]
  BY <1>2, KnownEvents DEF Aside, HostKept, Engaged, Stage
<1>4. Engaged(s, u)' \/ Engaged(s, u) => thread'[s] = thread[s]
  BY DEF Aside
<1>5. \A i \in 1..Len(events') : Alive(i)' /\ Opens(i, u)' =>
         i \in 1..Len(events) /\ Alive(i) /\ Opens(i, u)
  BY SameKinds DEF Aside
<1>10. \A h, m \in Node : Pending(h, m, u)' => Pending(h, m, u)
  <2>1. SUFFICES ASSUME NEW h \in Node, NEW m \in Node, Pending(h, m, u)' PROVE Pending(h, m, u)
    OBVIOUS
  <2>2. applying'[h][m] = applying[h][m] /\ applying[h][m] # 0
    BY <2>1 DEF Aside, Pending
  <2>3. events'[applying[h][m]] = events[applying[h][m]]
    BY <2>2, KnownEvents, SameKinds DEF Aside
  <2> QED BY <2>1, <2>2, <2>3 DEF Pending
<1>6. LoggingIn(s, u)'
  <2>1. Stage(s, u, {"set", "rumor", "store"})' => Stage(s, u, {"set", "rumor", "store"}) /\ Engaged(s, u)'
    BY <1>4 DEF Stage, Engaged
  <2> QED BY <1>1, <1>3, <1>4, <1>5, <1>10, <2>1 DEF LoggingIn, Aside
<1>7. Claiming(s, u)'
  <2>1. SUFFICES ASSUME Stage(s, u, {"claim", "moved"})' PROVE Claiming(s, u)'
    BY DEF Claiming
  <2>2. Stage(s, u, {"claim", "moved"}) /\ Engaged(s, u)'
    BY <1>4, <2>1 DEF Stage, Engaged
  <2>3. PICK h \in Node : h = host[s] /\ h = host'[s]
    BY <1>3, <2>2
  <2>4. \A m \in Node : ~Pending(h, m, u)'
    BY <1>1, <1>10, <2>2, <2>3 DEF Claiming
  <2>5. \A i \in 1..Len(events') : Alive(i)' /\ Opens(i, u)' => i \in Range(log'[h])
    BY <1>1, <1>5, <2>2, <2>3 DEF Claiming, Aside
  <2> QED BY <2>3, <2>4, <2>5 DEF Claiming
<1>8. ASSUME auth'[s] = u
      PROVE  SessionLogged(s, u)' /\ SessionMoved(s, u)' /\ SessionRow(s, u)'
  <2>1. PICK h \in Node : h = host[s] /\ h = host'[s]
    BY <1>3, <1>8
  <2>2. auth[s] = u
    BY <1>8 DEF Aside
  <2>3. /\ Stage(s, u, {"rumor", "moved"}) => Stage(s, u, {"rumor", "moved"})'
        /\ Stage(s, u, {"moved"}) => Stage(s, u, {"moved"})'
        /\ Stage(s, u, {"rumor", "store"}) => Stage(s, u, {"rumor", "store"})'
    BY <1>4 DEF Stage, Engaged
  <2>4. \A i \in Range(log[h]) : Opens(i, u) /\ events[i].node = h =>
           i \in Range(log'[h]) /\ Opens(i, u)' /\ events'[i].node = h
    BY KnownEvents, SameKinds DEF Aside
  <2>5. SessionLogged(s, u)'
    BY <1>1, <2>1, <2>2, <2>3, <2>4 DEF SessionLogged
  <2>6. \A i \in Range(log'[h]) : Moves(i, u)' =>
           i \in Range(log[h]) /\ Moves(i, u) /\ events'[i].node = events[i].node
    BY KnownEvents, SameKinds DEF Aside, Opens
  <2>7. SessionMoved(s, u)'
    BY <1>1, <2>1, <2>2, <2>3, <2>6 DEF SessionMoved
  <2>8. SessionRow(s, u)'
    BY <1>1, <2>1, <2>2, <2>3 DEF SessionRow, Aside
  <2> QED BY <2>5, <2>7, <2>8
<1>9. SessionLogged(s, u)' /\ SessionMoved(s, u)' /\ SessionRow(s, u)'
  BY <1>8 DEF SessionLogged, SessionMoved, SessionRow
<1> QED BY <1>6, <1>7, <1>9 DEF SocketOk

\* And table by table.
LEMMA AsideTables ==
    ASSUME TInv, TInv', NEW u \in User, Aside(u), Recording(u), NEW n \in Node
    PROVE  TableOk(n, u)'
<1>1. Written(n, u) /\ OwnRow(n, u) /\ MoveWins(n, u) /\ StillRight(n, u)
  BY DEF Recording, TableOk
<1>2. /\ row'[n][u] = row[n][u] /\ up'[n] = up[n] /\ Range(log[n]) \subseteq Range(log'[n])
      /\ \A i \in Range(log'[n]) : Opens(i, u)' => i \in Range(log[n])
      /\ EventsGrow
  BY DEF Aside
<1>3. /\ \A i \in Range(log[n]) : /\ events'[i] = events[i]
                                  /\ Opens(i, u)' <=> Opens(i, u)
                                  /\ Moves(i, u)' <=> Moves(i, u)
  BY <1>2, KnownEvents, SameKinds
<1>4. \A m \in Node : Pending(n, m, u)' =>
         /\ Pending(n, m, u) /\ applying'[n][m] = applying[n][m]
         /\ events'[applying[n][m]] = events[applying[n][m]]
  <2>1. SUFFICES ASSUME NEW m \in Node, Pending(n, m, u)'
                 PROVE  /\ Pending(n, m, u) /\ applying'[n][m] = applying[n][m]
                        /\ events'[applying[n][m]] = events[applying[n][m]]
    OBVIOUS
  <2>2. applying'[n][m] = applying[n][m] /\ applying[n][m] # 0
    BY <2>1 DEF Aside, Pending
  <2>3. events'[applying[n][m]] = events[applying[n][m]]
    BY <1>2, <2>2, KnownEvents, SameKinds
  <2> QED BY <2>1, <2>2, <2>3 DEF Pending
<1>5. Moving(u, n) => Moving(u, n)'
  <2>1. ASSUME NEW s \in Sock, host[s] = n, thread[s] = At("moved", u, 0)
        PROVE  host'[s] = n /\ thread'[s] = At("moved", u, 0)
    <3>1. Engaged(s, u)
      BY <2>1 DEF Engaged, Stage, At
    <3> QED BY <2>1, <3>1 DEF Aside, HostKept
  <2> QED BY <2>1 DEF Moving
<1>6. Written(n, u)'
  <2>1. SUFFICES ASSUME NEW i \in Range(log'[n]), Opens(i, u)'
                 PROVE  \/ row'[n][u] # NoNode
                        \/ \E m \in Node : applying'[n][m] = i
                        \/ \E s \in Sock : host'[s] = n /\ thread'[s].pc = "store" /\ thread'[s].ev = i
    BY DEF Written
  <2>2. i \in Range(log[n]) /\ Opens(i, u) /\ i # 0
    BY <1>2, <1>3, <2>1, KnownEvents
  <2>3. ASSUME NEW m \in Node, applying[n][m] = i PROVE applying'[n][m] = i
    BY <2>2, <2>3 DEF Aside, Pending, Opens, Enters, Moves
  <2>4. ASSUME NEW s \in Sock, host[s] = n, thread[s].pc = "store", thread[s].ev = i
        PROVE  host'[s] = n /\ thread'[s] = thread[s]
    <3>1. thread[s].user = u
      BY <2>2, <2>4, Types DEF Threads, ThreadOk, Opens, Enters, Moves
    <3> QED BY <2>4, <3>1 DEF Aside, HostKept, Engaged, Stage
  <2> QED BY <1>1, <1>2, <2>2, <2>3, <2>4 DEF Written
<1>7. OwnRow(n, u)'
  BY <1>1, <1>2, <1>3, <1>5 DEF OwnRow
<1>8. MoveWins(n, u)'
  <2>1. \A i \in Range(log'[n]) : Moves(i, u)' => i \in Range(log[n]) /\ Moves(i, u)
    BY <1>2, <1>3 DEF Opens
  <2> QED BY <1>1, <1>2, <1>3, <1>4, <1>5, <2>1 DEF MoveWins
<1>9. StillRight(n, u)'
  BY <1>1, <1>2, <1>4 DEF StillRight
<1> QED BY <1>6, <1>7, <1>8, <1>9 DEF TableOk

\* Steps that have nothing to do with u keep what is recorded of u.
LEMMA AsideKeeps ==
    ASSUME TInv, TInv', NEW u \in User, Aside(u), Recording(u)
    PROVE  Recording(u)'
<1>1. OneWorker(u)'
  BY DEF Recording, OneWorker, Aside
<1>2. OneLogin(u)'
  <2>1. \A i \in 1..Len(events') : Alive(i)' /\ Enters(i, u)' =>
           i \in 1..Len(events) /\ Alive(i) /\ Enters(i, u)
    BY SameKinds DEF Aside, Opens
  <2> QED BY <2>1 DEF Recording, OneLogin
<1>3. (\A s \in Sock : SocketOk(s, u)') /\ (\A n \in Node : TableOk(n, u)')
  BY AsideSockets, AsideTables
<1> QED BY <1>1, <1>2, <1>3 DEF Recording

\* A socket that u has nothing to do with.
Apart(s, u) ==
    /\ HostKept(s) /\ (auth'[s] = u => auth[s] = u)
    /\ Works(s, u)' => Works(s, u)
    /\ thread'[s] = thread[s] \/ (~Engaged(s, u) /\ ~Engaged(s, u)')

\* Steps that neither rumor nor accept an event.
LEMMA AsideQuietly ==
    ASSUME TInv, NEW u \in User, UNCHANGED <<up, events, log, applying>>,
           \A n \in Node : row'[n][u] = row[n][u],
           \A n, m \in Node : \A i \in Range(wire'[n][m]) : Alive(i),
           \A s \in Sock : Apart(s, u)
    PROVE  Aside(u)
<1>1. EventsGrow
  BY SameEvents
<1>2. \A i : Alive(i)' => Alive(i)
  BY DEF Alive
<1>3. \A n, m \in Node : Pending(n, m, u)' <=> Pending(n, m, u)
  BY DEF Pending
<1> QED BY <1>1, <1>2, <1>3 DEF Aside, Apart

\* One handler goes from one stage to another, neither of them for u.
LEMMA OneApart ==
    ASSUME TInv, NEW u \in User, NEW s \in Sock, UNCHANGED host,
           ~Engaged(s, u), ~Engaged(s, u)', Works(s, u)' => Works(s, u),
           auth'[s] = u => auth[s] = u,
           \A r \in Sock : r # s => thread'[r] = thread[r] /\ auth'[r] = auth[r]
    PROVE  \A r \in Sock : Apart(r, u)
<1>1. \A r \in Sock : HostKept(r)
  BY DEF HostKept
<1>2. \A r \in Sock : r # s => (Works(r, u)' <=> Works(r, u))
  BY DEF Works
<1> QED BY <1>1, <1>2 DEF Apart

\* A handler that works for somebody else, or leaves.
LEMMA StageApart ==
    ASSUME NEW u \in User, NEW s \in Sock, thread'[s].user # u \/ thread'[s].pc = "bye"
    PROVE  ~Engaged(s, u)' /\ ~Works(s, u)'
BY DEF Engaged, Stage, Works

\* Requests of other users, and clients that come and go.
LEMMA RequestAside ==
    ASSUME TInv, NEW u \in User, NEW c \in Client,
           \/ \E v \in User \ {u} : Login(c, v)
           \/ Reconnect(c) /\ me[c] # u
           \/ Logout(c) \/ GiveUp(c) \/ LoseLink(c) \/ \E n \in Node : Connect(c, n)
    PROVE  Aside(u)
<1>0. \A n, m \in Node : \A i \in Range(wire[n][m]) : Alive(i)
  BY DEF Alive
<1>1. u # NoUser
  BY NullAssumption
<1>2. CASE (\E v \in User \ {u} : Login(c, v)) \/ (Reconnect(c) /\ me[c] # u)
  <2>1. PICK s \in Sock : s = sock[c] /\ thread[s] = Idle
    BY <1>2, ReadySock DEF Login, Reconnect
  <2>2. PICK v, pc : /\ v # u /\ thread' = [thread EXCEPT ![s] = At(pc, v, 0)]
                     /\ UNCHANGED <<up, events, log, applying, row, wire, host, auth>>
    BY <1>2, <2>1 DEF Login, Reconnect, netVars, dbVars
  <2>3. thread'[s].user # u /\ \A r \in Sock : r # s => thread'[r] = thread[r]
    BY <2>2, Types DEF At
  <2>4. ~Engaged(s, u)
    BY <2>1, Stages DEF Engaged, Stage
  <2>5. \A r \in Sock : Apart(r, u)
    BY <2>2, <2>3, <2>4, StageApart, OneApart
  <2> QED BY <1>0, <2>2, <2>5, AsideQuietly
<1>3. CASE Logout(c)
  <2>1. PICK s \in Sock : s = sock[c] /\ thread[s] = Idle
    BY <1>3, ReadySock DEF Logout
  <2> DEFINE t == IF auth[s] = NoUser THEN Idle ELSE At("bye", auth[s], 0)
  <2>2. /\ thread' = [thread EXCEPT ![s] = t] /\ auth' = [auth EXCEPT ![s] = NoUser]
        /\ UNCHANGED <<up, events, log, applying, row, wire, host>>
    BY <1>3, <2>1 DEF Logout, netVars, dbVars
  <2>3. t.user # u \/ t.pc = "bye"
    BY <1>1, Stages DEF At
  <2> HIDE DEF t
  <2>4. /\ thread'[s] = t /\ auth'[s] = NoUser
        /\ \A r \in Sock : r # s => thread'[r] = thread[r] /\ auth'[r] = auth[r]
    BY <2>2, Types
  <2>5. ~Engaged(s, u)
    BY <2>1, Stages DEF Engaged, Stage
  <2>6. \A r \in Sock : Apart(r, u)
    BY <1>1, <2>2, <2>3, <2>4, <2>5, StageApart, OneApart
  <2> QED BY <1>0, <2>2, <2>6, AsideQuietly
<1>4. CASE GiveUp(c) \/ LoseLink(c)
  <2>1. UNCHANGED <<up, events, log, applying, row, wire, host, auth, thread>>
    BY <1>4 DEF GiveUp, LoseLink, netVars, dbVars, sessionVars
  <2>2. \A r \in Sock : Apart(r, u)
    BY <2>1 DEF Apart, HostKept, Works
  <2> QED BY <1>0, <2>1, <2>2, AsideQuietly
<1>5. ASSUME NEW n \in Node, Connect(c, n) PROVE Aside(u)
  <2>1. PICK s \in Sock : host[s] = NoNode /\ host' = [host EXCEPT ![s] = n]
    BY <1>5 DEF Connect
  <2>2. UNCHANGED <<up, events, log, applying, row, wire, auth, thread>>
    BY <1>5 DEF Connect, netVars, dbVars
  <2>3. \A r \in Sock : Apart(r, u)
    BY <2>1, <2>2, Types, NullAssumption DEF Apart, HostKept, Works
  <2> QED BY <1>0, <2>2, <2>3, AsideQuietly
<1> QED BY <1>2, <1>3, <1>4, <1>5

\* A push sends the handler's event, if anything.
LEMMA PushedWires ==
    ASSUME TInv, NEW s \in Sock, Push(s), NEW k \in Node, NEW m \in Node
    PROVE  Range(wire'[k][m]) \subseteq Range(wire[k][m]) \cup {thread[s].ev}
<1> DEFINE n == host[s]
           i == thread[s].ev
<1>1. wire' = [wire EXCEPT ![n] = [l \in Node |->
                  IF Connected(n, l) THEN Append(wire[n][l], i) ELSE wire[n][l]]]
  BY DEF Push
<1>2. n \in Node /\ i \in Nat /\ wire[k][m] \in Seq(Nat)
  <2>1. thread[s].pc = "push" /\ ThreadOk(s)
    BY Types DEF Push, Threads
  <2>2. n \in Node /\ i \in 1..Len(events)
    BY <2>1 DEF ThreadOk
  <2>3. wire[k][m] \in Seq(Nat) /\ thread[s].ev \in Nat
    BY Types DEF ThreadType
  <2> QED BY <2>2, <2>3
<1> HIDE DEF n, i
<1>3. Range(Append(wire[k][m], i)) = Range(wire[k][m]) \cup {i}
  BY <1>2, RangeAppend
<1>4. CASE k # n
  <2>1. wire'[k] = wire[k]
    BY <1>1, <1>4, Types
  <2> QED BY <2>1
<1>5. CASE k = n
  <2>1. wire'[n] = [l \in Node |-> IF Connected(n, l) THEN Append(wire[n][l], i) ELSE wire[n][l]]
    BY <1>1, <1>2, Types
  <2>2. wire'[n][m] = Append(wire[n][m], i) \/ wire'[n][m] = wire[n][m]
    BY <2>1
  <2> QED BY <1>3, <1>5, <2>2 DEF i
<1> QED BY <1>4, <1>5

\* Handlers of other users, the end of a session, a push.
LEMMA HandlerAside ==
    ASSUME TInv, Steady, NEW u \in User, NEW s \in Sock,
           \/ thread[s].user # u /\ (SetSession(s) \/ StoreLogin(s) \/ Claim(s))
           \/ RemoveSession(s) \/ Push(s)
    PROVE  Aside(u)
<1>0. \A n, m \in Node : \A i \in Range(wire[n][m]) : Alive(i)
  BY DEF Alive
<1>1. u # NoUser
  BY NullAssumption
<1>2. CASE thread[s].user # u /\ (SetSession(s) \/ StoreLogin(s) \/ Claim(s))
  <2>1. PICK pc \in {"rumor", "push", "moved"} : thread' = [thread EXCEPT ![s].pc = pc]
    BY <1>2 DEF SetSession, StoreLogin, Claim
  <2>2. /\ thread'[s].user = thread[s].user
        /\ \A r \in Sock : r # s => thread'[r] = thread[r]
    <3>1. pc \in PC
      BY DEF PC
    <3> QED BY <2>1, <3>1, NextStage, Types
  <2>3. /\ UNCHANGED <<up, events, log, applying, wire, host>>
        /\ auth' = auth \/ auth' = [auth EXCEPT ![s] = thread[s].user]
        /\ row' = row \/ \E x : row' = [row EXCEPT ![host[s]][thread[s].user] = x]
    BY <1>2 DEF SetSession, StoreLogin, Claim, SetOnline, netVars, dbVars
  <2>4. host[s] \in Node /\ thread[s].user \in User
    BY <1>2, Types DEF Threads, ThreadOk, SetSession, StoreLogin, Claim
  <2>5. \A n \in Node : row'[n][u] = row[n][u]
    <3>1. CASE row' = row
      BY <3>1
    <3>2. ASSUME NEW x, row' = [row EXCEPT ![host[s]][thread[s].user] = x]
          PROVE  \A n \in Node : row'[n][u] = row[n][u]
      BY <1>2, <2>4, <3>2, Types
    <3> QED BY <2>3, <3>1, <3>2
  <2>6. /\ auth'[s] = u => auth[s] = u
        /\ \A r \in Sock : r # s => auth'[r] = auth[r]
    BY <1>2, <2>3, Types
  <2>7. ~Engaged(s, u)
    BY <1>2 DEF Engaged, Stage
  <2>8. \A r \in Sock : Apart(r, u)
    BY <1>2, <2>2, <2>3, <2>6, <2>7, StageApart, OneApart
  <2> QED BY <1>0, <2>3, <2>5, <2>8, AsideQuietly
<1>3. CASE RemoveSession(s)
  <2> DEFINE t == IF auth[s] = NoUser THEN Idle ELSE At("bye", auth[s], 0)
  <2>2. /\ thread[s] = Idle /\ thread' = [thread EXCEPT ![s] = t]
        /\ auth' = [auth EXCEPT ![s] = NoUser]
        /\ UNCHANGED <<up, events, log, applying, row, wire, host>>
    BY <1>3 DEF RemoveSession, netVars, dbVars
  <2>3. t.user # u \/ t.pc = "bye"
    BY <1>1, Stages DEF At
  <2> HIDE DEF t
  <2>4. /\ thread'[s] = t /\ auth'[s] = NoUser
        /\ \A r \in Sock : r # s => thread'[r] = thread[r] /\ auth'[r] = auth[r]
    BY <2>2, Types
  <2>5. ~Engaged(s, u)
    BY <2>2, Stages DEF Engaged, Stage
  <2>6. \A r \in Sock : Apart(r, u)
    BY <1>1, <2>2, <2>3, <2>4, <2>5, StageApart, OneApart
  <2> QED BY <1>0, <2>2, <2>6, AsideQuietly
<1>4. CASE Push(s)
  <2>1. thread[s].pc = "push" /\ thread[s].ev \in 1..Len(events) /\ host[s] \in Node
    BY <1>4, Types DEF Push, Threads, ThreadOk
  <2>2. events[thread[s].ev].kind # "USER_CREATED" /\ thread[s].ev \in Range(log[host[s]])
    BY <2>1 DEF Steady, Enrolled, Logged
  <2>3. /\ thread' = [thread EXCEPT ![s] = Idle]
        /\ UNCHANGED <<up, events, log, applying, row, host, auth>>
    BY <1>4, <2>2 DEF Push, dbVars
  <2>4. thread'[s] = Idle /\ \A r \in Sock : r # s => thread'[r] = thread[r]
    BY <2>3, Types
  <2>5. thread'[s].user # u
    BY <1>1, <2>4, Stages
  <2>6. ~Engaged(s, u)
    BY <2>1 DEF Engaged, Stage
  <2>7. \A r \in Sock : Apart(r, u)
    BY <2>3, <2>4, <2>5, <2>6, StageApart, OneApart
  <2>8. ASSUME NEW n \in Node, NEW m \in Node, NEW i \in Range(wire'[n][m]) PROVE Alive(i)
    <3>4. i \in Range(wire[n][m]) \/ i = thread[s].ev
      BY <1>4, <2>8, PushedWires
    <3> QED BY <2>1, <2>2, <3>4 DEF Alive
  <2> QED BY <2>3, <2>7, <2>8, AsideQuietly
<1> QED BY <1>2, <1>3, <1>4

\* rumor() for another user.
LEMMA RumorAside ==
    ASSUME TInv, NEW u \in User, NEW s \in Sock, NEW kind \in {"LOGIN", "LOGOUT", "RECONNECT"},
           thread[s].pc # "idle", thread[s].user # u, Rumor(s, kind, thread[s].user),
           UNCHANGED <<up, wire, applying, sessions, host>>
    PROVE  Aside(u)
<1>1. host[s] \in Node /\ thread[s].user \in User
  BY Types DEF Threads, ThreadOk
<1>2. PICK e \in EventOf, i \in Nat, pc \in {"store", "push"} :
         Rumors(s, kind, thread[s].user, e, i, pc)
  BY <1>1, RumorFacts
<1>3. /\ e.user = thread[s].user /\ i = Len(events) + 1 /\ Len(events') = i /\ events'[i] = e
      /\ EventsGrow /\ ApplyEvent(host[s], e)
      /\ thread'[s] = At(pc, thread[s].user, i)
      /\ \A r \in Sock : r # s => thread'[r] = thread[r]
      /\ Range(log'[host[s]]) = Range(log[host[s]]) \cup {i}
      /\ \A n \in Node : n # host[s] => log'[n] = log[n]
  BY <1>2 DEF Rumors
<1>4. i \notin 1..Len(events) /\ \A k \in 1..Len(events') : k \in 1..Len(events) \/ k = i
  BY <1>3, Types
<1>5. ~Opens(i, u)'
  BY <1>3 DEF Opens, Enters, Moves
<1>6. \A n \in Node : row'[n][u] = row[n][u]
  BY <1>1, <1>3, Applied
<1>7. \A r \in Sock : auth'[r] = auth[r] \/ auth'[r] = NoUser
  BY <1>1, <1>3, Applied
<1>8. \A n, m \in Node : Pending(n, m, u)' <=> Pending(n, m, u)
  BY <1>3, KnownEvents, SameKinds DEF Pending
<1>9. \A k \in 1..Len(events) : Alive(k)' => Alive(k)
  <2>1. \A n \in Node, k \in 1..Len(events) : k \in Range(log'[n]) => k \in Range(log[n])
    BY <1>3, <1>4
  <2> QED BY <2>1 DEF Alive
<1>10. \A r \in Sock : Apart(r, u)
  <2>1. thread'[s].user = thread[s].user
    BY <1>3 DEF At
  <2>2. \A r \in Sock : auth'[r] = u => auth[r] = u
    BY <1>7, NullAssumption
  <2>3. ~Engaged(s, u) /\ ~Engaged(s, u)' /\ ~Works(s, u)'
    BY <2>1 DEF Engaged, Stage, Works
  <2>4. \A r \in Sock : r # s => (Works(r, u)' <=> Works(r, u))
    BY <1>3 DEF Works
  <2> QED BY <1>3, <2>2, <2>3, <2>4 DEF Apart, HostKept
<1>11. \A n \in Node :
          /\ Range(log[n]) \subseteq Range(log'[n])
          /\ \A k \in Range(log'[n]) : Opens(k, u)' => k \in Range(log[n])
  <2>1. ASSUME NEW n \in Node PROVE /\ Range(log[n]) \subseteq Range(log'[n])
                                    /\ \A k \in Range(log'[n]) : k \in Range(log[n]) \/ k = i
    BY <1>3
  <2> QED BY <1>5, <2>1
<1>12. \A k \in 1..Len(events') : Opens(k, u)' => k \in 1..Len(events)
  BY <1>4, <1>5
<1> QED BY <1>3, <1>6, <1>8, <1>9, <1>10, <1>11, <1>12 DEF Aside, Apart

\* What Deliver does: nothing, or node n accepts event i and stores it (now, or in
\* the next step when it is a LOGIN).
Accepts(n, m, i) ==
    /\ i \in 1..Len(events) /\ i \notin Range(log[n])
    /\ events[i] \in EventOf /\ ApplyEvent(n, events[i])
    /\ Range(log'[n]) = Range(log[n]) \cup {i}
    /\ \A k \in Node : k # n => log'[k] = log[k]
    /\ applying'[n][m] = i \/ applying'[n][m] = 0
    /\ applying'[n][m] = i <=> events[i].kind = "LOGIN" /\ StoresLogin(n, events[i])
    /\ \A k, l \in Node : k # n \/ l # m => applying'[k][l] = applying[k][l]

\* Deliver, point by point.
LEMMA DeliverFacts ==
    ASSUME TInv, NEW n \in Node, NEW m \in Node, Deliver(n, m)
    PROVE  /\ up[n] /\ m \in live[n] /\ applying[n][m] = 0
           /\ UNCHANGED <<up, live, events, sessions, host, thread>>
           /\ \A k, l \in Node : Range(wire'[k][l]) \subseteq Range(wire[k][l])
           /\ \/ UNCHANGED <<log, applying, row, auth>>
              \/ \E i \in Range(wire[m][n]) : Accepts(n, m, i)
<1> DEFINE i == Head(wire[m][n])
           x == IF events[i].kind = "LOGIN" /\ StoresLogin(n, events[i]) THEN i ELSE 0
<1>1. /\ up[n] /\ m \in live[n] /\ wire[m][n] # <<>> /\ applying[n][m] = 0
      /\ UNCHANGED <<up, live, events, sessions, host, thread>>
      /\ wire' = [wire EXCEPT ![m][n] = Tail(@)]
      /\ \/ UNCHANGED <<log, applying, row, auth>>
         \/ /\ i \notin Range(log[n]) /\ log' = [log EXCEPT ![n] = Append(log[n], i)]
            /\ applying' = [applying EXCEPT ![n][m] = x] /\ ApplyEvent(n, events[i])
  BY DEF Deliver
<1>2. wire[m][n] \in Seq(Nat)
  BY Types
<1>3. i \in Range(wire[m][n]) /\ Range(Tail(wire[m][n])) \subseteq Range(wire[m][n])
  BY <1>1, <1>2, RangeTail
<1>4. \A k, l \in Node : wire'[k][l] = wire[k][l] \/ (k = m /\ l = n /\ wire'[k][l] = Tail(wire[m][n]))
  BY <1>1, Types
<1>5. \A k, l \in Node : Range(wire'[k][l]) \subseteq Range(wire[k][l])
  BY <1>3, <1>4
<1>6. /\ x = i \/ x = 0
      /\ x = i => (events[i].kind = "LOGIN" /\ StoresLogin(n, events[i])) \/ i = 0
      /\ events[i].kind = "LOGIN" /\ StoresLogin(n, events[i]) => x = i
  OBVIOUS
<1> HIDE DEF i, x
<1>7. i \in 1..Len(events) /\ events[i] \in EventOf /\ i \in Nat /\ i # 0
  <2>1. i \in 1..Len(events) /\ i # 0
    BY <1>3, KnownEvents
  <2> QED BY <2>1, Types
<1>8. CASE /\ i \notin Range(log[n]) /\ log' = [log EXCEPT ![n] = Append(log[n], i)]
           /\ applying' = [applying EXCEPT ![n][m] = x] /\ ApplyEvent(n, events[i])
  <2>1. log[n] \in Seq(Nat)
    BY Types
  <2>2. Range(Append(log[n], i)) = Range(log[n]) \cup {i}
    BY <1>7, <2>1, RangeAppend
  <2>3. /\ Range(log'[n]) = Range(log[n]) \cup {i}
        /\ \A k \in Node : k # n => log'[k] = log[k]
    BY <1>8, <2>2, Types
  <2>4. /\ applying'[n][m] = x
        /\ \A k, l \in Node : k # n \/ l # m => applying'[k][l] = applying[k][l]
    BY <1>8, Types
  <2>5. Accepts(n, m, i)
    BY <1>6, <1>7, <1>8, <2>3, <2>4 DEF Accepts
  <2> QED BY <1>1, <1>3, <1>5, <2>5
<1> QED BY <1>1, <1>5, <1>8

\* Steps between nodes that are about another user.
LEMMA PeerAside ==
    ASSUME TInv, Steady, NEW u \in User, MovedOnce(u), NEW n \in Node, NEW m \in Node,
           \/ Deliver(n, m) /\ \A i : Accepts(n, m, i) => ~Opens(i, u)
           \/ FinishLogin(n, m) /\ ~Pending(n, m, u)
           \/ Pull(n, m) \/ RegisterPeer(n, m) \/ RemovePeer(n, m)
    PROVE  Aside(u)
<1>0. \A k, l \in Node : \A i \in Range(wire[k][l]) : Alive(i)
  BY DEF Alive
<1>1. CASE Deliver(n, m) /\ \A i : Accepts(n, m, i) => ~Opens(i, u)
  <2>1. /\ applying[n][m] = 0
        /\ UNCHANGED <<up, events, sessions, host, thread>>
        /\ \A k, l \in Node : Range(wire'[k][l]) \subseteq Range(wire[k][l])
        /\ \/ UNCHANGED <<log, applying, row, auth>>
           \/ \E i \in Range(wire[m][n]) : Accepts(n, m, i)
    BY <1>1, DeliverFacts
  <2>2. CASE UNCHANGED <<log, applying, row, auth>>
    <3>1. \A r \in Sock : Apart(r, u)
      BY <2>1, <2>2 DEF Apart, HostKept, Works
    <3> QED BY <1>0, <2>1, <2>2, <3>1, AsideQuietly
  <2>3. ASSUME NEW i \in Range(wire[m][n]), Accepts(n, m, i) PROVE Aside(u)
    <3>1. /\ i \in 1..Len(events) /\ events[i] \in EventOf /\ ApplyEvent(n, events[i])
          /\ Range(log'[n]) = Range(log[n]) \cup {i}
          /\ \A k \in Node : k # n => log'[k] = log[k]
          /\ applying'[n][m] = i \/ applying'[n][m] = 0
          /\ applying'[n][m] = i <=> events[i].kind = "LOGIN" /\ StoresLogin(n, events[i])
          /\ \A k, l \in Node : k # n \/ l # m => applying'[k][l] = applying[k][l]
      BY <2>3 DEF Accepts
    <3>2. ~Opens(i, u)
      BY <1>1, <2>3
    <3>3. events[i].user # u
      <4>1. events[i].user = u => events[i].kind \notin {"LOGOUT", "USER_CREATED"}
        BY <3>1 DEF MovedOnce, Steady, Enrolled
      <4> QED BY <3>1, <3>2, <4>1, EventFields DEF Opens, Enters, Moves
    <3>4. \A k \in Node : row'[k][u] = row[k][u]
      BY <3>1, <3>3, Applied
    <3>5. \A r \in Sock : auth'[r] = u => auth[r] = u
      BY <3>1, Applied, NullAssumption
    <3>6. EventsGrow
      BY <2>1, SameEvents
    <3>7. \A k : Alive(k)' => Alive(k)
      <4>1. Alive(i)
        BY <2>3 DEF Alive
      <4>2. \A a \in Node : \A k \in Range(log'[a]) : k \in Range(log[a]) \/ k = i
        BY <3>1
      <4>3. \A k : \A a \in Node : k \in Range(log'[a]) => Alive(k)
        BY <4>1, <4>2 DEF Alive
      <4>4. \A k : \A a, b \in Node : k \in Range(wire'[a][b]) => Alive(k)
        BY <2>1 DEF Alive
      <4> QED BY <4>3, <4>4 DEF Alive
    <3>8. \A a, b \in Node : Pending(a, b, u) \/ Pending(a, b, u)' => applying'[a][b] = applying[a][b]
      BY <2>1, <3>1, <3>3 DEF Pending
    <3>9. \A a \in Node : /\ Range(log[a]) \subseteq Range(log'[a])
                          /\ \A k \in Range(log'[a]) : Opens(k, u)' => k \in Range(log[a])
      <4>1. ~Opens(i, u)'
        BY <2>1, <3>2 DEF Opens, Enters, Moves
      <4> QED BY <3>1, <4>1
    <3>10. \A r \in Sock : Apart(r, u)
      BY <2>1, <3>5 DEF Apart, HostKept, Works
    <3> QED BY <2>1, <3>4, <3>6, <3>7, <3>8, <3>9, <3>10 DEF Aside, Apart
  <2> QED BY <2>1, <2>2, <2>3
<1>2. CASE FinishLogin(n, m) /\ ~Pending(n, m, u)
  <2> DEFINE i == applying[n][m]
  <2>1. /\ i # 0 /\ row' = [row EXCEPT ![n][events[i].user] = events[i].node]
        /\ applying' = [applying EXCEPT ![n][m] = 0]
        /\ UNCHANGED <<up, wire, events, log, host, auth, thread>>
    BY <1>2 DEF FinishLogin, SetOnline, sessionVars
  <2>2. i \in 1..Len(events) /\ events[i].user # u
    BY <1>2, <2>1, KnownEvents DEF Pending
  <2>3. events[i].user \in User
    BY <2>2, EventFields
  <2> HIDE DEF i
  <2>4. \A k \in Node : row'[k][u] = row[k][u]
    BY <2>1, <2>2, <2>3, Types
  <2>5. /\ applying'[n][m] = 0
        /\ \A k, l \in Node : k # n \/ l # m => applying'[k][l] = applying[k][l]
    BY <2>1, Types
  <2>6. \A a, b \in Node : Pending(a, b, u) \/ Pending(a, b, u)' => applying'[a][b] = applying[a][b]
    BY <1>2, <2>1, <2>5 DEF Pending
  <2>7. EventsGrow /\ \A k : Alive(k)' <=> Alive(k)
    BY <2>1, SameEvents DEF Alive
  <2>8. \A r \in Sock : Apart(r, u)
    BY <2>1 DEF Apart, HostKept, Works
  <2> QED BY <2>1, <2>4, <2>6, <2>7, <2>8 DEF Aside, Apart
<1>3. CASE Pull(n, m)
  <2>1. PICK k \in 1..Len(log[m]) : wire' = [wire EXCEPT ![m][n] = Append(@, log[m][k])]
    BY <1>3 DEF Pull
  <2>2. UNCHANGED <<up, events, log, applying, row, host, auth, thread>>
    BY <1>3 DEF Pull, dbVars, sessionVars
  <2>3. log[m] \in Seq(Nat) /\ wire[m][n] \in Seq(Nat)
    BY Types
  <2>4. PICK i \in Nat : i = log[m][k] /\ i \in Range(log[m])
    BY <2>3, RangeTyped
  <2>5. Range(Append(wire[m][n], i)) = Range(wire[m][n]) \cup {i}
    BY <2>3, <2>4, RangeAppend
  <2>6. \A a, b \in Node :
           wire'[a][b] = wire[a][b] \/ (a = m /\ b = n /\ wire'[a][b] = Append(wire[m][n], i))
    BY <2>1, <2>4, Types
  <2>7. \A a, b \in Node : \A j \in Range(wire'[a][b]) : Alive(j)
    <3>1. Alive(i)
      BY <2>4 DEF Alive
    <3>2. \A a, b \in Node : Range(wire'[a][b]) \subseteq Range(wire[a][b]) \cup {i}
      BY <2>5, <2>6
    <3> QED BY <1>0, <3>1, <3>2
  <2>8. \A r \in Sock : Apart(r, u)
    BY <2>2 DEF Apart, HostKept, Works
  <2> QED BY <2>2, <2>7, <2>8, AsideQuietly
<1>4. CASE RegisterPeer(n, m) \/ RemovePeer(n, m)
  <2>1. /\ UNCHANGED <<up, events, log, applying, row, host, auth, thread>>
        /\ wire' = wire \/ wire' = [wire EXCEPT ![n][m] = <<>>, ![m][n] = <<>>]
    BY <1>4 DEF RegisterPeer, RemovePeer, dbVars, sessionVars
  <2>2. \A a, b \in Node : wire'[a][b] = wire[a][b] \/ wire'[a][b] = <<>>
    <3>1. CASE wire' = [wire EXCEPT ![n][m] = <<>>, ![m][n] = <<>>]
      <4> DEFINE w == [wire EXCEPT ![n][m] = <<>>]
      <4>1. /\ w \in [Node -> [Node -> Seq(Nat)]]
            /\ \A a, b \in Node : w[a][b] = wire[a][b] \/ w[a][b] = <<>>
        BY Types
      <4>2. wire' = [w EXCEPT ![m][n] = <<>>]
        BY <3>1
      <4> HIDE DEF w
      <4> QED BY <4>1, <4>2
    <3> QED BY <2>1, <3>1
  <2>3. Range(<<>>) = {}
    BY DEF Range
  <2>4. \A a, b \in Node : \A j \in Range(wire'[a][b]) : Alive(j)
    BY <1>0, <2>2, <2>3
  <2>5. \A r \in Sock : Apart(r, u)
    BY <2>1 DEF Apart, HostKept, Works
  <2> QED BY <2>1, <2>4, <2>5, AsideQuietly
<1> QED BY <1>1, <1>2, <1>3, <1>4

\* A handler moves on within what only its own socket shows.
LEMMA StageKeeps ==
    ASSUME TInv, NEW u \in User, Recording(u), NEW s \in Sock,
           UNCHANGED <<up, events, log, wire, applying, row, host>>,
           thread[s].pc \notin {"store", "moved"},
           \A r \in Sock : r # s => thread'[r] = thread[r] /\ auth'[r] = auth[r],
           OneWorker(u)', SocketOk(s, u)'
    PROVE  Recording(u)'
<1>1. /\ \A i : Alive(i)' <=> Alive(i)
      /\ \A i : (Enters(i, u)' <=> Enters(i, u)) /\ (Moves(i, u)' <=> Moves(i, u))
                /\ (Opens(i, u)' <=> Opens(i, u))
      /\ \A n, m \in Node : Pending(n, m, u)' <=> Pending(n, m, u)
  BY DEF Alive, Opens, Enters, Moves, Pending
<1>2. OneLogin(u)'
  BY <1>1 DEF Recording, OneLogin
<1>3. ASSUME NEW r \in Sock, r # s PROVE SocketOk(r, u)'
  <2>1. /\ thread'[r] = thread[r] /\ auth'[r] = auth[r] /\ SocketOk(r, u)
        /\ \A P : Stage(r, u, P)' <=> Stage(r, u, P)
    BY <1>3 DEF Recording, Stage
  <2>2. host[r] \in Node \/ (~Stage(r, u, {"set", "rumor", "store"}) /\ ~Stage(r, u, {"claim", "moved"}))
    BY KnownEvents DEF Stage
  <2>3. LoggingIn(r, u)' /\ Claiming(r, u)'
    BY <1>1, <2>1, <2>2 DEF SocketOk, LoggingIn, Claiming
  <2>4. SessionLogged(r, u)' /\ SessionMoved(r, u)' /\ SessionRow(r, u)'
    BY <1>1, <2>1 DEF SocketOk, SessionLogged, SessionMoved, SessionRow
  <2> QED BY <2>3, <2>4 DEF SocketOk
<1>4. ASSUME NEW n \in Node PROVE TableOk(n, u)'
  <2>1. Moving(u, n) => Moving(u, n)'
    <3>1. ASSUME NEW r \in Sock, thread[r] = At("moved", u, 0) PROVE r # s
      BY <3>1 DEF At
    <3> QED BY <3>1 DEF Moving
  <2>2. TableOk(n, u)
    BY DEF Recording
  <2>3. Written(n, u)'
    BY <1>1, <2>2 DEF TableOk, Written
  <2>4. OwnRow(n, u)' /\ MoveWins(n, u)' /\ StillRight(n, u)'
    BY <1>1, <2>1, <2>2 DEF TableOk, OwnRow, MoveWins, StillRight
  <2> QED BY <2>3, <2>4 DEF TableOk
<1> QED BY <1>2, <1>3, <1>4 DEF Recording

\* Once the events of u have settled, a running node has heard them all and nobody
\* works for u.
LEMMA SettledHeard ==
    ASSUME TInv, Steady, NEW u \in User, Settled(u), NEW h \in Node, up[h]
    PROVE  /\ \A i \in 1..Len(events) : Alive(i) /\ Opens(i, u) => i \in Range(log[h])
           /\ \A n, m \in Node : ~Pending(n, m, u)
           /\ \A s \in Sock : thread[s].user # u
<1>1. \A n, m \in Node : ~Pending(n, m, u)
  BY DEF Settled, Pending
<1>2. \A s \in Sock : thread[s].user # u
  BY DEF Settled
<1>3. ASSUME NEW i \in 1..Len(events), Alive(i), Opens(i, u) PROVE i \in Range(log[h])
  <2>1. events[i].user = u
    BY <1>3 DEF Opens, Enters, Moves
  <2>2. \A n, m \in Node : i \notin Range(wire[n][m])
    BY <2>1 DEF Settled
  <2>3. PICK n \in Node : i \in Range(log[n])
    BY <1>3, <2>2 DEF Alive
  <2>4. up[n]
    <3>1. ~up[n] => Range(log[n]) = {}
      BY DEF Steady, Offline, Range
    <3> QED BY <2>3, <3>1
  <2> QED BY <2>1, <2>3, <2>4 DEF Settled
<1> QED BY <1>1, <1>2, <1>3

\* The only handler that works for u.
LEMMA SoleWorker ==
    ASSUME NEW u \in User, NEW s \in Sock, thread'[s].user = u,
           \A r \in Sock : r # s => thread'[r] = thread[r] /\ thread[r].user # u
    PROVE  OneWorker(u)'
BY DEF OneWorker, Works

\* LOGIN: where u has no row, no LOGIN or RECONNECT is heard of any more.
LEMMA LoginRecorded ==
    ASSUME TInv, Steady, Patient, NEW c \in Client, NEW u \in User, Recording(u), Login(c, u)
    PROVE  Recording(u)'
<1>1. PICK s \in Sock : /\ s = sock[c] /\ host[s] \in Node /\ s \in sessions[host[s]]
                        /\ thread[s] = Idle
  BY ReadySock DEF Login
<1>2. /\ thread' = [thread EXCEPT ![s] = At("set", u, 0)] /\ row[host[s]][u] = NoNode
      /\ Settled(u)
      /\ UNCHANGED <<up, events, log, wire, applying, row, host, auth>>
  BY <1>1 DEF Login, MayAct, netVars, dbVars
<1>3. PICK h \in Node : h = host[s] /\ up[h]
  BY <1>1, ServedUp
<1>4. /\ \A i \in 1..Len(events) : Alive(i) /\ Opens(i, u) => i \in Range(log[h])
      /\ \A n, m \in Node : ~Pending(n, m, u)
      /\ \A r \in Sock : thread[r].user # u
  BY <1>2, <1>3, SettledHeard
<1>5. ASSUME NEW i \in Range(log[h]), Opens(i, u) PROVE FALSE
  <2>1. Written(h, u) /\ i # 0
    BY <1>5, KnownEvents DEF Recording, TableOk
  <2>2. \A m \in Node : applying[h][m] # i
    BY <1>4, <1>5, <2>1 DEF Pending, Opens, Enters, Moves
  <2>3. \A r \in Sock : ~(thread[r].pc = "store" /\ thread[r].ev = i)
    <3>1. \A r \in Sock : ThreadOk(r)
      BY DEF TInv, Threads
    <3>2. events[i].user = u
      BY <1>5 DEF Opens, Enters, Moves
    <3> QED BY <1>4, <3>1, <3>2 DEF ThreadOk
  <2> QED BY <1>2, <1>3, <1>5, <2>1, <2>2, <2>3 DEF Written
<1>6. /\ thread'[s].pc = "set" /\ thread'[s].user = u /\ thread'[s].ev = 0
      /\ \A r \in Sock : r # s => thread'[r] = thread[r]
  BY <1>2, Types DEF At
<1>7. auth[s] # u
  <2>1. SessionLogged(s, u)
    BY DEF Recording, SocketOk
  <2> QED BY <1>3, <1>4, <1>5, <2>1 DEF SessionLogged, Stage
<1>8. SocketOk(s, u)'
  <2>1. \A i : (Alive(i)' <=> Alive(i)) /\ (Opens(i, u)' <=> Opens(i, u))
    BY <1>2 DEF Alive, Opens, Enters, Moves
  <2>2. \A m \in Node : ~Pending(h, m, u)'
    BY <1>2, <1>4 DEF Pending
  <2>3. LoggingIn(s, u)'
    BY <1>2, <1>3, <1>4, <1>5, <2>1, <2>2 DEF LoggingIn
  <2>4. Claiming(s, u)'
    BY <1>6 DEF Claiming, Stage
  <2>5. SessionLogged(s, u)' /\ SessionMoved(s, u)' /\ SessionRow(s, u)'
    BY <1>2, <1>7 DEF SessionLogged, SessionMoved, SessionRow
  <2> QED BY <2>3, <2>4, <2>5 DEF SocketOk
<1>9. OneWorker(u)'
  BY <1>4, <1>6, SoleWorker
<1>10. thread[s].pc = "idle"
  BY <1>1, Stages
<1> QED BY <1>2, <1>6, <1>8, <1>9, <1>10, StageKeeps

\* RECONNECT: the node that takes the user over has heard everything.
LEMMA ReconnectRecorded ==
    ASSUME TInv, Steady, Patient, NEW c \in Client, NEW u \in User, Recording(u),
           Reconnect(c), me[c] = u
    PROVE  Recording(u)'
<1>1. PICK s \in Sock : /\ s = sock[c] /\ host[s] \in Node /\ s \in sessions[host[s]]
                        /\ thread[s] = Idle
  BY ReadySock DEF Reconnect
<1>2. /\ thread' = [thread EXCEPT ![s] = At("claim", u, 0)] /\ ~HasSession(host[s], u)
      /\ Settled(u)
      /\ UNCHANGED <<up, events, log, wire, applying, row, host, auth>>
  BY <1>1 DEF Reconnect, netVars, dbVars
<1>3. PICK h \in Node : h = host[s] /\ up[h]
  BY <1>1, ServedUp
<1>4. /\ \A i \in 1..Len(events) : Alive(i) /\ Opens(i, u) => i \in Range(log[h])
      /\ \A n, m \in Node : ~Pending(n, m, u)
      /\ \A r \in Sock : thread[r].user # u
  BY <1>2, <1>3, SettledHeard
<1>5. /\ thread'[s].pc = "claim" /\ thread'[s].user = u /\ thread'[s].ev = 0
      /\ \A r \in Sock : r # s => thread'[r] = thread[r]
  BY <1>2, Types DEF At
<1>6. auth[s] # u
  BY <1>1, <1>2 DEF HasSession
<1>7. SocketOk(s, u)'
  <2>1. \A i : (Alive(i)' <=> Alive(i)) /\ (Opens(i, u)' <=> Opens(i, u))
    BY <1>2 DEF Alive, Opens, Enters, Moves
  <2>2. \A m \in Node : ~Pending(h, m, u)'
    BY <1>2, <1>4 DEF Pending
  <2>3. Claiming(s, u)'
    BY <1>2, <1>3, <1>4, <2>1, <2>2 DEF Claiming
  <2>4. LoggingIn(s, u)'
    BY <1>5 DEF LoggingIn, Stage
  <2>5. SessionLogged(s, u)' /\ SessionMoved(s, u)' /\ SessionRow(s, u)'
    BY <1>2, <1>6 DEF SessionLogged, SessionMoved, SessionRow
  <2> QED BY <2>3, <2>4, <2>5 DEF SocketOk
<1>8. OneWorker(u)'
  BY <1>4, <1>5, SoleWorker
<1>9. thread[s].pc = "idle"
  BY <1>1, Stages
<1> QED BY <1>2, <1>5, <1>7, <1>8, <1>9, StageKeeps

\* While a handler logs u in, no other works for u, and nothing is pending for u.
LEMMA LoneLogin ==
    ASSUME TInv, Steady, NEW u \in User, Recording(u), NEW s \in Sock, Stage(s, u, {"set", "rumor"})
    PROVE  /\ \A i \in 1..Len(events) : Alive(i) => ~Opens(i, u)
           /\ \A n, m \in Node : ~Pending(n, m, u)
           /\ \A r \in Sock : r # s => ~Works(r, u) /\ ~Engaged(r, u) /\ auth[r] # u
           /\ \A n \in Node : ~Moving(u, n) /\ \A i \in Range(log[n]) : ~Opens(i, u)
<1>1. thread[s].ev = 0 /\ LoggingIn(s, u) /\ Stage(s, u, {"set", "rumor", "store"}) /\ Works(s, u)
  BY Types DEF Stage, Threads, ThreadOk, Recording, SocketOk, Works
<1>2. \A i \in 1..Len(events) : Alive(i) => ~Opens(i, u)
  <2>1. \A i \in 1..Len(events) : i # 0
    BY Types
  <2> QED BY <1>1, <2>1 DEF LoggingIn
<1>3. \A n \in Node : \A i \in Range(log[n]) : ~Opens(i, u)
  BY <1>2, KnownEvents
<1>4. \A n, m \in Node : ~Pending(n, m, u)
  BY <1>3, Types DEF Pending, Steady, Logged, Indices, Opens, Enters
<1>5. ASSUME NEW r \in Sock, r # s PROVE ~Works(r, u) /\ ~Engaged(r, u) /\ auth[r] # u
  <2>1. ~Works(r, u)
    BY <1>1, <1>5 DEF Recording, OneWorker
  <2>2. ~Engaged(r, u) /\ ~Stage(r, u, {"rumor", "moved"})
    BY <2>1 DEF Works, Engaged, Stage
  <2>3. auth[r] = u => host[r] \in Node
    BY KnownEvents, NullAssumption
  <2>4. SessionLogged(r, u)
    BY DEF Recording, SocketOk
  <2> QED BY <1>3, <2>1, <2>2, <2>3, <2>4 DEF SessionLogged
<1>6. \A n \in Node : ~Moving(u, n)
  <2>1. ASSUME NEW r \in Sock, thread[r] = At("moved", u, 0) PROVE FALSE
    <3>1. Engaged(r, u) /\ r # s
      BY <2>1 DEF Engaged, Stage, At
    <3> QED BY <1>5, <3>1
  <2> QED BY <2>1 DEF Moving
<1> QED BY <1>2, <1>3, <1>4, <1>5, <1>6

\* The session becomes the user's.
LEMMA SetSessionRecorded ==
    ASSUME TInv, Steady, NEW u \in User, Recording(u), NEW s \in Sock, SetSession(s),
           thread[s].user = u
    PROVE  Recording(u)'
<1>1. /\ thread[s].pc = "set" /\ thread' = [thread EXCEPT ![s].pc = "rumor"]
      /\ auth' = [auth EXCEPT ![s] = u]
      /\ UNCHANGED <<up, events, log, wire, applying, row, host>>
  BY DEF SetSession, netVars, dbVars
<1>2. /\ thread'[s].pc = "rumor" /\ thread'[s].user = u /\ thread'[s].ev = thread[s].ev
      /\ \A r \in Sock : r # s => thread'[r] = thread[r]
  <2>1. "rumor" \in PC
    BY DEF PC
  <2> QED BY <1>1, <2>1, NextStage, Types
<1>3. \A r \in Sock : r # s => auth'[r] = auth[r]
  BY <1>1, Types
<1>4. Stage(s, u, {"set", "rumor"}) /\ host[s] \in Node /\ Stage(s, u, {"rumor", "store"})'
      /\ Stage(s, u, {"rumor", "moved"})'
  BY <1>1, <1>2, Types DEF Stage, Threads, ThreadOk
<1>5. \A n \in Node : \A i \in Range(log[n]) : ~Opens(i, u)
  BY <1>4, LoneLogin
<1>6. OneWorker(u)'
  <2>1. \A r \in Sock : Works(r, u)' => Works(r, u)
    BY <1>1, <1>2 DEF Works
  <2> QED BY <2>1 DEF Recording, OneWorker
<1>7. SocketOk(s, u)'
  <2>1. /\ \A i : (Alive(i)' <=> Alive(i)) /\ (Opens(i, u)' <=> Opens(i, u))
        /\ \A n, m \in Node : Pending(n, m, u)' <=> Pending(n, m, u)
        /\ \A i : Moves(i, u)' <=> Moves(i, u)
    BY <1>1 DEF Alive, Opens, Enters, Moves, Pending
  <2>2. LoggingIn(s, u) /\ Stage(s, u, {"set", "rumor", "store"})
    BY <1>4 DEF Recording, SocketOk, Stage
  <2>3. LoggingIn(s, u)'
    BY <1>1, <1>2, <1>4, <2>1, <2>2 DEF LoggingIn
  <2>4. Claiming(s, u)'
    BY <1>2 DEF Claiming, Stage
  <2>5. SessionLogged(s, u)' /\ SessionRow(s, u)'
    BY <1>4 DEF SessionLogged, SessionRow
  <2>6. SessionMoved(s, u)'
    BY <1>1, <1>4, <1>5, <2>1 DEF SessionMoved, Opens
  <2> QED BY <2>3, <2>4, <2>5, <2>6 DEF SocketOk
<1> QED BY <1>1, <1>2, <1>3, <1>6, <1>7, StageKeeps

\* The LOGIN is rumored: it is the only one to hear of, and its node stores it next.
LEMMA RumorLoginRecorded ==
    ASSUME TInv, Steady, NEW u \in User, Recording(u), NEW s \in Sock, RumorLogin(s),
           thread[s].user = u
    PROVE  Recording(u)'
<1>1. /\ thread[s].pc = "rumor" /\ Rumor(s, "LOGIN", u)
      /\ UNCHANGED <<up, wire, applying, sessions, host>>
  BY DEF RumorLogin
<1>2. PICK h \in Node : h = host[s]
  BY <1>1, KnownEvents
<1>3. PICK e \in EventOf, i \in Nat, pc \in {"store", "push"} : Rumors(s, "LOGIN", u, e, i, pc)
  BY <1>1, <1>2, RumorFacts
<1>4. /\ e.kind = "LOGIN" /\ e.user = u /\ e.node = h
      /\ i = Len(events) + 1 /\ Len(events') = i /\ events'[i] = e
      /\ EventsGrow /\ ApplyEvent(h, e)
      /\ pc = "store" <=> StoresLogin(h, e)
      /\ thread'[s] = At(pc, u, i)
      /\ \A r \in Sock : r # s => thread'[r] = thread[r]
      /\ Range(log'[h]) = Range(log[h]) \cup {i}
      /\ \A n \in Node : n # h => log'[n] = log[n]
  BY <1>2, <1>3 DEF Rumors
<1>5. Stage(s, u, {"set", "rumor"}) /\ Stage(s, u, {"set", "rumor", "store"}) /\ LoggingIn(s, u)
  BY <1>1 DEF Stage, Recording, SocketOk
<1>6. row[h][u] = NoNode
  BY <1>2, <1>5 DEF LoggingIn
<1>7. /\ thread'[s].pc = "store" /\ thread'[s].user = u /\ thread'[s].ev = i
      /\ Stage(s, u, {"rumor", "store"})'
  BY <1>4, <1>6 DEF At, StoresLogin, Stage
<1>8. UNCHANGED <<row, auth>>
  BY <1>4 DEF ApplyEvent
<1>9. /\ \A j \in 1..Len(events) : Alive(j) => ~Opens(j, u)
      /\ \A n, m \in Node : ~Pending(n, m, u)
      /\ \A r \in Sock : r # s => ~Works(r, u) /\ ~Engaged(r, u) /\ auth[r] # u
      /\ \A n \in Node : ~Moving(u, n) /\ \A j \in Range(log[n]) : ~Opens(j, u)
  BY <1>5, LoneLogin
<1>10. /\ i \notin 1..Len(events) /\ i \in 1..Len(events')
       /\ \A j \in 1..Len(events') : j \in 1..Len(events) \/ j = i
  <2>1. Len(events) \in Nat /\ i = Len(events) + 1 /\ Len(events') = i
    BY <1>4, Types
  <2> QED BY <2>1
<1>11. Enters(i, u)' /\ Opens(i, u)' /\ ~Moves(i, u)' /\ events'[i].node = h
  BY <1>4 DEF Enters, Opens, Moves
<1>12. \A n \in Node : \A j \in Range(log'[n]) : Opens(j, u)' => j = i /\ n = h
  <2>1. \A n \in Node : \A j \in Range(log[n]) : ~Opens(j, u)'
    BY <1>4, <1>9, KnownEvents, SameKinds
  <2>2. \A n \in Node : \A j \in Range(log'[n]) : j \in Range(log[n]) \/ (j = i /\ n = h)
    BY <1>4
  <2> QED BY <2>1, <2>2
<1>13. \A j \in 1..Len(events') : Alive(j)' /\ Opens(j, u)' => j = i
  <2>1. ASSUME NEW j \in 1..Len(events'), Alive(j)', Opens(j, u)', j # i PROVE FALSE
    <3>1. j \in 1..Len(events) /\ Opens(j, u)
      BY <1>4, <1>10, <2>1, SameKinds
    <3>2. Alive(j)
      BY <1>1, <1>12, <2>1 DEF Alive
    <3> QED BY <1>9, <3>1, <3>2
  <2> QED BY <2>1
<1>14. \A n, m \in Node : ~Pending(n, m, u)'
  BY <1>1, <1>4, <1>9, SamePending
<1>15. OneWorker(u)'
  BY <1>4, <1>9 DEF OneWorker, Works
<1>16. OneLogin(u)'
  BY <1>13 DEF OneLogin, Opens
<1>17. ASSUME NEW r \in Sock PROVE SocketOk(r, u)'
  <2>1. CASE r # s
    <3>1. auth'[r] # u /\ ~Engaged(r, u)'
      BY <1>4, <1>8, <1>9, <2>1 DEF Engaged, Stage
    <3>2. ~Stage(r, u, {"set", "rumor", "store"})' /\ ~Stage(r, u, {"claim", "moved"})'
      BY <3>1 DEF Engaged, Stage
    <3> QED BY <3>1, <3>2
            DEF SocketOk, LoggingIn, Claiming, SessionLogged, SessionMoved, SessionRow
  <2>2. CASE r = s
    <3>1. host'[s] = h
      BY <1>1, <1>2
    <3>2. LoggingIn(s, u)'
      BY <1>6, <1>7, <1>8, <1>13, <1>14, <3>1 DEF LoggingIn
    <3>3. Claiming(s, u)'
      BY <1>7 DEF Claiming, Stage
    <3>4. SessionLogged(s, u)'
      BY <1>4, <1>11, <3>1 DEF SessionLogged
    <3>5. SessionMoved(s, u)'
      BY <1>11, <1>12, <3>1 DEF SessionMoved, Opens
    <3>6. SessionRow(s, u)'
      BY <1>7 DEF SessionRow
    <3> QED BY <2>2, <3>2, <3>3, <3>4, <3>5, <3>6 DEF SocketOk
  <2> QED BY <2>1, <2>2
<1>18. ASSUME NEW n \in Node PROVE TableOk(n, u)'
  <2>1. Written(n, u)'
    BY <1>1, <1>2, <1>7, <1>12 DEF Written
  <2>2. OwnRow(n, u)'
    <3>1. OwnRow(n, u)
      BY DEF Recording, TableOk
    <3>2. ~(up[n] /\ row[n][u] = n)
      BY <1>9, <3>1 DEF OwnRow
    <3> QED BY <1>1, <1>8, <3>2 DEF OwnRow
  <2>3. MoveWins(n, u)'
    BY <1>11, <1>12 DEF MoveWins, Opens
  <2>4. StillRight(n, u)'
    BY <1>14 DEF StillRight
  <2> QED BY <2>1, <2>2, <2>3, <2>4 DEF TableOk
<1> QED BY <1>15, <1>16, <1>17, <1>18 DEF Recording

\* The node of a LOGIN writes the row.
LEMMA StoreLoginRecorded ==
    ASSUME TInv, Steady, NEW u \in User, Recording(u), NEW s \in Sock, StoreLogin(s),
           thread[s].user = u
    PROVE  Recording(u)'
<1> DEFINE i == thread[s].ev
<1>1. /\ thread[s].pc = "store" /\ thread' = [thread EXCEPT ![s].pc = "push"]
      /\ row' = [row EXCEPT ![host[s]][u] = events[i].node]
      /\ UNCHANGED <<up, events, log, wire, applying, host, auth>>
  BY DEF StoreLogin, SetOnline, netVars
<1>2. PICK h \in Node : h = host[s]
  BY <1>1, KnownEvents
<1>3. /\ i \in 1..Len(events) /\ events[i].user = u /\ events[i].node = h
      /\ events[i].kind = "LOGIN" /\ i \in Range(log[h])
  BY <1>1, <1>2, Types DEF Threads, ThreadOk, Steady, Logged
<1>4. Enters(i, u) /\ Opens(i, u) /\ ~Moves(i, u)
  BY <1>3 DEF Enters, Opens, Moves
<1>5. Stage(s, u, {"set", "rumor", "store"}) /\ LoggingIn(s, u) /\ Works(s, u)
  BY <1>1 DEF Stage, Recording, SocketOk, Works
<1>6. /\ \A j \in 1..Len(events) : Alive(j) /\ Opens(j, u) => j = i
      /\ \A m \in Node : ~Pending(h, m, u)
  BY <1>2, <1>5 DEF LoggingIn
<1> HIDE DEF i
<1>7. /\ thread'[s].pc = "push" /\ thread'[s].user = u
      /\ \A r \in Sock : r # s => thread'[r] = thread[r]
  <2>1. "push" \in PC
    BY DEF PC
  <2> QED BY <1>1, <2>1, NextStage, Types
<1>8. /\ row'[h][u] = h /\ h # NoNode
      /\ \A n \in Node : n # h => row'[n][u] = row[n][u]
  BY <1>1, <1>2, <1>3, Types, NullAssumption
<1>9. /\ \A j : (Alive(j)' <=> Alive(j)) /\ (Opens(j, u)' <=> Opens(j, u))
      /\ \A j : (Enters(j, u)' <=> Enters(j, u)) /\ (Moves(j, u)' <=> Moves(j, u))
      /\ \A n, m \in Node : Pending(n, m, u)' <=> Pending(n, m, u)
  BY <1>1 DEF Alive, Opens, Enters, Moves, Pending
<1>10. \A r \in Sock : r # s => ~Works(r, u)
  BY <1>5 DEF Recording, OneWorker
<1>11. \A r \in Sock : ~Engaged(r, u)'
  <2>1. \A r \in Sock : r # s => ~Engaged(r, u)
    BY <1>10 DEF Works, Engaged, Stage
  <2> QED BY <1>7, <2>1 DEF Engaged, Stage
<1>12. OneWorker(u)'
  BY <1>7, <1>10 DEF OneWorker, Works
<1>13. OneLogin(u)'
  BY <1>1, <1>9 DEF Recording, OneLogin
<1>14. ASSUME NEW r \in Sock PROVE SocketOk(r, u)'
  <2>1. SocketOk(r, u)
    BY DEF Recording
  <2>2. LoggingIn(r, u)' /\ Claiming(r, u)'
    BY <1>11 DEF LoggingIn, Claiming, Engaged, Stage
  <2>3. ~Stage(r, u, {"rumor", "moved"}) /\ ~Stage(r, u, {"moved"})
    BY <1>1, <1>10 DEF Stage, Works
  <2>4. SessionLogged(r, u)' /\ SessionMoved(r, u)'
    BY <1>1, <1>9, <2>1, <2>3 DEF SocketOk, SessionLogged, SessionMoved
  <2>5. SessionRow(r, u)'
    <3>1. SUFFICES ASSUME auth[r] = u PROVE row'[host[r]][u] = host[r]
      BY <1>1 DEF SessionRow
    <3>2. host[r] \in Node
      BY <3>1, KnownEvents, NullAssumption
    <3>3. CASE host[r] = h
      BY <1>8, <3>3
    <3>4. CASE host[r] # h
      <4>1. r # s /\ ~Stage(r, u, {"rumor", "store"})
        BY <1>2, <1>10, <3>4 DEF Stage, Works
      <4> QED BY <1>8, <2>1, <3>1, <3>2, <3>4, <4>1 DEF SocketOk, SessionRow
    <3> QED BY <3>3, <3>4
  <2> QED BY <2>2, <2>4, <2>5 DEF SocketOk
<1>15. ASSUME NEW n \in Node PROVE TableOk(n, u)'
  <2>1. TableOk(n, u)
    BY DEF Recording
  <2>2. CASE n = h
    <3>1. Written(n, u)'
      BY <1>8, <2>2 DEF Written
    <3>2. OwnRow(n, u)'
      BY <1>1, <1>3, <1>4, <1>9, <2>2 DEF OwnRow
    <3>3. MoveWins(n, u)'
      <4>1. \A j \in Range(log[n]) : ~Moves(j, u)
        BY <1>4, <1>6, KnownEvents DEF Opens
      <4> QED BY <1>1, <1>9, <4>1 DEF MoveWins
    <3>4. StillRight(n, u)'
      BY <1>6, <1>9, <2>2 DEF StillRight
    <3> QED BY <3>1, <3>2, <3>3, <3>4 DEF TableOk
  <2>3. CASE n # h
    <3>1. row'[n][u] = row[n][u]
      BY <1>8, <2>3
    <3>2. Moving(u, n) => Moving(u, n)'
      <4>1. ASSUME NEW r \in Sock, thread[r] = At("moved", u, 0) PROVE r # s
        BY <1>1, <4>1 DEF At
      <4> QED BY <1>1, <1>7, <4>1 DEF Moving
    <3>3. Written(n, u)'
      BY <1>1, <1>2, <1>7, <1>9, <2>1, <2>3, <3>1 DEF TableOk, Written
    <3>4. OwnRow(n, u)' /\ MoveWins(n, u)' /\ StillRight(n, u)'
      BY <1>1, <1>9, <2>1, <3>1, <3>2 DEF TableOk, OwnRow, MoveWins, StillRight
    <3> QED BY <3>3, <3>4 DEF TableOk
  <2> QED BY <2>2, <2>3
<1> QED BY <1>12, <1>13, <1>14, <1>15 DEF Recording

\* RECONNECT takes the session and the row: the rumor that follows will say so.
LEMMA ClaimRecorded ==
    ASSUME TInv, Steady, NEW u \in User, Recording(u), NEW s \in Sock, Claim(s),
           thread[s].user = u
    PROVE  Recording(u)'
<1>1. /\ thread[s].pc = "claim" /\ thread' = [thread EXCEPT ![s].pc = "moved"]
      /\ row' = [row EXCEPT ![host[s]][u] = host[s]]
      /\ auth' = [auth EXCEPT ![s] = u]
      /\ UNCHANGED <<up, events, log, wire, applying, host>>
  BY DEF Claim, SetOnline, netVars
<1>2. PICK h \in Node : h = host[s]
  BY <1>1, KnownEvents
<1>3. Stage(s, u, {"claim", "moved"}) /\ Claiming(s, u) /\ Works(s, u) /\ thread[s].ev = 0
  BY <1>1, Types DEF Stage, Recording, SocketOk, Works, Threads, ThreadOk
<1>4. /\ \A m \in Node : ~Pending(h, m, u)
      /\ \A i \in 1..Len(events) : Alive(i) /\ Opens(i, u) => i \in Range(log[h])
  BY <1>2, <1>3 DEF Claiming
<1>5. /\ thread'[s] = At("moved", u, 0) /\ thread'[s].pc = "moved" /\ thread'[s].user = u
      /\ \A r \in Sock : r # s => thread'[r] = thread[r]
  <2>1. "moved" \in PC
    BY DEF PC
  <2> QED BY <1>1, <1>3, <2>1, NextStage, Types
<1>6. /\ row'[h][u] = h /\ h # NoNode
      /\ \A n \in Node : n # h => row'[n][u] = row[n][u]
  BY <1>1, <1>2, Types, NullAssumption
<1>7. auth'[s] = u /\ \A r \in Sock : r # s => auth'[r] = auth[r]
  BY <1>1, Types
<1>8. /\ \A j : (Alive(j)' <=> Alive(j)) /\ (Opens(j, u)' <=> Opens(j, u))
      /\ \A j : (Enters(j, u)' <=> Enters(j, u)) /\ (Moves(j, u)' <=> Moves(j, u))
      /\ \A n, m \in Node : Pending(n, m, u)' <=> Pending(n, m, u)
  BY <1>1 DEF Alive, Opens, Enters, Moves, Pending
<1>9. \A r \in Sock : r # s => ~Works(r, u)
  BY <1>3 DEF Recording, OneWorker
<1>10. Moving(u, h)'
  BY <1>1, <1>2, <1>5 DEF Moving
<1>11. OneWorker(u)'
  BY <1>5, <1>9 DEF OneWorker, Works
<1>12. OneLogin(u)'
  BY <1>1, <1>8 DEF Recording, OneLogin
<1>13. SocketOk(s, u)'
  <2>1. Stage(s, u, {"moved"})' /\ Stage(s, u, {"rumor", "moved"})'
        /\ ~Stage(s, u, {"set", "rumor", "store"})'
    BY <1>5 DEF Stage
  <2>2. Claiming(s, u)'
    BY <1>1, <1>2, <1>4, <1>8 DEF Claiming
  <2>3. SessionRow(s, u)'
    BY <1>1, <1>2, <1>6 DEF SessionRow
  <2> QED BY <2>1, <2>2, <2>3 DEF SocketOk, LoggingIn, SessionLogged, SessionMoved
<1>14. ASSUME NEW r \in Sock, r # s PROVE SocketOk(r, u)'
  <2>1. SocketOk(r, u) /\ thread'[r] = thread[r] /\ auth'[r] = auth[r]
    BY <1>5, <1>7, <1>14 DEF Recording
  <2>2. \A P : Stage(r, u, P)' <=> Stage(r, u, P)
    BY <2>1 DEF Stage
  <2>3. /\ ~Stage(r, u, {"set", "rumor", "store"})' /\ ~Stage(r, u, {"claim", "moved"})'
        /\ ~Stage(r, u, {"rumor", "store"})
    BY <1>9, <1>14, <2>1 DEF Stage, Works
  <2>4. LoggingIn(r, u)' /\ Claiming(r, u)'
    BY <2>3 DEF LoggingIn, Claiming
  <2>5. SessionLogged(r, u)' /\ SessionMoved(r, u)'
    BY <1>1, <1>8, <2>1, <2>2 DEF SocketOk, SessionLogged, SessionMoved
  <2>6. SessionRow(r, u)'
    <3>1. SUFFICES ASSUME auth[r] = u PROVE row'[host[r]][u] = host[r]
      BY <1>1, <2>1 DEF SessionRow
    <3>2. host[r] \in Node
      BY <3>1, KnownEvents, NullAssumption
    <3>3. row[host[r]][u] = host[r]
      BY <2>1, <2>3, <3>1 DEF SocketOk, SessionRow
    <3> QED BY <1>6, <3>2, <3>3
  <2> QED BY <2>4, <2>5, <2>6 DEF SocketOk
<1>15. ASSUME NEW n \in Node PROVE TableOk(n, u)'
  <2>1. TableOk(n, u)
    BY DEF Recording
  <2>2. CASE n = h
    <3>1. Written(n, u)'
      BY <1>6, <2>2 DEF Written
    <3>2. OwnRow(n, u)' /\ MoveWins(n, u)' /\ StillRight(n, u)'
      BY <1>4, <1>8, <1>10, <2>2 DEF OwnRow, MoveWins, StillRight
    <3> QED BY <3>1, <3>2 DEF TableOk
  <2>3. CASE n # h
    <3>1. row'[n][u] = row[n][u]
      BY <1>6, <2>3
    <3>2. ~Moving(u, n)
      <4>1. ASSUME NEW r \in Sock, thread[r] = At("moved", u, 0) PROVE FALSE
        <5>1. Works(r, u) /\ r # s
          BY <1>1, <4>1 DEF Works, At
        <5> QED BY <1>9, <5>1
      <4> QED BY <4>1 DEF Moving
    <3>3. Written(n, u)'
      BY <1>1, <1>2, <1>5, <1>8, <2>1, <2>3, <3>1 DEF TableOk, Written
    <3>4. OwnRow(n, u)' /\ MoveWins(n, u)' /\ StillRight(n, u)'
      BY <1>1, <1>8, <2>1, <3>1, <3>2 DEF TableOk, OwnRow, MoveWins, StillRight
    <3> QED BY <3>3, <3>4 DEF TableOk
  <2> QED BY <2>2, <2>3
<1> QED BY <1>11, <1>12, <1>13, <1>14, <1>15 DEF Recording

\* The RECONNECT is rumored: it is the one move of u.
LEMMA RumorReconnectRecorded ==
    ASSUME TInv, Steady, NEW u \in User, Recording(u), NEW s \in Sock, RumorReconnect(s),
           thread[s].user = u, MovedOnce(u)'
    PROVE  Recording(u)'
<1>1. /\ thread[s].pc = "moved" /\ Rumor(s, "RECONNECT", u)
      /\ UNCHANGED <<up, wire, applying, sessions, host>>
  BY DEF RumorReconnect
<1>2. PICK h \in Node : h = host[s]
  BY <1>1, KnownEvents
<1>3. PICK e \in EventOf, i \in Nat, pc \in {"store", "push"} : Rumors(s, "RECONNECT", u, e, i, pc)
  BY <1>1, <1>2, RumorFacts
<1>4. /\ e.kind = "RECONNECT" /\ e.user = u /\ e.node = h
      /\ i = Len(events) + 1 /\ Len(events') = i /\ events'[i] = e
      /\ EventsGrow /\ ApplyEvent(h, e)
      /\ pc = "push" /\ thread'[s] = At(pc, u, i)
      /\ \A r \in Sock : r # s => thread'[r] = thread[r]
      /\ Range(log'[h]) = Range(log[h]) \cup {i}
      /\ \A n \in Node : n # h => log'[n] = log[n]
  BY <1>2, <1>3 DEF Rumors
<1>5. Stage(s, u, {"claim", "moved"}) /\ Claiming(s, u) /\ Works(s, u)
  BY <1>1 DEF Stage, Recording, SocketOk, Works
<1>6. \A m \in Node : ~Pending(h, m, u)
  BY <1>2, <1>5 DEF Claiming
<1>7. thread'[s].pc = "push" /\ thread'[s].user = u
  BY <1>4 DEF At
<1>8. /\ i \notin 1..Len(events) /\ i \in 1..Len(events')
      /\ \A j \in 1..Len(events) : j \in 1..Len(events')
      /\ \A j \in 1..Len(events') : j \in 1..Len(events) \/ j = i
  <2>1. Len(events) \in Nat /\ i = Len(events) + 1 /\ Len(events') = i
    BY <1>4, Types
  <2> QED BY <2>1
<1>9. Moves(i, u)' /\ Opens(i, u)' /\ ~Enters(i, u)' /\ events'[i].node = h
  BY <1>4 DEF Enters, Opens, Moves
<1>10. \A j \in 1..Len(events) : ~Moves(j, u)'
  BY <1>8, <1>9 DEF MovedOnce
<1>11. /\ row'[h][u] = h /\ h # NoNode
       /\ \A n \in Node : n # h => row'[n][u] = row[n][u]
  <2>1. row' = [row EXCEPT ![h][u] = h]
    BY <1>4 DEF ApplyEvent, SetOnline
  <2> QED BY <2>1, Types, NullAssumption
<1>12. \A r \in Sock : auth'[r] = auth[r]
  BY <1>4 DEF ApplyEvent
<1>13. \A r \in Sock : r # s => ~Works(r, u)
  BY <1>5 DEF Recording, OneWorker
<1>14. \A n \in Node : /\ Range(log[n]) \subseteq Range(log'[n])
                       /\ \A j \in Range(log'[n]) : j \in Range(log[n]) \/ (j = i /\ n = h)
  BY <1>4
<1>15. \A n \in Node : \A j \in Range(log[n]) :
          /\ ~Moves(j, u)' /\ (Opens(j, u)' <=> Opens(j, u)) /\ events'[j] = events[j]
  BY <1>4, <1>10, KnownEvents, SameKinds
<1>16. \A n, m \in Node : /\ Pending(n, m, u)' <=> Pending(n, m, u)
                          /\ Pending(n, m, u) => events'[applying[n][m]] = events[applying[n][m]]
  BY <1>1, <1>4, SamePending
<1>17. OneWorker(u)'
  BY <1>4, <1>13 DEF OneWorker, Works
<1>18. OneLogin(u)'
  <2>1. ASSUME NEW j \in 1..Len(events'), Alive(j)', Enters(j, u)'
        PROVE  j \in 1..Len(events) /\ Alive(j) /\ Enters(j, u)
    <3>1. j # i /\ j \in 1..Len(events) /\ Enters(j, u)
      BY <1>4, <1>8, <1>9, <2>1, SameKinds
    <3>2. Alive(j)
      BY <1>1, <1>14, <2>1, <3>1 DEF Alive
    <3> QED BY <3>1, <3>2
  <2> QED BY <2>1 DEF Recording, OneLogin
<1>19. ASSUME NEW r \in Sock PROVE SocketOk(r, u)'
  <2>1. SocketOk(r, u)
    BY DEF Recording
  <2>2. ~Stage(r, u, {"set", "rumor", "store"})' /\ ~Stage(r, u, {"claim", "moved"})'
    BY <1>4, <1>7, <1>13 DEF Stage, Works
  <2>3. LoggingIn(r, u)' /\ Claiming(r, u)'
    BY <2>2 DEF LoggingIn, Claiming
  <2>4. ASSUME auth'[r] = u
        PROVE  SessionLogged(r, u)' /\ SessionMoved(r, u)' /\ SessionRow(r, u)'
    <3>1. PICK k \in Node : k = host[r] /\ k = host'[r]
      BY <1>1, <1>12, <2>4, KnownEvents, NullAssumption
    <3>2. \E j \in Range(log'[k]) : Opens(j, u)' /\ events'[j].node = k
      <4>1. CASE r = s
        BY <1>2, <1>4, <1>9, <3>1, <4>1
      <4>2. CASE r # s
        <5>1. ~Stage(r, u, {"rumor", "moved"})
          BY <1>13, <4>2 DEF Stage, Works
        <5>2. \E j \in Range(log[k]) : Opens(j, u) /\ events[j].node = k
          BY <1>12, <2>1, <2>4, <3>1, <5>1 DEF SocketOk, SessionLogged
        <5> QED BY <1>14, <1>15, <5>2
      <4> QED BY <4>1, <4>2
    <3>3. \A j \in Range(log'[k]) : Moves(j, u)' => events'[j].node = k
      BY <1>9, <1>14, <1>15
    <3>4. row'[k][u] = k
      <4>1. CASE k # h
        <5>1. r # s
          BY <1>2, <3>1, <4>1
        <5>2. ~Stage(r, u, {"rumor", "store"})
          BY <1>13, <5>1 DEF Stage, Works
        <5> QED BY <1>11, <1>12, <2>1, <2>4, <3>1, <4>1, <5>2 DEF SocketOk, SessionRow
      <4> QED BY <1>11, <4>1
    <3> QED BY <3>1, <3>2, <3>3, <3>4 DEF SessionLogged, SessionMoved, SessionRow
  <2>5. SessionLogged(r, u)' /\ SessionMoved(r, u)' /\ SessionRow(r, u)'
    BY <2>4 DEF SessionLogged, SessionMoved, SessionRow
  <2> QED BY <2>3, <2>5 DEF SocketOk
<1>20. ASSUME NEW n \in Node PROVE TableOk(n, u)'
  <2>1. Written(n, u) /\ OwnRow(n, u) /\ StillRight(n, u)
    BY DEF Recording, TableOk
  <2>2. CASE n = h
    <3>1. Written(n, u)'
      BY <1>11, <2>2 DEF Written
    <3>2. OwnRow(n, u)'
      BY <1>4, <1>9, <2>2 DEF OwnRow
    <3>3. MoveWins(n, u)'
      BY <1>6, <1>9, <1>11, <1>14, <1>15, <1>16, <2>2 DEF MoveWins
    <3>4. StillRight(n, u)'
      BY <1>6, <1>16, <2>2 DEF StillRight
    <3> QED BY <3>1, <3>2, <3>3, <3>4 DEF TableOk
  <2>3. CASE n # h
    <3>1. row'[n][u] = row[n][u] /\ log'[n] = log[n]
      BY <1>4, <1>11, <2>3
    <3>2. ~Moving(u, n)
      <4>1. ASSUME NEW r \in Sock, host[r] = n, thread[r] = At("moved", u, 0) PROVE FALSE
        <5>1. Works(r, u) /\ r # s
          BY <1>2, <2>3, <4>1 DEF Works, At
        <5> QED BY <1>13, <5>1
      <4> QED BY <4>1 DEF Moving
    <3>3. Written(n, u)'
      <4>1. \A r \in Sock : thread[r].pc = "store" => thread'[r] = thread[r]
        BY <1>1, <1>4
      <4> QED BY <1>1, <1>15, <2>1, <3>1, <4>1 DEF Written
    <3>4. OwnRow(n, u)'
      BY <1>1, <1>15, <2>1, <3>1, <3>2 DEF OwnRow
    <3>5. MoveWins(n, u)'
      BY <1>15, <3>1 DEF MoveWins
    <3>6. StillRight(n, u)'
      BY <1>1, <1>16, <2>1, <3>1 DEF StillRight
    <3> QED BY <3>3, <3>4, <3>5, <3>6 DEF TableOk
  <2> QED BY <2>2, <2>3
<1> QED BY <1>17, <1>18, <1>19, <1>20 DEF Recording

\* A table whose node takes no part in the step.
LEMMA TableElsewhere ==
    ASSUME NEW u \in User, NEW k \in Node, TableOk(k, u), UNCHANGED <<events, host>>,
           row'[k][u] = row[k][u], log'[k] = log[k], up'[k] = up[k],
           \A l \in Node : applying'[k][l] = applying[k][l],
           \A r \in Sock : host[r] = k => thread'[r] = thread[r]
    PROVE  TableOk(k, u)'
<1>1. /\ \A i : (Opens(i, u)' <=> Opens(i, u)) /\ (Moves(i, u)' <=> Moves(i, u))
      /\ \A l \in Node : Pending(k, l, u)' <=> Pending(k, l, u)
  BY DEF Opens, Enters, Moves, Pending
<1>2. Moving(u, k) => Moving(u, k)'
  BY DEF Moving
<1>3. Written(k, u)'
  BY <1>1 DEF TableOk, Written
<1>4. OwnRow(k, u)' /\ MoveWins(k, u)' /\ StillRight(k, u)'
  BY <1>1, <1>2 DEF TableOk, OwnRow, MoveWins, StillRight
<1> QED BY <1>3, <1>4 DEF TableOk

\* A socket whose node takes no part in the step.
LEMMA SocketElsewhere ==
    ASSUME TInv, NEW u \in User, NEW r \in Sock, SocketOk(r, u), UNCHANGED <<events, host>>,
           thread'[r] = thread[r], auth'[r] = u => auth[r] = u,
           \A j : Alive(j)' => Alive(j),
           host[r] \in Node =>
              /\ row'[host[r]][u] = row[host[r]][u] /\ log'[host[r]] = log[host[r]]
              /\ \A l \in Node : applying'[host[r]][l] = applying[host[r]][l]
    PROVE  SocketOk(r, u)'
<1>1. \A i : (Opens(i, u)' <=> Opens(i, u)) /\ (Moves(i, u)' <=> Moves(i, u))
  BY DEF Opens, Enters, Moves
<1>2. \A P : Stage(r, u, P)' <=> Stage(r, u, P)
  BY DEF Stage
<1>3. CASE host[r] \notin Node
  <2>1. ~Stage(r, u, {"set", "rumor", "store"}) /\ ~Stage(r, u, {"claim", "moved"}) /\ auth'[r] # u
    BY <1>3, KnownEvents, NullAssumption DEF Stage
  <2> QED BY <1>2, <2>1 DEF SocketOk, LoggingIn, Claiming, SessionLogged, SessionMoved, SessionRow
<1>4. CASE host[r] \in Node
  <2>1. PICK h \in Node : h = host[r] /\ h = host'[r]
    BY <1>4
  <2>2. \A m \in Node : Pending(h, m, u)' <=> Pending(h, m, u)
    BY <1>4, <2>1 DEF Pending
  <2>3. LoggingIn(r, u)'
    BY <1>1, <1>2, <1>4, <2>1, <2>2 DEF SocketOk, LoggingIn
  <2>4. Claiming(r, u)'
    BY <1>1, <1>2, <1>4, <2>1, <2>2 DEF SocketOk, Claiming
  <2>5. SessionLogged(r, u)' /\ SessionMoved(r, u)' /\ SessionRow(r, u)'
    BY <1>1, <1>2, <1>4 DEF SocketOk, SessionLogged, SessionMoved, SessionRow
  <2> QED BY <2>3, <2>4, <2>5 DEF SocketOk
<1> QED BY <1>3, <1>4

\* What a node hears was to be heard.
LEMMA HeardAlive ==
    ASSUME NEW n \in Node, NEW m \in Node, NEW i \in Range(wire[m][n]), Accepts(n, m, i),
           \A k, l \in Node : Range(wire'[k][l]) \subseteq Range(wire[k][l])
    PROVE  Alive(i) /\ \A j : Alive(j)' => Alive(j)
<1>1. Alive(i)
  BY DEF Alive
<1>2. \A k \in Node : \A j \in Range(log'[k]) : j \in Range(log[k]) \/ j = i
  BY DEF Accepts
<1>3. \A j : \A k \in Node : j \in Range(log'[k]) => Alive(j)
  BY <1>1, <1>2 DEF Alive
<1>4. \A j : \A k, l \in Node : j \in Range(wire'[k][l]) => Alive(j)
  BY DEF Alive
<1> QED BY <1>1, <1>3, <1>4 DEF Alive

\* A node hears of the LOGIN.
LEMMA HeardLoginRecorded ==
    ASSUME TInv, Steady, NEW u \in User, Recording(u), NEW n \in Node, NEW m \in Node,
           Deliver(n, m), NEW i \in Range(wire[m][n]), Accepts(n, m, i), Enters(i, u)
    PROVE  Recording(u)'
<1>1. /\ applying[n][m] = 0 /\ UNCHANGED <<up, events, host, thread>>
      /\ \A k, l \in Node : Range(wire'[k][l]) \subseteq Range(wire[k][l])
  BY DeliverFacts
<1>2. /\ i \in 1..Len(events) /\ i \notin Range(log[n])
      /\ events[i] \in EventOf /\ ApplyEvent(n, events[i])
      /\ Range(log'[n]) = Range(log[n]) \cup {i}
      /\ \A k \in Node : k # n => log'[k] = log[k]
      /\ applying'[n][m] = i \/ applying'[n][m] = 0
      /\ applying'[n][m] = i <=> events[i].kind = "LOGIN" /\ StoresLogin(n, events[i])
      /\ \A k, l \in Node : k # n \/ l # m => applying'[k][l] = applying[k][l]
  BY DEF Accepts
<1>3. /\ events[i].kind = "LOGIN" /\ events[i].user = u /\ Opens(i, u) /\ ~Moves(i, u)
      /\ i # 0 /\ events[i].node \in Node
  <2>1. i # 0
    BY KnownEvents
  <2> QED BY <1>2, <2>1, EventFields DEF Enters, Opens, Moves
<1>4. UNCHANGED <<row, auth>>
  BY <1>2, <1>3 DEF ApplyEvent
<1>5. Alive(i) /\ \A j : Alive(j)' => Alive(j)
  BY <1>1, HeardAlive
<1>6. \A j : (Opens(j, u)' <=> Opens(j, u)) /\ (Moves(j, u)' <=> Moves(j, u))
             /\ (Enters(j, u)' <=> Enters(j, u))
  BY <1>1 DEF Opens, Enters, Moves
<1>7. /\ \A l \in Node : l # m => (Pending(n, l, u)' <=> Pending(n, l, u))
      /\ Pending(n, m, u)' => applying'[n][m] = i /\ row[n][u] \in {NoNode, events[i].node}
  BY <1>1, <1>2, <1>3 DEF Pending, StoresLogin
<1>8. ASSUME NEW r \in Sock, Stage(r, u, {"set", "rumor", "store"}) PROVE host[r] # n
  <2>1. i = thread[r].ev
    BY <1>2, <1>3, <1>5, <1>8 DEF Recording, SocketOk, LoggingIn
  <2>2. thread[r].pc = "store"
    BY <1>3, <1>8, <2>1, Types DEF Stage, Threads, ThreadOk
  <2>3. i \in Range(log[host[r]])
    BY <2>1, <2>2 DEF Steady, Logged
  <2> QED BY <1>2, <2>3
<1>9. ASSUME NEW r \in Sock, Stage(r, u, {"claim", "moved"}) PROVE host[r] # n
  BY <1>2, <1>3, <1>5, <1>9 DEF Recording, SocketOk, Claiming
<1>10. OneWorker(u)' /\ OneLogin(u)'
  BY <1>1, <1>5, <1>6 DEF Recording, OneWorker, Works, OneLogin
<1>11. ASSUME NEW r \in Sock PROVE SocketOk(r, u)'
  <2>1. SocketOk(r, u)
    BY DEF Recording
  <2>2. CASE host[r] # n
    BY <1>1, <1>2, <1>4, <1>5, <2>1, <2>2, SocketElsewhere
  <2>3. CASE host[r] = n
    <3>1. ~Stage(r, u, {"set", "rumor", "store"}) /\ ~Stage(r, u, {"claim", "moved"})
      BY <1>8, <1>9, <2>3
    <3>2. \A P : Stage(r, u, P)' <=> Stage(r, u, P)
      BY <1>1 DEF Stage
    <3>3. LoggingIn(r, u)' /\ Claiming(r, u)'
      BY <3>1, <3>2 DEF LoggingIn, Claiming
    <3>4. SessionLogged(r, u)'
      BY <1>1, <1>2, <1>4, <1>6, <2>1, <2>3, <3>2 DEF SocketOk, SessionLogged
    <3>5. SessionMoved(r, u)'
      BY <1>1, <1>2, <1>3, <1>4, <1>6, <2>1, <2>3, <3>2 DEF SocketOk, SessionMoved
    <3>6. SessionRow(r, u)'
      BY <1>1, <1>4, <2>1, <3>2 DEF SocketOk, SessionRow
    <3> QED BY <3>3, <3>4, <3>5, <3>6 DEF SocketOk
  <2> QED BY <2>2, <2>3
<1>12. ASSUME NEW k \in Node, k # n PROVE TableOk(k, u)'
  <2>1. TableOk(k, u)
    BY DEF Recording
  <2> QED BY <1>1, <1>2, <1>4, <1>12, <2>1, TableElsewhere
<1>13. TableOk(n, u)'
  <2>1. Written(n, u) /\ OwnRow(n, u) /\ MoveWins(n, u) /\ StillRight(n, u)
    BY DEF Recording, TableOk
  <2>2. ~Moving(u, n)
    <3>1. ASSUME NEW r \in Sock, host[r] = n, thread[r] = At("moved", u, 0) PROVE FALSE
      BY <1>9, <3>1 DEF Stage, At
    <3> QED BY <3>1 DEF Moving
  <2>3. Written(n, u)'
    <3>1. SUFFICES ASSUME NEW j \in Range(log'[n]), Opens(j, u), row[n][u] = NoNode
                   PROVE  \/ \E l \in Node : applying'[n][l] = j
                          \/ \E r \in Sock : host[r] = n /\ thread[r].pc = "store" /\ thread[r].ev = j
      BY <1>1, <1>4, <1>6 DEF Written
    <3>2. CASE j = i
      BY <1>2, <1>3, <3>1, <3>2 DEF StoresLogin
    <3>3. CASE j # i
      <4>1. j \in Range(log[n]) /\ j # 0
        BY <1>2, <3>3, KnownEvents
      <4>2. ASSUME NEW l \in Node, applying[n][l] = j PROVE applying'[n][l] = j
        BY <1>1, <1>2, <4>1, <4>2
      <4> QED BY <2>1, <3>1, <4>1, <4>2 DEF Written
    <3> QED BY <3>2, <3>3
  <2>4. OwnRow(n, u)'
    BY <1>1, <1>2, <1>4, <1>6, <2>1, <2>2 DEF OwnRow
  <2>5. StillRight(n, u)'
    BY <1>1, <1>2, <1>4, <1>7, <2>1 DEF StillRight
  <2>6. MoveWins(n, u)'
    <3>1. SUFFICES ASSUME NEW j \in Range(log[n]), Moves(j, u)
                   PROVE  /\ row[n][u] = events[j].node
                          /\ \A l \in Node : Pending(n, l, u)' =>
                                events[applying'[n][l]].node = events[j].node
      BY <1>1, <1>2, <1>3, <1>4, <1>6 DEF MoveWins
    <3>2. row[n][u] = events[j].node
      BY <2>1, <2>2, <3>1 DEF MoveWins
    <3>3. events[j].node # NoNode
      BY <3>1, KnownEvents, EventFields, NullAssumption
    <3>4. ASSUME NEW l \in Node, Pending(n, l, u)' PROVE events[applying'[n][l]].node = events[j].node
      <4>1. CASE l = m
        BY <1>7, <3>2, <3>3, <3>4, <4>1
      <4>2. CASE l # m
        BY <1>2, <1>7, <2>1, <3>1, <3>4, <4>2 DEF MoveWins
      <4> QED BY <4>1, <4>2
    <3> QED BY <3>2, <3>4
  <2> QED BY <2>3, <2>4, <2>5, <2>6 DEF TableOk
<1> QED BY <1>10, <1>11, <1>12, <1>13 DEF Recording

\* Of two nodes, one is the peer.
LEMMA OtherNode ==
    ASSUME \E a, b \in Node : Node = {a, b}, NEW n \in Node, NEW m \in Node, n # m
    PROVE  \A l \in Node : l = n \/ l = m
OBVIOUS

\* A node hears of the RECONNECT, and the session it may still have goes.
LEMMA HeardMoveRecorded ==
    ASSUME TInv, Steady, \E a, b \in Node : Node = {a, b}, NEW u \in User, Recording(u), MovedOnce(u),
           NEW n \in Node, NEW m \in Node,
           Deliver(n, m), NEW i \in Range(wire[m][n]), Accepts(n, m, i), Moves(i, u)
    PROVE  Recording(u)'
<1>1. /\ m \in live[n] /\ applying[n][m] = 0 /\ UNCHANGED <<up, events, host, thread, sessions>>
      /\ \A k, l \in Node : Range(wire'[k][l]) \subseteq Range(wire[k][l])
  BY DeliverFacts
<1>2. /\ i \in 1..Len(events) /\ i \notin Range(log[n])
      /\ events[i] \in EventOf /\ ApplyEvent(n, events[i])
      /\ Range(log'[n]) = Range(log[n]) \cup {i}
      /\ \A k \in Node : k # n => log'[k] = log[k]
      /\ applying'[n][m] = i \/ applying'[n][m] = 0
      /\ applying'[n][m] = i <=> events[i].kind = "LOGIN" /\ StoresLogin(n, events[i])
      /\ \A k, l \in Node : k # n \/ l # m => applying'[k][l] = applying[k][l]
  BY DEF Accepts
<1>3. /\ events[i].kind = "RECONNECT" /\ events[i].user = u /\ Opens(i, u)
      /\ i # 0 /\ events[i].node \in Node
  <2>1. i # 0
    BY KnownEvents
  <2> QED BY <1>2, <2>1, EventFields DEF Opens, Moves
<1>4. /\ row'[n][u] = events[i].node
      /\ \A k \in Node : k # n => row'[k][u] = row[k][u]
  <2>1. row' = [row EXCEPT ![n][u] = events[i].node]
    BY <1>2, <1>3 DEF ApplyEvent, SetOnline
  <2> QED BY <2>1, Types
<1>5. \A r \in Sock : auth'[r] = u => auth[r] = u /\ (host[r] = n => events[i].node = n)
  <2>1. auth' = [r \in Sock |-> IF events[i].node # n /\ r \in sessions[n] /\ auth[r] = u
                                THEN NoUser ELSE auth[r]]
    BY <1>2, <1>3 DEF ApplyEvent
  <2> QED BY <2>1, KnownEvents, NullAssumption
<1>6. Alive(i) /\ \A j : Alive(j)' => Alive(j)
  BY <1>1, HeardAlive
<1>7. \A j : (Opens(j, u)' <=> Opens(j, u)) /\ (Moves(j, u)' <=> Moves(j, u))
             /\ (Enters(j, u)' <=> Enters(j, u))
  BY <1>1 DEF Opens, Enters, Moves
<1>8. \A l \in Node : ~Pending(n, l, u)'
  <2>1. n # m /\ applying[n][n] = 0
    BY <1>1 DEF Steady, NoSelf
  <2>2. \A l \in Node : l = n \/ l = m
    BY <2>1, OtherNode
  <2>3. \A l \in Node : applying'[n][l] = 0
    BY <1>2, <1>3, <2>1, <2>2
  <2> QED BY <2>3 DEF Pending
<1>9. \A k \in Node : \A j \in Range(log'[k]) : Moves(j, u) => j = i
  <2>1. \A k \in Node : \A j \in Range(log'[k]) : j \in 1..Len(events)
    BY <1>2, KnownEvents
  <2> QED BY <1>2, <2>1 DEF MovedOnce
<1>10. ASSUME NEW r \in Sock, Stage(r, u, {"set", "rumor", "store"}) PROVE FALSE
  <2>1. i = thread[r].ev
    BY <1>2, <1>3, <1>6, <1>10 DEF Recording, SocketOk, LoggingIn
  <2> QED BY <1>3, <1>10, <2>1, Types DEF Stage, Threads, ThreadOk
<1>11. ASSUME NEW r \in Sock, Stage(r, u, {"claim", "moved"}) PROVE host[r] # n
  BY <1>2, <1>3, <1>6, <1>11 DEF Recording, SocketOk, Claiming
<1>12. OneWorker(u)' /\ OneLogin(u)'
  BY <1>1, <1>6, <1>7 DEF Recording, OneWorker, Works, OneLogin
<1>13. ASSUME NEW r \in Sock PROVE SocketOk(r, u)'
  <2>1. SocketOk(r, u)
    BY DEF Recording
  <2>2. CASE host[r] # n
    BY <1>1, <1>2, <1>4, <1>5, <1>6, <2>1, <2>2, SocketElsewhere
  <2>3. CASE host[r] = n
    <3>1. ~Stage(r, u, {"set", "rumor", "store"}) /\ ~Stage(r, u, {"claim", "moved"})
      BY <1>10, <1>11, <2>3
    <3>2. \A P : Stage(r, u, P)' <=> Stage(r, u, P)
      BY <1>1 DEF Stage
    <3>3. LoggingIn(r, u)' /\ Claiming(r, u)'
      BY <3>1, <3>2 DEF LoggingIn, Claiming
    <3>4. SessionLogged(r, u)'
      BY <1>1, <1>2, <1>5, <1>7, <2>1, <2>3, <3>2 DEF SocketOk, SessionLogged
    <3>5. SessionMoved(r, u)'
      BY <1>1, <1>5, <1>7, <1>9, <2>3 DEF SessionMoved
    <3>6. SessionRow(r, u)'
      BY <1>1, <1>4, <1>5, <2>3 DEF SessionRow
    <3> QED BY <3>3, <3>4, <3>5, <3>6 DEF SocketOk
  <2> QED BY <2>2, <2>3
<1>14. ASSUME NEW k \in Node, k # n PROVE TableOk(k, u)'
  <2>1. TableOk(k, u)
    BY DEF Recording
  <2> QED BY <1>1, <1>2, <1>4, <1>14, <2>1, TableElsewhere
<1>15. TableOk(n, u)'
  <2>1. Written(n, u)'
    BY <1>3, <1>4, NullAssumption DEF Written
  <2>2. OwnRow(n, u)'
    BY <1>1, <1>2, <1>3, <1>4, <1>7 DEF OwnRow
  <2>3. MoveWins(n, u)'
    BY <1>1, <1>4, <1>7, <1>8, <1>9 DEF MoveWins
  <2>4. StillRight(n, u)'
    BY <1>8 DEF StillRight
  <2> QED BY <2>1, <2>2, <2>3, <2>4 DEF TableOk
<1> QED BY <1>12, <1>13, <1>14, <1>15 DEF Recording

\* The row of a LOGIN that was heard of is written.
LEMMA FinishLoginRecorded ==
    ASSUME TInv, Steady, \E a, b \in Node : Node = {a, b}, NEW u \in User, Recording(u),
           NEW n \in Node, NEW m \in Node, FinishLogin(n, m), Pending(n, m, u)
    PROVE  Recording(u)'
<1>1. PICK i \in 1..Len(events) : i = applying[n][m]
  BY KnownEvents DEF Pending
<1>2. /\ row' = [row EXCEPT ![n][events[i].user] = events[i].node]
      /\ applying' = [applying EXCEPT ![n][m] = 0]
      /\ UNCHANGED <<up, wire, events, log, host, auth, thread>>
  BY <1>1 DEF FinishLogin, SetOnline, sessionVars
<1>3. /\ events[i].user = u /\ i \in Range(log[n]) /\ Opens(i, u)
      /\ events[i].node \in Node /\ n # m
  BY <1>1, EventFields, Types DEF Pending, Steady, Logged, NoSelf, Indices, Opens, Enters
<1>4. /\ row'[n][u] = events[i].node
      /\ \A k \in Node : k # n => row'[k][u] = row[k][u]
  <2>1. row \in [Node -> [User -> Node \cup {NoNode}]]
    BY Types
  <2>2. row' = [row EXCEPT ![n][u] = events[i].node]
    BY <1>2, <1>3
  <2> QED BY <2>1, <2>2
<1>5. /\ applying'[n][m] = 0
      /\ \A k, l \in Node : k # n \/ l # m => applying'[k][l] = applying[k][l]
  BY <1>2, Types
<1>6. \A l \in Node : ~Pending(n, l, u)'
  <2>1. applying[n][n] = 0
    BY DEF Steady, NoSelf
  <2>2. \A l \in Node : l = n \/ l = m
    BY <1>3, OtherNode
  <2> QED BY <1>3, <1>5, <2>1, <2>2 DEF Pending
<1>7. \A j : Alive(j)' <=> Alive(j)
  BY <1>2 DEF Alive
<1>8. \A j : (Opens(j, u)' <=> Opens(j, u)) /\ (Moves(j, u)' <=> Moves(j, u))
             /\ (Enters(j, u)' <=> Enters(j, u))
  BY <1>2 DEF Opens, Enters, Moves
<1>9. ASSUME NEW r \in Sock, host[r] = n
      PROVE  ~Stage(r, u, {"set", "rumor", "store"}) /\ ~Stage(r, u, {"claim", "moved"})
  BY <1>9 DEF Recording, SocketOk, LoggingIn, Claiming
<1>10. OneWorker(u)' /\ OneLogin(u)'
  BY <1>2, <1>7, <1>8 DEF Recording, OneWorker, Works, OneLogin
<1>11. Written(n, u) /\ OwnRow(n, u) /\ MoveWins(n, u) /\ StillRight(n, u)
  BY DEF Recording, TableOk
<1>12. ASSUME NEW r \in Sock PROVE SocketOk(r, u)'
  <2>1. SocketOk(r, u)
    BY DEF Recording
  <2>2. CASE host[r] # n
    BY <1>2, <1>4, <1>5, <1>7, <2>1, <2>2, SocketElsewhere
  <2>3. CASE host[r] = n
    <3>1. \A P : Stage(r, u, P)' <=> Stage(r, u, P)
      BY <1>2 DEF Stage
    <3>2. LoggingIn(r, u)' /\ Claiming(r, u)'
      BY <1>9, <2>3, <3>1 DEF LoggingIn, Claiming
    <3>3. SessionLogged(r, u)' /\ SessionMoved(r, u)'
      BY <1>2, <1>8, <2>1, <3>1 DEF SocketOk, SessionLogged, SessionMoved
    <3>4. SessionRow(r, u)'
      <4>1. SUFFICES ASSUME auth[r] = u PROVE row'[n][u] = n
        BY <1>2, <2>3 DEF SessionRow
      <4>2. ~Stage(r, u, {"rumor", "store"})
        BY <1>9, <2>3 DEF Stage
      <4>3. row[n][u] = n
        BY <2>1, <2>3, <4>1, <4>2 DEF SocketOk, SessionRow
      <4>4. n = events[i].node
        BY <1>1, <1>11, <4>3, NullAssumption DEF StillRight
      <4> QED BY <1>4, <4>4
    <3> QED BY <3>2, <3>3, <3>4 DEF SocketOk
  <2> QED BY <2>2, <2>3
<1>13. ASSUME NEW k \in Node, k # n PROVE TableOk(k, u)'
  <2>1. TableOk(k, u)
    BY DEF Recording
  <2> QED BY <1>2, <1>4, <1>5, <1>13, <2>1, TableElsewhere
<1>14. TableOk(n, u)'
  <2>1. Written(n, u)'
    BY <1>3, <1>4, NullAssumption DEF Written
  <2>2. OwnRow(n, u)'
    BY <1>2, <1>3, <1>4, <1>8 DEF OwnRow
  <2>3. \A j \in Range(log[n]) : Moves(j, u) => events[i].node = events[j].node
    BY <1>1, <1>11 DEF MoveWins
  <2>4. MoveWins(n, u)'
    BY <1>2, <1>4, <1>6, <1>8, <2>3 DEF MoveWins
  <2>5. StillRight(n, u)'
    BY <1>6 DEF StillRight
  <2> QED BY <2>1, <2>2, <2>4, <2>5 DEF TableOk
<1> QED BY <1>10, <1>12, <1>13, <1>14 DEF Recording

\* With a process its sessions and its log go; what the others have recorded stays.
LEMMA CrashRecorded ==
    ASSUME TInv, NEW u \in User, Recording(u), NEW n \in Node, Dies(n)
    PROVE  Recording(u)'
<1>1. /\ UNCHANGED <<events, row, host>> /\ ~up'[n] /\ log'[n] = <<>>
      /\ \A k \in Node : applying'[n][k] = 0
      /\ \A k \in Node : k # n => /\ up'[k] = up[k] /\ log'[k] = log[k]
                                  /\ \A l \in Node : applying'[k][l] = applying[k][l]
      /\ \A k, l \in Node : wire'[k][l] = wire[k][l] \/ wire'[k][l] = <<>>
      /\ \A r \in Sock : host[r] = n => auth'[r] = NoUser /\ thread'[r] = Idle
      /\ \A r \in Sock : host[r] # n => auth'[r] = auth[r] /\ thread'[r] = thread[r]
  BY DEF Dies
<1>2. Range(<<>>) = {}
  BY DEF Range
<1>3. \A j : Alive(j)' => Alive(j)
  BY <1>1, <1>2 DEF Alive
<1>4. u # NoUser /\ Idle.user = NoUser
  BY NullAssumption, Stages
<1>5. OneWorker(u)'
  <2>1. \A r \in Sock : Works(r, u)' => Works(r, u)
    BY <1>1, <1>4 DEF Works
  <2> QED BY <2>1 DEF Recording, OneWorker
<1>6. OneLogin(u)'
  BY <1>1, <1>3 DEF Recording, OneLogin, Enters
<1>7. ASSUME NEW r \in Sock PROVE SocketOk(r, u)'
  <2>1. SocketOk(r, u)
    BY DEF Recording
  <2>2. CASE host[r] # n
    BY <1>1, <1>3, <2>1, <2>2, SocketElsewhere
  <2>3. CASE host[r] = n
    <3>1. auth'[r] # u /\ \A P : ~Stage(r, u, P)'
      BY <1>1, <1>4, <2>3 DEF Stage
    <3> QED BY <3>1 DEF SocketOk, LoggingIn, Claiming, SessionLogged, SessionMoved, SessionRow
  <2> QED BY <2>2, <2>3
<1>8. ASSUME NEW k \in Node PROVE TableOk(k, u)'
  <2>1. TableOk(k, u)
    BY DEF Recording
  <2>2. CASE k # n
    BY <1>1, <2>1, <2>2, TableElsewhere
  <2>3. CASE k = n
    <3>1. Range(log'[k]) = {}
      BY <1>1, <1>2, <2>3
    <3>2. Written(k, u)' /\ MoveWins(k, u)'
      BY <3>1 DEF Written, MoveWins
    <3>3. OwnRow(k, u)' /\ StillRight(k, u)'
      BY <1>1, <2>3 DEF OwnRow, StillRight, Pending
    <3> QED BY <3>2, <3>3 DEF TableOk
  <2> QED BY <2>2, <2>3
<1> QED BY <1>5, <1>6, <1>7, <1>8 DEF Recording

\* A process starts with no rows of its own.
LEMMA StartRecorded ==
    ASSUME TInv, Steady, NEW u \in User, Recording(u), NEW n \in Node, Start(n)
    PROVE  Recording(u)'
<1>1. /\ ~up[n] /\ up' = [up EXCEPT ![n] = TRUE]
      /\ row' = [row EXCEPT ![n] = [v \in User |-> IF @[v] = n THEN NoNode ELSE @[v]]]
      /\ UNCHANGED <<events, wire, log, applying, host, auth, thread, sessions>>
  BY DEF Start, netVars, sessionVars
<1>2. row'[n][u] # n /\ \A k \in Node : k # n => row'[k][u] = row[k][u] /\ up'[k] = up[k]
  BY <1>1, Types, NullAssumption
<1>3. /\ sessions[n] = {} /\ Range(log[n]) = {} /\ \A m \in Node : applying[n][m] = 0
      /\ \A r \in Sock : thread[r].pc # "idle" => up[host[r]]
  BY <1>1 DEF Steady, Offline, Range
<1>4. \A j : Alive(j)' <=> Alive(j)
  BY <1>1 DEF Alive
<1>5. OneWorker(u)' /\ OneLogin(u)'
  BY <1>1, <1>4 DEF Recording, OneWorker, Works, OneLogin, Enters
<1>6. ASSUME NEW r \in Sock PROVE SocketOk(r, u)'
  <2>1. SocketOk(r, u)
    BY DEF Recording
  <2>2. CASE host[r] # n
    BY <1>1, <1>2, <1>4, <2>1, <2>2, SocketElsewhere
  <2>3. CASE host[r] = n
    <3>1. thread[r].pc = "idle" /\ auth[r] # u
      BY <1>1, <1>3, <2>3, KnownEvents, NullAssumption
    <3>2. auth'[r] # u /\ ~Stage(r, u, {"set", "rumor", "store"})' /\ ~Stage(r, u, {"claim", "moved"})'
      BY <1>1, <3>1 DEF Stage
    <3> QED BY <3>2 DEF SocketOk, LoggingIn, Claiming, SessionLogged, SessionMoved, SessionRow
  <2> QED BY <2>2, <2>3
<1>7. ASSUME NEW k \in Node PROVE TableOk(k, u)'
  <2>1. TableOk(k, u)
    BY DEF Recording
  <2>2. CASE k # n
    BY <1>1, <1>2, <2>1, <2>2, TableElsewhere
  <2>3. CASE k = n
    <3>1. Written(k, u)' /\ MoveWins(k, u)'
      BY <1>1, <1>3, <2>3 DEF Written, MoveWins
    <3>2. OwnRow(k, u)' /\ StillRight(k, u)'
      BY <1>1, <1>2, <1>3, <2>3 DEF OwnRow, StillRight, Pending
    <3> QED BY <3>1, <3>2 DEF TableOk
  <2> QED BY <2>2, <2>3
<1> QED BY <1>5, <1>6, <1>7 DEF Recording

\* No step takes an event back.
LEMMA EventsStay ==
    ASSUME TInv, Steady, [Next]_vars
    PROVE  EventsGrow
<1>1. CASE UNCHANGED events
  BY <1>1, SameEvents
<1>2. ASSUME NEW s \in Sock, RumorLogin(s) \/ RumorLogout(s) \/ RumorReconnect(s) PROVE EventsGrow
  <2>1. PICK kind \in {"LOGIN", "LOGOUT", "RECONNECT"} :
           thread[s].pc # "idle" /\ Rumor(s, kind, thread[s].user)
    BY <1>2 DEF RumorLogin, RumorLogout, RumorReconnect
  <2>2. host[s] \in Node /\ thread[s].user \in User
    BY <2>1, KnownEvents
  <2>3. PICK e \in EventOf, i \in Nat, pc \in {"store", "push"} :
           Rumors(s, kind, thread[s].user, e, i, pc)
    BY <2>1, <2>2, RumorFacts
  <2> QED BY <2>3 DEF Rumors
<1>3. ASSUME NEW s \in Sock, Handler(s) PROVE EventsGrow
  <2>1. ~CreateUser(s)
    BY DEF CreateUser, Steady, Enrolled
  <2>2. CASE SetSession(s) \/ StoreLogin(s) \/ RemoveSession(s) \/ Claim(s) \/ Push(s)
    BY <1>1, <2>2 DEF SetSession, StoreLogin, RemoveSession, Claim, Push, netVars
  <2> QED BY <1>2, <1>3, <2>1, <2>2 DEF Handler
<1>4. ASSUME NEW c \in Client, Request(c) PROVE EventsGrow
  BY <1>1, <1>4 DEF Request, Login, Register, Logout, Reconnect, GiveUp, LoseLink, Connect, netVars
<1>5. ASSUME NEW n \in Node, NEW m \in Node, Peer(n, m) PROVE EventsGrow
  BY <1>1, <1>5 DEF Peer, Deliver, FinishLogin, Pull, RegisterPeer, RemovePeer
<1>6. ASSUME NEW n \in Node, Crash(n) \/ Start(n) PROVE EventsGrow
  BY <1>1, <1>6 DEF Crash, Start, netVars
<1>7. CASE UNCHANGED vars
  BY <1>1, <1>7 DEF vars, netVars
<1> QED BY <1>3, <1>4, <1>5, <1>6, <1>7 DEF Next

\* Who has moved once after a step had not moved more often before it.
LEMMA MovedBefore ==
    ASSUME TInv, EventsGrow, NEW u, MovedOnce(u)'
    PROVE  MovedOnce(u)
<1>1. \A i \in 1..Len(events) : i \in 1..Len(events') /\ events'[i] = events[i]
  BY Types DEF EventsGrow
<1>2. \A i \in 1..Len(events) : Moves(i, u)' <=> Moves(i, u)
  BY SameKinds
<1> QED BY <1>1, <1>2 DEF MovedOnce

\* Steps of the handlers.
LEMMA HandlerRecorded ==
    ASSUME TInv, TInv', Steady, NEW u \in User, MovedOnce(u)', Recording(u),
           NEW s \in Sock, Handler(s)
    PROVE  Recording(u)'
<1>1. ~CreateUser(s)
  BY DEF CreateUser, Steady, Enrolled
<1>2. CASE thread[s].user # u /\ (SetSession(s) \/ StoreLogin(s) \/ Claim(s))
  BY <1>2, HandlerAside, AsideKeeps
<1>3. CASE RemoveSession(s) \/ Push(s)
  BY <1>3, HandlerAside, AsideKeeps
<1>4. CASE thread[s].user # u /\ (RumorLogin(s) \/ RumorLogout(s) \/ RumorReconnect(s))
  <2>1. PICK kind \in {"LOGIN", "LOGOUT", "RECONNECT"} :
           /\ thread[s].pc # "idle" /\ Rumor(s, kind, thread[s].user)
           /\ UNCHANGED <<up, wire, applying, sessions, host>>
    BY <1>4 DEF RumorLogin, RumorLogout, RumorReconnect
  <2>2. Aside(u)
    BY <1>4, <2>1, RumorAside
  <2> QED BY <2>2, AsideKeeps
<1>5. CASE thread[s].user = u /\ RumorLogout(s)
  <2>1. thread[s].pc = "bye" /\ Rumor(s, "LOGOUT", u)
    BY <1>5 DEF RumorLogout
  <2>2. host[s] \in Node
    BY <2>1, KnownEvents
  <2>3. PICK e \in EventOf, i \in Nat, pc \in {"store", "push"} : Rumors(s, "LOGOUT", u, e, i, pc)
    BY <2>1, <2>2, RumorFacts
  <2>4. events'[i].kind = "LOGOUT" /\ events'[i].user = u /\ i = Len(events) + 1 /\ Len(events') = i
    BY <2>3 DEF Rumors
  <2>5. i \in 1..Len(events')
    BY <2>4, Types
  <2> QED BY <2>4, <2>5 DEF MovedOnce
<1>6. CASE thread[s].user = u /\ (SetSession(s) \/ StoreLogin(s) \/ Claim(s)
                                  \/ RumorLogin(s) \/ RumorReconnect(s))
  BY <1>6, SetSessionRecorded, StoreLoginRecorded, ClaimRecorded, RumorLoginRecorded,
     RumorReconnectRecorded
<1> QED BY <1>1, <1>2, <1>3, <1>4, <1>5, <1>6 DEF Handler

\* Steps of the clients.
LEMMA RequestRecorded ==
    ASSUME TInv, TInv', Steady, Patient, NEW u \in User, Recording(u), NEW c \in Client, Request(c)
    PROVE  Recording(u)'
<1>1. \A v \in User : ~Register(c, v)
  BY ReadySock DEF Register, Steady, Enrolled
<1>2. CASE Login(c, u)
  BY <1>2, LoginRecorded
<1>3. CASE Reconnect(c) /\ me[c] = u
  BY <1>3, ReconnectRecorded
<1>4. CASE \/ \E v \in User \ {u} : Login(c, v)
           \/ Reconnect(c) /\ me[c] # u
           \/ Logout(c) \/ GiveUp(c) \/ LoseLink(c) \/ \E n \in Node : Connect(c, n)
  BY <1>4, RequestAside, AsideKeeps
<1> QED BY <1>1, <1>2, <1>3, <1>4 DEF Request

\* Steps between the nodes.
LEMMA PeerRecorded ==
    ASSUME TInv, TInv', Steady, \E a, b \in Node : Node = {a, b}, NEW u \in User,
           MovedOnce(u), Recording(u), NEW n \in Node, NEW m \in Node, Peer(n, m)
    PROVE  Recording(u)'
<1>1. CASE Deliver(n, m)
  <2>1. ASSUME NEW i \in Range(wire[m][n]), Accepts(n, m, i), Opens(i, u) PROVE Recording(u)'
    BY <1>1, <2>1, HeardLoginRecorded, HeardMoveRecorded DEF Opens
  <2>2. CASE UNCHANGED <<log, applying, row, auth>>
    <3>1. \A i : Accepts(n, m, i) => FALSE
      <4>1. SUFFICES ASSUME NEW i, Accepts(n, m, i) PROVE FALSE
        OBVIOUS
      <4> QED BY <2>2, <4>1 DEF Accepts
    <3> QED BY <1>1, <3>1, PeerAside, AsideKeeps
  <2>3. ASSUME NEW i \in Range(wire[m][n]), Accepts(n, m, i), ~Opens(i, u) PROVE Recording(u)'
    <3>1. \A j : Accepts(n, m, j) => j = i
      <4>1. SUFFICES ASSUME NEW j, Accepts(n, m, j) PROVE j = i
        OBVIOUS
      <4>2. /\ j \notin Range(log[n]) /\ i \notin Range(log[n])
            /\ Range(log[n]) \cup {i} = Range(log[n]) \cup {j}
        BY <2>3, <4>1 DEF Accepts
      <4> QED BY <4>2
    <3> QED BY <1>1, <2>3, <3>1, PeerAside, AsideKeeps
  <2> QED BY <1>1, <2>1, <2>2, <2>3, DeliverFacts
<1>2. CASE FinishLogin(n, m) /\ Pending(n, m, u)
  BY <1>2, FinishLoginRecorded
<1>3. CASE \/ FinishLogin(n, m) /\ ~Pending(n, m, u)
           \/ Pull(n, m) \/ RegisterPeer(n, m) \/ RemovePeer(n, m)
  BY <1>3, PeerAside, AsideKeeps
<1> QED BY <1>1, <1>2, <1>3 DEF Peer

\* Every step keeps what is recorded of a user who has moved once.
LEMMA StepRecorded ==
    ASSUME TInv, TInv', FInv, Patient, \E a, b \in Node : Node = {a, b}, [Next]_vars
    PROVE  FInv'
<1>1. Steady /\ Steady'
  BY StepSteady DEF FInv
<1>2. SUFFICES ASSUME NEW u \in User, MovedOnce(u)' PROVE Recording(u)'
  BY <1>1 DEF FInv
<1>3. MovedOnce(u) /\ Recording(u)
  BY <1>1, <1>2, EventsStay, MovedBefore DEF FInv
<1>4. CASE UNCHANGED vars
  <2>1. UNCHANGED <<up, events, log, wire, applying, row, host, auth, thread>>
    BY <1>4 DEF vars, netVars, dbVars, sessionVars
  <2>2. \A r \in Sock : Apart(r, u)
    BY <2>1 DEF Apart, HostKept, Works
  <2>3. \A n, m \in Node : \A i \in Range(wire'[n][m]) : Alive(i)
    BY <2>1 DEF Alive
  <2> QED BY <1>3, <2>1, <2>2, <2>3, AsideQuietly, AsideKeeps
<1>5. ASSUME NEW s \in Sock, Handler(s) PROVE Recording(u)'
  BY <1>1, <1>2, <1>3, <1>5, HandlerRecorded
<1>6. ASSUME NEW c \in Client, Request(c) PROVE Recording(u)'
  BY <1>1, <1>3, <1>6, RequestRecorded
<1>7. ASSUME NEW n \in Node, NEW m \in Node, Peer(n, m) PROVE Recording(u)'
  BY <1>1, <1>3, <1>7, PeerRecorded
<1>8. ASSUME NEW n \in Node, Crash(n) \/ Start(n) PROVE Recording(u)'
  BY <1>1, <1>3, <1>8, CrashFacts, CrashRecorded, StartRecorded
<1> QED BY <1>4, <1>5, <1>6, <1>7, <1>8 DEF Next

\* Nothing is recorded at the start, when every account is a seed account.
LEMMA InitiallyRecorded ==
    ASSUME Init, SeedUser = User
    PROVE  FInv
<1>1. Steady
  BY InitiallySteady
<1>2. /\ Len(events) = 0 /\ 1..0 = {} /\ Range(<<>>) = {}
      /\ \A n \in Node : Range(log[n]) = {}
      /\ \A n, m \in Node : applying[n][m] = 0
  BY DEF Init, Range
<1>3. /\ \A s \in Sock : thread[s] = Idle /\ auth[s] = NoUser
      /\ \A n \in Node : \A u \in User : row[n][u] = NoNode
  BY DEF Init
<1>4. ASSUME NEW u \in User PROVE Recording(u)
  <2>1. u # NoUser /\ Idle.user = NoUser
    BY NullAssumption, Stages
  <2>2. OneWorker(u) /\ OneLogin(u)
    BY <1>2, <1>3, <2>1 DEF OneWorker, Works, OneLogin
  <2>3. ASSUME NEW s \in Sock PROVE SocketOk(s, u)
    <3>1. auth[s] # u /\ \A P : ~Stage(s, u, P)
      BY <1>3, <2>1 DEF Stage
    <3> QED BY <3>1 DEF SocketOk, LoggingIn, Claiming, SessionLogged, SessionMoved, SessionRow
  <2>4. ASSUME NEW n \in Node PROVE TableOk(n, u)
    BY <1>2, <1>3, NullAssumption DEF TableOk, Written, OwnRow, MoveWins, StillRight, Pending
  <2> QED BY <2>2, <2>3, <2>4 DEF Recording
<1> QED BY <1>1, <1>4 DEF FInv

\* A set of at most one event has no two.
LEMMA AtMostOne ==
    ASSUME NEW k \in Nat, NEW S \in SUBSET (1..k), Cardinality(S) <= 1
    PROVE  \A i, j \in S : i = j
<1>1. IsFiniteSet(S)
  <2>1. IsFiniteSet(1..k)
    BY FS_Interval
  <2> QED BY <2>1, FS_Subset
<1>2. Cardinality(S) \in Nat
  BY <1>1, FS_CardinalityType
<1>3. Cardinality(S) = 0 \/ Cardinality(S) = 1
  BY <1>2
<1>4. S = {} \/ \E x : S = {x}
  BY <1>1, <1>3, FS_EmptySet, FS_Singleton
<1> QED BY <1>4

\* What the handlers, logs and tables keep of u is the record once it has settled.
LEMMA RecordingMeans ==
    ASSUME TInv, Steady, \E a, b \in Node : Node = {a, b}, NEW u \in User, MovedOnce(u), Recording(u)
    PROVE  Recorded(u)
<1>1. SUFFICES ASSUME Settled(u), NEW n \in Node, up[n], NEW s \in Sock, auth[s] = u
               PROVE  row[n][u] = host[s]
  BY DEF Recorded, SessionsOf
<1>2. PICK h \in Node : h = host[s] /\ s \in sessions[h]
  BY <1>1, KnownEvents, NullAssumption
<1>3. up[h]
  BY <1>2 DEF Steady, Offline
<1>4. /\ \A i \in 1..Len(events) : Alive(i) /\ Opens(i, u) => i \in Range(log[h]) /\ i \in Range(log[n])
      /\ \A k, l \in Node : ~Pending(k, l, u)
      /\ \A r \in Sock : thread[r].user # u
  BY <1>1, <1>3, SettledHeard
<1>5. (\A P : ~Stage(s, u, P)) /\ \A k \in Node : ~Moving(u, k)
  <2>1. \A r \in Sock : thread[r] # At("moved", u, 0)
    BY <1>4 DEF At
  <2> QED BY <1>4, <2>1 DEF Stage, Moving
<1>6. SocketOk(s, u) /\ TableOk(n, u)
  BY DEF Recording
<1>7. row[h][u] = h
  BY <1>1, <1>2, <1>5, <1>6 DEF SocketOk, SessionRow
<1>8. PICK i \in Range(log[h]) : Opens(i, u) /\ events[i].node = h
  BY <1>1, <1>2, <1>5, <1>6 DEF SocketOk, SessionLogged
<1>9. i \in 1..Len(events) /\ i \in Range(log[n]) /\ Alive(i) /\ i # 0
  BY <1>4, <1>8, KnownEvents
<1>10. ASSUME NEW j \in Range(log[n]), Moves(j, u) PROVE row[n][u] = h
  <2>1. j \in Range(log[h])
    BY <1>4, <1>10, KnownEvents DEF Opens
  <2>2. events[j].node = h
    BY <1>1, <1>2, <1>5, <1>6, <1>10, <2>1 DEF SocketOk, SessionMoved
  <2> QED BY <1>5, <1>6, <1>10, <2>2 DEF TableOk, MoveWins
<1>11. ASSUME \A j \in Range(log[n]) : ~Moves(j, u), n # h PROVE row[n][u] = h
  <2>1. row[n][u] # NoNode
    <3>1. \A m \in Node : applying[n][m] # i
      BY <1>4, <1>8, <1>9 DEF Pending, Opens, Enters, Moves
    <3>2. \A r \in Sock : ~(thread[r].pc = "store" /\ thread[r].ev = i)
      <4>1. events[i].user = u
        BY <1>8 DEF Opens, Enters, Moves
      <4> QED BY <1>4, <4>1, Types DEF Threads, ThreadOk
    <3> QED BY <1>6, <1>8, <1>9, <3>1, <3>2 DEF TableOk, Written
  <2>2. row[n][u] \in Node
    BY <2>1, Types
  <2>3. row[n][u] = n \/ row[n][u] = h
    BY <1>11, <2>2, OtherNode
  <2>4. ASSUME row[n][u] = n PROVE FALSE
    <3>1. PICK j \in Range(log[n]) : Opens(j, u) /\ events[j].node = n
      BY <1>1, <1>5, <1>6, <2>4 DEF TableOk, OwnRow
    <3>2. j \in 1..Len(events) /\ Alive(j)
      BY <3>1, KnownEvents
    <3>3. Enters(j, u) /\ Enters(i, u)
      BY <1>8, <1>9, <1>11, <3>1 DEF Opens
    <3>4. i = j
      BY <1>9, <3>2, <3>3 DEF Recording, OneLogin
    <3> QED BY <1>8, <1>11, <3>1, <3>4
  <2> QED BY <2>3, <2>4
<1> QED BY <1>2, <1>7, <1>10, <1>11

\* FInv is strong enough.
LEMMA MovesRecordedMeans ==
    ASSUME TInv, FInv, \E a, b \in Node : Node = {a, b}
    PROVE  FailoverRecorded
<1>1. SUFFICES ASSUME NEW u \in User,
                      {i \in 1..Len(events) : events[i].kind = "LOGOUT" /\ events[i].user = u} = {},
                      Cardinality({i \in 1..Len(events) :
                                     events[i].kind = "RECONNECT" /\ events[i].user = u}) <= 1
               PROVE  Recorded(u)
  BY DEF FailoverRecorded
<1> DEFINE moves == {i \in 1..Len(events) : events[i].kind = "RECONNECT" /\ events[i].user = u}
<1>2. Len(events) \in Nat /\ moves \in SUBSET (1..Len(events)) /\ Cardinality(moves) <= 1
  BY <1>1, Types
<1>3. \A i \in 1..Len(events) : Moves(i, u) <=> i \in moves
  BY DEF Moves
<1> HIDE DEF moves
<1>4. \A i, j \in moves : i = j
  BY <1>2, AtMostOne
<1>5. MovedOnce(u)
  BY <1>1, <1>3, <1>4 DEF MovedOnce
<1> QED BY <1>5, RecordingMeans DEF FInv

\* Failover between two nodes, whatever crashes, restarts, is cut or lost, for any
\* number of users, clients, connections and requests: once the events of a user who
\* has not logged out and has moved once have settled, every running node records the
\* user where the session is.  Accounts are those init.sql creates on every node, and
\* clients act when the user's events have settled.
THEOREM MovesRecorded ==
    Patient /\ SeedUser = User /\ (\E a, b \in Node : Node = {a, b})
        => (Spec => []FailoverRecorded)
<1>1. SUFFICES ASSUME Patient, SeedUser = User, \E a, b \in Node : Node = {a, b}
               PROVE  Spec => []FailoverRecorded
  OBVIOUS
<1>2. Init => TInv /\ FInv
  BY <1>1, InitiallyTyped, InitiallyRecorded
<1>3. TInv /\ FInv /\ [Next]_vars => (TInv /\ FInv)'
  BY <1>1, StepTyped, StepRecorded
<1>4. TInv /\ FInv => FailoverRecorded
  BY <1>1, MovesRecordedMeans
<1> QED BY <1>2, <1>3, <1>4, PTL DEF Spec

-----------------------------------------------------------------------------
(***************************************************************************)
(* Two nodes, patient clients, no faults of nodes or of the link between   *)
(* them: the tables are exact.                                             *)
(***************************************************************************)

\* Event i is a LOGOUT of u.
Quits(i, u) == events[i].kind = "LOGOUT" /\ events[i].user = u

\* LOGOUT o ends the session that the user's last LOGIN before it has begun.
Ended(o, u) ==
    \E i \in 1..Len(events) :
        /\ i < o /\ Enters(i, u) /\ events[i].node = events[o].node
        /\ \A k \in 1..Len(events) : About(k, u) /\ k < o => k <= i

\* LOGIN and LOGOUT of a user take turns.
Alternating(u) ==
    /\ \A o \in 1..Len(events) : Quits(o, u) => Ended(o, u)
    /\ \A i, j \in 1..Len(events) : Enters(i, u) /\ Enters(j, u) /\ i < j =>
          \E o \in 1..Len(events) : Quits(o, u) /\ i < o /\ o < j

\* s is u's session, rumored, or the session whose LOGOUT is about to be rumored.
InSession(s, u) == (auth[s] = u /\ thread[s].pc # "rumor") \/ Stage(s, u, {"bye"})

\* The last event about u's sessions is a LOGIN.
LoggedIn(u) == \E i \in 1..Len(events) : LastLogin(i) /\ events[i].user = u

\* The last LOGIN is the one of the session.
Homed(s, u) ==
    InSession(s, u) =>
        \E i \in 1..Len(events) : LastLogin(i) /\ events[i].user = u /\ events[i].node = host[s]

\* Who logs in is not logged in.
Fresh(s) == Starting(s) => ~LoggedIn(thread[s].user)

\* A user whose last event is a LOGIN has a session where it was made.
Kept(i) ==
    LastLogin(i) => \E s \in Sock : Holds(s, events[i].user) /\ host[s] = events[i].node

History ==
    /\ \A u \in User : Alternating(u)
    /\ \A s \in Sock, u \in User : Homed(s, u)
    /\ \A s \in Sock : Fresh(s)
    /\ \A i \in 1..Len(events) : Kept(i)

\* An event that has been pushed is in every log, or on its way from its node.
Sent(i) ==
    (\A s \in Sock : thread[s].ev # i) =>
        \A m \in Node : i \in Range(log[m]) \/ i \in Range(wire[events[i].node][m])

\* No node has a LOGOUT before the LOGINs that precede it, and no connection brings
\* it one.
FirstIn(n, u) ==
    \A o \in Range(log[n]) : Quits(o, u) =>
        \A i \in 1..Len(events) : Enters(i, u) /\ i < o => i \in Range(log[n])
Ordered(q, n, u) ==
    \A k \in 1..Len(q) : Quits(q[k], u) =>
        \A i \in 1..Len(events) : Enters(i, u) /\ i < q[k] =>
            i \in Range(log[n]) \/ \E j \in 1..(k - 1) : q[j] = i

Carried ==
    /\ \A i \in 1..Len(events) : Sent(i)
    /\ \A n \in Node, u \in User : FirstIn(n, u)
    /\ \A m, n \in Node, u \in User : Ordered(wire[m][n], n, u)

\* For node n the last event about u's sessions is LOGIN i.
Online(n, u, i) ==
    /\ i \in Range(log[n]) /\ Enters(i, u)
    /\ \A k \in Range(log[n]) : About(k, u) => k <= i

\* The table of n says so, or will.
Exact(n, u) ==
    /\ \A i \in Range(log[n]) : Online(n, u, i) =>
          \/ row[n][u] = events[i].node
          \/ /\ row[n][u] = NoNode
             /\ \/ \E m \in Node : applying[n][m] = i
                \/ \E s \in Sock : host[s] = n /\ thread[s].pc = "store" /\ thread[s].ev = i
    /\ (\A i \in Range(log[n]) : ~Online(n, u, i)) => row[n][u] = NoNode

\* A LOGIN that is being stored is the last one of its user.
Writing ==
    /\ \A n, m \in Node : applying[n][m] # 0 => Online(n, events[applying[n][m]].user, applying[n][m])
    /\ \A s \in Sock : thread[s].pc = "store" => Online(host[s], thread[s].user, thread[s].ev)
    /\ \A n \in Node : applying[n][n] = 0

Tables == Writing /\ \A n \in Node, u \in User : Exact(n, u)

PInv == History /\ Carried /\ Tables

\* A socket goes on: its session, if it has one, is the one it had, its handler starts
\* only where nobody is logged in, and a user who is logged in is not let go.
Continues(r) ==
    /\ HostKept(r)
    /\ \A u \in User : InSession(r, u)' => InSession(r, u)
    /\ Starting(r)' => \/ Starting(r) /\ thread'[r].user = thread[r].user
                       \/ ~LoggedIn(thread'[r].user)
    /\ \A u \in User : Holds(r, u) => Holds(r, u)' \/ ~LoggedIn(u)

\* A socket nothing happens to goes on.
LEMMA StaysOn ==
    ASSUME TInv, EventsGrow, NEW r \in Sock, thread'[r] = thread[r], auth'[r] = auth[r], HostKept(r)
    PROVE  Continues(r)
<1>1. (Starting(r)' <=> Starting(r)) /\ \A u : Holds(r, u)' <=> Holds(r, u)
  BY SameRole
<1>2. \A u : InSession(r, u)' <=> InSession(r, u)
  BY DEF InSession, Stage
<1> QED BY <1>1, <1>2 DEF Continues

\* Steps that rumor nothing.
LEMMA HistoryKept ==
    ASSUME TInv, History, UNCHANGED events, \A r \in Sock : Continues(r)
    PROVE  History'
<1>1. /\ \A k, u : About(k, u)' <=> About(k, u)
      /\ \A i : LastLogin(i)' <=> LastLogin(i)
  BY SameAbout
<1>2. \A i, u : (Enters(i, u)' <=> Enters(i, u)) /\ (Quits(i, u)' <=> Quits(i, u))
  BY DEF Enters, Quits
<1>3. \A u : LoggedIn(u)' <=> LoggedIn(u)
  BY <1>1 DEF LoggedIn
<1>4. ASSUME NEW u \in User PROVE Alternating(u)'
  <2>1. \A o : Ended(o, u)' <=> Ended(o, u)
    BY <1>1, <1>2 DEF Ended
  <2> QED BY <1>2, <2>1 DEF History, Alternating
<1>5. ASSUME NEW s \in Sock, NEW u \in User, InSession(s, u)'
      PROVE  \E i \in 1..Len(events) : LastLogin(i) /\ events[i].user = u /\ events[i].node = host'[s]
  <2>1. InSession(s, u)
    BY <1>5 DEF Continues
  <2>2. host[s] \in Node
    BY <2>1, KnownEvents, NullAssumption DEF InSession, Stage
  <2>3. host'[s] = host[s]
    BY <2>2 DEF Continues, HostKept
  <2> QED BY <2>1, <2>3 DEF History, Homed
<1>6. \A s \in Sock, u \in User : Homed(s, u)'
  BY <1>1, <1>5 DEF Homed
<1>7. \A s \in Sock : Fresh(s)'
  BY <1>3 DEF History, Fresh, Continues
<1>8. ASSUME NEW i \in 1..Len(events), LastLogin(i)
      PROVE  \E s \in Sock : Holds(s, events[i].user)' /\ host'[s] = events[i].node
  <2>1. PICK s \in Sock : Holds(s, events[i].user) /\ host[s] = events[i].node
    BY <1>8 DEF History, Kept
  <2>2. events[i].user \in User /\ events[i].node \in Node /\ LoggedIn(events[i].user)
    BY <1>8, EventFields DEF LoggedIn
  <2> QED BY <2>1, <2>2 DEF Continues, HostKept
<1>9. \A i \in 1..Len(events') : Kept(i)'
  <2>1. \A i, s : Holds(s, events[i].user)' <=> auth'[s] = events[i].user \/ thread'[s].user = events[i].user
    BY DEF Holds
  <2> QED BY <1>1, <1>8, <2>1 DEF Kept, Holds
<1> QED BY <1>4, <1>6, <1>7, <1>9 DEF History

\* A handler that has rumored a LOGIN and not pushed it has rumored the last one.
LEMMA HandlesLast ==
    ASSUME TInv, OInv, NEW s \in Sock, thread[s].pc \in {"store", "push"},
           events[thread[s].ev].kind = "LOGIN"
    PROVE  LastLogin(thread[s].ev)
<1> DEFINE i == thread[s].ev
           u == thread[s].user
<1>1. i \in 1..Len(events) /\ events[i].user = u /\ u \in User /\ Len(events) \in Nat
  BY Types DEF Threads, ThreadOk
<1>2. ~Leaving(s) /\ ~Starting(s)
  BY DEF Leaving, Starting, PushesAccount
<1>3. auth[s] = u
  BY <1>2 DEF OInv, Roles, RoleOk
<1>4. PICK j \in 1..Len(events) : LastLogin(j) /\ events[j].user = u
  BY <1>1, <1>3, NullAssumption DEF OInv, Latest
<1> HIDE DEF i, u
<1>5. i <= j
  <2>1. About(i, u)
    BY <1>1 DEF About, i
  <2> QED BY <1>1, <1>4, <2>1 DEF LastLogin
<1>6. CASE i < j
  <2>1. i \in 1..(j - 1) /\ events[j].kind = "LOGIN" /\ About(i, events[j].user)
    BY <1>1, <1>4, <1>6 DEF LastLogin, About, i
  <2>2. Done(i)
    BY <2>1 DEF OInv, Past
  <2> QED BY <2>2 DEF Done, i
<1>7. i = j \/ i < j
  BY <1>1, <1>5
<1> QED BY <1>4, <1>6, <1>7 DEF i

\* One socket goes on, and nothing happens to the others.
LEMMA OneGoesOn ==
    ASSUME TInv, History, NEW s \in Sock, UNCHANGED <<events, host>>, Continues(s),
           \A r \in Sock : r # s => thread'[r] = thread[r] /\ auth'[r] = auth[r]
    PROVE  History'
<1>1. EventsGrow
  BY SameEvents
<1>2. \A r \in Sock : r # s => Continues(r)
  BY <1>1, StaysOn DEF HostKept
<1> QED BY <1>2, HistoryKept

\* Steps that leave the sockets alone.
LEMMA QuietHistory ==
    ASSUME TInv, History, UNCHANGED <<events, thread, auth>>, \A r \in Sock : HostKept(r)
    PROVE  History'
<1>1. EventsGrow
  BY SameEvents
<1> QED BY <1>1, StaysOn, HistoryKept

\* A user without a session, whose events have settled, is not logged in.
LEMMA NotLoggedIn ==
    ASSUME TInv, History, NEW u \in User, Settled(u), \A r \in Sock : auth[r] # u
    PROVE  ~LoggedIn(u)
<1>1. SUFFICES ASSUME LoggedIn(u) PROVE FALSE
  OBVIOUS
<1>2. PICK i \in 1..Len(events) : LastLogin(i) /\ events[i].user = u
  BY <1>1 DEF LoggedIn
<1>3. PICK s \in Sock : Holds(s, u)
  BY <1>2 DEF History, Kept
<1> QED BY <1>3 DEF Holds, Settled

\* LOGIN and REGISTER begin only when nobody is logged in.
LEMMA BeginsHistory ==
    ASSUME TInv, OInv, History, NEW c \in Client, NEW s \in Sock, NEW u \in User,
           NEW pc \in {"set", "create"}, s = sock[c], Ready(c), me[c] = NoUser, Settled(u),
           \A r \in Sock : auth[r] # u, thread' = [thread EXCEPT ![s] = At(pc, u, 0)],
           UNCHANGED <<events, host, auth>>
    PROVE  History'
<1>1. thread[s].pc = "idle" /\ thread[s].user = NoUser /\ s # NoSock
  BY ReadySock, Stages DEF Ready
<1>2. auth[s] = NoUser
  BY <1>1 DEF OInv, Roles, Knows
<1>3. At(pc, u, 0).pc = pc /\ At(pc, u, 0).user = u
  BY DEF At
<1>4. /\ thread'[s].pc = pc /\ thread'[s].user = u
      /\ \A r \in Sock : r # s => thread'[r] = thread[r]
  BY <1>3, Types
<1>5. ~LoggedIn(u)
  BY NotLoggedIn
<1>6. \A v \in User : ~InSession(s, v)' /\ ~Holds(s, v)
  BY <1>1, <1>2, <1>4, NullAssumption DEF InSession, Stage, Holds
<1>7. Continues(s)
  BY <1>4, <1>5, <1>6 DEF Continues, HostKept
<1> QED BY <1>4, <1>7, OneGoesOn

\* LOGOUT and removeSession: the session's LOGOUT is about to be rumored.
LEMMA EndsHistory ==
    ASSUME TInv, History, NEW s \in Sock, thread[s] = Idle, UNCHANGED <<events, host>>,
           auth' = [auth EXCEPT ![s] = NoUser],
           thread' = [thread EXCEPT ![s] = IF auth[s] = NoUser THEN Idle ELSE At("bye", auth[s], 0)]
    PROVE  History'
<1> DEFINE t == IF auth[s] = NoUser THEN Idle ELSE At("bye", auth[s], 0)
<1>1. t.pc \in {"idle", "bye"} /\ t.user = auth[s]
  BY DEF Idle, At
<1>2. thread' = [thread EXCEPT ![s] = t] /\ thread[s].pc = "idle" /\ thread[s].user = NoUser
  BY Stages
<1> HIDE DEF t
<1>3. /\ thread'[s] = t /\ auth'[s] = NoUser
      /\ \A r \in Sock : r # s => thread'[r] = thread[r] /\ auth'[r] = auth[r]
  BY <1>2, Types
<1>4. \A u \in User : (InSession(s, u)' => InSession(s, u)) /\ (Holds(s, u) => Holds(s, u)')
  BY <1>1, <1>2, <1>3, NullAssumption DEF InSession, Stage, Holds
<1>5. ~Starting(s)'
  BY <1>1, <1>3 DEF Starting, PushesAccount
<1>6. Continues(s)
  BY <1>4, <1>5 DEF Continues, HostKept
<1> QED BY <1>3, <1>6, OneGoesOn

\* The requests of clients.
LEMMA RequestHistory ==
    ASSUME TInv, AInv, OInv, History, Patient, NEW c \in Client, Request(c)
    PROVE  History'
<1>1. ASSUME NEW u \in User, Login(c, u) PROVE History'
  <2>1. PICK s \in Sock : s = sock[c] /\ host[s] \in Node
    BY <1>1, ReadySock DEF Login
  <2>2. /\ Ready(c) /\ me[c] = NoUser /\ Settled(u) /\ row[host[s]][u] = NoNode
        /\ thread' = [thread EXCEPT ![s] = At("set", u, 0)]
        /\ UNCHANGED <<events, host, auth>>
    BY <1>1, <2>1 DEF Login, MayAct, netVars
  <2>3. \A r \in Sock : auth[r] # u
    BY <2>1, <2>2, NobodyIn
  <2> QED BY <2>1, <2>2, <2>3, BeginsHistory
<1>2. ASSUME NEW u \in User, Register(c, u) PROVE History'
  <2>1. PICK s \in Sock : s = sock[c] /\ host[s] \in Node
    BY <1>2, ReadySock DEF Register
  <2>2. /\ Ready(c) /\ me[c] = NoUser /\ Settled(u) /\ account[host[s]][u] = NoNode
        /\ thread' = [thread EXCEPT ![s] = At("create", u, 0)]
        /\ UNCHANGED <<events, host, auth>>
    BY <1>2, <2>1 DEF Register, MayAct, netVars
  <2>3. ASSUME NEW r \in Sock, auth[r] = u PROVE FALSE
    <3>1. host[r] \in Node /\ account[host[r]][u] # NoNode
      BY <2>3, Types, NullAssumption DEF Serving
    <3>2. \A n, m \in Node : account[n][u] = account[m][u]
      BY <2>2, InvariantMeansAgreement DEF AccountsAgree, AInv, Running
    <3> QED BY <2>1, <2>2, <3>1, <3>2
  <2> QED BY <2>1, <2>2, <2>3, BeginsHistory
<1>3. CASE Logout(c)
  <2>1. PICK s \in Sock : s = sock[c] /\ thread[s] = Idle
    BY <1>3, ReadySock DEF Logout
  <2>2. /\ auth' = [auth EXCEPT ![s] = NoUser]
        /\ thread' = [thread EXCEPT ![s] = IF auth[s] = NoUser THEN Idle ELSE At("bye", auth[s], 0)]
        /\ UNCHANGED <<events, host>>
    BY <1>3, <2>1 DEF Logout, netVars
  <2> QED BY <2>1, <2>2, EndsHistory
<1>4. CASE GiveUp(c) \/ LoseLink(c)
  <2>1. UNCHANGED <<events, thread, auth, host>>
    BY <1>4 DEF GiveUp, LoseLink, netVars, sessionVars
  <2> QED BY <2>1, QuietHistory DEF HostKept
<1>5. ASSUME NEW n \in Node, Connect(c, n) PROVE History'
  <2>1. PICK s \in Sock : host[s] = NoNode /\ host' = [host EXCEPT ![s] = n]
    BY <1>5 DEF Connect
  <2>2. UNCHANGED <<events, thread, auth>>
    BY <1>5 DEF Connect, netVars
  <2>3. \A r \in Sock : HostKept(r)
    BY <2>1, Types, NullAssumption DEF HostKept
  <2> QED BY <2>2, <2>3, QuietHistory
<1> QED BY <1>1, <1>2, <1>3, <1>4, <1>5, NothingToResume DEF Request

\* Handlers that rumor nothing.
LEMMA HandlerHistory ==
    ASSUME TInv, OInv, History, NEW s \in Sock,
           SetSession(s) \/ StoreLogin(s) \/ RemoveSession(s) \/ Push(s)
    PROVE  History'
<1>0. ThreadOk(s) /\ RoleOk(s) /\ UNCHANGED <<events, host>>
  BY Types DEF Threads, OInv, Roles, SetSession, StoreLogin, RemoveSession, Push, netVars
<1>1. CASE SetSession(s)
  <2>1. /\ thread[s].pc = "set" /\ auth' = [auth EXCEPT ![s] = thread[s].user]
        /\ thread' = [thread EXCEPT ![s].pc = "rumor"]
    BY <1>1 DEF SetSession
  <2>2. /\ thread'[s].pc = "rumor" /\ thread'[s].user = thread[s].user
        /\ \A r \in Sock : r # s => thread'[r] = thread[r]
    <3>1. "rumor" \in PC /\ thread \in [Sock -> ThreadType]
      BY Types DEF PC
    <3> QED BY <2>1, <3>1, NextStage
  <2>3. \A r \in Sock : r # s => auth'[r] = auth[r]
    BY <2>1, Types
  <2>4. Starting(s) /\ auth[s] = NoUser
    BY <1>0, <2>1 DEF Starting, RoleOk
  <2>5. \A u \in User : ~InSession(s, u)' /\ (Holds(s, u) => Holds(s, u)')
    BY <2>2, <2>4, NullAssumption DEF InSession, Stage, Holds
  <2>6. Continues(s)
    BY <1>0, <2>2, <2>4, <2>5 DEF Continues, HostKept
  <2> QED BY <1>0, <2>2, <2>3, <2>6, OneGoesOn
<1>2. CASE StoreLogin(s)
  <2>1. thread[s].pc = "store" /\ thread' = [thread EXCEPT ![s].pc = "push"] /\ UNCHANGED auth
    BY <1>2 DEF StoreLogin
  <2>2. /\ thread'[s].pc = "push" /\ thread'[s].user = thread[s].user /\ thread'[s].ev = thread[s].ev
        /\ \A r \in Sock : r # s => thread'[r] = thread[r]
    <3>1. "push" \in PC /\ thread \in [Sock -> ThreadType]
      BY Types DEF PC
    <3> QED BY <2>1, <3>1, NextStage
  <2>3. ~Starting(s)'
    BY <1>0, <2>1, <2>2 DEF Starting, PushesAccount, ThreadOk
  <2>4. \A u \in User : (InSession(s, u)' => InSession(s, u)) /\ (Holds(s, u) => Holds(s, u)')
    BY <2>1, <2>2 DEF InSession, Stage, Holds
  <2>5. Continues(s)
    BY <1>0, <2>3, <2>4 DEF Continues, HostKept
  <2> QED BY <1>0, <2>1, <2>2, <2>5, OneGoesOn
<1>3. CASE RemoveSession(s)
  <2>1. /\ thread[s] = Idle /\ auth' = [auth EXCEPT ![s] = NoUser]
        /\ thread' = [thread EXCEPT ![s] = IF auth[s] = NoUser THEN Idle ELSE At("bye", auth[s], 0)]
    BY <1>3 DEF RemoveSession
  <2> QED BY <1>0, <2>1, EndsHistory
<1>4. CASE Push(s)
  <2> DEFINE i == thread[s].ev
             t == IF events[i].kind = "USER_CREATED" THEN At("set", thread[s].user, 0) ELSE Idle
  <2>1. thread[s].pc = "push" /\ thread' = [thread EXCEPT ![s] = t] /\ UNCHANGED auth
    BY <1>4 DEF Push
  <2>2. /\ events[i].kind = "USER_CREATED" => t.pc = "set" /\ t.user = thread[s].user /\ Starting(s)
        /\ events[i].kind # "USER_CREATED" => t.pc = "idle" /\ t.user = NoUser
        /\ events[i].kind \notin {"USER_CREATED", "LOGOUT"} => auth[s] = thread[s].user
        /\ t.pc \in {"set", "idle"}
        /\ i \in 1..Len(events) /\ events[i].user = thread[s].user
    BY <1>0, <2>1 DEF At, Idle, Starting, PushesAccount, RoleOk, Leaving, ThreadOk
  <2> HIDE DEF t, i
  <2>3. thread'[s] = t /\ \A r \in Sock : r # s => thread'[r] = thread[r]
    BY <2>1, Types
  <2>4. \A u \in User : InSession(s, u)' => InSession(s, u)
    BY <2>1, <2>2, <2>3 DEF InSession, Stage
  <2>5. Starting(s)' => Starting(s) /\ thread'[s].user = thread[s].user
    BY <2>2, <2>3 DEF Starting, PushesAccount
  <2>6. ASSUME NEW u \in User, Holds(s, u), ~Holds(s, u)', LoggedIn(u) PROVE FALSE
    <3>1. thread[s].user = u /\ events[i].kind = "LOGOUT"
      BY <2>1, <2>2, <2>3, <2>6 DEF Holds
    <3>2. PICK j \in 1..Len(events) : LastLogin(j) /\ events[j].user = u
      BY <2>6 DEF LoggedIn
    <3>3. About(i, u)
      BY <2>2, <3>1 DEF About
    <3>4. i <= j /\ i # j
      BY <2>2, <3>1, <3>2, <3>3 DEF LastLogin
    <3>5. i \in 1..(j - 1)
      BY <2>2, <3>2, <3>4, Types
    <3>6. Done(i)
      BY <3>2, <3>3, <3>5 DEF OInv, Past, LastLogin
    <3> QED BY <3>6 DEF Done, i
  <2>7. Continues(s)
    BY <1>0, <2>4, <2>5, <2>6 DEF Continues, HostKept
  <2> QED BY <1>0, <2>1, <2>3, <2>7, OneGoesOn
<1> QED BY <1>1, <1>2, <1>3, <1>4

\* REGISTER of a name that was taken since the check.
LEMMA TakenHistory ==
    ASSUME TInv, OInv, History, NEW s \in Sock, thread[s].pc = "create",
           thread' = [thread EXCEPT ![s] = Idle], UNCHANGED <<events, host, auth>>
    PROVE  History'
<1>1. RoleOk(s) /\ Starting(s)
  BY DEF OInv, Roles, Starting
<1>2. auth[s] = NoUser
  BY <1>1 DEF RoleOk
<1>3. /\ thread'[s].pc = "idle" /\ thread'[s].user = NoUser
      /\ \A r \in Sock : r # s => thread'[r] = thread[r]
  BY Types, Stages
<1>4. \A u \in User : ~InSession(s, u)' /\ (Holds(s, u) => ~LoggedIn(u))
  BY <1>1, <1>2, <1>3, NullAssumption DEF InSession, Stage, Holds, History, Fresh
<1>5. ~Starting(s)'
  BY <1>3 DEF Starting, PushesAccount
<1>6. Continues(s)
  BY <1>4, <1>5 DEF Continues, HostKept
<1> QED BY <1>3, <1>6, OneGoesOn

\* Event i, rumored by the handler of s on node n, which is then at stage pc.
News(s, kind, u, n, i, pc) ==
    /\ n = host[s] /\ i = Len(events) + 1 /\ i \in 1..Len(events') /\ EventsGrow
    /\ events'[i].kind = kind /\ events'[i].user = u /\ events'[i].node = n
    /\ \A k \in 1..Len(events) : k \in 1..Len(events') /\ k < i /\ events'[k] = events[k]
    /\ \A k \in 1..Len(events') : k \in 1..Len(events) \/ k = i
    /\ pc = "store" <=> kind = "LOGIN" /\ row[n][u] \in {NoNode, n}
    /\ thread'[s].pc = pc /\ thread'[s].user = u /\ thread'[s].ev = i
    /\ \A r \in Sock : r # s => thread'[r] = thread[r]
    /\ Range(log'[n]) = Range(log[n]) \cup {i}
    /\ \A m \in Node : m # n => log'[m] = log[m]
    /\ UNCHANGED auth
    /\ \A m \in Node, v \in User : m # n \/ v # u \/ kind # "LOGOUT" => row'[m][v] = row[m][v]
    /\ kind = "LOGOUT" => row'[n][u] = NoNode

\* The handler's rumor, in those words.
LEMMA RumorNews ==
    ASSUME TInv, NEW s \in Sock, NEW kind \in {"LOGIN", "LOGOUT", "USER_CREATED"},
           NEW u \in User, host[s] \in Node, Rumor(s, kind, u)
    PROVE  \E n \in Node, i \in Nat, pc \in {"store", "push"} : News(s, kind, u, n, i, pc)
<1>n. PICK n \in Node : n = host[s]
  OBVIOUS
<1>r. PICK e \in EventOf, i \in Nat, pc \in {"store", "push"} : Rumors(s, kind, u, e, i, pc)
  <2>1. kind \in {"LOGIN", "LOGOUT", "RECONNECT", "USER_CREATED"}
    OBVIOUS
  <2> QED BY <2>1, RumorFacts
<1>1. /\ e.kind = kind /\ e.user = u /\ e.node = n
      /\ i = Len(events) + 1 /\ Len(events') = i /\ events'[i] = e
      /\ EventsGrow /\ ApplyEvent(n, e)
      /\ pc = "store" <=> kind = "LOGIN" /\ StoresLogin(n, e)
      /\ thread'[s] = At(pc, u, i)
      /\ \A r \in Sock : r # s => thread'[r] = thread[r]
      /\ Range(log'[n]) = Range(log[n]) \cup {i}
      /\ \A m \in Node : m # n => log'[m] = log[m]
  BY <1>n, <1>r DEF Rumors
<1>2. /\ UNCHANGED auth
      /\ \A m \in Node, v \in User : m # n \/ v # u \/ kind # "LOGOUT" => row'[m][v] = row[m][v]
      /\ kind = "LOGOUT" => row'[n][u] = NoNode
  BY <1>1, Applied
<1>3. /\ i \in 1..Len(events')
      /\ \A k \in 1..Len(events) : k \in 1..Len(events') /\ k < i /\ events'[k] = events[k]
      /\ \A k \in 1..Len(events') : k \in 1..Len(events) \/ k = i
  <2>1. /\ Len(events) \in Nat /\ i = Len(events) + 1 /\ Len(events') = i
        /\ \A k \in 1..Len(events) : events'[k] = events[k]
    BY <1>1, Types DEF EventsGrow
  <2>2. \A k \in 1..Len(events) : k \in 1..i /\ k < i
    BY <2>1
  <2>3. \A k \in 1..i : k \in 1..Len(events) \/ k = i
    BY <2>1
  <2> QED BY <2>1, <2>2, <2>3
<1>4. thread'[s].pc = pc /\ thread'[s].user = u /\ thread'[s].ev = i
  BY <1>1 DEF At
<1>5. pc = "store" <=> kind = "LOGIN" /\ row[n][u] \in {NoNode, n}
  BY <1>1 DEF StoresLogin
<1>6. News(s, kind, u, n, i, pc)
  BY <1>n, <1>1, <1>2, <1>3, <1>4, <1>5 DEF News
<1> QED BY <1>6

\* What the events say after a rumor.
LEMMA NewsKinds ==
    ASSUME TInv, NEW s \in Sock, NEW kind \in {"LOGIN", "LOGOUT", "USER_CREATED"}, NEW u \in User,
           NEW n \in Node, NEW i \in Nat, NEW pc, News(s, kind, u, n, i, pc)
    PROVE  /\ i \notin 1..Len(events)
           /\ \A k \in 1..Len(events) : \A v : /\ About(k, v)' <=> About(k, v)
                                               /\ Enters(k, v)' <=> Enters(k, v)
                                               /\ Quits(k, v)' <=> Quits(k, v)
           /\ \A v : /\ About(i, v)' <=> v = u /\ kind # "USER_CREATED"
                     /\ Enters(i, v)' <=> v = u /\ kind = "LOGIN"
                     /\ Quits(i, v)' <=> v = u /\ kind = "LOGOUT"
           /\ \A j \in 1..Len(events) :
                 LastLogin(j)' <=> LastLogin(j) /\ (events[j].user # u \/ kind = "USER_CREATED")
           /\ LastLogin(i)' <=> kind = "LOGIN"
<1>1. i \notin 1..Len(events)
  BY Types DEF News
<1>2. \A k \in 1..Len(events) : k \in 1..Len(events') /\ k < i /\ events'[k] = events[k]
  BY DEF News
<1>3. /\ \A k \in 1..Len(events') : k \in 1..Len(events) \/ k = i
      /\ i \in 1..Len(events') /\ events'[i].kind = kind /\ events'[i].user = u
  BY DEF News
<1>4. \A k \in 1..Len(events) : \A v : /\ About(k, v)' <=> About(k, v)
                                       /\ Enters(k, v)' <=> Enters(k, v)
                                       /\ Quits(k, v)' <=> Quits(k, v)
  BY <1>2 DEF About, Enters, Quits
<1>5. \A v : /\ About(i, v)' <=> v = u /\ kind # "USER_CREATED"
             /\ Enters(i, v)' <=> v = u /\ kind = "LOGIN"
             /\ Quits(i, v)' <=> v = u /\ kind = "LOGOUT"
  BY <1>3 DEF About, Enters, Quits
<1>6. ASSUME NEW j \in 1..Len(events)
      PROVE  LastLogin(j)' <=> LastLogin(j) /\ (events[j].user # u \/ kind = "USER_CREATED")
  <2>1. PICK v : v = events[j].user /\ v = events'[j].user
    BY <1>2
  <2>2. LastLogin(j)' <=> /\ events[j].kind = "LOGIN"
                          /\ \A k \in 1..Len(events') : About(k, v)' => k <= j
    BY <1>2, <2>1 DEF LastLogin, About
  <2>3. LastLogin(j) <=> events[j].kind = "LOGIN" /\ \A k \in 1..Len(events) : About(k, v) => k <= j
    BY <2>1 DEF LastLogin
  <2>4. (\A k \in 1..Len(events') : About(k, v)' => k <= j) <=>
            /\ \A k \in 1..Len(events) : About(k, v) => k <= j
            /\ ~About(i, v)'
    <3>1. ~(i <= j)
      BY <1>2, Types
    <3> QED BY <1>2, <1>3, <1>4, <3>1
  <2> QED BY <1>5, <2>1, <2>2, <2>3, <2>4
<1>7. LastLogin(i)' <=> kind = "LOGIN"
  <2>1. Len(events) \in Nat
    BY Types
  <2>2. \A k \in 1..Len(events) : k <= i
    BY <1>2, <2>1
  <2>3. \A k \in 1..Len(events') : k <= i
    BY <1>3, <2>2
  <2> QED BY <1>3, <2>3 DEF LastLogin
<1> QED BY <1>1, <1>4, <1>5, <1>6, <1>7

\* rumor(): a LOGIN comes when the user is out, a LOGOUT ends the last LOGIN.
LEMMA RumorHistory ==
    ASSUME TInv, OInv, History, NEW s \in Sock, NEW kind \in {"LOGIN", "LOGOUT", "USER_CREATED"},
           NEW u \in User, thread[s].user = u, UNCHANGED host,
           NEW n \in Node, NEW i \in Nat, NEW pc \in {"store", "push"}, News(s, kind, u, n, i, pc),
           kind = "LOGIN" => thread[s].pc = "rumor",
           kind = "LOGOUT" => thread[s].pc = "bye",
           kind = "USER_CREATED" => thread[s].pc = "create"
    PROVE  History'
<1>1. /\ i \notin 1..Len(events)
      /\ \A k \in 1..Len(events) : \A v : /\ About(k, v)' <=> About(k, v)
                                          /\ Enters(k, v)' <=> Enters(k, v)
                                          /\ Quits(k, v)' <=> Quits(k, v)
      /\ \A v : /\ About(i, v)' <=> v = u /\ kind # "USER_CREATED"
                /\ Enters(i, v)' <=> v = u /\ kind = "LOGIN"
                /\ Quits(i, v)' <=> v = u /\ kind = "LOGOUT"
      /\ \A j \in 1..Len(events) :
            LastLogin(j)' <=> LastLogin(j) /\ (events[j].user # u \/ kind = "USER_CREATED")
      /\ LastLogin(i)' <=> kind = "LOGIN"
  BY NewsKinds
<1>2. /\ n = host[s] /\ i \in 1..Len(events') /\ EventsGrow /\ UNCHANGED auth
      /\ events'[i].kind = kind /\ events'[i].user = u /\ events'[i].node = n
      /\ \A k \in 1..Len(events) : k \in 1..Len(events') /\ k < i /\ events'[k] = events[k]
      /\ \A k \in 1..Len(events') : k \in 1..Len(events) \/ k = i
      /\ thread'[s].pc = pc /\ thread'[s].user = u /\ thread'[s].ev = i
      /\ \A r \in Sock : r # s => thread'[r] = thread[r]
  BY DEF News
<1>3. \A r \in Sock : r # s =>
         /\ Starting(r)' <=> Starting(r)
         /\ \A v : (Holds(r, v)' <=> Holds(r, v)) /\ (InSession(r, v)' <=> InSession(r, v))
  <2>1. \A r \in Sock : r # s => (Starting(r)' <=> Starting(r)) /\ \A v : Holds(r, v)' <=> Holds(r, v)
    BY <1>2, SameRole
  <2> QED BY <1>2, <2>1 DEF InSession, Stage
<1>4. /\ \A r \in Sock : Holds(r, u) => r = s
      /\ \A r \in Sock, v \in User : InSession(r, v) => Holds(r, v)
      /\ \A v : Holds(s, v)' <=> Holds(s, v)
  BY <1>2 DEF OInv, OneHolder, Holds, InSession, Stage
<1>5. /\ kind = "LOGIN" => auth[s] = u
      /\ kind # "LOGIN" => auth[s] = NoUser
      /\ Starting(s)' <=> kind = "USER_CREATED"
      /\ kind # "LOGOUT" => Starting(s)
  <2>1. Starting(s)' <=> kind = "USER_CREATED"
    <3>1. kind # "LOGIN" => pc = "push"
      BY DEF News
    <3> QED BY <1>2, <3>1 DEF Starting, PushesAccount
  <2>2. RoleOk(s) /\ thread[s].pc \in {"rumor", "bye", "create"}
    BY DEF OInv, Roles
  <2>3. (kind # "LOGOUT" => Starting(s)) /\ (Leaving(s) <=> kind = "LOGOUT")
    BY <2>2 DEF Leaving, Starting
  <2> QED BY <2>1, <2>2, <2>3 DEF RoleOk
<1>6. ASSUME NEW v \in User PROVE Alternating(v)'
  <2>1. ASSUME NEW o \in 1..Len(events'), Quits(o, v)' PROVE Ended(o, v)'
    <3>1. CASE o \in 1..Len(events)
      <4>1. PICK a \in 1..Len(events) : /\ a < o /\ Enters(a, v) /\ events[a].node = events[o].node
                                        /\ \A k \in 1..Len(events) : About(k, v) /\ k < o => k <= a
        BY <1>1, <2>1, <3>1 DEF History, Alternating, Ended
      <4>2. \A k \in 1..Len(events') : About(k, v)' /\ k < o => k <= a
        <5>1. ~(i < o)
          BY <1>2, <3>1, Types
        <5> QED BY <1>1, <1>2, <4>1, <5>1
      <4>3. a \in 1..Len(events') /\ Enters(a, v)' /\ events'[a].node = events'[o].node
        BY <1>1, <1>2, <3>1, <4>1
      <4> QED BY <4>1, <4>2, <4>3 DEF Ended
    <3>2. CASE o = i
      <4>1. v = u /\ kind = "LOGOUT"
        BY <1>1, <2>1, <3>2
      <4>2. InSession(s, u)
        BY <4>1 DEF InSession, Stage
      <4>3. PICK a \in 1..Len(events) : LastLogin(a) /\ events[a].user = u /\ events[a].node = n
        BY <1>2, <4>2 DEF History, Homed
      <4>4. \A k \in 1..Len(events') : About(k, v)' /\ k < o => k <= a
        <5>1. ~(i < o)
          BY <3>2
        <5> QED BY <1>1, <1>2, <4>1, <4>3, <5>1 DEF LastLogin
      <4>5. Enters(a, v)
        BY <4>1, <4>3 DEF Enters, LastLogin
      <4>6. /\ a \in 1..Len(events') /\ Enters(a, v)' /\ events'[a].node = events'[o].node /\ a < o
        BY <1>1, <1>2, <3>2, <4>3, <4>5
      <4> QED BY <4>4, <4>6 DEF Ended
    <3> QED BY <1>2, <3>1, <3>2
  <2>2. ASSUME NEW a \in 1..Len(events'), NEW b \in 1..Len(events'),
               Enters(a, v)', Enters(b, v)', a < b
        PROVE  \E o \in 1..Len(events') : Quits(o, v)' /\ a < o /\ o < b
    <3>1. a \in 1..Len(events)
      <4>1. Len(events) \in Nat /\ ~(i < i) /\ \A k \in 1..Len(events) : ~(i < k)
        <5>1. Len(events) \in Nat
          BY Types
        <5> QED BY <1>2, <5>1
      <4>2. a # i
        BY <1>2, <2>2, <4>1
      <4> QED BY <1>2, <4>2
    <3>2. CASE b \in 1..Len(events)
      <4>1. PICK o \in 1..Len(events) : Quits(o, v) /\ a < o /\ o < b
        BY <1>1, <2>2, <3>1, <3>2 DEF History, Alternating
      <4> QED BY <1>1, <1>2, <4>1
    <3>3. CASE b = i
      <4>1. v = u /\ kind = "LOGIN" /\ Enters(a, u)
        BY <1>1, <2>2, <3>1, <3>3
      <4>2. ~LoggedIn(u)
        BY <1>5, <4>1 DEF History, Fresh
      <4>3. PICK k \in 1..Len(events) : About(k, u) /\ a < k
        BY <3>1, <4>1, <4>2, Types DEF LoggedIn, LastLogin, Enters
      <4>4. Quits(k, u) \/ Enters(k, u)
        BY <4>3, EventFields DEF OInv, Linked, About, Quits, Enters
      <4>5. PICK o \in 1..Len(events) : Quits(o, u) /\ a < o
        BY <3>1, <4>1, <4>3, <4>4 DEF History, Alternating
      <4> QED BY <1>1, <1>2, <3>3, <4>1, <4>5
    <3> QED BY <1>2, <3>2, <3>3
  <2>3. \A o \in 1..Len(events') : Quits(o, v)' => Ended(o, v)'
    BY <2>1
  <2>4. \A a, b \in 1..Len(events') : Enters(a, v)' /\ Enters(b, v)' /\ a < b =>
           \E o \in 1..Len(events') : Quits(o, v)' /\ a < o /\ o < b
    BY <2>2
  <2> QED BY <2>3, <2>4 DEF Alternating
<1>7. ASSUME NEW r \in Sock, NEW v \in User, InSession(r, v)'
      PROVE  \E j \in 1..Len(events') : LastLogin(j)' /\ events'[j].user = v /\ events'[j].node = host[r]
  <2>1. CASE r = s
    <3>1. kind = "LOGIN" /\ v = u
      BY <1>2, <1>5, <1>7, <2>1, NullAssumption DEF InSession, Stage
    <3> QED BY <1>1, <1>2, <2>1, <3>1
  <2>2. CASE r # s
    <3>1. InSession(r, v) /\ v # u
      BY <1>3, <1>4, <1>7, <2>2
    <3>2. PICK j \in 1..Len(events) : LastLogin(j) /\ events[j].user = v /\ events[j].node = host[r]
      BY <3>1 DEF History, Homed
    <3> QED BY <1>1, <1>2, <3>1, <3>2
  <2> QED BY <2>1, <2>2
<1>8. \A r \in Sock, v \in User : Homed(r, v)'
  BY <1>7 DEF Homed
<1>9. \A v : LoggedIn(v)' /\ (v # u \/ kind = "USER_CREATED") => LoggedIn(v)
  BY <1>1, <1>2 DEF LoggedIn
<1>10. ASSUME NEW r \in Sock, Starting(r)' PROVE \A v : v = thread'[r].user => ~LoggedIn(v)'
  <2>1. CASE r = s
    BY <1>2, <1>5, <1>9, <1>10, <2>1 DEF History, Fresh
  <2>2. CASE r # s
    <3>1. Starting(r) /\ thread'[r].user = thread[r].user /\ thread[r].user # u
      BY <1>2, <1>3, <1>4, <1>10, <2>2 DEF Holds
    <3> QED BY <1>9, <3>1 DEF History, Fresh
  <2> QED BY <2>1, <2>2
<1>11. \A r \in Sock : Fresh(r)'
  BY <1>10 DEF Fresh, LoggedIn
<1>12. ASSUME NEW j \in 1..Len(events'), LastLogin(j)'
       PROVE  \E r \in Sock : (auth[r] = events'[j].user \/ thread'[r].user = events'[j].user)
                              /\ host[r] = events'[j].node
  <2>1. CASE j = i
    BY <1>2, <2>1
  <2>2. CASE j \in 1..Len(events)
    <3>1. LastLogin(j) /\ events'[j] = events[j]
      BY <1>1, <1>2, <1>12, <2>2
    <3>2. PICK r \in Sock : Holds(r, events[j].user) /\ host[r] = events[j].node
      BY <2>2, <3>1 DEF History, Kept
    <3>3. auth[r] = events[j].user \/ thread'[r].user = events[j].user
      BY <1>2, <3>2 DEF Holds
    <3> QED BY <3>1, <3>2, <3>3
  <2> QED BY <1>2, <2>1, <2>2
<1>13. \A j \in 1..Len(events') : Kept(j)'
  BY <1>2, <1>12 DEF Kept, Holds
<1> QED BY <1>6, <1>8, <1>11, <1>13 DEF History

\* Steps that neither rumor, push, pull nor read.
LEMMA CarriedKept ==
    ASSUME TInv, Carried, UNCHANGED <<events, log, wire>>,
           \A s \in Sock : thread[s].ev # 0 => thread'[s].ev = thread[s].ev
    PROVE  Carried'
<1>1. \A i, u : (Enters(i, u)' <=> Enters(i, u)) /\ (Quits(i, u)' <=> Quits(i, u))
  BY DEF Enters, Quits
<1>2. ASSUME NEW i \in 1..Len(events) PROVE Sent(i)'
  <2>1. i # 0
    BY Types
  <2>2. Sent(i)
    BY DEF Carried
  <2> QED BY <2>1, <2>2 DEF Sent
<1>3. \A n \in Node, u \in User : FirstIn(n, u)'
  BY <1>1 DEF Carried, FirstIn
<1>4. \A m, n \in Node, u \in User : Ordered(wire[m][n], n, u)'
  BY <1>1 DEF Carried, Ordered
<1> QED BY <1>2, <1>3, <1>4 DEF Carried

\* Of two nodes, one has every LOGIN before a LOGOUT, or it is on its way there.
LEMMA Spread ==
    ASSUME TInv, AInv, OInv, History, Carried, \E a, b \in Node : Node = {a, b},
           NEW u \in User, NEW o \in 1..Len(events), Quits(o, u),
           NEW i \in 1..Len(events), Enters(i, u), i < o, NEW n \in Node, NEW m \in Node, m # n
    PROVE  i \in Range(log[n]) \/ i \in Range(wire[m][n])
<1>0. Len(events) \in Nat /\ i # 0 /\ About(i, u) /\ About(o, u)
  BY Types DEF About, Enters, Quits
<1>1. PICK j \in 1..Len(events) : /\ j < o /\ Enters(j, u)
                                  /\ \A k \in 1..Len(events) : About(k, u) /\ k < o => k <= j
  BY DEF History, Alternating, Ended
<1>2. i <= j
  BY <1>0, <1>1
<1>3. CASE i # j
  <2>1. i \in 1..(j - 1) /\ events[j].kind = "LOGIN" /\ events[j].user = u
    BY <1>0, <1>1, <1>2, <1>3 DEF Enters
  <2>2. Done(i)
    BY <1>0, <1>1, <2>1 DEF OInv, Past
  <2> QED BY <2>2 DEF Done
<1>4. CASE i = j
  <2>1. ASSUME NEW s \in Sock, thread[s].ev = i PROVE FALSE
    <3>1. thread[s].pc \in {"store", "push"}
      BY <1>0, <2>1, Types DEF Threads, ThreadOk
    <3>2. LastLogin(i)
      BY <2>1, <3>1, HandlesLast DEF Enters
    <3>3. o <= i
      BY <1>0, <3>2 DEF LastLogin, Enters
    <3> QED BY <1>0, <3>3
  <2>2. i \in Range(log[n]) \/ i \in Range(wire[events[i].node][n])
    BY <2>1 DEF Carried, Sent
  <2>3. events[i].node = n \/ events[i].node = m
    BY EventFields, OtherNode
  <2> QED BY <2>2, <2>3 DEF AInv, Origin
<1> QED BY <1>3, <1>4

\* Ordered, of the next state.
OrderedNext(q, n, u) ==
    \A k \in 1..Len(q) : events'[q[k]].kind = "LOGOUT" /\ events'[q[k]].user = u =>
        \A i \in 1..Len(events') : events'[i].kind = "LOGIN" /\ events'[i].user = u /\ i < q[k] =>
            i \in Range(log'[n]) \/ \E j \in 1..(k - 1) : q[j] = i

\* It is stated of the connection's contents.
LEMMA WiresOrdered ==
    ASSUME \A m, n \in Node, u \in User : \A q : q = wire'[m][n] => OrderedNext(q, n, u)
    PROVE  \A m, n \in Node, u \in User : Ordered(wire[m][n], n, u)'
<1>1. ASSUME NEW m \in Node, NEW n \in Node, NEW u \in User
      PROVE  Ordered(wire[m][n], n, u)'
  <2>1. PICK q : q = wire'[m][n]
    OBVIOUS
  <2>2. OrderedNext(q, n, u)
    BY <2>1
  <2> QED BY <2>1, <2>2 DEF OrderedNext, Ordered, Enters, Quits
<1> QED BY <1>1

\* One more event on a connection.
LEMMA OrderedAppend ==
    ASSUME NEW q \in Seq(Nat), NEW x \in Nat, NEW n, NEW u, Ordered(q, n, u),
           Quits(x, u) => \A i \in 1..Len(events) : Enters(i, u) /\ i < x =>
                              i \in Range(log[n]) \/ i \in Range(q)
    PROVE  Ordered(Append(q, x), n, u)
<1> DEFINE p == Append(q, x)
<1>1. /\ Len(q) \in Nat /\ Len(p) = Len(q) + 1 /\ p[Len(q) + 1] = x
      /\ \A k \in 1..Len(q) : p[k] = q[k]
  OBVIOUS
<1>2. \A i \in Range(q) : \E j \in 1..Len(q) : q[j] = i
  BY DEF Range
<1> HIDE DEF p
<1>3. ASSUME NEW k \in 1..Len(p), Quits(p[k], u), NEW i \in 1..Len(events), Enters(i, u), i < p[k]
      PROVE  i \in Range(log[n]) \/ \E j \in 1..(k - 1) : p[j] = i
  <2>1. CASE k \in 1..Len(q)
    <3>1. \A j \in 1..(k - 1) : j \in 1..Len(q)
      BY <1>1, <2>1
    <3>2. Quits(q[k], u) /\ i < q[k]
      BY <1>1, <1>3, <2>1
    <3>3. i \in Range(log[n]) \/ \E j \in 1..(k - 1) : q[j] = i
      BY <1>3, <2>1, <3>2 DEF Ordered
    <3> QED BY <1>1, <3>1, <3>3
  <2>2. CASE k = Len(q) + 1
    <3>1. \A j \in 1..Len(q) : j \in 1..(k - 1)
      BY <1>1, <2>2
    <3> QED BY <1>1, <1>2, <1>3, <2>2, <3>1
  <2>3. k \in 1..Len(q) \/ k = Len(q) + 1
    BY <1>1
  <2> QED BY <2>1, <2>2, <2>3
<1>4. Ordered(p, n, u)
  BY <1>3 DEF Ordered
<1> QED BY <1>4 DEF p

\* Reading takes one event away.
LEMMA RangeHead ==
    ASSUME NEW q \in Seq(Nat), q # <<>>
    PROVE  Range(q) \subseteq Range(Tail(q)) \cup {Head(q)}
<1>1. /\ Len(q) \in Nat \ {0} /\ Head(q) = q[1]
      /\ DOMAIN q = 1..Len(q) /\ DOMAIN Tail(q) = 1..(Len(q) - 1)
      /\ \A k \in 1..(Len(q) - 1) : Tail(q)[k] = q[k + 1]
  OBVIOUS
<1>2. ASSUME NEW k \in 1..Len(q), k # 1 PROVE q[k] \in Range(Tail(q))
  <2>1. k - 1 \in 1..(Len(q) - 1) /\ (k - 1) + 1 = k
    BY <1>1, <1>2
  <2>2. Tail(q)[k - 1] = q[k] /\ k - 1 \in DOMAIN Tail(q)
    BY <1>1, <2>1
  <2> QED BY <2>2 DEF Range
<1> QED BY <1>1, <1>2 DEF Range

\* An event read from a connection.
LEMMA OrderedTail ==
    ASSUME NEW q \in Seq(Nat), q # <<>>, NEW n, NEW u, Ordered(q, n, u)
    PROVE  /\ Quits(Head(q), u) =>
                 \A i \in 1..Len(events) : Enters(i, u) /\ i < Head(q) => i \in Range(log[n])
           /\ \A k \in 1..Len(Tail(q)) : Quits(Tail(q)[k], u) =>
                 \A i \in 1..Len(events) : Enters(i, u) /\ i < Tail(q)[k] =>
                    i \in Range(log[n]) \cup {Head(q)} \/ \E j \in 1..(k - 1) : Tail(q)[j] = i
<1> DEFINE p == Tail(q)
           x == Head(q)
<1>1. /\ Len(q) \in Nat \ {0} /\ Len(p) = Len(q) - 1 /\ x = q[1] /\ p \in Seq(Nat)
      /\ DOMAIN q = 1..Len(q) /\ DOMAIN p = 1..(Len(q) - 1)
      /\ \A k \in 1..(Len(q) - 1) : p[k] = q[k + 1]
  OBVIOUS
<1> HIDE DEF p, x
<1>2. /\ 1 \in 1..Len(q) /\ 1..(1 - 1) = {}
      /\ \A k \in 1..Len(p) : k + 1 \in 1..Len(q) /\ (k + 1) - 1 = k
  BY <1>1
<1>3. Quits(x, u) => \A i \in 1..Len(events) : Enters(i, u) /\ i < x => i \in Range(log[n])
  BY <1>1, <1>2 DEF Ordered
<1>4. ASSUME NEW k \in 1..Len(p), Quits(p[k], u), NEW i \in 1..Len(events), Enters(i, u), i < p[k],
             i \notin Range(log[n]), i # x
      PROVE  \E j \in 1..(k - 1) : p[j] = i
  <2>1. p[k] = q[k + 1]
    BY <1>1
  <2>2. PICK j \in 1..((k + 1) - 1) : q[j] = i
    BY <1>2, <1>4, <2>1 DEF Ordered
  <2>3. j # 1 /\ j \in 1..k
    BY <1>1, <1>2, <1>4, <2>2
  <2>4. j - 1 \in 1..(k - 1) /\ j - 1 \in 1..(Len(q) - 1) /\ (j - 1) + 1 = j
    BY <1>1, <2>3
  <2>5. p[j - 1] = i
    BY <1>1, <2>2, <2>4
  <2> QED BY <2>4, <2>5
<1>5. \A k \in 1..Len(p) : Quits(p[k], u) =>
         \A i \in 1..Len(events) : Enters(i, u) /\ i < p[k] =>
            i \in Range(log[n]) \cup {x} \/ \E j \in 1..(k - 1) : p[j] = i
  BY <1>4
<1> QED BY <1>3, <1>5 DEF p, x

\* Pushes and answered pulls add events at the end of connections.
LEMMA SendCarried ==
    ASSUME TInv, AInv, OInv, History, Carried, \E a, b \in Node : Node = {a, b},
           UNCHANGED <<events, log>>,
           \A m, n \in Node :
              \/ wire'[m][n] = wire[m][n]
              \/ m # n /\ \E x \in 1..Len(events) : wire'[m][n] = Append(wire[m][n], x),
           \A i \in 1..Len(events) : (\A s \in Sock : thread'[s].ev # i) =>
              \/ \A s \in Sock : thread[s].ev # i
              \/ \A m \in Node : i \in Range(log[m]) \/ i \in Range(wire'[events[i].node][m])
    PROVE  Carried'
<1>0. \A x \in 1..Len(events) : x \in Nat
  BY Types
<1>1. \A i, u : (Enters(i, u)' <=> Enters(i, u)) /\ (Quits(i, u)' <=> Quits(i, u))
  BY DEF Enters, Quits
<1>2. ASSUME NEW m \in Node, NEW n \in Node
      PROVE  Range(wire[m][n]) \subseteq Range(wire'[m][n])
  <2>1. wire[m][n] \in Seq(Nat)
    BY WireTyped
  <2>2. \A x \in 1..Len(events) : Range(wire[m][n]) \subseteq Range(Append(wire[m][n], x))
    BY <1>0, <2>1, RangeAppend
  <2> QED BY <2>2
<1>3. ASSUME NEW i \in 1..Len(events) PROVE Sent(i)'
  <2>1. events[i].node \in Node
    BY EventFields
  <2> QED BY <1>2, <2>1 DEF Carried, Sent
<1>4. \A n \in Node, u \in User : FirstIn(n, u)'
  BY <1>1 DEF Carried, FirstIn
<1>5. ASSUME NEW m \in Node, NEW n \in Node, NEW u \in User, NEW q, q = wire'[m][n]
      PROVE  OrderedNext(q, n, u)
  <2>2. wire[m][n] \in Seq(Nat) /\ Ordered(wire[m][n], n, u)
    BY WireTyped DEF Carried
  <2>3. Ordered(q, n, u)
    <3>1. ASSUME NEW x \in 1..Len(events), m # n
          PROVE  Ordered(Append(wire[m][n], x), n, u)
      <4>1. Quits(x, u) => \A i \in 1..Len(events) : Enters(i, u) /\ i < x =>
               i \in Range(log[n]) \/ i \in Range(wire[m][n])
        BY <3>1, Spread
      <4> QED BY <1>0, <2>2, <4>1, OrderedAppend
    <3> QED BY <1>5, <2>2, <3>1
  <2> QED BY <1>1, <2>3 DEF OrderedNext, Ordered, Enters, Quits
<1>6. \A m, n \in Node, u \in User : Ordered(wire[m][n], n, u)'
  BY <1>5, WiresOrdered
<1> QED BY <1>3, <1>4, <1>6 DEF Carried

\* The push: the event is on its way to every peer.
LEMMA PushCarried ==
    ASSUME TInv, AInv, OInv, History, Carried, \E a, b \in Node : Node = {a, b},
           NEW s \in Sock, Push(s)
    PROVE  Carried'
<1>1. PICK h \in Node, x \in 1..Len(events) : /\ h = host[s] /\ x = thread[s].ev
                                              /\ events[x].node = h
  BY Types DEF Push, Threads, ThreadOk
<1>2. /\ wire' = [wire EXCEPT ![h] = [l \in Node |->
                    IF Connected(h, l) THEN Append(wire[h][l], x) ELSE wire[h][l]]]
      /\ UNCHANGED <<events, log>>
  BY <1>1 DEF Push
<1>3. \A l \in Node : Connected(h, l) <=> l # h
  BY DEF OInv, Linked, Connected
<1>4. wire'[h] = [l \in Node |-> IF Connected(h, l) THEN Append(wire[h][l], x) ELSE wire[h][l]]
  BY <1>2, Types
<1>5. /\ \A l \in Node : l # h => wire'[h][l] = Append(wire[h][l], x)
      /\ wire'[h][h] = wire[h][h]
      /\ \A m \in Node : m # h => wire'[m] = wire[m]
  BY <1>2, <1>3, <1>4, Types
<1>6. \A m, n \in Node : \/ wire'[m][n] = wire[m][n]
                         \/ m # n /\ \E y \in 1..Len(events) : wire'[m][n] = Append(wire[m][n], y)
  BY <1>5
<1>7. ASSUME NEW m \in Node PROVE x \in Range(log[m]) \/ x \in Range(wire'[h][m])
  <2>1. CASE m = h
    BY <1>1, <2>1 DEF AInv, Origin
  <2>2. CASE m # h
    <3>1. wire[h][m] \in Seq(Nat) /\ x \in Nat
      BY WireTyped
    <3>2. x \in Range(Append(wire[h][m], x))
      BY <3>1, RangeAppend
    <3> QED BY <1>5, <2>2, <3>2
  <2> QED BY <2>1, <2>2
<1>8. \A r \in Sock : r # s => thread'[r] = thread[r]
  BY Types DEF Push
<1>9. \A i \in 1..Len(events) : (\A r \in Sock : thread'[r].ev # i) =>
         \/ \A r \in Sock : thread[r].ev # i
         \/ \A m \in Node : i \in Range(log[m]) \/ i \in Range(wire'[events[i].node][m])
  BY <1>1, <1>7, <1>8
<1> QED BY <1>2, <1>6, <1>9, SendCarried

\* A pull is answered.
LEMMA PullCarried ==
    ASSUME TInv, AInv, OInv, History, Carried, \E a, b \in Node : Node = {a, b},
           NEW n \in Node, NEW m \in Node, Pull(n, m)
    PROVE  Carried'
<1>1. PICK k \in 1..Len(log[m]) : wire' = [wire EXCEPT ![m][n] = Append(@, log[m][k])]
  BY DEF Pull
<1>2. UNCHANGED <<events, log, thread>> /\ m # n
  BY DEF Pull, sessionVars, Connected, OInv, Linked
<1>3. log[m][k] \in Range(log[m])
  <2>1. log[m] \in Seq(Nat)
    BY Types
  <2> QED BY <2>1, RangeTyped
<1>4. PICK x \in 1..Len(events) : x = log[m][k]
  BY <1>3, KnownEvents
<1>w. wire \in [Node -> [Node -> Seq(Nat)]]
  BY DEF TInv, TypeOK
<1>5. /\ wire'[m][n] = Append(wire[m][n], x)
      /\ \A a, b \in Node : a # m \/ b # n => wire'[a][b] = wire[a][b]
  <2>1. wire' = [wire EXCEPT ![m][n] = Append(@, x)]
    BY <1>1, <1>4
  <2> QED BY <1>w, <2>1
<1>6. ASSUME NEW a \in Node, NEW b \in Node
      PROVE  \/ wire'[a][b] = wire[a][b]
             \/ a # b /\ \E y \in 1..Len(events) : wire'[a][b] = Append(wire[a][b], y)
  <2>1. CASE a = m /\ b = n
    BY <1>2, <1>4, <1>5, <2>1
  <2>2. CASE a # m \/ b # n
    BY <1>5, <2>2
  <2> QED BY <2>1, <2>2
<1> QED BY <1>2, <1>6, SendCarried

\* Reading: the event is in the log then.
LEMMA DeliverCarried ==
    ASSUME TInv, OInv, Carried, NEW n \in Node, NEW m \in Node, Deliver(n, m)
    PROVE  Carried'
<1>1. PICK q \in Seq(Nat) : q = wire[m][n]
  BY Types
<1>2. PICK x \in Nat : x = Head(q) /\ x \in Range(q) /\ q # <<>>
  <2>1. q # <<>>
    BY <1>1 DEF Deliver
  <2>2. Head(q) \in Range(q) /\ Range(q) \subseteq Nat
    BY <2>1, RangeTail, RangeTyped
  <2> QED BY <2>1, <2>2
<1>t. PICK t : t = Tail(q)
  OBVIOUS
<1>3. /\ wire'[m][n] = t /\ \A a, b \in Node : a # m \/ b # n => wire'[a][b] = wire[a][b]
      /\ UNCHANGED <<events, thread>>
  <2>1. wire' = [wire EXCEPT ![m][n] = t] /\ UNCHANGED <<events, thread>>
    BY <1>1, <1>t DEF Deliver
  <2> QED BY <2>1, Types
<1>4. /\ Range(log'[n]) = Range(log[n]) \cup {x}
      /\ \A k \in Node : k # n => log'[k] = log[k]
  <2>1. log[n] \in Seq(Nat)
    BY Types
  <2>2. Range(Append(log[n], x)) = Range(log[n]) \cup {x}
    BY <2>1, RangeAppend
  <2>3. \/ x \in Range(log[n]) /\ log' = log
        \/ log' = [log EXCEPT ![n] = Append(log[n], x)]
    BY <1>1, <1>2 DEF Deliver
  <2> QED BY <2>2, <2>3, Types
<1>5. \A i, u : (Enters(i, u)' <=> Enters(i, u)) /\ (Quits(i, u)' <=> Quits(i, u))
  BY <1>3 DEF Enters, Quits
<1>6. \A k \in Node : Range(log[k]) \subseteq Range(log'[k])
  BY <1>4
<1>7. Range(q) \subseteq Range(t) \cup {x}
  BY <1>2, <1>t, RangeHead
<1>8. ASSUME NEW i \in 1..Len(events) PROVE Sent(i)'
  <2>1. events[i].node \in Node /\ Sent(i)
    BY EventFields DEF Carried
  <2>2. SUFFICES ASSUME \A s \in Sock : thread[s].ev # i, NEW k \in Node
                 PROVE  i \in Range(log'[k]) \/ i \in Range(wire'[events[i].node][k])
    BY <1>3 DEF Sent
  <2>3. i \in Range(log[k]) \/ i \in Range(wire[events[i].node][k])
    BY <2>1, <2>2 DEF Sent
  <2>4. CASE events[i].node = m /\ k = n
    BY <1>1, <1>3, <1>4, <1>7, <2>3, <2>4
  <2>5. CASE ~(events[i].node = m /\ k = n)
    BY <1>3, <1>6, <2>1, <2>3, <2>5
  <2> QED BY <2>4, <2>5
<1>9. ASSUME NEW u \in User
      PROVE  /\ Quits(x, u) => \A i \in 1..Len(events) : Enters(i, u) /\ i < x => i \in Range(log[n])
             /\ \A k \in 1..Len(t) : Quits(t[k], u) =>
                   \A i \in 1..Len(events) : Enters(i, u) /\ i < t[k] =>
                      i \in Range(log[n]) \cup {x} \/ \E j \in 1..(k - 1) : t[j] = i
  <2>1. Ordered(q, n, u)
    BY <1>1 DEF Carried
  <2>2. /\ Quits(Head(q), u) =>
              \A i \in 1..Len(events) : Enters(i, u) /\ i < Head(q) => i \in Range(log[n])
        /\ \A k \in 1..Len(Tail(q)) : Quits(Tail(q)[k], u) =>
              \A i \in 1..Len(events) : Enters(i, u) /\ i < Tail(q)[k] =>
                 i \in Range(log[n]) \cup {Head(q)} \/ \E j \in 1..(k - 1) : Tail(q)[j] = i
    BY <1>2, <2>1, OrderedTail
  <2> QED BY <1>2, <1>t, <2>2
<1>10. ASSUME NEW k \in Node, NEW u \in User PROVE FirstIn(k, u)'
  <2>1. SUFFICES ASSUME NEW o \in Range(log'[k]), Quits(o, u), NEW i \in 1..Len(events), Enters(i, u), i < o
                 PROVE  i \in Range(log'[k])
    BY <1>3, <1>5 DEF FirstIn
  <2>2. CASE o \in Range(log[k])
    BY <1>6, <2>1, <2>2 DEF Carried, FirstIn
  <2>3. CASE o \notin Range(log[k])
    <3>1. k = n /\ o = x
      BY <1>4, <2>1, <2>3
    <3> QED BY <1>6, <1>9, <2>1, <3>1
  <2> QED BY <2>2, <2>3
<1>11. ASSUME NEW a \in Node, NEW b \in Node, NEW u \in User, NEW p, p = wire'[a][b]
       PROVE  OrderedNext(p, b, u)
  <2>2. \A k \in 1..Len(p) : Quits(p[k], u) =>
           \A i \in 1..Len(events) : Enters(i, u) /\ i < p[k] =>
              i \in Range(log'[b]) \/ \E j \in 1..(k - 1) : p[j] = i
    <3>1. CASE a = m /\ b = n
      <4>1. p = t /\ Range(log'[b]) = Range(log[n]) \cup {x}
        BY <1>3, <1>4, <1>11, <3>1
      <4> QED BY <1>9, <4>1
    <3>2. CASE ~(a = m /\ b = n)
      <4>1. p = wire[a][b] /\ Ordered(p, b, u)
        BY <1>3, <1>11, <3>2 DEF Carried
      <4> QED BY <1>6, <4>1 DEF Ordered
    <3> QED BY <3>1, <3>2
  <2> QED BY <1>3, <2>2 DEF OrderedNext, Enters, Quits
<1>12. \A a, b \in Node, u \in User : Ordered(wire[a][b], b, u)'
  BY <1>11, WiresOrdered
<1>13. \A i \in 1..Len(events') : Sent(i)'
  BY <1>3, <1>8
<1>14. \A k \in Node, u \in User : FirstIn(k, u)'
  BY <1>10
<1> QED BY <1>12, <1>13, <1>14 DEF Carried

\* rumor(): the node has the LOGIN that its LOGOUT ends, and every one before it.
LEMMA RumorCarried ==
    ASSUME TInv, AInv, OInv, History, Carried,
           NEW s \in Sock, NEW kind \in {"LOGIN", "LOGOUT", "USER_CREATED"}, NEW u \in User,
           thread[s].user = u, UNCHANGED wire, thread[s].ev = 0,
           NEW n \in Node, NEW i \in Nat, NEW pc \in {"store", "push"}, News(s, kind, u, n, i, pc),
           kind = "LOGOUT" => thread[s].pc = "bye"
    PROVE  Carried'
<1>1. /\ i \notin 1..Len(events)
      /\ \A k \in 1..Len(events) : \A v : (Enters(k, v)' <=> Enters(k, v)) /\ (Quits(k, v)' <=> Quits(k, v))
      /\ \A v : Quits(i, v)' <=> v = u /\ kind = "LOGOUT"
  BY NewsKinds
<1>2. /\ n = host[s] /\ i \in 1..Len(events')
      /\ \A k \in 1..Len(events) : k \in 1..Len(events') /\ k < i /\ events'[k] = events[k]
      /\ \A k \in 1..Len(events') : k \in 1..Len(events) \/ k = i
      /\ thread'[s].ev = i
      /\ \A r \in Sock : r # s => thread'[r] = thread[r]
      /\ Range(log'[n]) = Range(log[n]) \cup {i}
      /\ \A m \in Node : m # n => log'[m] = log[m]
  BY DEF News
<1>3. \A m \in Node : Range(log[m]) \subseteq Range(log'[m]) /\ Range(log[m]) \subseteq 1..Len(events)
  BY <1>2, KnownEvents
<1>4. ASSUME NEW o \in 1..Len(events), NEW j \in 1..Len(events'), j < o PROVE j \in 1..Len(events)
  <2>1. Len(events) \in Nat
    BY Types
  <2> QED BY <1>2, <1>4, <2>1
<1>5. ASSUME NEW j \in 1..Len(events') PROVE Sent(j)'
  <2>1. CASE j = i
    BY <1>2, <2>1 DEF Sent
  <2>2. CASE j \in 1..Len(events)
    <3>1. j # 0 /\ Sent(j)
      BY <2>2, Types DEF Carried
    <3>2. \A r \in Sock : thread[r].ev = j => thread'[r].ev = j
      BY <1>2, <3>1
    <3>3. events'[j] = events[j]
      BY <1>2, <2>2
    <3> QED BY <1>3, <3>1, <3>2, <3>3 DEF Sent
  <2> QED BY <1>2, <2>1, <2>2
<1>6. ASSUME NEW m \in Node, NEW v \in User, NEW o \in Range(log'[m]), Quits(o, v)',
             NEW j \in 1..Len(events'), Enters(j, v)', j < o
      PROVE  j \in Range(log'[m])
  <2>1. CASE o \in Range(log[m])
    <3>1. o \in 1..Len(events)
      BY <1>3, <2>1
    <3>2. j \in 1..Len(events)
      BY <1>4, <1>6, <3>1
    <3>3. Quits(o, v) /\ Enters(j, v)
      BY <1>1, <1>6, <3>1, <3>2
    <3>4. j \in Range(log[m])
      BY <1>6, <2>1, <3>2, <3>3 DEF Carried, FirstIn
    <3> QED BY <1>3, <3>4
  <2>2. CASE o \notin Range(log[m])
    <3>1. m = n /\ o = i
      BY <1>2, <1>6, <2>2
    <3>2. v = u /\ kind = "LOGOUT"
      BY <1>1, <1>6, <3>1
    <3>3. InSession(s, u)
      BY <3>2 DEF InSession, Stage
    <3>4. PICK a \in 1..Len(events) : LastLogin(a) /\ events[a].user = u /\ events[a].node = n
      BY <1>2, <3>3 DEF History, Homed
    <3>5. Len(events) \in Nat /\ j \in 1..Len(events)
      <4>1. ~(i < i)
        OBVIOUS
      <4> QED BY <1>2, <1>6, <3>1, <4>1, Types
    <3>6. About(j, u) /\ j <= a
      <4>1. Enters(j, u)
        BY <1>1, <1>6, <3>2, <3>5
      <4>2. About(j, u)
        BY <4>1 DEF About, Enters
      <4> QED BY <3>4, <3>5, <4>2 DEF LastLogin
    <3>7. CASE j = a
      <4>1. j \in Range(log[n])
        BY <3>4, <3>7 DEF AInv, Origin
      <4> QED BY <1>3, <3>1, <4>1
    <3>8. CASE j # a
      <4>1. j \in 1..(a - 1) /\ events[a].kind = "LOGIN"
        BY <3>4, <3>5, <3>6, <3>8 DEF LastLogin
      <4>2. Done(j)
        BY <3>4, <3>6, <4>1 DEF OInv, Past
      <4> QED BY <1>3, <4>2 DEF Done
    <3> QED BY <3>7, <3>8
  <2> QED BY <2>1, <2>2
<1>7. \A m \in Node, v \in User : FirstIn(m, v)'
  <2>1. ASSUME NEW m \in Node, NEW v \in User PROVE FirstIn(m, v)'
    BY <1>6 DEF FirstIn
  <2> QED BY <2>1
<1>8. ASSUME NEW a \in Node, NEW b \in Node, NEW v \in User, NEW q, q = wire'[a][b]
      PROVE  OrderedNext(q, b, v)
  <2>1. q = wire[a][b] /\ q \in Seq(Nat)
    BY <1>3, <1>8, WireTyped
  <2>0. Ordered(q, b, v)
    <3>1. Ordered(wire[a][b], b, v)
      BY DEF Carried
    <3> QED BY <2>1, <3>1 DEF Ordered
  <2>r. \A k \in 1..Len(q) : q[k] \in Range(q)
    BY <2>1, RangeTyped
  <2>2. ASSUME NEW k \in 1..Len(q), Quits(q[k], v)', NEW j \in 1..Len(events'), Enters(j, v)', j < q[k]
        PROVE  j \in Range(log'[b]) \/ \E l \in 1..(k - 1) : q[l] = j
    <3>1. q[k] \in 1..Len(events)
      BY <2>1, <2>r, KnownEvents
    <3>2. j \in 1..Len(events)
      BY <1>4, <2>2, <3>1
    <3>3. Quits(q[k], v) /\ Enters(j, v)
      BY <1>1, <2>2, <3>1, <3>2
    <3>4. j \in Range(log[b]) \/ \E l \in 1..(k - 1) : q[l] = j
      BY <2>0, <2>2, <3>2, <3>3 DEF Ordered
    <3> QED BY <1>3, <3>4
  <2> QED BY <2>2 DEF OrderedNext, Enters, Quits
<1>9. \A a, b \in Node, v \in User : Ordered(wire[a][b], b, v)'
  BY <1>8, WiresOrdered
<1> QED BY <1>5, <1>7, <1>9 DEF Carried

\* Only one LOGIN is the last one.
LEMMA OnlineOnce ==
    ASSUME TInv, NEW n \in Node, NEW u, NEW i, NEW j, Online(n, u, i), Online(n, u, j)
    PROVE  i = j
<1>1. i \in Range(log[n]) /\ j \in Range(log[n]) /\ About(i, u) /\ About(j, u)
  BY DEF Online, About, Enters
<1>2. i \in 1..Len(events) /\ j \in 1..Len(events) /\ Len(events) \in Nat
  BY <1>1, KnownEvents, Types
<1>3. i <= j /\ j <= i
  BY <1>1 DEF Online
<1> QED BY <1>2, <1>3

\* What a node has heard last does not change with what others do.
LEMMA SameOnline ==
    ASSUME UNCHANGED events, NEW n, NEW u, log'[n] = log[n]
    PROVE  \A i : Online(n, u, i)' <=> Online(n, u, i)
BY DEF Online, Enters, About

\* A row and what is about to be written there stay as they are.
LEMMA ExactKept ==
    ASSUME TInv, EventsGrow, NEW n \in Node, NEW u \in User, Exact(n, u), row'[n][u] = row[n][u],
           \A i : Online(n, u, i)' <=> Online(n, u, i),
           \A i \in 1..Len(events) : \A m \in Node :
              Enters(i, u) /\ applying[n][m] = i => applying'[n][m] = i,
           \A s \in Sock : host[s] = n /\ thread[s].pc = "store" /\ thread[s].user = u =>
              host'[s] = n /\ thread'[s].pc = "store" /\ thread'[s].ev = thread[s].ev
    PROVE  Exact(n, u)'
<1>1. \A i : Online(n, u, i) => i \in Range(log[n]) /\ i \in 1..Len(events) /\ Enters(i, u)
  BY KnownEvents DEF Online
<1>2. \A i : Online(n, u, i)' => i \in Range(log'[n])
  BY DEF Online
<1>3. ASSUME NEW i, Online(n, u, i)
      PROVE  \/ row'[n][u] = events'[i].node
             \/ /\ row'[n][u] = NoNode
                /\ \/ \E m \in Node : applying'[n][m] = i
                   \/ \E s \in Sock : host'[s] = n /\ thread'[s].pc = "store" /\ thread'[s].ev = i
  <2>1. i \in Range(log[n]) /\ i \in 1..Len(events) /\ Enters(i, u) /\ events'[i] = events[i]
    BY <1>1, <1>3 DEF EventsGrow
  <2>2. \A s \in Sock : thread[s].pc = "store" /\ thread[s].ev = i => thread[s].user = u
    BY <2>1, Types DEF Threads, ThreadOk, Enters
  <2>3. \/ row[n][u] = events[i].node
        \/ /\ row[n][u] = NoNode
           /\ \/ \E m \in Node : applying[n][m] = i
              \/ \E s \in Sock : host[s] = n /\ thread[s].pc = "store" /\ thread[s].ev = i
    BY <1>3, <2>1 DEF Exact
  <2> QED BY <2>1, <2>2, <2>3
<1>4. (\A i \in Range(log'[n]) : ~Online(n, u, i)') => row'[n][u] = NoNode
  <2>1. (\A i \in Range(log[n]) : ~Online(n, u, i)) => row[n][u] = NoNode
    BY DEF Exact
  <2>2. \A i : Online(n, u, i) => i \in Range(log'[n])
    BY <1>2
  <2> QED BY <2>1, <2>2
<1> QED BY <1>3, <1>4 DEF Exact

\* Steps that change no table, no log and no handler that stores a LOGIN.
LEMMA TablesKept ==
    ASSUME TInv, Tables, UNCHANGED <<events, log, row, applying>>, \A s \in Sock : HostKept(s),
           \A s \in Sock : thread[s].pc = "store" \/ thread'[s].pc = "store" => thread'[s] = thread[s]
    PROVE  Tables'
<1>1. \A n, u, i : Online(n, u, i)' <=> Online(n, u, i)
  BY SameOnline
<1>2. \A s \in Sock : thread[s].pc = "store" => host'[s] = host[s]
  BY KnownEvents DEF HostKept
<1>3. Writing'
  <2>1. ASSUME NEW n \in Node, NEW m \in Node, applying'[n][m] # 0
        PROVE  \A v : v = events'[applying'[n][m]].user => Online(n, v, applying[n][m])'
    <3>1. \A v, i : v = events[applying[n][m]].user /\ i = applying[n][m] => Online(n, v, i)
      BY <2>1 DEF Tables, Writing
    <3> QED BY <1>1, <3>1 DEF Online
  <2>2. ASSUME NEW s \in Sock, thread'[s].pc = "store"
        PROVE  Online(host[s], thread[s].user, thread[s].ev)'
    <3>1. PICK h, v, i : h = host[s] /\ v = thread[s].user /\ i = thread[s].ev
      OBVIOUS
    <3>2. h = host'[s] /\ v = thread'[s].user /\ i = thread'[s].ev /\ Online(h, v, i)
      BY <1>2, <2>2, <3>1 DEF Tables, Writing
    <3> QED BY <1>1, <3>2 DEF Online
  <2> QED BY <2>1, <2>2 DEF Tables, Writing
<1>4. ASSUME NEW n \in Node, NEW u \in User PROVE Exact(n, u)'
  <2>1. EventsGrow /\ Exact(n, u)
    BY SameEvents DEF Tables
  <2> QED BY <1>1, <1>2, <2>1, ExactKept
<1> QED BY <1>3, <1>4 DEF Tables

\* Writing, of the next state.
LEMMA WritingNext ==
    ASSUME \A n, m \in Node : \A i, v :
              i = applying'[n][m] /\ i # 0 /\ v = events'[i].user => Online(n, v, i)',
           \A s \in Sock : \A h, v, i :
              thread'[s].pc = "store" /\ h = host'[s] /\ v = thread'[s].user /\ i = thread'[s].ev =>
                 Online(h, v, i)',
           \A n \in Node : applying'[n][n] = 0
    PROVE  Writing'
<1>1. ASSUME NEW n \in Node, NEW m \in Node, applying'[n][m] # 0
      PROVE  Online(n, events[applying[n][m]].user, applying[n][m])'
  <2>1. PICK i, v : i = applying'[n][m] /\ v = events'[i].user /\ i # 0
    BY <1>1
  <2>2. Online(n, v, i)'
    BY <2>1
  <2> QED BY <2>1, <2>2 DEF Online
<1>2. ASSUME NEW s \in Sock, thread'[s].pc = "store"
      PROVE  Online(host[s], thread[s].user, thread[s].ev)'
  <2>1. PICK h, v, i : h = host'[s] /\ v = thread'[s].user /\ i = thread'[s].ev
    OBVIOUS
  <2>2. Online(h, v, i)'
    BY <1>2, <2>1
  <2> QED BY <2>1, <2>2 DEF Online
<1> QED BY <1>1, <1>2 DEF Writing

\* Exact, of the next state, when a LOGIN x is the last event.
LEMMA ExactNext ==
    ASSUME NEW n \in Node, NEW u \in User, NEW x, Online(n, u, x)',
           \A i : Online(n, u, i)' => i = x,
           \/ row'[n][u] = events'[x].node
           \/ /\ row'[n][u] = NoNode
              /\ \/ \E m \in Node : applying'[n][m] = x
                 \/ \E s \in Sock : host'[s] = n /\ thread'[s].pc = "store" /\ thread'[s].ev = x
    PROVE  Exact(n, u)'
<1>1. x \in Range(log'[n])
  BY DEF Online
<1> QED BY <1>1 DEF Exact

\* A LOGIN that is the last one is stored.
LEMMA StoresOnline ==
    ASSUME TInv, Tables, NEW n \in Node, NEW u \in User, NEW x, Online(n, u, x),
           row'[n][u] = events[x].node,
           \A k \in Node, v \in User : k # n \/ v # u => row'[k][v] = row[k][v],
           UNCHANGED <<events, log, host>>,
           \A k, l \in Node : \/ applying'[k][l] = applying[k][l]
                              \/ k = n /\ applying[k][l] = x /\ applying'[k][l] = 0,
           \A s \in Sock : \/ thread'[s] = thread[s]
                           \/ host[s] = n /\ thread[s].ev = x /\ thread'[s].pc # "store"
    PROVE  Tables'
<1>1. \A k, v, i : Online(k, v, i)' <=> Online(k, v, i)
  BY SameOnline
<1>2. EventsGrow /\ Enters(x, u) /\ x \in 1..Len(events)
  BY SameEvents, KnownEvents DEF Online
<1>3. Writing'
  <2>1. \A k, l \in Node : \A i, v : i = applying'[k][l] /\ i # 0 /\ v = events'[i].user => Online(k, v, i)'
    BY <1>1 DEF Tables, Writing
  <2>2. \A s \in Sock : \A h, v, i :
           thread'[s].pc = "store" /\ h = host'[s] /\ v = thread'[s].user /\ i = thread'[s].ev =>
              Online(h, v, i)'
    BY <1>1 DEF Tables, Writing
  <2>3. \A k \in Node : applying'[k][k] = 0
    BY DEF Tables, Writing
  <2> QED BY <2>1, <2>2, <2>3, WritingNext
<1>4. ASSUME NEW k \in Node, NEW v \in User PROVE Exact(k, v)'
  <2>1. CASE k = n /\ v = u
    <3>1. \A i : Online(n, u, i)' => i = x
      BY <1>1, OnlineOnce
    <3>2. Online(n, u, x)' /\ row'[n][u] = events'[x].node
      BY <1>1
    <3> QED BY <2>1, <3>1, <3>2, ExactNext
  <2>2. CASE k # n \/ v # u
    <3>1. ASSUME NEW i \in 1..Len(events), NEW m \in Node, Enters(i, v), applying[k][m] = i
          PROVE  applying'[k][m] = i
      BY <1>2, <2>2, <3>1 DEF Enters
    <3>2. ASSUME NEW s \in Sock, host[s] = k, thread[s].pc = "store", thread[s].user = v
          PROVE  thread'[s] = thread[s]
      <4>0. ThreadOk(s)
        BY DEF TInv, Threads
      <4>1. thread[s].ev = x => thread[s].user = u
        BY <1>2, <3>2, <4>0 DEF ThreadOk, Enters
      <4> QED BY <2>2, <3>2, <4>1
    <3>3. Exact(k, v) /\ row'[k][v] = row[k][v]
      BY <2>2 DEF Tables
    <3> QED BY <1>1, <1>2, <3>1, <3>2, <3>3, ExactKept
  <2> QED BY <2>1, <2>2
<1> QED BY <1>3, <1>4 DEF Tables

\* The setOnline of the handler's own LOGIN, and of a LOGIN from the peer.
LEMMA StoreTables ==
    ASSUME TInv, Tables, (\E s \in Sock : StoreLogin(s)) \/ (\E n, m \in Node : FinishLogin(n, m))
    PROVE  Tables'
<1>1. ASSUME NEW s \in Sock, StoreLogin(s) PROVE Tables'
  <2>1. /\ thread[s].pc = "store"
        /\ row' = [row EXCEPT ![host[s]][thread[s].user] = events[thread[s].ev].node]
        /\ thread' = [thread EXCEPT ![s].pc = "push"]
        /\ UNCHANGED <<events, log, applying, host>>
    BY <1>1 DEF StoreLogin, SetOnline, netVars
  <2>2. PICK n \in Node, u \in User, x \in 1..Len(events) :
           n = host[s] /\ u = thread[s].user /\ x = thread[s].ev /\ events[x].node \in Node
    BY <2>1, Types DEF Threads, ThreadOk
  <2>3. Online(n, u, x)
    BY <2>1, <2>2 DEF Tables, Writing
  <2>4. /\ row'[n][u] = events[x].node
        /\ \A k \in Node, v \in User : k # n \/ v # u => row'[k][v] = row[k][v]
    BY <2>1, <2>2, Types
  <2>5. thread'[s].pc = "push" /\ \A r \in Sock : r # s => thread'[r] = thread[r]
    <3>1. "push" \in PC /\ thread \in [Sock -> ThreadType]
      BY Types DEF PC
    <3> QED BY <2>1, <3>1, NextStage
  <2> QED BY <2>1, <2>2, <2>3, <2>4, <2>5, StoresOnline
<1>2. ASSUME NEW n \in Node, NEW m \in Node, FinishLogin(n, m) PROVE Tables'
  <2>1. PICK x : x = applying[n][m]
    OBVIOUS
  <2>2. /\ x # 0 /\ row' = [row EXCEPT ![n][events[x].user] = events[x].node]
        /\ applying' = [applying EXCEPT ![n][m] = 0]
        /\ UNCHANGED <<events, log, host, thread>>
    BY <1>2, <2>1 DEF FinishLogin, SetOnline, sessionVars
  <2>3. x \in 1..Len(events)
    BY <2>1, <2>2, KnownEvents
  <2>4. PICK u \in User : u = events[x].user /\ events[x].node \in Node
    BY <2>3, EventFields
  <2>5. Online(n, u, x)
    BY <2>1, <2>2, <2>4 DEF Tables, Writing
  <2>6. /\ row'[n][u] = events[x].node
        /\ \A k \in Node, v \in User : k # n \/ v # u => row'[k][v] = row[k][v]
    BY <2>2, <2>4, Types
  <2>7. /\ applying'[n][m] = 0
        /\ \A k, l \in Node : k # n \/ l # m => applying'[k][l] = applying[k][l]
    BY <2>2, Types
  <2>8. \A k, l \in Node : \/ applying'[k][l] = applying[k][l]
                           \/ k = n /\ applying[k][l] = x /\ applying'[k][l] = 0
    BY <2>1, <2>7
  <2> QED BY <2>2, <2>5, <2>6, <2>8, StoresOnline
<1> QED BY <1>1, <1>2

\* An event about u that a node does not have is newer than those it has.
LEMMA HeardInOrder ==
    ASSUME TInv, OInv, History, Carried, NEW n \in Node, NEW u \in User,
           NEW x \in 1..Len(events), x \notin Range(log[n]), About(x, u),
           NEW k \in Range(log[n]), About(k, u)
    PROVE  k < x
<1>1. k \in 1..Len(events) /\ Len(events) \in Nat /\ k # x
  BY KnownEvents, Types
<1>2. SUFFICES ASSUME x < k PROVE FALSE
  BY <1>1
<1>3. ASSUME NEW i \in 1..Len(events), Enters(i, u), x < i PROVE FALSE
  <2>1. x \in 1..(i - 1) /\ events[i].kind = "LOGIN" /\ events[i].user = u
    BY <1>1, <1>3 DEF Enters
  <2>2. Done(x)
    BY <2>1 DEF OInv, Past
  <2> QED BY <2>2 DEF Done
<1>4. /\ Enters(k, u) \/ Quits(k, u)
      /\ Enters(x, u) \/ Quits(x, u)
  BY <1>1, EventFields DEF OInv, Linked, About, Enters, Quits
<1>5. CASE Enters(k, u)
  BY <1>1, <1>2, <1>3, <1>5
<1>6. CASE Quits(k, u) /\ Enters(x, u)
  BY <1>2, <1>6 DEF Carried, FirstIn
<1>7. CASE Quits(k, u) /\ Quits(x, u)
  <2>1. PICK i \in 1..Len(events) : Enters(i, u) /\ \A j \in 1..Len(events) : About(j, u) /\ j < k => j <= i
    BY <1>1, <1>7 DEF History, Alternating, Ended
  <2>2. x <= i /\ x # i
    BY <1>2, <1>7, <2>1 DEF Enters, Quits
  <2> QED BY <1>1, <1>3, <2>1, <2>2
<1> QED BY <1>4, <1>5, <1>6, <1>7

\* When a node hears of a LOGIN, it has heard that the user has left before.
LEMMA HeardLeave ==
    ASSUME TInv, OInv, History, NEW n \in Node, NEW u \in User, NEW x \in 1..Len(events), Enters(x, u),
           NEW i \in Range(log[n]), i < x
    PROVE  ~Online(n, u, i)
<1>1. SUFFICES ASSUME Online(n, u, i) PROVE FALSE
  OBVIOUS
<1>2. i \in 1..Len(events) /\ Len(events) \in Nat /\ Enters(i, u)
  BY <1>1, KnownEvents, Types DEF Online
<1>3. PICK o \in 1..Len(events) : Quits(o, u) /\ i < o /\ o < x
  BY <1>2 DEF History, Alternating
<1>4. o \in 1..(x - 1) /\ About(o, u) /\ events[x].kind = "LOGIN" /\ events[x].user = u
  BY <1>2, <1>3 DEF About, Quits, Enters
<1>5. Done(o)
  BY <1>4 DEF OInv, Past
<1>6. o <= i
  BY <1>1, <1>4, <1>5 DEF Done, Online
<1> QED BY <1>2, <1>3, <1>6

\* A node accepts an event of its peer.
LEMMA DeliverTables ==
    ASSUME TInv, OInv, History, Carried, Tables, \E a, b \in Node : Node = {a, b},
           NEW n \in Node, NEW m \in Node, Deliver(n, m)
    PROVE  Tables'
<1>0. /\ m \in live[n] /\ applying[n][m] = 0 /\ UNCHANGED <<events, host, thread>> /\ m # n
      /\ \/ UNCHANGED <<log, applying, row, auth>>
         \/ \E x \in Range(wire[m][n]) : Accepts(n, m, x)
  BY DeliverFacts DEF OInv, Linked
<1>1. CASE UNCHANGED <<log, applying, row, auth>>
  BY <1>0, <1>1, TablesKept DEF HostKept
<1>2. CASE \E x \in Range(wire[m][n]) : Accepts(n, m, x)
  <2>1. PICK x \in Range(wire[m][n]) : Accepts(n, m, x)
    BY <1>2
  <2>2. /\ x \in 1..Len(events) /\ x \notin Range(log[n])
        /\ events[x] \in EventOf /\ ApplyEvent(n, events[x])
        /\ Range(log'[n]) = Range(log[n]) \cup {x}
        /\ \A k \in Node : k # n => log'[k] = log[k]
        /\ applying'[n][m] = x \/ applying'[n][m] = 0
        /\ applying'[n][m] = x <=> events[x].kind = "LOGIN" /\ StoresLogin(n, events[x])
        /\ \A k, l \in Node : k # n \/ l # m => applying'[k][l] = applying[k][l]
    BY <2>1 DEF Accepts
  <2>3. PICK u \in User : /\ u = events[x].user
                          /\ events[x].kind \in {"LOGIN", "LOGOUT", "USER_CREATED"}
    BY <2>2, EventFields DEF OInv, Linked
  <2>4. /\ \A k \in Node, v \in User : k # n \/ v # u \/ events[x].kind # "LOGOUT" => row'[k][v] = row[k][v]
        /\ events[x].kind = "LOGOUT" => row'[n][u] = NoNode
    BY <2>2, <2>3, Applied
  <2>5. \A l \in Node : applying[n][l] = 0
    BY <1>0, OtherNode DEF Tables, Writing
  <2>6. EventsGrow /\ Len(events) \in Nat /\ x # 0
    BY <1>0, <2>2, SameEvents, Types
  <2>7. /\ \A i, v : (Enters(i, v)' <=> Enters(i, v)) /\ (About(i, v)' <=> About(i, v))
        /\ \A v : About(x, v) => v = u
        /\ \A i, v : Enters(i, v) => About(i, v)
    BY <1>0, <2>3 DEF Enters, About
  <2>8. \A k \in Node : k # n => \A v, i : Online(k, v, i)' <=> Online(k, v, i)
    BY <1>0, <2>2, SameOnline
  <2>9. \A v : ~About(x, v) => \A i : Online(n, v, i)' <=> Online(n, v, i)
    BY <2>2, <2>7 DEF Online
  <2>10. ASSUME NEW k \in Node, NEW v \in User, k # n \/ ~About(x, v)
         PROVE  Exact(k, v)'
    <3>1. \A i : Online(k, v, i)' <=> Online(k, v, i)
      BY <2>8, <2>9, <2>10
    <3>2. row'[k][v] = row[k][v]
      <4>1. events[x].kind = "LOGOUT" => About(x, u)
        BY <2>3 DEF About
      <4> QED BY <2>4, <2>10, <4>1
    <3>3. \A i \in 1..Len(events) : \A l \in Node :
             Enters(i, v) /\ applying[k][l] = i => applying'[k][l] = i
      <4>1. \A i \in 1..Len(events) : i # 0
        BY <2>6
      <4> QED BY <2>2, <2>5, <4>1
    <3>4. Exact(k, v)
      BY DEF Tables
    <3> QED BY <1>0, <2>6, <3>1, <3>2, <3>3, <3>4, ExactKept
  <2>11. ASSUME About(x, u), NEW k \in Range(log[n]), About(k, u) PROVE k < x
    BY <2>2, <2>11, HeardInOrder
  <2>12. ASSUME events[x].kind = "LOGIN"
         PROVE  Online(n, u, x)' /\ applying'[n][m] = x /\ Exact(n, u)'
    <3>1. Enters(x, u) /\ About(x, u)
      BY <2>3, <2>7, <2>12 DEF Enters
    <3>2. \A k \in Range(log'[n]) : About(k, u) => k <= x
      <4>1. \A k \in Range(log[n]) : About(k, u) => k <= x
        <5>1. ASSUME NEW k \in Range(log[n]), About(k, u) PROVE k <= x
          <6>1. k \in 1..Len(events)
            BY KnownEvents
          <6>2. k < x
            BY <2>11, <3>1, <5>1
          <6> QED BY <2>2, <2>6, <6>1, <6>2
        <5> QED BY <5>1
      <4>2. x <= x
        BY <2>2, <2>6
      <4> QED BY <2>2, <4>1, <4>2
    <3>3. Online(n, u, x)'
      BY <2>2, <2>7, <3>1, <3>2 DEF Online
    <3>4. \A i \in Range(log[n]) : ~Online(n, u, i)
      <4>1. \A i \in Range(log[n]) : Online(n, u, i) => i < x
        BY <2>11, <3>1 DEF Online, Enters, About
      <4> QED BY <2>2, <3>1, <4>1, HeardLeave
    <3>5. row[n][u] = NoNode
      BY <3>4 DEF Tables, Exact
    <3>6. applying'[n][m] = x /\ row'[n][u] = NoNode
      BY <2>2, <2>3, <2>4, <2>12, <3>5 DEF StoresLogin
    <3>7. ASSUME NEW i, Online(n, u, i)' PROVE i = x
      <4>1. i \in Range(log'[n]) /\ Enters(i, u) /\ x <= i
        BY <2>2, <2>7, <3>1, <3>7 DEF Online
      <4>2. i <= x /\ i \in 1..Len(events)
        BY <2>2, <2>7, <3>2, <4>1, KnownEvents
      <4> QED BY <2>2, <2>6, <4>1, <4>2
    <3> QED BY <3>3, <3>6, <3>7, ExactNext
  <2>13. ASSUME events[x].kind = "LOGOUT" PROVE Exact(n, u)'
    <3>1. About(x, u) /\ ~Enters(x, u)
      BY <2>3, <2>13 DEF About, Enters
    <3>2. ASSUME NEW i, Online(n, u, i)' PROVE FALSE
      <4>1. i \in Range(log'[n]) /\ Enters(i, u) /\ x <= i
        BY <2>2, <2>7, <3>1, <3>2 DEF Online
      <4>2. i \in Range(log[n]) /\ i < x /\ i \in 1..Len(events)
        BY <2>2, <2>7, <2>11, <3>1, <4>1, KnownEvents
      <4> QED BY <2>2, <2>6, <4>1, <4>2
    <3> QED BY <2>4, <2>13, <3>2 DEF Exact
  <2>14. \A k \in Node, v \in User : Exact(k, v)'
    <3>1. \A v : About(x, v) => v = u /\ events[x].kind \in {"LOGIN", "LOGOUT"}
      BY <2>3 DEF About
    <3> QED BY <2>10, <2>12, <2>13, <3>1
  <2>15. ASSUME NEW k \in Node, NEW l \in Node, applying'[k][l] # 0
         PROVE  \A i, v : i = applying'[k][l] /\ v = events'[i].user => Online(k, v, i)'
    <3>1. CASE k = n /\ l = m
      BY <1>0, <2>2, <2>3, <2>12, <2>15, <3>1
    <3>2. CASE ~(k = n /\ l = m)
      <4>1. applying'[k][l] = applying[k][l] /\ k # n
        BY <2>2, <2>5, <2>15, <3>2
      <4> QED BY <1>0, <2>8, <2>15, <4>1 DEF Tables, Writing
    <3> QED BY <3>1, <3>2
  <2>16. ASSUME NEW s \in Sock, thread[s].pc = "store", NEW h, NEW v, NEW i,
                h = host[s], v = thread[s].user, i = thread[s].ev
         PROVE  Online(h, v, i)'
    <3>1. Online(h, v, i) /\ h \in Node
      BY <2>16, KnownEvents DEF Tables, Writing
    <3>2. CASE h # n \/ ~About(x, v)
      BY <2>8, <2>9, <3>1, <3>2
    <3>3. CASE h = n /\ About(x, v)
      <4>1. events[i].kind = "LOGIN" /\ events[i].user = v
        BY <2>16, Types DEF Threads, ThreadOk
      <4>2. LastLogin(i)
        BY <2>16, <4>1, HandlesLast
      <4>3. x <= i
        BY <2>2, <3>3, <4>1, <4>2 DEF LastLogin
      <4> QED BY <2>2, <2>7, <3>1, <3>3, <4>3 DEF Online
    <3> QED BY <3>2, <3>3
  <2>17. \A k \in Node : applying'[k][k] = 0
    BY <1>0, <2>2 DEF Tables, Writing
  <2>18. \A s \in Sock : \A h, v, i :
            thread'[s].pc = "store" /\ h = host'[s] /\ v = thread'[s].user /\ i = thread'[s].ev =>
               Online(h, v, i)'
    BY <1>0, <2>16
  <2>19. Writing'
    BY <2>15, <2>17, <2>18, WritingNext
  <2> QED BY <2>14, <2>19 DEF Tables
<1> QED BY <1>0, <1>1, <1>2

\* rumor(): a LOGIN finds no row and is stored next, a LOGOUT leaves no row.
LEMMA RumorTables ==
    ASSUME TInv, OInv, History, Tables, NEW s \in Sock,
           NEW kind \in {"LOGIN", "LOGOUT", "USER_CREATED"}, NEW u \in User,
           thread[s].user = u, UNCHANGED <<host, applying>>,
           NEW n \in Node, NEW i \in Nat, NEW pc \in {"store", "push"}, News(s, kind, u, n, i, pc),
           kind = "LOGIN" => thread[s].pc = "rumor",
           kind = "LOGOUT" => thread[s].pc = "bye",
           kind = "USER_CREATED" => thread[s].pc = "create"
    PROVE  Tables'
<1>1. /\ i \notin 1..Len(events)
      /\ \A k \in 1..Len(events) : \A v : (About(k, v)' <=> About(k, v)) /\ (Enters(k, v)' <=> Enters(k, v))
      /\ \A v : /\ About(i, v)' <=> v = u /\ kind # "USER_CREATED"
                /\ Enters(i, v)' <=> v = u /\ kind = "LOGIN"
  <2>1. i \notin 1..Len(events)
    BY NewsKinds
  <2>2. ASSUME NEW k \in 1..Len(events), NEW v
        PROVE  (About(k, v)' <=> About(k, v)) /\ (Enters(k, v)' <=> Enters(k, v))
    BY NewsKinds
  <2>3. ASSUME NEW v
        PROVE  /\ About(i, v)' <=> v = u /\ kind # "USER_CREATED"
               /\ Enters(i, v)' <=> v = u /\ kind = "LOGIN"
    BY NewsKinds
  <2> QED BY <2>1, <2>2, <2>3
<1>2. /\ n = host[s] /\ i \in 1..Len(events') /\ EventsGrow
      /\ \A k \in 1..Len(events) : k \in 1..Len(events') /\ k < i /\ events'[k] = events[k]
      /\ thread'[s].pc = pc /\ thread'[s].user = u /\ thread'[s].ev = i
      /\ \A r \in Sock : r # s => thread'[r] = thread[r]
      /\ Range(log'[n]) = Range(log[n]) \cup {i}
      /\ \A m \in Node : m # n => log'[m] = log[m]
      /\ pc = "store" <=> kind = "LOGIN" /\ row[n][u] \in {NoNode, n}
      /\ \A m \in Node, v \in User : m # n \/ v # u \/ kind # "LOGOUT" => row'[m][v] = row[m][v]
      /\ kind = "LOGOUT" => row'[n][u] = NoNode
  BY DEF News
<1>3. /\ Len(events) \in Nat /\ \A m \in Node : Range(log[m]) \subseteq 1..Len(events)
      /\ thread[s].pc \in {"rumor", "bye", "create"}
  BY KnownEvents, Types
<1>4. \A m \in Node : \A v, j : m # n \/ v # u \/ kind = "USER_CREATED" =>
         (Online(m, v, j)' <=> Online(m, v, j))
  <2>1. ASSUME NEW m \in Node, NEW v, m # n PROVE \A j : Online(m, v, j)' <=> Online(m, v, j)
    BY <1>1, <1>2, <1>3, <2>1 DEF Online
  <2>2. ASSUME NEW v, v # u \/ kind = "USER_CREATED" PROVE \A j : Online(n, v, j)' <=> Online(n, v, j)
    BY <1>1, <1>2, <1>3, <2>2 DEF Online
  <2> QED BY <2>1, <2>2
<1>5. ASSUME NEW m \in Node, NEW v \in User, m # n \/ v # u \/ kind = "USER_CREATED"
      PROVE  Exact(m, v)'
  <2>1. Exact(m, v) /\ row'[m][v] = row[m][v]
    BY <1>2, <1>5 DEF Tables
  <2>2. \A r \in Sock : thread[r].pc = "store" => thread'[r] = thread[r]
    BY <1>2, <1>3
  <2>3. \A j : Online(m, v, j)' <=> Online(m, v, j)
    BY <1>4, <1>5
  <2> QED BY <1>2, <2>1, <2>2, <2>3, ExactKept
<1>6. \A r \in Sock : r # s => thread[r].user # u
  BY DEF OInv, OneHolder, Holds
<1>7. ASSUME kind = "LOGIN" PROVE \A j : ~Online(n, u, j)
  <2>1. SUFFICES ASSUME NEW j, Online(n, u, j) PROVE FALSE
    OBVIOUS
  <2>2. Starting(s) /\ ~LoggedIn(u)
    BY <1>7 DEF Starting, History, Fresh
  <2>3. j \in 1..Len(events) /\ Enters(j, u)
    BY <1>3, <2>1 DEF Online
  <2>4. \A k \in 1..Len(events) : About(k, u) => k <= j
    BY <2>1, <2>2 DEF OInv, Past, Done, Online
  <2> QED BY <2>2, <2>3, <2>4 DEF LoggedIn, LastLogin, Enters
<1>8. ASSUME kind = "LOGIN"
      PROVE  Online(n, u, i)' /\ pc = "store" /\ Exact(n, u)'
  <2>1. row[n][u] = NoNode
    BY <1>7, <1>8 DEF Tables, Exact
  <2>2. pc = "store" /\ row'[n][u] = NoNode
    BY <1>2, <1>8, <2>1
  <2>3. \A k \in Range(log'[n]) : k <= i
    BY <1>2, <1>3
  <2>4. Online(n, u, i)'
    BY <1>1, <1>2, <1>8, <2>3 DEF Online
  <2>5. ASSUME NEW j, Online(n, u, j)' PROVE j = i
    <3>1. j \in Range(log'[n]) /\ i <= j /\ j <= i
      BY <1>1, <1>2, <1>8, <2>3, <2>5 DEF Online
    <3>2. j = i \/ j \in 1..Len(events)
      BY <1>2, <1>3, <3>1
    <3> QED BY <1>3, <3>1, <3>2
  <2> QED BY <1>2, <2>2, <2>4, <2>5, ExactNext
<1>9. ASSUME kind = "LOGOUT" PROVE Exact(n, u)'
  <2>1. ASSUME NEW j, Online(n, u, j)' PROVE FALSE
    <3>1. j \in Range(log'[n]) /\ i <= j /\ j # i
      BY <1>1, <1>2, <1>9, <2>1 DEF Online
    <3>2. j \in 1..Len(events)
      BY <1>2, <1>3, <3>1
    <3>3. j < i
      BY <1>2, <3>2
    <3> QED BY <1>3, <3>1, <3>2, <3>3
  <2> QED BY <1>2, <1>9, <2>1 DEF Exact
<1>10. \A m \in Node, v \in User : Exact(m, v)'
  BY <1>5, <1>8, <1>9
<1>11. ASSUME NEW l \in Node, NEW j, j = applying[n][l], j # 0, kind # "USER_CREATED"
       PROVE  events[j].user # u
  <2>1. SUFFICES ASSUME events[j].user = u PROVE FALSE
    OBVIOUS
  <2>2. Online(n, u, j) /\ j \in 1..Len(events) /\ events[j].kind = "LOGIN" /\ events[j].node # n
    BY <1>11, <2>1, Types DEF Tables, Writing, Indices, OInv, Owned
  <2>3. kind = "LOGOUT"
    BY <1>7, <1>11, <2>2
  <2>4. InSession(s, u)
    BY <2>3 DEF InSession, Stage
  <2>5. PICK a \in 1..Len(events) : LastLogin(a) /\ events[a].user = u /\ events[a].node = n
    BY <1>2, <2>4 DEF History, Homed
  <2>6. About(j, u) /\ j <= a /\ j # a
    BY <2>1, <2>2, <2>5 DEF LastLogin, About
  <2>7. j \in 1..(a - 1) /\ events[a].kind = "LOGIN"
    BY <1>3, <2>2, <2>5, <2>6 DEF LastLogin
  <2>8. Done(j)
    BY <2>5, <2>6, <2>7 DEF OInv, Past
  <2> QED BY <1>11, <2>8 DEF Done
<1>12. ASSUME NEW m \in Node, NEW l \in Node, applying[m][l] # 0
       PROVE  \A j, v : j = applying[m][l] /\ v = events'[j].user => Online(m, v, j)'
  <2>1. \A j : j = applying[m][l] => j \in 1..Len(events) /\ events'[j] = events[j]
    BY <1>2, <1>12, KnownEvents
  <2>2. \A j, v : j = applying[m][l] /\ v = events[j].user => Online(m, v, j)
    BY <1>12 DEF Tables, Writing
  <2> QED BY <1>4, <1>11, <1>12, <2>1, <2>2
<1>13. ASSUME NEW r \in Sock, thread'[r].pc = "store", NEW h, NEW v, NEW j,
              h = host[r], v = thread'[r].user, j = thread'[r].ev
       PROVE  Online(h, v, j)'
  <2>1. CASE r = s
    BY <1>2, <1>8, <1>13, <2>1
  <2>2. CASE r # s
    <3>1. Online(h, v, j) /\ h \in Node /\ v # u
      BY <1>2, <1>6, <1>13, <2>2, KnownEvents DEF Tables, Writing
    <3> QED BY <1>4, <3>1
  <2> QED BY <2>1, <2>2
<1>14. Writing'
  <2>1. \A m, l \in Node : \A j, v : j = applying'[m][l] /\ j # 0 /\ v = events'[j].user => Online(m, v, j)'
    BY <1>12
  <2>2. \A r \in Sock : \A h, v, j :
           thread'[r].pc = "store" /\ h = host'[r] /\ v = thread'[r].user /\ j = thread'[r].ev =>
              Online(h, v, j)'
    BY <1>13
  <2>3. \A m \in Node : applying'[m][m] = 0
    BY DEF Tables, Writing
  <2> QED BY <2>1, <2>2, <2>3, WritingNext
<1> QED BY <1>10, <1>14 DEF Tables

\* Handlers that have nothing to push, and come to nothing to store.
LEMMA QuietTables ==
    ASSUME TInv, Carried, Tables, UNCHANGED <<events, log, wire, row, applying>>,
           \A r \in Sock : HostKept(r),
           \A r \in Sock : \/ thread'[r] = thread[r]
                           \/ thread[r].pc \notin {"store", "push"} /\ thread'[r].pc # "store"
    PROVE  Carried' /\ Tables'
<1>1. \A r \in Sock : thread[r].ev # 0 => thread[r].pc \in {"store", "push"}
  BY Types DEF Threads, ThreadOk
<1>2. Carried'
  BY <1>1, CarriedKept
<1>3. Tables'
  BY TablesKept
<1> QED BY <1>2, <1>3

\* The requests of clients.
LEMMA RequestExact ==
    ASSUME TInv, AInv, OInv, PInv, Patient, NEW c \in Client, Request(c)
    PROVE  PInv'
<1>1. History /\ Carried /\ Tables /\ History'
  BY RequestHistory DEF PInv
<1>2. ~Reconnect(c)
  BY NothingToResume
<1>3. UNCHANGED <<events, log, wire, row, applying>>
  BY <1>2 DEF Request, Login, Register, Logout, GiveUp, LoseLink, Connect, netVars, dbVars
<1>4. CASE UNCHANGED <<thread, host>>
  BY <1>1, <1>3, <1>4, QuietTables DEF HostKept, PInv
<1>5. ASSUME NEW n \in Node, Connect(c, n) PROVE PInv'
  <2>1. PICK s \in Sock : host[s] = NoNode /\ host' = [host EXCEPT ![s] = n]
    BY <1>5 DEF Connect
  <2>2. UNCHANGED thread /\ \A r \in Sock : HostKept(r)
    BY <1>5, <2>1, Types, NullAssumption DEF Connect, HostKept
  <2> QED BY <1>1, <1>3, <2>2, QuietTables DEF PInv
<1>6. ASSUME NEW t, t.pc # "store", Ready(c), thread' = [thread EXCEPT ![sock[c]] = t], UNCHANGED host
      PROVE  PInv'
  <2>1. PICK s \in Sock : s = sock[c] /\ thread[s].pc = "idle"
    BY <1>6, ReadySock, Stages
  <2>2. thread'[s] = t /\ \A r \in Sock : r # s => thread'[r] = thread[r]
    BY <1>6, <2>1, Types
  <2> QED BY <1>1, <1>3, <1>6, <2>1, <2>2, QuietTables DEF HostKept, PInv
<1>7. ASSUME NEW u \in User, Login(c, u) \/ Register(c, u) PROVE PInv'
  <2>1. PICK pc \in {"set", "create"} : thread' = [thread EXCEPT ![sock[c]] = At(pc, u, 0)]
    BY <1>7 DEF Login, Register
  <2>2. At(pc, u, 0).pc # "store"
    BY DEF At
  <2> QED BY <1>6, <1>7, <2>1, <2>2 DEF Login, Register
<1>8. CASE Logout(c)
  <2>1. PICK t : /\ t = IF auth[sock[c]] = NoUser THEN Idle ELSE At("bye", auth[sock[c]], 0)
                 /\ thread' = [thread EXCEPT ![sock[c]] = t]
    BY <1>8 DEF Logout
  <2>2. t.pc # "store"
    BY <2>1 DEF At, Idle
  <2> QED BY <1>6, <1>8, <2>1, <2>2 DEF Logout
<1>9. CASE GiveUp(c) \/ LoseLink(c)
  BY <1>4, <1>9 DEF GiveUp, LoseLink, sessionVars
<1> QED BY <1>2, <1>5, <1>7, <1>8, <1>9 DEF Request

\* Handlers that rumor nothing.
LEMMA HandlerExact ==
    ASSUME TInv, AInv, OInv, PInv, \E a, b \in Node : Node = {a, b}, NEW s \in Sock,
           SetSession(s) \/ StoreLogin(s) \/ RemoveSession(s) \/ Push(s)
    PROVE  PInv'
<1>1. History /\ Carried /\ Tables /\ History'
  BY HandlerHistory DEF PInv
<1>2. CASE SetSession(s)
  <2>1. /\ thread[s].pc = "set" /\ thread' = [thread EXCEPT ![s].pc = "rumor"]
        /\ UNCHANGED <<events, log, wire, row, applying, host>>
    BY <1>2 DEF SetSession, netVars, dbVars
  <2>2. thread'[s].pc = "rumor" /\ \A r \in Sock : r # s => thread'[r] = thread[r]
    <3>1. "rumor" \in PC /\ thread \in [Sock -> ThreadType]
      BY Types DEF PC
    <3> QED BY <2>1, <3>1, NextStage
  <2> QED BY <1>1, <2>1, <2>2, QuietTables DEF HostKept, PInv
<1>3. CASE RemoveSession(s)
  <2>1. PICK t : /\ t = IF auth[s] = NoUser THEN Idle ELSE At("bye", auth[s], 0)
                 /\ thread' = [thread EXCEPT ![s] = t]
    BY <1>3 DEF RemoveSession
  <2>2. /\ thread[s].pc = "idle" /\ UNCHANGED <<events, log, wire, row, applying, host>>
    BY <1>3, Stages DEF RemoveSession, netVars, dbVars
  <2>3. t.pc # "store"
    BY <2>1 DEF At, Idle
  <2>4. thread'[s] = t /\ \A r \in Sock : r # s => thread'[r] = thread[r]
    BY <2>1, Types
  <2> QED BY <1>1, <2>2, <2>3, <2>4, QuietTables DEF HostKept, PInv
<1>4. CASE StoreLogin(s)
  <2>1. thread' = [thread EXCEPT ![s].pc = "push"] /\ UNCHANGED <<events, log, wire>>
    BY <1>4 DEF StoreLogin, netVars
  <2>2. \A r \in Sock : thread'[r].ev = thread[r].ev
    <3>1. "push" \in PC /\ thread \in [Sock -> ThreadType]
      BY Types DEF PC
    <3>2. thread'[s].ev = thread[s].ev /\ \A r \in Sock : r # s => thread'[r] = thread[r]
      BY <2>1, <3>1, NextStage
    <3> QED BY <3>2
  <2>3. Carried'
    BY <1>1, <2>1, <2>2, CarriedKept
  <2> QED BY <1>1, <1>4, <2>3, StoreTables DEF PInv
<1>5. CASE Push(s)
  <2>1. Carried'
    BY <1>1, <1>5, PushCarried
  <2>2. PICK t : /\ t = IF events[thread[s].ev].kind = "USER_CREATED"
                        THEN At("set", thread[s].user, 0) ELSE Idle
                 /\ thread' = [thread EXCEPT ![s] = t]
    BY <1>5 DEF Push
  <2>3. thread[s].pc = "push" /\ UNCHANGED <<events, log, row, applying, host>>
    BY <1>5 DEF Push, dbVars
  <2>4. t.pc # "store"
    BY <2>2 DEF At, Idle
  <2>5. thread'[s] = t /\ \A r \in Sock : r # s => thread'[r] = thread[r]
    BY <2>2, Types
  <2>6. Tables'
    BY <1>1, <2>3, <2>4, <2>5, TablesKept DEF HostKept
  <2> QED BY <1>1, <2>1, <2>6 DEF PInv
<1> QED BY <1>2, <1>3, <1>4, <1>5

\* The rumors of the handlers.
LEMMA RumorsExact ==
    ASSUME TInv, AInv, OInv, PInv, NEW s \in Sock, RumorLogin(s) \/ RumorLogout(s) \/ CreateUser(s)
    PROVE  PInv'
<1>0. History /\ Carried /\ Tables
  BY DEF PInv
<1>1. UNCHANGED <<wire, applying, host>>
  BY DEF RumorLogin, RumorLogout, CreateUser
<1>2. ThreadOk(s) /\ thread[s].pc \in {"rumor", "bye", "create"}
  BY Types DEF Threads, RumorLogin, RumorLogout, CreateUser
<1>3. PICK u \in User : u = thread[s].user /\ host[s] \in Node /\ thread[s].ev = 0
  BY <1>2 DEF ThreadOk
<1>4. ASSUME NEW kind \in {"LOGIN", "LOGOUT", "USER_CREATED"}, Rumor(s, kind, u),
             kind = "LOGIN" => thread[s].pc = "rumor",
             kind = "LOGOUT" => thread[s].pc = "bye",
             kind = "USER_CREATED" => thread[s].pc = "create"
      PROVE  PInv'
  <2>1. PICK n \in Node, i \in Nat, pc \in {"store", "push"} : News(s, kind, u, n, i, pc)
    BY <1>3, <1>4, RumorNews
  <2>2. History'
    BY <1>0, <1>1, <1>3, <1>4, <2>1, RumorHistory
  <2>3. Carried'
    BY <1>0, <1>1, <1>3, <1>4, <2>1, RumorCarried
  <2>4. Tables'
    BY <1>0, <1>1, <1>3, <1>4, <2>1, RumorTables
  <2> QED BY <2>2, <2>3, <2>4 DEF PInv
<1>5. CASE RumorLogin(s)
  BY <1>3, <1>4, <1>5 DEF RumorLogin
<1>6. CASE RumorLogout(s)
  BY <1>3, <1>4, <1>6 DEF RumorLogout
<1>7. CASE CreateUser(s)
  <2>1. CASE account[host[s]][u] = NoNode
    <3>1. Rumor(s, "USER_CREATED", u) /\ thread[s].pc = "create"
      BY <1>3, <1>7, <2>1 DEF CreateUser
    <3> QED BY <1>4, <3>1
  <2>2. CASE account[host[s]][u] # NoNode
    <3>1. /\ thread' = [thread EXCEPT ![s] = Idle] /\ UNCHANGED <<events, log, row, auth>>
          /\ thread[s].pc = "create"
      BY <1>3, <1>7, <2>2 DEF CreateUser
    <3>2. thread'[s].pc = "idle" /\ \A r \in Sock : r # s => thread'[r] = thread[r]
      BY <3>1, Types, Stages
    <3>3. History'
      BY <1>0, <1>1, <3>1, TakenHistory
    <3>4. Carried' /\ Tables'
      BY <1>0, <1>1, <3>1, <3>2, QuietTables DEF HostKept
    <3> QED BY <3>3, <3>4 DEF PInv
  <2> QED BY <2>1, <2>2
<1> QED BY <1>5, <1>6, <1>7

\* Gossip between the nodes.
LEMMA PeerExact ==
    ASSUME TInv, AInv, OInv, PInv, \E a, b \in Node : Node = {a, b}, NEW n \in Node, NEW m \in Node,
           Deliver(n, m) \/ FinishLogin(n, m) \/ Pull(n, m)
    PROVE  PInv'
<1>0. History /\ Carried /\ Tables
  BY DEF PInv
<1>1. CASE Deliver(n, m)
  <2>1. /\ UNCHANGED <<events, host, thread>>
        /\ \/ UNCHANGED auth
           \/ \E x \in Range(wire[m][n]) : Accepts(n, m, x)
    BY <1>1, DeliverFacts
  <2>2. UNCHANGED auth
    <3>1. ASSUME NEW x, Accepts(n, m, x) PROVE UNCHANGED auth
      <4>1. x \in 1..Len(events) /\ events[x] \in EventOf /\ ApplyEvent(n, events[x])
        BY <3>1 DEF Accepts
      <4>2. events[x].kind # "RECONNECT"
        BY <4>1 DEF OInv, Linked
      <4> QED BY <4>1, <4>2, Applied
    <3> QED BY <2>1, <3>1
  <2>3. History'
    BY <1>0, <2>1, <2>2, QuietHistory DEF HostKept
  <2> QED BY <1>0, <1>1, <2>3, DeliverCarried, DeliverTables DEF PInv
<1>2. CASE FinishLogin(n, m)
  <2>1. UNCHANGED <<events, log, wire, host, thread, auth>>
    BY <1>2 DEF FinishLogin, sessionVars
  <2>2. History' /\ Carried'
    BY <1>0, <2>1, QuietHistory, CarriedKept DEF HostKept
  <2> QED BY <1>0, <1>2, <2>2, StoreTables DEF PInv
<1>3. CASE Pull(n, m)
  <2>1. UNCHANGED <<events, log, applying, row, host, thread, auth>>
    BY <1>3 DEF Pull, sessionVars, dbVars
  <2>2. History' /\ Tables'
    BY <1>0, <2>1, QuietHistory, TablesKept DEF HostKept
  <2> QED BY <1>0, <1>3, <2>2, PullCarried DEF PInv
<1> QED BY <1>1, <1>2, <1>3

\* Of two nodes whose processes and connection stay, with patient clients, every
\* step keeps PInv.
LEMMA StepExact ==
    ASSUME TInv, AInv, OInv, PInv, Patient, MaxCuts = 0, MaxCrashes = 0,
           \E a, b \in Node : Node = {a, b}, [Next]_vars
    PROVE  PInv'
<1>1. CASE UNCHANGED vars
  <2>1. UNCHANGED <<events, log, wire, applying, row, host, thread, auth>>
    BY <1>1 DEF vars, netVars, dbVars, sessionVars
  <2>2. History /\ Carried /\ Tables
    BY DEF PInv
  <2> QED BY <2>1, <2>2, QuietHistory, QuietTables DEF HostKept, PInv
<1>2. ASSUME NEW s \in Sock, Handler(s) PROVE PInv'
  <2>1. ~Claim(s) /\ ~RumorReconnect(s)
    BY DEF OInv, Linked, Claim, RumorReconnect
  <2> QED BY <1>2, <2>1, HandlerExact, RumorsExact DEF Handler
<1>3. ASSUME NEW c \in Client, Request(c) PROVE PInv'
  BY <1>3, RequestExact
<1>4. ASSUME NEW n \in Node, NEW m \in Node, Peer(n, m) PROVE PInv'
  <2>1. ~RegisterPeer(n, m)
    BY DEF OInv, Linked, RegisterPeer
  <2>2. ~RemovePeer(n, m)
    <3>1. ~(cuts < MaxCuts)
      <4>1. cuts \in Nat
        BY DEF TInv, TypeOK
      <4> QED BY <4>1
    <3> QED BY <3>1 DEF OInv, Linked, RemovePeer
  <2> QED BY <1>4, <2>1, <2>2, PeerExact DEF Peer
<1>5. ASSUME NEW n \in Node PROVE ~Crash(n) /\ ~Start(n)
  <2>1. ~Crash(n)
    BY Types DEF Crash
  <2>2. ~Start(n)
    BY DEF AInv, Running, Start
  <2> QED BY <2>1, <2>2
<1> QED BY <1>1, <1>2, <1>3, <1>4, <1>5 DEF Next

\* PInv holds at the start.
LEMMA InitiallyExact ==
    ASSUME Init
    PROVE  PInv
<1>1. /\ events = <<>> /\ Len(events) = 0 /\ 1..0 = {} /\ \A n \in Node : Range(log[n]) = {}
      /\ \A m, n \in Node : wire[m][n] = <<>> /\ Len(wire[m][n]) = 0 /\ applying[m][n] = 0
      /\ \A n \in Node, u \in User : row[n][u] = NoNode
  BY DEF Init, Range
<1>2. \A s \in Sock : thread[s].pc = "idle" /\ auth[s] = NoUser
  BY DEF Init, Idle
<1>3. History
  <2>1. \A s \in Sock : ~Starting(s)
    BY <1>2 DEF Starting, PushesAccount
  <2>2. \A s \in Sock, u \in User : ~InSession(s, u)
    BY <1>2, NullAssumption DEF InSession, Stage
  <2> QED BY <1>1, <2>1, <2>2 DEF History, Alternating, Homed, Fresh
<1>4. Carried
  BY <1>1 DEF Carried, FirstIn, Ordered
<1>5. Tables
  BY <1>1, <1>2 DEF Tables, Writing, Exact
<1> QED BY <1>3, <1>4, <1>5 DEF PInv

\* PInv, when the events about a user have settled.
LEMMA ExactMeans ==
    ASSUME TInv, AInv, OInv, PInv
    PROVE  PresenceExact
<1>0. History /\ Carried /\ Tables
  BY DEF PInv
<1>1. SUFFICES ASSUME NEW u \in User, Settled(u), NEW n \in Node
               PROVE  \/ SessionsOf(u) = {} /\ row[n][u] = NoNode
                      \/ \E s \in SessionsOf(u) : row[n][u] = host[s]
  BY DEF PresenceExact
<1>2. \A k \in 1..Len(events) : About(k, u) => Done(k)
  BY <1>1, SettledDone DEF About
<1>3. u # NoUser /\ \A s \in Sock : thread[s].user # u
  BY <1>1, NullAssumption DEF Settled
<1>4. \A i : Online(n, u, i) => i \in 1..Len(events) /\ LastLogin(i) /\ events[i].user = u
  <2>1. SUFFICES ASSUME NEW i, Online(n, u, i)
                 PROVE  i \in 1..Len(events) /\ LastLogin(i) /\ events[i].user = u
    OBVIOUS
  <2>2. i \in 1..Len(events) /\ Enters(i, u)
    BY <2>1, KnownEvents DEF Online
  <2>3. \A k \in 1..Len(events) : About(k, u) => k <= i
    BY <1>2, <2>1 DEF Done, Online
  <2> QED BY <2>2, <2>3 DEF LastLogin, Enters
<1>5. CASE LoggedIn(u)
  <2>1. PICK i \in 1..Len(events) : LastLogin(i) /\ events[i].user = u
    BY <1>5 DEF LoggedIn
  <2>2. PICK s \in Sock : Holds(s, u) /\ host[s] = events[i].node
    BY <1>0, <2>1 DEF History, Kept
  <2>3. About(i, u) /\ Enters(i, u)
    BY <2>1 DEF About, Enters, LastLogin
  <2>4. Done(i)
    BY <1>2, <2>3
  <2>5. i \in Range(log[n]) /\ Online(n, u, i)
    <3>1. i \in Range(log[n]) /\ \A k \in Range(log[n]) : k \in 1..Len(events)
      BY <2>4, KnownEvents DEF Done
    <3> QED BY <2>1, <2>3, <3>1 DEF LastLogin, Online
  <2>6. row[n][u] = events[i].node
    BY <1>0, <2>4, <2>5 DEF Tables, Exact, Done
  <2> QED BY <1>3, <2>2, <2>6 DEF Holds, SessionsOf
<1>6. CASE ~LoggedIn(u)
  <2>1. row[n][u] = NoNode
    BY <1>0, <1>4, <1>6 DEF Tables, Exact, LoggedIn
  <2>2. ASSUME NEW s \in Sock, auth[s] = u PROVE FALSE
    <3>1. thread[s].pc # "rumor"
      <4>1. RoleOk(s)
        BY DEF OInv, Roles
      <4>2. thread[s].pc = "rumor" => ~Leaving(s)
        BY DEF Leaving
      <4> QED BY <1>3, <2>2, <4>1, <4>2 DEF RoleOk
    <3> QED BY <1>3, <1>6, <2>2, <3>1 DEF OInv, Latest, LoggedIn
  <2> QED BY <2>1, <2>2 DEF SessionsOf
<1> QED BY <1>5, <1>6

\* The tables say the truth once the dust has settled: on two nodes that stay up
\* and connected, with clients that wait for what they see to settle, every node
\* records a user exactly where applyEvent's LOGIN and LOGOUT, the handlers and
\* removeSession have left the user's session, in whatever order pushes, answered
\* pulls and the two halves of a LOGIN come.
THEOREM TablesExact ==
    Patient /\ MaxCuts = 0 /\ MaxCrashes = 0 /\ (\E a, b \in Node : Node = {a, b})
        => (Spec => []PresenceExact)
<1>1. SUFFICES ASSUME Patient, MaxCuts = 0, MaxCrashes = 0, \E a, b \in Node : Node = {a, b}
               PROVE  Spec => []PresenceExact
  OBVIOUS
<1>2. Init => TInv /\ AInv /\ OInv /\ PInv
  BY InitiallyTyped, InitiallyAgrees, InitiallyHolds, InitiallyExact
<1>3. TInv /\ AInv /\ OInv /\ PInv /\ [Next]_vars => (TInv /\ AInv /\ OInv /\ PInv)'
  BY <1>1, StepTyped, StepAgrees, StepHolds, StepExact
<1>4. TInv /\ AInv /\ OInv /\ PInv => PresenceExact
  BY ExactMeans
<1> QED BY <1>2, <1>3, <1>4, PTL DEF Spec
=============================================================================
