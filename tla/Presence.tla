------------------------------ MODULE Presence ------------------------------
(***************************************************************************)
(* Who is logged in, and where.  Every node keeps an online_users table of *)
(* its own (username -> node id) next to the session map of its            *)
(* ConnectionManager.  Handler threads of PacketProcessor change a session *)
(* and then rumor LOGIN, LOGOUT or RECONNECT; applyEvent of GossipManager  *)
(* writes the table, on the rumoring node and on every other one.          *)
(*                                                                         *)
(* A handler is cut into the steps other threads can come between: the     *)
(* check, the change of the session, the rumor with its local application, *)
(* the push to the peers.  Gossip is kept to what reorders or loses events *)
(* (module Gossip has the rest): pushes and answered pulls share one FIFO  *)
(* per connection, the log of accepted events is lost with the process,    *)
(* and the bound MAX_EVENT_LOG is not reached.                             *)
(*                                                                         *)
(* Rooms, passwords and replies other than success are left out: a request *)
(* that is refused changes nothing and is no step.                         *)
(***************************************************************************)
EXTENDS Naturals, Sequences, FiniteSets, Functions

CONSTANTS
    Node, User, Client,
    NoNode, NoUser, \* absent row, anonymous user
    SeedUser,       \* accounts every database is created with (init.sql)
    MaxSocks,       \* bound: client connections opened in a behaviour
    MaxRequests,    \* bound: LOGIN, REGISTER and LOGOUT requests
    MaxLosses,      \* bound: client connections lost while the node runs
    MaxCuts,        \* bound: peer connections lost between running nodes
    MaxCrashes,     \* bound: node crashes
    Patient         \* clients act only when the user's events have settled

ASSUME NullAssumption == NoNode \notin Node /\ NoUser \notin User
ASSUME SeedAssumption == SeedUser \subseteq User
ASSUME LimitAssumption ==
    /\ MaxSocks \in Nat /\ MaxRequests \in Nat /\ MaxLosses \in Nat
    /\ MaxCuts \in Nat /\ MaxCrashes \in Nat
    /\ Patient \in BOOLEAN

Sock == 1..MaxSocks
NoSock == 0

VARIABLES
    up,        \* the process is running
    live,      \* live[n]: the peers registered at n (isNodeLive)
    wire,      \* wire[m][n]: events sent by m to n and not read yet
    events,    \* all events rumored so far; an event is its position here
    log,       \* log[n]: events n has accepted, in order (recentEventIds)
    applying,  \* applying[n][m]: LOGIN that n's handler for m is about to store
    account,   \* account[n][u]: where the users row of u at n was registered
    row,       \* row[n][u]: node_id of u in n's online_users
    sessions,  \* sessions[n]: sockets in n's session map
    host,      \* host[s]: the node socket s was opened on
    auth,      \* auth[s]: user of the session, NoUser while anonymous
    thread,    \* thread[s]: where the handler thread of s is
    sock,      \* sock[c]: the client's connection
    me,        \* me[c]: the user the client process holds in memory
    resume,    \* clients that still try to resume on their connection
    requests, losses, cuts, crashes

netVars     == <<live, wire, events, log, applying>>
dbVars      == <<account, row>>
sessionVars == <<sessions, host, auth, thread>>
clientVars  == <<sock, me, resume>>
bounds      == <<requests, losses, cuts, crashes>>
vars == <<up, netVars, dbVars, sessionVars, clientVars, bounds>>

EventOf == [kind : {"LOGIN", "LOGOUT", "RECONNECT", "USER_CREATED"},
            user : User, node : Node]

\* Between requests a handler is idle.  Otherwise it works for `user`; `ev` is
\* the event it has rumored and not yet pushed.
Idle == [pc |-> "idle", user |-> NoUser, ev |-> 0]
At(pc, u, i) == [pc |-> pc, user |-> u, ev |-> i]
PC == {"idle", "create", "set", "rumor", "store", "claim", "moved", "bye", "push"}

TypeOK ==
    /\ up \in [Node -> BOOLEAN]
    /\ live \in [Node -> SUBSET Node]
    /\ wire \in [Node -> [Node -> Seq(Nat)]]
    /\ events \in Seq(EventOf)
    /\ log \in [Node -> Seq(Nat)]
    /\ applying \in [Node -> [Node -> Nat]]
    /\ account \in [Node -> [User -> Node \cup {NoNode}]]
    /\ row \in [Node -> [User -> Node \cup {NoNode}]]
    /\ sessions \in [Node -> SUBSET Sock]
    /\ host \in [Sock -> Node \cup {NoNode}]
    /\ auth \in [Sock -> User \cup {NoUser}]
    /\ thread \in [Sock -> [pc : PC, user : User \cup {NoUser}, ev : Nat]]
    /\ sock \in [Client -> Sock \cup {NoSock}]
    /\ me \in [Client -> User \cup {NoUser}]
    /\ resume \subseteq Client
    /\ requests \in Nat /\ losses \in Nat /\ cuts \in Nat /\ crashes \in Nat

\* A seed account is the same row on every node.
Seeded == CHOOSE n \in Node : TRUE

Init ==
    /\ up = [n \in Node |-> TRUE]
    /\ live = [n \in Node |-> Node \ {n}]
    /\ wire = [m \in Node |-> [n \in Node |-> <<>>]]
    /\ events = <<>>
    /\ log = [n \in Node |-> <<>>]
    /\ applying = [n \in Node |-> [m \in Node |-> 0]]
    /\ account = [n \in Node |-> [u \in User |->
                    IF u \in SeedUser THEN Seeded ELSE NoNode]]
    /\ row = [n \in Node |-> [u \in User |-> NoNode]]
    /\ sessions = [n \in Node |-> {}]
    /\ host = [s \in Sock |-> NoNode]
    /\ auth = [s \in Sock |-> NoUser]
    /\ thread = [s \in Sock |-> Idle]
    /\ sock = [c \in Client |-> NoSock]
    /\ me = [c \in Client |-> NoUser]
    /\ resume = {}
    /\ requests = 0 /\ losses = 0 /\ cuts = 0 /\ crashes = 0

-----------------------------------------------------------------------------
(***************************************************************************)
(* Applying an event, and the state of the cluster as a user could see it. *)
(***************************************************************************)

SetOnline(n, u, m) == row' = [row EXCEPT ![n][u] = m]

\* hasSession: some session of n's map is authenticated as u.
HasSession(n, u) == \E s \in sessions[n] : auth[s] = u

\* Mutant: the LOGIN of another node replaces the row.
MutStoresLogin(n, e) == TRUE

\* A LOGIN is stored unless the user is already recorded on another node.
StoresLogin(n, e) == row[n][e.user] \in {NoNode, e.node}

\* Mutant: LOGOUT does not clear the row.
MutLogoutUnapplied(n, e) ==
    CASE e.kind \in {"LOGIN", "LOGOUT"} -> UNCHANGED <<row, account, auth>>
      [] e.kind = "USER_CREATED" ->
            /\ account' = [account EXCEPT ![n][e.user] =
                             IF @ = NoNode THEN e.node ELSE @]
            /\ UNCHANGED <<row, auth>>
      [] e.kind = "RECONNECT" ->
            /\ SetOnline(n, e.user, e.node)
            /\ auth' = [s \in Sock |->
                          IF e.node # n /\ s \in sessions[n] /\ auth[s] = e.user
                          THEN NoUser ELSE auth[s]]
            /\ UNCHANGED account

\* The part of applyEvent on node n that is one database write; for LOGIN the
\* write is a step of its own.  RECONNECT also turns the sessions the user
\* still has on n into anonymous ones.
ApplyEvent(n, e) ==
    CASE e.kind = "LOGIN" -> UNCHANGED <<row, account, auth>>
      [] e.kind = "LOGOUT" ->
            SetOnline(n, e.user, NoNode) /\ UNCHANGED <<account, auth>>
      [] e.kind = "USER_CREATED" ->
            /\ account' = [account EXCEPT ![n][e.user] =
                             IF @ = NoNode THEN e.node ELSE @]
            /\ UNCHANGED <<row, auth>>
      [] e.kind = "RECONNECT" ->
            /\ SetOnline(n, e.user, e.node)
            /\ auth' = [s \in Sock |->
                          IF e.node # n /\ s \in sessions[n] /\ auth[s] = e.user
                          THEN NoUser ELSE auth[s]]
            /\ UNCHANGED account

\* No handler works for u, no event about u is on its way, and the running
\* nodes have applied the same events about u.
Settled(u) ==
    /\ \A s \in Sock : thread[s].user # u
    /\ \A n, m \in Node :
          /\ applying[n][m] # 0 => events[applying[n][m]].user # u
          /\ \A i \in Range(wire[m][n]) : events[i].user # u
    /\ \A n, m \in Node : up[n] /\ up[m] =>
          \A i \in Range(log[m]) : events[i].user = u => i \in Range(log[n])

MayAct(u) == requests < MaxRequests /\ (Patient => Settled(u))

Orphan(s) == \A c \in Client : sock[c] # s

-----------------------------------------------------------------------------
(***************************************************************************)
(* rumor(): the event enters the log of n and is applied there; the push   *)
(* to the registered peers is the last step of the handler.                *)
(***************************************************************************)
Rumor(s, kind, u) ==
    LET n == host[s]
        e == [kind |-> kind, user |-> u, node |-> n]
        i == Len(events) + 1
    IN /\ events' = Append(events, e)
       /\ log' = [log EXCEPT ![n] = Append(@, i)]
       /\ ApplyEvent(n, e)
       /\ thread' = [thread EXCEPT ![s] =
                       At(IF kind = "LOGIN" /\ StoresLogin(n, e)
                          THEN "store" ELSE "push", u, i)]

Connected(n, m) == m \in live[n] /\ n \in live[m]

\* The push, and the reply that ends the request.
Push(s) ==
    LET t == thread[s]
        n == host[s]
        e == events[t.ev]
    IN /\ t.pc = "push"
       /\ wire' = [wire EXCEPT ![n] = [m \in Node |->
                      IF Connected(n, m) THEN Append(@[m], t.ev) ELSE @[m]]]
       /\ thread' = [thread EXCEPT ![s] =
                       IF e.kind = "USER_CREATED" THEN At("set", t.user, 0)
                       ELSE Idle]
       /\ me' = [c \in Client |->
                   IF sock[c] # s \/ e.kind = "USER_CREATED" THEN me[c]
                   ELSE IF e.kind = "LOGOUT" THEN NoUser ELSE t.user]
       /\ resume' = {c \in resume : sock[c] # s}
       /\ UNCHANGED <<up, live, events, log, applying, dbVars,
                      sessions, host, auth, sock, bounds>>

-----------------------------------------------------------------------------
(***************************************************************************)
(* LOGIN and REGISTER.  The clients send them only while they hold no user.*)
(***************************************************************************)
Ready(c) == sock[c] # NoSock /\ thread[sock[c]] = Idle

\* Mutant: LOGIN does not look at the rows of other nodes.
MutLoginLocalOnly(c, u) ==
    LET s == sock[c]
    IN /\ Ready(c) /\ me[c] = NoUser /\ MayAct(u)
       /\ account[host[s]][u] # NoNode
       /\ ~HasSession(host[s], u)
       /\ thread' = [thread EXCEPT ![s] = At("set", u, 0)]
       /\ requests' = requests + 1
       /\ UNCHANGED <<up, netVars, dbVars, sessions, host, auth, clientVars,
                      losses, cuts, crashes>>

\* LOGIN, the check: the account exists, no session here, no row.
Login(c, u) ==
    LET s == sock[c]
    IN /\ Ready(c) /\ me[c] = NoUser /\ MayAct(u)
       /\ account[host[s]][u] # NoNode
       /\ ~HasSession(host[s], u) /\ row[host[s]][u] = NoNode
       /\ thread' = [thread EXCEPT ![s] = At("set", u, 0)]
       /\ requests' = requests + 1
       /\ UNCHANGED <<up, netVars, dbVars, sessions, host, auth, clientVars,
                      losses, cuts, crashes>>

\* LOGIN and REGISTER: the session becomes the user's.
SetSession(s) ==
    /\ thread[s].pc = "set"
    /\ auth' = [auth EXCEPT ![s] = thread[s].user]
    /\ thread' = [thread EXCEPT ![s].pc = "rumor"]
    /\ UNCHANGED <<up, netVars, dbVars, sessions, host, clientVars, bounds>>

RumorLogin(s) ==
    /\ thread[s].pc = "rumor"
    /\ Rumor(s, "LOGIN", thread[s].user)
    /\ UNCHANGED <<up, live, wire, applying, sessions, host, clientVars, bounds>>

\* applyEvent of the handler's own LOGIN: the write after the check.
StoreLogin(s) ==
    /\ thread[s].pc = "store"
    /\ SetOnline(host[s], thread[s].user, events[thread[s].ev].node)
    /\ thread' = [thread EXCEPT ![s].pc = "push"]
    /\ UNCHANGED <<up, netVars, account, sessions, host, auth, clientVars, bounds>>

\* REGISTER, the check.
Register(c, u) ==
    LET s == sock[c]
    IN /\ Ready(c) /\ me[c] = NoUser /\ MayAct(u)
       /\ account[host[s]][u] = NoNode
       /\ thread' = [thread EXCEPT ![s] = At("create", u, 0)]
       /\ requests' = requests + 1
       /\ UNCHANGED <<up, netVars, dbVars, sessions, host, auth, clientVars,
                      losses, cuts, crashes>>

\* Mutant: the new account is not rumored.
MutCreateSilently(s) ==
    LET u == thread[s].user
        n == host[s]
    IN /\ thread[s].pc = "create"
       /\ account' = [account EXCEPT ![n][u] = IF @ = NoNode THEN n ELSE @]
       /\ thread' = [thread EXCEPT ![s] =
                       IF account[n][u] = NoNode THEN At("set", u, 0) ELSE Idle]
       /\ UNCHANGED <<up, netVars, row, sessions, host, auth, clientVars, bounds>>

\* createUser, then the USER_CREATED rumor, which finds the row present here.
\* A row inserted since the check is a ConstraintError: the request fails.
CreateUser(s) ==
    LET u == thread[s].user
        n == host[s]
    IN /\ thread[s].pc = "create"
       /\ \/ /\ account[n][u] = NoNode
             /\ Rumor(s, "USER_CREATED", u)
          \/ /\ account[n][u] # NoNode
             /\ thread' = [thread EXCEPT ![s] = Idle]
             /\ UNCHANGED <<events, log, account, row, auth>>
       /\ UNCHANGED <<up, live, wire, applying, sessions, host, clientVars, bounds>>

-----------------------------------------------------------------------------
(***************************************************************************)
(* LOGOUT, and the end of a session.                                       *)
(***************************************************************************)

\* LOGOUT: wasAuth and the name are read, the session becomes anonymous.
Logout(c) ==
    LET s == sock[c]
        u == auth[s]
    IN /\ Ready(c) /\ me[c] # NoUser /\ MayAct(me[c])
       /\ auth' = [auth EXCEPT ![s] = NoUser]
       /\ thread' = [thread EXCEPT ![s] = IF u = NoUser THEN Idle ELSE At("bye", u, 0)]
       /\ me' = [me EXCEPT ![c] = IF u = NoUser THEN NoUser ELSE @]
       /\ resume' = resume \ {c}
       /\ requests' = requests + 1
       /\ UNCHANGED <<up, netVars, dbVars, sessions, host, sock, losses, cuts, crashes>>

\* Mutant: removeSession does not return early for an anonymous session.
MutDropGuest(s) ==
    LET n == host[s]
    IN /\ n # NoNode /\ s \in sessions[n]
       /\ Orphan(s) /\ thread[s] = Idle
       /\ sessions' = [sessions EXCEPT ![n] = @ \ {s}]
       /\ auth' = [auth EXCEPT ![s] = NoUser]
       /\ thread' = [thread EXCEPT ![s] = At("bye", auth[s], 0)]
       /\ UNCHANGED <<up, netVars, dbVars, host, clientVars, bounds>>

\* removeSession, first half: the handler of a lost socket erases the session
\* from the map and reads who it was.
RemoveSession(s) ==
    LET n == host[s]
        u == auth[s]
    IN /\ n # NoNode /\ s \in sessions[n]
       /\ Orphan(s) /\ thread[s] = Idle
       /\ sessions' = [sessions EXCEPT ![n] = @ \ {s}]
       /\ auth' = [auth EXCEPT ![s] = NoUser]
       /\ thread' = [thread EXCEPT ![s] = IF u = NoUser THEN Idle ELSE At("bye", u, 0)]
       /\ UNCHANGED <<up, netVars, dbVars, host, clientVars, bounds>>

\* The LOGOUT rumor of either.
RumorLogout(s) ==
    /\ thread[s].pc = "bye"
    /\ Rumor(s, "LOGOUT", thread[s].user)
    /\ UNCHANGED <<up, live, wire, applying, sessions, host, clientVars, bounds>>

-----------------------------------------------------------------------------
(***************************************************************************)
(* RECONNECT: a client that still holds a user resumes on a new socket.    *)
(***************************************************************************)

\* ownerLive: on this node, a session; elsewhere, a registered peer.
OwnerLive(n, u) == IF row[n][u] = n THEN HasSession(n, u) ELSE row[n][u] \in live[n]

\* RECONNECT, the check: a row whose owner is gone (canClaimPresence).
Reconnect(c) ==
    LET s == sock[c]
        n == host[s]
        u == me[c]
    IN /\ c \in resume /\ Ready(c)
       /\ Patient => Settled(u)
       /\ account[n][u] # NoNode /\ row[n][u] # NoNode
       /\ ~HasSession(n, u) /\ ~OwnerLive(n, u)
       /\ thread' = [thread EXCEPT ![s] = At("claim", u, 0)]
       /\ UNCHANGED <<up, netVars, dbVars, sessions, host, auth, clientVars, bounds>>

\* RECONNECT: session and row become this node's.
Claim(s) ==
    /\ thread[s].pc = "claim"
    /\ auth' = [auth EXCEPT ![s] = thread[s].user]
    /\ SetOnline(host[s], thread[s].user, host[s])
    /\ thread' = [thread EXCEPT ![s].pc = "moved"]
    /\ UNCHANGED <<up, netVars, account, sessions, host, clientVars, bounds>>

RumorReconnect(s) ==
    /\ thread[s].pc = "moved"
    /\ Rumor(s, "RECONNECT", thread[s].user)
    /\ UNCHANGED <<up, live, wire, applying, sessions, host, clientVars, bounds>>

\* resumeSession gives up after its attempts: the client keeps its user and an
\* anonymous session.
GiveUp(c) ==
    /\ c \in resume /\ Ready(c)
    /\ resume' = resume \ {c}
    /\ UNCHANGED <<up, netVars, dbVars, sessionVars, sock, me, bounds>>

-----------------------------------------------------------------------------
(***************************************************************************)
(* Client connections.                                                     *)
(***************************************************************************)

\* openSession: an anonymous session on the next socket.
Connect(c, n) ==
    /\ up[n] /\ sock[c] = NoSock
    /\ \E s \in Sock :
        /\ host[s] = NoNode /\ \A r \in Sock : r < s => host[r] # NoNode
        /\ sock' = [sock EXCEPT ![c] = s]
        /\ host' = [host EXCEPT ![s] = n]
        /\ sessions' = [sessions EXCEPT ![n] = @ \cup {s}]
    /\ resume' = IF me[c] = NoUser THEN resume ELSE resume \cup {c}
    /\ UNCHANGED <<up, netVars, dbVars, auth, thread, me, bounds>>

\* The connection is lost.  The client notices here; its node does when the
\* handler's read fails (RemoveSession).
LoseLink(c) ==
    /\ sock[c] # NoSock /\ losses < MaxLosses
    /\ losses' = losses + 1
    /\ sock' = [sock EXCEPT ![c] = NoSock]
    /\ resume' = resume \ {c}
    /\ UNCHANGED <<up, netVars, dbVars, sessionVars, me, requests, cuts, crashes>>

-----------------------------------------------------------------------------
(***************************************************************************)
(* Gossip between nodes.                                                   *)
(***************************************************************************)

\* n's handler for m reads an event and, unless it is known, accepts it.
Deliver(n, m) ==
    /\ up[n] /\ m \in live[n] /\ wire[m][n] # <<>> /\ applying[n][m] = 0
    /\ wire' = [wire EXCEPT ![m][n] = Tail(@)]
    /\ LET i == Head(wire[m][n])
           e == events[i]
       IN \/ /\ i \in Range(log[n])
             /\ UNCHANGED <<log, applying, row, account, auth>>
          \/ /\ i \notin Range(log[n])
             /\ log' = [log EXCEPT ![n] = Append(@, i)]
             /\ applying' = [applying EXCEPT ![n][m] =
                   IF e.kind = "LOGIN" /\ StoresLogin(n, e) THEN i ELSE 0]
             /\ ApplyEvent(n, e)
    /\ UNCHANGED <<up, live, events, sessions, host, thread, clientVars, bounds>>

\* Mutant: a peer's LOGIN is stored under this node's own id.
MutFinishLoginHere(n, m) ==
    /\ up[n] /\ applying[n][m] # 0
    /\ SetOnline(n, events[applying[n][m]].user, n)
    /\ applying' = [applying EXCEPT ![n][m] = 0]
    /\ UNCHANGED <<up, live, wire, events, log, account, sessionVars,
                   clientVars, bounds>>

\* The setOnline of a LOGIN whose check passed.
FinishLogin(n, m) ==
    /\ up[n] /\ applying[n][m] # 0
    /\ LET e == events[applying[n][m]] IN SetOnline(n, e.user, e.node)
    /\ applying' = [applying EXCEPT ![n][m] = 0]
    /\ UNCHANGED <<up, live, wire, events, log, account, sessionVars,
                   clientVars, bounds>>

\* Digest, pull and answer: m sends the first event of its log that n misses.
Pull(n, m) ==
    LET missing(i) == i \notin Range(log[n]) /\ i \notin Range(wire[m][n])
    IN /\ up[n] /\ up[m] /\ Connected(n, m)
       /\ \E k \in 1..Len(log[m]) :
            /\ missing(log[m][k]) /\ \A j \in 1..(k - 1) : ~missing(log[m][j])
            /\ wire' = [wire EXCEPT ![m][n] = Append(@, log[m][k])]
       /\ UNCHANGED <<up, live, events, log, applying, dbVars, sessionVars,
                      clientVars, bounds>>

\* registerPeer at both ends of a new connection.
RegisterPeer(n, m) ==
    /\ up[n] /\ up[m] /\ n # m
    /\ m \notin live[n] /\ n \notin live[m]
    /\ live' = [live EXCEPT ![n] = @ \cup {m}, ![m] = @ \cup {n}]
    /\ UNCHANGED <<up, wire, events, log, applying, dbVars, sessionVars,
                   clientVars, bounds>>

\* removePeer at n, whose connection to m is gone or breaks now.
RemovePeer(n, m) ==
    /\ up[n] /\ m \in live[n] /\ applying[n][m] = 0
    /\ \/ n \notin live[m] /\ UNCHANGED cuts
       \/ n \in live[m] /\ cuts < MaxCuts /\ cuts' = cuts + 1
    /\ live' = [live EXCEPT ![n] = @ \ {m}]
    /\ wire' = [wire EXCEPT ![n][m] = <<>>, ![m][n] = <<>>]
    /\ UNCHANGED <<up, events, log, applying, dbVars, sessionVars, clientVars,
                   requests, losses, crashes>>

-----------------------------------------------------------------------------
(***************************************************************************)
(* Processes.  The database outlives the process; the log, the sessions    *)
(* and the peers do not.                                                   *)
(***************************************************************************)
Crash(n) ==
    LET lost == {s \in Sock : host[s] = n}
        cut  == {c \in Client : sock[c] \in lost}
    IN /\ up[n] /\ crashes < MaxCrashes
       /\ crashes' = crashes + 1
       /\ up' = [up EXCEPT ![n] = FALSE]
       /\ live' = [live EXCEPT ![n] = {}]
       /\ wire' = [m \in Node |-> [wire[m] EXCEPT ![n] = <<>>]]
       /\ log' = [log EXCEPT ![n] = <<>>]
       /\ applying' = [applying EXCEPT ![n] = [m \in Node |-> 0]]
       /\ sessions' = [sessions EXCEPT ![n] = {}]
       /\ auth' = [s \in Sock |-> IF s \in lost THEN NoUser ELSE auth[s]]
       /\ thread' = [s \in Sock |-> IF s \in lost THEN Idle ELSE thread[s]]
       /\ sock' = [c \in Client |-> IF c \in cut THEN NoSock ELSE sock[c]]
       /\ resume' = resume \ cut
       /\ UNCHANGED <<events, dbVars, host, me, requests, losses, cuts>>

\* Server::start: clearNodePresence, then listen.
Start(n) ==
    /\ ~up[n]
    /\ up' = [up EXCEPT ![n] = TRUE]
    /\ row' = [row EXCEPT ![n] = [u \in User |-> IF @[u] = n THEN NoNode ELSE @[u]]]
    /\ UNCHANGED <<netVars, account, sessionVars, clientVars, bounds>>

Handler(s) ==
    \/ SetSession(s) \/ RumorLogin(s) \/ StoreLogin(s) \/ CreateUser(s)
    \/ RemoveSession(s) \/ RumorLogout(s)
    \/ Claim(s) \/ RumorReconnect(s) \/ Push(s)

Request(c) ==
    \/ \E u \in User : Login(c, u) \/ Register(c, u)
    \/ Logout(c) \/ Reconnect(c) \/ GiveUp(c)
    \/ LoseLink(c) \/ \E n \in Node : Connect(c, n)

Peer(n, m) ==
    \/ Deliver(n, m) \/ FinishLogin(n, m) \/ Pull(n, m)
    \/ RegisterPeer(n, m) \/ RemovePeer(n, m)

Next ==
    \/ \E s \in Sock : Handler(s)
    \/ \E c \in Client : Request(c)
    \/ \E n, m \in Node : Peer(n, m)
    \/ \E n \in Node : Crash(n) \/ Start(n)

Spec == Init /\ [][Next]_vars

-----------------------------------------------------------------------------
(***************************************************************************)
(* Properties.                                                             *)
(***************************************************************************)

SessionsOf(u) == {s \in Sock : auth[s] = u}

\* "one live session per user across the cluster" (README.md line 29): at no
\* time are two connected clients both authenticated as the same user.
OneLiveSession ==
    \A u \in User : \A s, r \in SessionsOf(u) :
        ~Orphan(s) /\ ~Orphan(r) => s = r

\* The tables say the truth once the dust has settled: on every running node a
\* user's row names the node that holds the user's session, and there is no
\* row when nobody is logged in.
PresenceExact ==
    \A u \in User : Settled(u) => \A n \in Node : up[n] =>
        \/ SessionsOf(u) = {} /\ row[n][u] = NoNode
        \/ \E s \in SessionsOf(u) : row[n][u] = host[s]

\* Once the events about u have settled, every running node records u on the
\* node that has u's connection.
Recorded(u) ==
    Settled(u) => \A n \in Node : up[n] =>
        \A s \in SessionsOf(u) : ~Orphan(s) => row[n][u] = host[s]

\* database.md line 187, of online_users: "node_id is the node that owns the
\* live TCP session".
SessionsRecorded == \A u \in User : Recorded(u)

\* Failover: a user who has not logged out and has moved once is recorded where
\* the session is, on every running node: also when the old owner was only cut
\* off and still had the session, or crashed, restarted and was fed the old
\* events again, in any order, by its peer.
FailoverRecorded ==
    \A u \in User :
        LET about(kind) ==
                {i \in 1..Len(events) : events[i].kind = kind /\ events[i].user = u}
        IN about("LOGOUT") = {} /\ Cardinality(about("RECONNECT")) <= 1
              => Recorded(u)

\* Every row is somebody's doing: a table names a node for a user only if that
\* node has rumored a LOGIN or RECONNECT of the user, is about to, or died when
\* it was about to and has not started again.
NoInventedRows ==
    \A n, m \in Node, u \in User : row[n][u] = m =>
        \/ \E i \in 1..Len(events) :
              /\ events[i].kind \in {"LOGIN", "RECONNECT"}
              /\ events[i].user = u /\ events[i].node = m
        \/ n = m /\ ~up[n]
        \/ n = m /\ \E s \in Sock : host[s] = n /\ thread[s] = At("moved", u, 0)

\* One username is one account: a session's user has an account on the node
\* that serves it, in whatever order USER_CREATED and the user's other events
\* came in, and the users rows of two nodes come from the same registration.
AccountsAgree ==
    /\ \A s \in Sock : auth[s] # NoUser => account[host[s]][auth[s]] # NoNode
    /\ \A u \in User : Settled(u) => \A n, m \in Node :
          up[n] /\ up[m] => account[n][u] = account[m][u]
=============================================================================
