----------------------------- MODULE Lifecycle -----------------------------
(***************************************************************************)
(* One server process from Server::start to the end of Server::stop: the   *)
(* two accept loops (ConnectionManager for TCP clients, WebConnection for  *)
(* browsers), one handler thread per client, Heartbeat, and the thread     *)
(* that calls stop.  They share the session map, whose key is the socket   *)
(* number, and each session's send mutex and closed flag.                  *)
(*                                                                         *)
(* A connection c and the ClientSession made for it share the name c.  The *)
(* thread working for c is the accept thread until spawned[c], then c's    *)
(* handler; run[c] is where it stands.  A lookup in the session map and    *)
(* the critical section of the send mutex that follows it are one step,    *)
(* unless a write blocks: then the thread keeps the mutex.                 *)
(***************************************************************************)
EXTENDS Naturals, FiniteSets, Functions

CONSTANTS
    Conn,           \* connections made in a behaviour
    Kind,           \* Kind[c]: "tcp" or "web"
    Fd,             \* socket numbers
    None,
    Reuse,          \* the system may hand out the number of a closed socket
                    \* while some thread still holds it
    MaxStarts,      \* bound: times the server is started
    MaxFaults       \* bound: times a client stops sending, reading or leaves

Port == {"tcp", "web"}

ASSUME ConnAssumption ==
    /\ IsFiniteSet(Conn) /\ IsFiniteSet(Fd)
    /\ Kind \in [Conn -> Port]
    /\ None \notin Conn \cup Fd
    /\ "heartbeat" \notin Conn \cup {None}
ASSUME LifeBoundAssumption ==
    Reuse \in BOOLEAN /\ MaxStarts \in Nat /\ MaxFaults \in Nat

VARIABLES
    main,           \* where Server::start / Server::stop stands
    todo,           \* sockets stop has still to shut down or close
    toJoin,         \* handler threads stop has still to join
    listening,      \* listening[p]: the flag of the manager of port p
    tracked,        \* tracked[p]: clientThreads, not yet swapped out by a join
    liveSockets,    \* WebConnection::liveSockets_
    sock,           \* sock[c]: server end of c: "new", "open", "closed"
    fd,             \* fd[c]: its number
    shut,           \* shut[c]: shutdown() was called on it
    peer,           \* peer[c]: the client: "live"; "full" (it does not read and
                    \* its buffers are full); "silent" (it has sent nothing for
                    \* HEARTBEAT_TIMEOUT); "stuck" (both); "gone"
    sessions,       \* the session map, by socket number
    closed,         \* closed[c]: the session's closed_ flag
    ended,          \* history: how the end of c's session was made known
    holder,         \* holder[c]: the thread blocked in a write to c, with c's
                    \* send mutex; None when nobody is
    run,            \* run[c]: see above
    spawned,        \* spawned[c]: c has a handler thread
    to,             \* to[c]: the socket number c's thread writes to next
    hb,             \* Heartbeat: its stage, sessions to ping, current one
    starts, faults, \* counters of the bounds
    badClose        \* history: a socket number was closed that was not open

stopVars == <<main, todo, toJoin, starts>>
sockVars == <<sock, fd, shut, liveSockets>>
sessVars == <<sessions, closed, ended>>
peerVars == <<peer, faults>>
thrVars  == <<run, spawned, to, tracked>>
vars == <<stopVars, listening, sockVars, sessVars, peerVars, thrVars,
          holder, hb, badClose>>

RunStage == {"none", "track", "add", "welcome", "spawn", "headers", "loop",
             "read", "send", "close", "remove", "done"}
MainStage == {"stopped", "running", "shutdown", "joinWebAccept", "heartbeat",
              "gossip", "snapshot", "closing", "join", "joinAccept",
              "joinAgain", "joinWeb"}

\* Besides the types: a send mutex is held only by a thread that is writing.
TypeOK ==
    /\ main \in MainStage
    /\ todo \subseteq Fd /\ toJoin \subseteq Conn
    /\ listening \in [Port -> BOOLEAN]
    /\ tracked \in [Port -> SUBSET Conn]
    /\ liveSockets \subseteq Conn
    /\ sock \in [Conn -> {"new", "open", "closed"}]
    /\ fd \in [Conn -> Fd \cup {None}]
    /\ shut \in [Conn -> BOOLEAN]
    /\ peer \in [Conn -> {"live", "full", "silent", "stuck", "gone"}]
    /\ sessions \in [Fd -> Conn \cup {None}]
    /\ closed \in [Conn -> BOOLEAN]
    /\ ended \in [Conn -> {"no", "rumored", "cleared"}]
    /\ holder \in [Conn -> Conn \cup {"heartbeat", None}]
    /\ run \in [Conn -> RunStage] /\ spawned \in [Conn -> BOOLEAN]
    /\ to \in [Conn -> Fd \cup {None}]
    /\ hb \in [at : {"wait", "ping", "blocked", "drop", "done"},
               left : SUBSET Conn, cur : Conn \cup {None}, stopped : BOOLEAN]
    /\ starts \in Nat /\ faults \in Nat /\ badClose \in BOOLEAN
    /\ hb.cur # None <=> hb.at \in {"blocked", "drop"}
    /\ \A s, c \in Conn : holder[s] = c => run[c] \in {"welcome", "send"}

Init ==
    /\ main = "stopped" /\ todo = {} /\ toJoin = {}
    /\ listening = [p \in Port |-> FALSE]
    /\ tracked = [p \in Port |-> {}]
    /\ liveSockets = {}
    /\ sock = [c \in Conn |-> "new"]
    /\ fd = [c \in Conn |-> None]
    /\ shut = [c \in Conn |-> FALSE]
    /\ peer = [c \in Conn |-> "live"]
    /\ sessions = [f \in Fd |-> None]
    /\ closed = [c \in Conn |-> FALSE]
    /\ ended = [c \in Conn |-> "no"]
    /\ holder = [c \in Conn |-> None]
    /\ run = [c \in Conn |-> "none"]
    /\ spawned = [c \in Conn |-> FALSE]
    /\ to = [c \in Conn |-> None]
    /\ hb = [at |-> "done", left |-> {}, cur |-> None, stopped |-> TRUE]
    /\ starts = 0 /\ faults = 0 /\ badClose = FALSE

-----------------------------------------------------------------------------
(***************************************************************************)
(* Sockets, the session map and the send mutex.                            *)
(***************************************************************************)

\* The connections that own number f at this moment: one or none.
Owner(f) == {c \in Conn : sock[c] = "open" /\ fd[c] = f}

\* closesocket(f): whatever has that number now is closed.
CloseSocket(f) ==
    /\ sock' = [c \in Conn |-> IF c \in Owner(f) THEN "closed" ELSE sock[c]]
    /\ badClose' = (badClose \/ Owner(f) = {})
    /\ UNCHANGED <<fd, shut>>

SessionAt(f) == IF f = None THEN None ELSE sessions[f]
MutexFree(s) == s # None => holder[s] = None

\* Mutant: closeClient closes without asking markClosed.
MutCloseAlways(f) ==
    LET s == sessions[f]
    IN /\ MutexFree(s)
       /\ IF s # None
          THEN /\ closed' = [closed EXCEPT ![s] = TRUE]
               /\ CloseSocket(f)
          ELSE UNCHANGED <<closed, sock, badClose, fd, shut>>

\* closeClient(f): the first to mark the session closed closes the number.
CloseClient(f) ==
    LET s == sessions[f]
    IN /\ MutexFree(s)
       /\ IF s # None /\ ~closed[s]
          THEN /\ closed' = [closed EXCEPT ![s] = TRUE]
               /\ CloseSocket(f)
          ELSE UNCHANGED <<closed, sock, badClose, fd, shut>>

\* The gossip pointer of ConnectionManager: set by start, cleared by stop before
\* the TCP clients are closed.
HasGossip ==
    main \in {"running", "shutdown", "joinWebAccept", "heartbeat", "gossip"}

\* removeSession(f): out of the map; the end of the user's session is rumored,
\* or cleared from this node's tables when there is no gossip.
RemoveSession(f) ==
    LET s == sessions[f]
    IN /\ sessions' = [sessions EXCEPT ![f] = None]
       /\ ended' = IF s = None THEN ended
                   ELSE [ended EXCEPT ![s] =
                           IF HasGossip THEN "rumored" ELSE "cleared"]
       /\ UNCHANGED closed

\* What a write of sendPacket to number f can come to.
WriteResult(f) ==
    LET s == SessionAt(f)
    IN IF s = None THEN {"fail"}
       ELSE IF closed[s] \/ shut[s] THEN {"fail"}
       ELSE CASE peer[s] \in {"full", "stuck"} -> {"block"}
              [] peer[s] = "gone"             -> {"ok", "fail"}
              [] OTHER                        -> {"ok"}

\* A write that blocked goes on: the client reads again, or it is gone.
Unblocked(s) == peer[s] \notin {"full", "stuck"} \/ shut[s]
WriteLost(s) == peer[s] = "gone" \/ shut[s]

-----------------------------------------------------------------------------
(***************************************************************************)
(* The clients.                                                            *)
(***************************************************************************)
Established(c) == sock[c] = "open" /\ run[c] \notin {"none", "done"}

\* The client process is suspended, or its host is: it stops sending, and soon
\* what the server sends fills its buffers; or it closes its end.
Falter(c) ==
    /\ Established(c) /\ peer[c] = "live" /\ faults < MaxFaults
    /\ faults' = faults + 1
    /\ \E p \in {"full", "silent", "gone"} :
          /\ p = "full" => c \in Range(sessions)
          /\ peer' = [peer EXCEPT ![c] = p]
    /\ UNCHANGED <<stopVars, listening, sockVars, sessVars, thrVars, holder, hb,
                   badClose>>

\* The client goes on, answering what it finds, or TCP gives it up.
Recover(c) ==
    /\ Established(c) /\ peer[c] \in {"full", "silent", "stuck"}
    /\ \E p \in {"live", "gone"} : peer' = [peer EXCEPT ![c] = p]
    /\ UNCHANGED <<stopVars, listening, sockVars, sessVars, thrVars, faults,
                   holder, hb, badClose>>

\* HEARTBEAT_TIMEOUT passes without a packet from a client that does not read.
Timeout(c) ==
    /\ Established(c) /\ peer[c] = "full"
    /\ peer' = [peer EXCEPT ![c] = "stuck"]
    /\ UNCHANGED <<stopVars, listening, sockVars, sessVars, thrVars, faults,
                   holder, hb, badClose>>

\* ClientSession::isAlive is false.
Stale(c) == peer[c] \in {"silent", "stuck"}

-----------------------------------------------------------------------------
(***************************************************************************)
(* Accept loops and handlers.                                              *)
(***************************************************************************)

\* The accept thread of p is still busy with a client; it leaves its loop when it
\* is not and the listening socket is closed.
AcceptBusy(p) ==
    \E c \in Conn : Kind[c] = p /\ ~spawned[c] /\ run[c] \notin {"none", "done"}

\* Some thread will still use the number f.
Referenced(f) ==
    \/ f \in todo
    \/ \E c \in Conn :
          /\ fd[c] = f
          /\ \/ run[c] \notin {"none", "done"}
             \/ c \in hb.left \cup {hb.cur}
    \/ \E c \in Conn : to[c] = f /\ run[c] = "send"

\* The numbers the system can give to a new socket.
FreeFd == {f \in Fd : Owner(f) = {} /\ (Reuse \/ ~Referenced(f))}

\* The listening socket of port p is open.  stopListening clears the flag of
\* the TCP port before it closes the socket.
ListenSocketOpen(p) == listening[p] \/ (p = "tcp" /\ main = "snapshot")

\* acceptFrom returns a new client.
Accept(c) ==
    LET p == Kind[c]
    IN /\ sock[c] = "new"
       /\ ~AcceptBusy(p) /\ ListenSocketOpen(p)
       /\ FreeFd # {}
       /\ fd' = [fd EXCEPT ![c] = CHOOSE f \in FreeFd : TRUE]
       /\ sock' = [sock EXCEPT ![c] = "open"]
       /\ run' = [run EXCEPT ![c] = IF p = "tcp" THEN "add" ELSE "track"]
       /\ UNCHANGED <<stopVars, listening, shut, liveSockets, sessVars, peerVars,
                      spawned, to, tracked, holder, hb, badClose>>

\* WebConnection::track; a browser accepted after stopListening is closed.
Track(c) ==
    /\ run[c] = "track"
    /\ \/ /\ listening["web"]
          /\ liveSockets' = liveSockets \cup {c}
          /\ run' = [run EXCEPT ![c] = "spawn"]
          /\ UNCHANGED <<sock, fd, shut, badClose>>
       \/ /\ ~listening["web"]
          /\ CloseSocket(fd[c])
          /\ run' = [run EXCEPT ![c] = "done"]
          /\ UNCHANGED liveSockets
    /\ UNCHANGED <<stopVars, listening, sessVars, peerVars, spawned, to, tracked,
                   holder, hb>>

\* spawnClientHandler, and its counterpart in WebConnection::acceptLoop: the
\* flag is read under the mutex of the thread list.
Spawn(c) ==
    /\ run[c] = "spawn"
    /\ \/ /\ listening[Kind[c]]
          /\ spawned' = [spawned EXCEPT ![c] = TRUE]
          /\ tracked' = [tracked EXCEPT ![Kind[c]] = @ \cup {c}]
          /\ run' = [run EXCEPT ![c] =
                       IF Kind[c] = "tcp" THEN "loop" ELSE "headers"]
          /\ UNCHANGED <<sockVars, badClose>>
       \/ /\ ~listening[Kind[c]] /\ Kind[c] = "tcp"
          /\ run' = [run EXCEPT ![c] = "close"]
          /\ UNCHANGED <<spawned, tracked, sockVars, badClose>>
       \/ /\ ~listening[Kind[c]] /\ Kind[c] = "web"
          /\ liveSockets' = liveSockets \ {c}
          /\ CloseSocket(fd[c])
          /\ run' = [run EXCEPT ![c] = "done"]
          /\ UNCHANGED <<spawned, tracked>>
    /\ UNCHANGED <<stopVars, listening, sessVars, peerVars, to, holder, hb>>

\* handleBrowser: the HTTP request is read and answered; without it (no valid
\* request, or the socket is gone) the socket is closed and untracked.
Upgrade(c) ==
    /\ run[c] = "headers"
    /\ \/ /\ peer[c] = "live" /\ ~shut[c]
          /\ run' = [run EXCEPT ![c] = "add"]
          /\ UNCHANGED <<sockVars, badClose>>
       \/ /\ peer[c] \in {"live", "gone"} \/ shut[c]
          /\ CloseSocket(fd[c])
          /\ liveSockets' = liveSockets \ {c}
          /\ run' = [run EXCEPT ![c] = "done"]
    /\ UNCHANGED <<stopVars, listening, sessVars, peerVars, spawned, to, tracked,
                   holder, hb>>

\* openSession: addSession, then a place in Lobby, which a database error can
\* refuse.
OpenSession(c) ==
    /\ run[c] = "add"
    /\ sessions' = [sessions EXCEPT ![fd[c]] = c]
    /\ \E next \in {"welcome", "close"} : run' = [run EXCEPT ![c] = next]
    /\ to' = [to EXCEPT ![c] = fd[c]]
    /\ UNCHANGED <<stopVars, listening, sockVars, closed, ended, peerVars,
                   spawned, tracked, holder, hb, badClose>>

\* The condition of the read loop.  A browser's handler looks at both flags.
LoopOn(c) == listening["tcp"] /\ listening[Kind[c]]

\* A TCP handler's first look at it, which stop may have overtaken.
EnterLoop(c) ==
    /\ run[c] = "loop"
    /\ run' = [run EXCEPT ![c] = IF LoopOn(c) THEN "read" ELSE "close"]
    /\ UNCHANGED <<stopVars, listening, sockVars, sessVars, peerVars, spawned, to,
                   tracked, holder, hb, badClose>>

\* Where c's thread goes on after a write.  A failed welcome or reply ends it;
\* a message sent to another member of the room is followed by the reply.
AfterWrite(c, result) ==
    IF run[c] = "welcome"
    THEN CASE result = "fail"  -> "close"
           [] Kind[c] = "tcp"  -> "spawn"
           [] OTHER            -> IF LoopOn(c) THEN "read" ELSE "close"
    ELSE CASE to[c] # fd[c]    -> "send"
           [] result = "fail"  -> "close"
           [] OTHER            -> IF LoopOn(c) THEN "read" ELSE "close"

\* c's thread is inside a write that blocked.
Blocked(c) == \E s \in Conn : holder[s] = c

\* sendPacket by c's thread: the welcome, with the server directory that follows
\* it, a message for a member of the room, or the reply.
Write(c) ==
    LET s == SessionAt(to[c])
    IN /\ run[c] \in {"welcome", "send"} /\ ~Blocked(c)
       /\ MutexFree(s)
       /\ \E result \in WriteResult(to[c]) :
             \/ /\ result = "block"
                /\ holder' = [holder EXCEPT ![s] = c]
                /\ UNCHANGED <<run, to>>
             \/ /\ result # "block"
                /\ run' = [run EXCEPT ![c] = AfterWrite(c, result)]
                /\ to' = [to EXCEPT ![c] = fd[c]]
                /\ UNCHANGED holder
       /\ UNCHANGED <<stopVars, listening, sockVars, sessVars, peerVars, spawned,
                      tracked, hb, badClose>>

\* Mutant: the send mutex is not released after a write that failed.
MutKeepMutex(c) ==
    /\ \E s \in Conn :
          /\ holder[s] = c /\ Unblocked(s)
          /\ IF WriteLost(s)
             THEN /\ run' = [run EXCEPT ![c] = AfterWrite(c, "fail")]
                  /\ UNCHANGED holder
             ELSE /\ run' = [run EXCEPT ![c] = AfterWrite(c, "ok")]
                  /\ holder' = [holder EXCEPT ![s] = None]
    /\ to' = [to EXCEPT ![c] = fd[c]]
    /\ UNCHANGED <<stopVars, listening, sockVars, sessVars, peerVars, spawned,
                   tracked, hb, badClose>>

\* A blocked write ends.
Unblock(c) ==
    /\ \E s \in Conn :
          /\ holder[s] = c /\ Unblocked(s)
          /\ holder' = [holder EXCEPT ![s] = None]
          /\ run' = [run EXCEPT ![c] =
                       AfterWrite(c, IF WriteLost(s) THEN "fail" ELSE "ok")]
    /\ to' = [to EXCEPT ![c] = fd[c]]
    /\ UNCHANGED <<stopVars, listening, sockVars, sessVars, peerVars, spawned,
                   tracked, hb, badClose>>

\* readPacket and dispatchPacket: the packet touches the session and is
\* answered; a chat message goes to another member first.  A packet for a number
\* without a session drops the socket.
Read(c) ==
    /\ run[c] = "read"
    /\ \E d \in Owner(fd[c]) : peer[d] = "live" /\ ~shut[d]
    /\ \/ /\ sessions[fd[c]] = None
          /\ run' = [run EXCEPT ![c] = "close"]
          /\ UNCHANGED to
       \/ /\ sessions[fd[c]] # None
          /\ \E f \in {x \in Fd : sessions[x] # None} :
                to' = [to EXCEPT ![c] = f]
          /\ run' = [run EXCEPT ![c] = "send"]
    /\ UNCHANGED <<stopVars, listening, sockVars, sessVars, peerVars, spawned,
                   tracked, holder, hb, badClose>>

\* readPacket fails: the socket was closed or shut down here, or by the client.
ReadFails(c) ==
    /\ run[c] = "read"
    /\ sock[c] = "closed" \/ shut[c] \/ peer[c] = "gone"
    /\ run' = [run EXCEPT ![c] = "close"]
    /\ UNCHANGED <<stopVars, listening, sockVars, sessVars, peerVars, spawned, to,
                   tracked, holder, hb, badClose>>

\* Mutant: the session is dropped before its socket is closed, which then is not
\* found.
MutRemoveFirst(c) ==
    /\ run[c] = "close"
    /\ RemoveSession(fd[c])
    /\ run' = [run EXCEPT ![c] = "remove"]
    /\ UNCHANGED <<stopVars, listening, sockVars, peerVars, spawned, to, tracked,
                   holder, hb, badClose>>

\* releaseClient, first half (also openSession's and spawnClientHandler's
\* failure paths).
Close(c) ==
    /\ run[c] = "close"
    /\ CloseClient(fd[c])
    /\ run' = [run EXCEPT ![c] = "remove"]
    /\ UNCHANGED <<stopVars, listening, liveSockets, sessions, ended,
                   peerVars, spawned, to, tracked, holder, hb>>

\* releaseClient, second half; a browser's handler then untracks its socket.
Remove(c) ==
    /\ run[c] = "remove"
    /\ RemoveSession(fd[c])
    /\ liveSockets' = liveSockets \ {c}
    /\ run' = [run EXCEPT ![c] = "done"]
    /\ UNCHANGED <<stopVars, listening, sock, fd, shut, peerVars, spawned, to,
                   tracked, holder, hb, badClose>>

-----------------------------------------------------------------------------
(***************************************************************************)
(* Heartbeat.                                                              *)
(***************************************************************************)

\* One session of the round is done with.
PingDone(s) ==
    LET rest == hb.left \ {s}
    IN [hb EXCEPT !.at = IF rest = {} THEN "wait" ELSE "ping",
                  !.left = rest, !.cur = None]

\* The interval has passed: pingOnce takes a snapshot of the sessions.
PingRound ==
    /\ hb.at = "wait" /\ ~hb.stopped
    /\ LET all == Range(sessions) \ {None}
       IN all # {} /\ hb' = [hb EXCEPT !.at = "ping", !.left = all]
    /\ UNCHANGED <<stopVars, listening, sockVars, sessVars, peerVars, thrVars,
                   holder, badClose>>

\* Mutant: a session that is not alive is pinged like the others.
MutPingOnly(s) ==
    LET f == fd[s]
    IN /\ hb.at = "ping" /\ ~hb.stopped /\ s \in hb.left
       /\ \/ /\ closed[s]
             /\ hb' = PingDone(s)
             /\ UNCHANGED holder
          \/ /\ ~closed[s] /\ MutexFree(sessions[f])
             /\ \E result \in WriteResult(f) :
                   \/ /\ result = "ok"
                      /\ hb' = PingDone(s)
                      /\ UNCHANGED holder
                   \/ /\ result = "fail"
                      /\ hb' = [hb EXCEPT !.at = "drop", !.cur = s]
                      /\ UNCHANGED holder
                   \/ /\ result = "block"
                      /\ hb' = [hb EXCEPT !.at = "blocked", !.cur = s]
                      /\ holder' = [holder EXCEPT ![sessions[f]] = "heartbeat"]
       /\ UNCHANGED <<stopVars, listening, sockVars, sessVars, peerVars, thrVars,
                      badClose>>

\* One turn of pingOnce's loop: skip a closed session, drop a stale one, ping
\* the others and drop those the ping cannot be written to.
Ping(s) ==
    LET f == fd[s]
    IN /\ hb.at = "ping" /\ ~hb.stopped /\ s \in hb.left
       /\ \/ /\ closed[s]
             /\ hb' = PingDone(s)
             /\ UNCHANGED holder
          \/ /\ ~closed[s] /\ Stale(s)
             /\ hb' = [hb EXCEPT !.at = "drop", !.cur = s]
             /\ UNCHANGED holder
          \/ /\ ~closed[s] /\ ~Stale(s) /\ MutexFree(sessions[f])
             /\ \E result \in WriteResult(f) :
                   \/ /\ result = "ok"
                      /\ hb' = PingDone(s)
                      /\ UNCHANGED holder
                   \/ /\ result = "fail"
                      /\ hb' = [hb EXCEPT !.at = "drop", !.cur = s]
                      /\ UNCHANGED holder
                   \/ /\ result = "block"
                      /\ hb' = [hb EXCEPT !.at = "blocked", !.cur = s]
                      /\ holder' = [holder EXCEPT ![sessions[f]] = "heartbeat"]
       /\ UNCHANGED <<stopVars, listening, sockVars, sessVars, peerVars, thrVars,
                      badClose>>

\* A blocked ping ends.
PingUnblock ==
    /\ hb.at = "blocked"
    /\ \E s \in Conn :
          /\ holder[s] = "heartbeat" /\ Unblocked(s)
          /\ holder' = [holder EXCEPT ![s] = None]
          /\ hb' = IF WriteLost(s) THEN [hb EXCEPT !.at = "drop"]
                   ELSE PingDone(hb.cur)
    /\ UNCHANGED <<stopVars, listening, sockVars, sessVars, peerVars, thrVars,
                   badClose>>

\* closeClient(session.getSocket()).
Drop ==
    /\ hb.at = "drop"
    /\ CloseClient(fd[hb.cur])
    /\ hb' = PingDone(hb.cur)
    /\ UNCHANGED <<stopVars, listening, liveSockets, sessions, ended,
                   peerVars, thrVars, holder>>

\* The worker sees the stopped flag, at its wait or between two sessions.
HeartbeatExit ==
    /\ hb.stopped /\ hb.at \in {"wait", "ping"}
    /\ hb' = [hb EXCEPT !.at = "done", !.left = {}]
    /\ UNCHANGED <<stopVars, listening, sockVars, sessVars, peerVars, thrVars,
                   holder, badClose>>

-----------------------------------------------------------------------------
(***************************************************************************)
(* Server::start and Server::stop.                                         *)
(***************************************************************************)
Start ==
    /\ main = "stopped" /\ starts < MaxStarts
    /\ starts' = starts + 1
    /\ main' = "running"
    /\ listening' = [p \in Port |-> TRUE]
    /\ hb' = [hb EXCEPT !.at = "wait", !.stopped = FALSE]
    /\ UNCHANGED <<todo, toJoin, sockVars, sessVars, peerVars, thrVars, holder,
                   badClose>>

\* Mutant: stopListening wakes no browser.
MutNoShutdown ==
    /\ main = "running"
    /\ main' = "shutdown"
    /\ listening' = [listening EXCEPT !["web"] = FALSE]
    /\ todo' = {}
    /\ UNCHANGED <<toJoin, starts, sockVars, sessVars,
                   peerVars, thrVars, holder, hb, badClose>>

\* running = false; WebConnection::stopListening up to its snapshot.
StopWeb ==
    /\ main = "running"
    /\ main' = "shutdown"
    /\ listening' = [listening EXCEPT !["web"] = FALSE]
    /\ todo' = {fd[c] : c \in liveSockets}
    /\ UNCHANGED <<toJoin, starts, sockVars, sessVars,
                   peerVars, thrVars, holder, hb, badClose>>

\* shutdown() of one browser socket, or the end of that loop.
ShutdownWeb ==
    /\ main = "shutdown"
    /\ \/ \E f \in todo :
             /\ todo' = todo \ {f}
             /\ shut' = [c \in Conn |-> shut[c] \/ c \in Owner(f)]
             /\ UNCHANGED main
       \/ /\ todo = {} /\ main' = "joinWebAccept"
          /\ UNCHANGED <<todo, shut>>
    /\ UNCHANGED <<toJoin, starts, listening, sock, fd, liveSockets,
                   sessVars, peerVars, thrVars, holder, hb, badClose>>

\* join(webAcceptThread); Heartbeat::stop raises its flag.
JoinWebAccept ==
    /\ main = "joinWebAccept" /\ ~AcceptBusy("web")
    /\ main' = "heartbeat"
    /\ hb' = [hb EXCEPT !.stopped = TRUE]
    /\ UNCHANGED <<todo, toJoin, starts, listening, sockVars, sessVars,
                   peerVars, thrVars, holder, badClose>>

\* join(heartbeat_thread); GossipManager::stop.
JoinHeartbeat ==
    /\ main = "heartbeat" /\ hb.at = "done"
    /\ main' = "gossip"
    /\ UNCHANGED <<todo, toJoin, starts, listening, sockVars, sessVars, peerVars,
                   thrVars, holder, hb, badClose>>

\* setGossip(nullptr); ConnectionManager::stopListening clears its flag.
StopTcp ==
    /\ main = "gossip"
    /\ main' = "snapshot"
    /\ listening' = [listening EXCEPT !["tcp"] = FALSE]
    /\ UNCHANGED <<todo, toJoin, starts, sockVars, sessVars, peerVars,
                   thrVars, holder, hb, badClose>>

\* The listening socket is closed and the sessions' sockets are collected.
SnapshotTcp ==
    /\ main = "snapshot"
    /\ main' = "closing"
    /\ todo' = {f \in Fd : sessions[f] # None}
    /\ UNCHANGED <<toJoin, starts, listening, sockVars, sessVars, peerVars,
                   thrVars, holder, hb, badClose>>

\* closeClient of one of them, or the end of that loop: joinClientThreads swaps
\* the threads out.
CloseTcp ==
    /\ main = "closing"
    /\ \/ \E f \in todo :
             /\ todo' = todo \ {f}
             /\ CloseClient(f)
             /\ UNCHANGED <<main, toJoin, tracked>>
       \/ /\ todo = {}
          /\ main' = "join"
          /\ toJoin' = tracked["tcp"]
          /\ tracked' = [tracked EXCEPT !["tcp"] = {}]
          /\ UNCHANGED <<todo, closed, sock, fd, shut, badClose>>
    /\ UNCHANGED <<starts, listening, liveSockets, sessions, ended,
                   peerVars, run, spawned, to, holder, hb>>

\* The remaining joins: the TCP handlers, the accept thread, the TCP handlers
\* again, the browsers' handlers.
Joined == \A c \in toJoin : run[c] = "done"

\* Mutant: the browsers' handlers are not joined.
MutNoWebJoin ==
    /\ Joined
    /\ \/ /\ main = "join" /\ main' = "joinAccept"
          /\ toJoin' = {}
          /\ UNCHANGED tracked
       \/ /\ main = "joinAccept" /\ ~AcceptBusy("tcp") /\ main' = "joinAgain"
          /\ toJoin' = tracked["tcp"]
          /\ tracked' = [tracked EXCEPT !["tcp"] = {}]
       \/ /\ main = "joinAgain" /\ main' = "stopped"
          /\ toJoin' = {}
          /\ UNCHANGED tracked
    /\ UNCHANGED <<todo, starts, listening, sockVars, sessVars, peerVars,
                   run, spawned, to, holder, hb, badClose>>

Join ==
    /\ Joined
    /\ \/ /\ main = "join" /\ main' = "joinAccept"
          /\ toJoin' = {}
          /\ UNCHANGED tracked
       \/ /\ main = "joinAccept" /\ ~AcceptBusy("tcp") /\ main' = "joinAgain"
          /\ toJoin' = tracked["tcp"]
          /\ tracked' = [tracked EXCEPT !["tcp"] = {}]
       \/ /\ main = "joinAgain" /\ main' = "joinWeb"
          /\ toJoin' = tracked["web"]
          /\ tracked' = [tracked EXCEPT !["web"] = {}]
       \/ /\ main = "joinWeb" /\ main' = "stopped"
          /\ toJoin' = {}
          /\ UNCHANGED tracked
    /\ UNCHANGED <<todo, starts, listening, sockVars, sessVars, peerVars,
                   run, spawned, to, holder, hb, badClose>>

-----------------------------------------------------------------------------
Client(c) == Falter(c) \/ Recover(c) \/ Timeout(c)

Thread(c) ==
    \/ Track(c) \/ Spawn(c) \/ Upgrade(c) \/ OpenSession(c) \/ EnterLoop(c)
    \/ Write(c) \/ Unblock(c) \/ Read(c) \/ ReadFails(c) \/ Close(c) \/ Remove(c)

Heartbeat ==
    PingRound \/ (\E s \in Conn : Ping(s)) \/ PingUnblock \/ Drop \/ HeartbeatExit

Stop ==
    \/ StopWeb \/ ShutdownWeb \/ JoinWebAccept \/ JoinHeartbeat \/ StopTcp
    \/ SnapshotTcp \/ CloseTcp \/ Join

Next ==
    \/ Start \/ Stop \/ Heartbeat
    \/ \E c \in Conn : Client(c) \/ Accept(c) \/ Thread(c)

Spec == Init /\ [][Next]_vars

(***************************************************************************)
(* Every server thread keeps running, a live client answers the pings (so  *)
(* a blocked read returns), time passes.  A client that stopped reading    *)
(* reads again or is given up by TCP in the end: the writes have no        *)
(* timeout of their own, so nothing in the server bounds how long one      *)
(* holds its session's send mutex.  Nothing makes anyone call stop.        *)
(***************************************************************************)
Fairness ==
    /\ WF_vars(Heartbeat)
    /\ WF_vars(main # "running" /\ Stop)
    /\ WF_vars(\E c \in Conn : peer[c] \in {"full", "stuck"} /\ Recover(c))
    /\ \A c \in Conn : WF_vars(Thread(c))

FairSpec == Spec /\ Fairness

-----------------------------------------------------------------------------
(***************************************************************************)
(* Properties.                                                             *)
(***************************************************************************)

\* "close the socket and drop the session" (connection_manager.cpp:226): once
\* the thread that served a client is done with it, the client's socket is
\* closed, its session is out of the map and a logged-in user's departure has
\* been made known.
Released ==
    \A c \in Conn : run[c] = "done" =>
        /\ sock[c] = "closed"
        /\ \A f \in Fd : sessions[f] # c
        /\ closed[c] => ended[c] # "no"

\* Whoever comes first of the handler, Heartbeat and stop closes the socket of
\* a session, the others do not close its number a second time, and the closed
\* flag tells the truth about the socket.
ClosedOnce ==
    /\ ~badClose
    /\ \A f \in Fd : sessions[f] # None =>
          (closed[sessions[f]] <=> sock[sessions[f]] = "closed")

\* When stop has returned no client accepted before, during or after the closing
\* of the listening sockets is left: no socket, no session, no thread.
StoppedClean ==
    main = "stopped" =>
        /\ \A c \in Conn : sock[c] # "open" /\ run[c] \in {"none", "done"}
        /\ \A f \in Fd : sessions[f] = None
        /\ \A p \in Port : tracked[p] = {}
        /\ liveSockets = {} /\ hb.at = "done"

\* A call of stop returns, whatever the clients, the accept loops, Heartbeat and
\* the handlers are in the middle of.
StopTerminates == main = "shutdown" ~> main = "stopped"

\* heartbeat.cpp:4: Heartbeat drops silent sockets, also while it has others to
\* ping and while their writes block.
SilentDropped ==
    \A c \in Conn :
        (Established(c) /\ Stale(c) /\ c \in Range(sessions))
            ~> (sock[c] = "closed" \/ ~Stale(c))
=============================================================================
