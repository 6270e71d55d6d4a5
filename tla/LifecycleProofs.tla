-------------------------- MODULE LifecycleProofs --------------------------
(***************************************************************************)
(* Proofs about Lifecycle, for any number of connections, socket numbers,  *)
(* restarts and client faults: its type invariant and, as long as the      *)
(* system does not hand out a socket number some thread still holds (Reuse *)
(* is FALSE), that a served client leaves nothing behind (Released), that  *)
(* a socket is closed once (ClosedOnce) and that stop leaves nothing       *)
(* running (StoppedClean).                                                 *)
(*                                                                         *)
(* Where a thread stands determines whether its connection has a session   *)
(* (Sockets, Mapped); connections in use, and those in Heartbeat's         *)
(* snapshot, have numbers of their own (Unique), so closeClient of a       *)
(* number reaches the connection its caller means; and each join of stop   *)
(* leaves one kind of thread out of the picture (Stopping), which the      *)
(* later ones rely on.                                                     *)
(***************************************************************************)
EXTENDS Lifecycle, TLAPS

\* A thread of the server is working for c.
Active(c) == run[c] \notin {"none", "done"}

\* c is between addSession and removeSession.
InSession(c) ==
    \/ run[c] \in {"welcome", "loop", "read", "send", "close", "remove"}
    \/ run[c] = "spawn" /\ Kind[c] = "tcp"

\* A thread is blocked in at most one write.
OneWrite == \A s, t, c \in Conn : holder[s] = c /\ holder[t] = c => s = t

\* Connections that were accepted have a number.
Numbered == \A c \in Conn :
    /\ run[c] # "none" => fd[c] \in Fd
    /\ c \in liveSockets => run[c] # "none"
    /\ sock[c] = "new" => run[c] = "none"

\* Heartbeat does not run once stop has joined it.
Paused ==
    main \notin {"running", "shutdown", "joinWebAccept", "heartbeat"} => hb.at = "done"

\* What Lifecycle's type invariant needs, with Reuse or without.
TInv == TypeOK /\ OneWrite /\ Numbered /\ Paused

\* What the stage of c's thread says about its socket and its session's flag.
SocketOf(c) ==
    /\ run[c] = "none" <=> sock[c] = "new"
    /\ run[c] = "none" => ~spawned[c]
    /\ run[c] = "done" => sock[c] = "closed" /\ (closed[c] => ended[c] # "no")
    /\ Active(c) /\ ~InSession(c) => sock[c] = "open"
    /\ run[c] # "done" /\ ~InSession(c) => ~closed[c]
    /\ InSession(c) => (closed[c] <=> sock[c] = "closed")
    /\ run[c] = "remove" => closed[c]
    /\ run[c] \in {"track", "headers"} => Kind[c] = "web"
    /\ run[c] = "loop" => Kind[c] = "tcp"
    /\ c \in liveSockets => Active(c) /\ run[c] # "track"

Sockets == \A c \in Conn : SocketOf(c)

\* The session map holds exactly the connections in session, each at its number.
Mapped ==
    /\ \A c \in Conn : InSession(c) => sessions[fd[c]] = c
    /\ \A f \in Fd : sessions[f] # None =>
          InSession(sessions[f]) /\ fd[sessions[f]] = f

\* Heartbeat has c in its snapshot.
Pinging(c) == c \in hb.left \/ c = hb.cur

\* No connection in use has the number of another one, or of one that Heartbeat
\* is still going to ping or to close.
Unique == \A c, d \in Conn :
    c # d /\ (Active(c) \/ Pinging(c)) /\ Active(d) => fd[c] # fd[d]

Snapshot == \A c \in Conn : Pinging(c) => InSession(c) \/ run[c] = "done"

\* A handler at work is known to whoever joins the handlers.
Joinable == \A c \in Conn :
    Active(c) /\ spawned[c] => c \in tracked[Kind[c]] \cup toJoin

\* What the stages of stop that are over have established.
Stopping ==
    /\ listening["web"] => main = "running"
    /\ listening["tcp"] => HasGossip
    /\ main \notin {"running", "shutdown", "joinWebAccept"} => ~AcceptBusy("web")
    /\ main \notin {"join", "joinAgain", "joinWeb"} => toJoin = {}
    /\ main \in {"join", "joinAccept", "joinAgain", "joinWeb", "stopped"} =>
          tracked["tcp"] = {}
    /\ main \in {"joinAgain", "joinWeb", "stopped"} => ~AcceptBusy("tcp")
    /\ main \in {"joinWeb", "stopped"} =>
          tracked["web"] = {} /\ \A c \in Conn : Kind[c] = "tcp" => ~Active(c)
    /\ main = "stopped" => \A c \in Conn : ~Active(c)

Tidy == Sockets /\ Mapped /\ Unique /\ Snapshot /\ Joinable /\ Stopping /\ ~badClose

IInv == TInv /\ Tidy

-----------------------------------------------------------------------------
(***************************************************************************)
(* The type invariant.                                                     *)
(***************************************************************************)

\* Where a thread goes on after a write.
LEMMA AfterWriteStage ==
    ASSUME NEW c, NEW r
    PROVE  AfterWrite(c, r) \in {"close", "spawn", "read", "send"}
BY DEF AfterWrite

\* A step that moves no thread, accepts nobody and takes no send mutex keeps what
\* the type invariant says about threads.
LEMMA CalmThreads ==
    ASSUME TInv, UNCHANGED <<run, fd>>, liveSockets' \subseteq liveSockets,
           \A s \in Conn : holder'[s] = holder[s] \/ holder'[s] \notin Conn,
           \A d \in Conn : sock'[d] = "new" => sock[d] = "new"
    PROVE  /\ OneWrite' /\ Numbered'
           /\ \A s, c \in Conn : holder'[s] = c => run'[c] \in {"welcome", "send"}
<1>1. OneWrite'
  BY DEF TInv, OneWrite
<1>2. Numbered'
  BY DEF TInv, Numbered
<1>3. \A s, c \in Conn : holder'[s] = c => run'[c] \in {"welcome", "send"}
  BY DEF TInv, TypeOK
<1> QED BY <1>1, <1>2, <1>3

\* A step of c's thread that is in no blocked write keeps it, too.
LEMMA ThreadMoves ==
    ASSUME TInv, NEW c \in Conn, NEW next \in RunStage,
           run' = [run EXCEPT ![c] = next], next # "none",
           ~Blocked(c) \/ next \in {"welcome", "send"},
           UNCHANGED holder, fd'[c] \in Fd,
           \A d \in Conn : d # c => fd'[d] = fd[d],
           \A d \in Conn : d # c /\ d \in liveSockets' => d \in liveSockets,
           \A d \in Conn : sock'[d] = "new" => sock[d] = "new" /\ d # c
    PROVE  /\ OneWrite' /\ Numbered' /\ run' \in [Conn -> RunStage]
           /\ \A s, d \in Conn : holder'[s] = d => run'[d] \in {"welcome", "send"}
<1>0. run \in [Conn -> RunStage]
  BY DEF TInv, TypeOK
<1>1. OneWrite'
  BY DEF TInv, OneWrite
<1>2. Numbered'
  BY <1>0 DEF TInv, Numbered
<1>3. \A s, d \in Conn : holder'[s] = d => run'[d] \in {"welcome", "send"}
  BY <1>0 DEF TInv, TypeOK, Blocked
<1> QED BY <1>0, <1>1, <1>2, <1>3
HbType == [at : {"wait", "ping", "blocked", "drop", "done"},
           left : SUBSET Conn, cur : Conn \cup {None}, stopped : BOOLEAN]

\* What TypeOK says besides its last conjunct, which relates the mutexes to the
\* threads.
Typed ==
    /\ main \in MainStage
    /\ todo \subseteq Fd /\ toJoin \subseteq Conn
    /\ listening \in [Port -> BOOLEAN]
    /\ tracked \in [Port -> SUBSET Conn]
    /\ liveSockets \subseteq Conn
    /\ sock \in [Conn -> {"new", "open", "closed"}]
    /\ fd \in [Conn -> Fd \cup {None}]
    /\ shut \in [Conn -> BOOLEAN]
    /\ peer \in [Conn -> {"live", "full", "silent", "stuck", "gone"}]
    /\ sessions \in [Fd -> Conn \cup {None}]
    /\ closed \in [Conn -> BOOLEAN]
    /\ ended \in [Conn -> {"no", "rumored", "cleared"}]
    /\ holder \in [Conn -> Conn \cup {"heartbeat", None}]
    /\ run \in [Conn -> RunStage] /\ spawned \in [Conn -> BOOLEAN]
    /\ to \in [Conn -> Fd \cup {None}]
    /\ hb \in HbType
    /\ starts \in Nat /\ faults \in Nat /\ badClose \in BOOLEAN
    /\ hb.cur # None <=> hb.at \in {"blocked", "drop"}

Writers == \A s, c \in Conn : holder[s] = c => run[c] \in {"welcome", "send"}

\* TypeOK in its two parts.
LEMMA TypeOKParts == (TypeOK <=> Typed /\ Writers) /\ (TypeOK' <=> Typed' /\ Writers')
BY DEF TypeOK, Typed, Writers, HbType

\* closesocket keeps the types.
LEMMA CloseSocketTyped ==
    ASSUME Typed, NEW f, CloseSocket(f)
    PROVE  /\ sock' \in [Conn -> {"new", "open", "closed"}]
           /\ badClose' \in BOOLEAN /\ UNCHANGED <<fd, shut>>
           /\ \A d \in Conn : sock'[d] = "new" => sock[d] = "new"
BY DEF Typed, CloseSocket

\* So does closeClient.
LEMMA CloseClientTyped ==
    ASSUME Typed, NEW f, CloseClient(f)
    PROVE  /\ sock' \in [Conn -> {"new", "open", "closed"}]
           /\ closed' \in [Conn -> BOOLEAN]
           /\ badClose' \in BOOLEAN /\ UNCHANGED <<fd, shut>>
           /\ \A d \in Conn : sock'[d] = "new" => sock[d] = "new"
<1>1. CASE sessions[f] # None /\ ~closed[sessions[f]]
  BY <1>1, CloseSocketTyped DEF Typed, CloseClient
<1>2. CASE ~(sessions[f] # None /\ ~closed[sessions[f]])
  BY <1>2 DEF Typed, CloseClient
<1> QED BY <1>1, <1>2

\* Heartbeat's record after a session of the round.
LEMMA PingDoneFields ==
    ASSUME hb \in HbType, NEW s
    PROVE  /\ PingDone(s) \in HbType
           /\ PingDone(s).at \in {"wait", "ping"} /\ PingDone(s).left = hb.left \ {s}
           /\ PingDone(s).cur = None /\ PingDone(s).stopped = hb.stopped
BY DEF PingDone, HbType

\* The clients' own steps keep the types.
LEMMA ClientTyped ==
    ASSUME TInv, NEW c \in Conn, Client(c)
    PROVE  TInv'
<1>1. UNCHANGED <<stopVars, listening, sockVars, sessVars, thrVars, holder, hb, badClose>>
  BY DEF Client, Falter, Recover, Timeout
<1>2. peer' \in [Conn -> {"live", "full", "silent", "stuck", "gone"}] /\ faults' \in Nat
  BY TypeOKParts DEF TInv, Typed, Client, Falter, Recover, Timeout
<1>3. Typed'
  BY <1>1, <1>2, TypeOKParts DEF TInv, Typed, stopVars, sockVars, sessVars, thrVars
<1>4. OneWrite' /\ Numbered' /\ Writers'
  BY <1>1, CalmThreads DEF sockVars, thrVars, Writers
<1>5. Paused'
  BY <1>1 DEF TInv, Paused, stopVars
<1> QED BY <1>3, <1>4, <1>5, TypeOKParts DEF TInv

\* So do the accept loops.
LEMMA AcceptTyped ==
    ASSUME TInv, NEW c \in Conn, Accept(c)
    PROVE  TInv'
<1>0. Typed /\ Writers
  BY TypeOKParts DEF TInv
<1>1. UNCHANGED <<stopVars, listening, shut, liveSockets, sessVars, peerVars,
                  spawned, to, tracked, holder, hb, badClose>>
  BY DEF Accept
<1>2. PICK f \in Fd : fd' = [fd EXCEPT ![c] = f]
  BY DEF Accept, FreeFd
<1>3. PICK next \in {"add", "track"} : run' = [run EXCEPT ![c] = next]
  BY DEF Accept
<1>4. sock' \in [Conn -> {"new", "open", "closed"}]
  BY <1>0 DEF Accept, Typed
<1>5. fd'[c] \in Fd /\ \A d \in Conn : d # c => fd'[d] = fd[d]
  BY <1>0, <1>2 DEF Typed
<1>6. next \in RunStage /\ next # "none"
  BY DEF RunStage
<1>7. ~Blocked(c)
  BY <1>0 DEF Blocked, Writers, Accept, TInv, Numbered
<1>8. \A d \in Conn : sock'[d] = "new" => sock[d] = "new" /\ d # c
  BY <1>0 DEF Accept, Typed
<1>9. OneWrite' /\ Numbered' /\ Writers' /\ run' \in [Conn -> RunStage]
  BY <1>1, <1>3, <1>5, <1>6, <1>7, <1>8, ThreadMoves DEF Writers
<1>10. fd' \in [Conn -> Fd \cup {None}]
  BY <1>0, <1>2 DEF Typed
<1>11. Typed'
  BY <1>0, <1>1, <1>4, <1>9, <1>10 DEF Typed, stopVars, sessVars, peerVars
<1>12. Paused'
  BY <1>1 DEF TInv, Paused, stopVars
<1> QED BY <1>9, <1>11, <1>12, TypeOKParts DEF TInv

\* The steps of c's thread outside of a write keep the types.
LEMMA ThreadTyped ==
    ASSUME TInv, NEW c \in Conn,
           \/ Track(c) \/ Spawn(c) \/ Upgrade(c) \/ OpenSession(c) \/ EnterLoop(c)
           \/ Read(c) \/ ReadFails(c) \/ Close(c) \/ Remove(c)
    PROVE  TInv'
<1>0. Typed /\ Writers
  BY TypeOKParts DEF TInv
<1>1. UNCHANGED <<main, todo, toJoin, starts, listening, peer, faults, holder, hb, fd, shut>>
  BY DEF Track, Spawn, Upgrade, OpenSession, EnterLoop, Read, ReadFails, Close, Remove,
     CloseClient, CloseSocket, stopVars, sockVars, peerVars
<1>2. /\ run[c] # "none"
      /\ \E next \in RunStage \ {"none"} :
            /\ run' = [run EXCEPT ![c] = next]
            /\ next = "send" \/ run[c] \notin {"welcome", "send"}
  BY DEF Track, Spawn, Upgrade, OpenSession, EnterLoop, Read, ReadFails, Close, Remove, RunStage
<1>3. PICK next \in RunStage : /\ run' = [run EXCEPT ![c] = next]
                               /\ next # "none"
                               /\ next = "send" \/ run[c] \notin {"welcome", "send"}
  BY <1>2
<1>4. ~Blocked(c) \/ next \in {"welcome", "send"}
  BY <1>0, <1>3 DEF Blocked, Writers
<1>5. /\ sock' \in [Conn -> {"new", "open", "closed"}] /\ badClose' \in BOOLEAN
      /\ closed' \in [Conn -> BOOLEAN]
      /\ \A d \in Conn : sock'[d] = "new" => sock[d] = "new"
  <2>1. CASE Track(c)
    BY <1>0, <2>1, CloseSocketTyped DEF Track, Typed, sessVars
  <2>2. CASE Spawn(c)
    BY <1>0, <2>2, CloseSocketTyped DEF Spawn, Typed, sessVars, sockVars
  <2>3. CASE Upgrade(c)
    BY <1>0, <2>3, CloseSocketTyped DEF Upgrade, Typed, sessVars, sockVars
  <2>4. CASE Close(c)
    BY <1>0, <2>4, CloseClientTyped DEF Close
  <2>5. CASE OpenSession(c) \/ EnterLoop(c) \/ Read(c) \/ ReadFails(c) \/ Remove(c)
    BY <1>0, <2>5 DEF OpenSession, EnterLoop, Read, ReadFails, Remove, RemoveSession, Typed,
       sessVars, sockVars
  <2> QED BY <2>1, <2>2, <2>3, <2>4, <2>5
<1>6. /\ liveSockets' \subseteq Conn
      /\ \A d \in Conn : d # c /\ d \in liveSockets' => d \in liveSockets
  BY <1>0 DEF Track, Spawn, Upgrade, OpenSession, EnterLoop, Read, ReadFails, Close, Remove,
     Typed, sockVars
<1>7. fd'[c] \in Fd /\ \A d \in Conn : d # c => fd'[d] = fd[d]
  BY <1>1, <1>2 DEF TInv, Numbered
<1>8. \A d \in Conn : sock'[d] = "new" => sock[d] = "new" /\ d # c
  BY <1>2, <1>5 DEF TInv, Numbered
<1>9. OneWrite' /\ Numbered' /\ Writers' /\ run' \in [Conn -> RunStage]
  BY <1>1, <1>3, <1>4, <1>6, <1>7, <1>8, ThreadMoves DEF Writers
<1>10. sessions' \in [Fd -> Conn \cup {None}] /\ ended' \in [Conn -> {"no", "rumored", "cleared"}]
  BY <1>0 DEF Track, Spawn, Upgrade, OpenSession, EnterLoop, Read, ReadFails, Close, Remove,
     RemoveSession, Typed, sessVars
<1>11. spawned' \in [Conn -> BOOLEAN] /\ tracked' \in [Port -> SUBSET Conn]
  <2>1. CASE Spawn(c)
    <3>1. Kind[c] \in Port
      BY ConnAssumption
    <3>2. \A S : S \subseteq Conn => S \cup {c} \subseteq Conn
      OBVIOUS
    <3>3. tracked[Kind[c]] \cup {c} \in SUBSET Conn
      BY <1>0, <3>1, <3>2 DEF Typed
    <3>4. CASE tracked' = tracked /\ spawned' = spawned
      BY <1>0, <3>4 DEF Typed
    <3>5. CASE spawned' = [spawned EXCEPT ![c] = TRUE]
               /\ tracked' = [tracked EXCEPT ![Kind[c]] = @ \cup {c}]
      BY <1>0, <3>1, <3>3, <3>5 DEF Typed
    <3> QED BY <2>1, <3>4, <3>5 DEF Spawn
  <2>2. CASE ~Spawn(c)
    BY <1>0, <2>2 DEF Track, Upgrade, OpenSession, EnterLoop, Read, ReadFails, Close, Remove,
       Typed
  <2> QED BY <2>1, <2>2
<1>12. to' \in [Conn -> Fd \cup {None}]
  BY <1>0 DEF Track, Spawn, Upgrade, OpenSession, EnterLoop, Read, ReadFails, Close, Remove,
     Typed
<1>13. Typed'
  BY <1>0, <1>1, <1>5, <1>6, <1>9, <1>10, <1>11, <1>12 DEF Typed
<1>14. Paused'
  BY <1>1 DEF TInv, Paused
<1> QED BY <1>9, <1>13, <1>14, TypeOKParts DEF TInv
\* A write of c's thread keeps the types, and its mutex goes with it.
LEMMA WriteTyped ==
    ASSUME TInv, NEW c \in Conn, Write(c) \/ Unblock(c)
    PROVE  TInv'
<1>0. Typed /\ Writers
  BY TypeOKParts DEF TInv
<1>1. UNCHANGED <<main, todo, toJoin, starts, listening, peer, faults, hb, fd, shut, sock,
                  liveSockets, sessions, closed, ended, spawned, tracked, badClose>>
  BY DEF Write, Unblock, stopVars, sockVars, sessVars, peerVars
<1>2. Paused'
  BY <1>1 DEF TInv, Paused
<1>3. to' \in [Conn -> Fd \cup {None}]
  BY <1>0 DEF Write, Unblock, Typed
<1>4. CASE Write(c) /\ holder' = holder
  <2>0. run[c] \in {"welcome", "send"} /\ ~Blocked(c)
    BY <1>4 DEF Write
  <2>1. PICK next \in RunStage : run' = [run EXCEPT ![c] = next] /\ next # "none"
    <3>1. CASE run' = run
      BY <1>0, <2>0, <3>1 DEF Typed, RunStage
    <3>2. CASE run' # run
      <4>1. PICK r : run' = [run EXCEPT ![c] = AfterWrite(c, r)]
        BY <1>4, <3>2 DEF Write
      <4> QED BY <4>1, AfterWriteStage DEF RunStage
    <3> QED BY <3>1, <3>2
  <2>2. fd'[c] \in Fd /\ \A d \in Conn : d # c => fd'[d] = fd[d]
    BY <1>1, <2>0 DEF TInv, Numbered
  <2>3. \A d \in Conn : sock'[d] = "new" => sock[d] = "new" /\ d # c
    BY <1>1, <2>0 DEF TInv, Numbered
  <2>4. OneWrite' /\ Numbered' /\ Writers' /\ run' \in [Conn -> RunStage]
    BY <1>1, <1>4, <2>0, <2>1, <2>2, <2>3, ThreadMoves DEF Writers
  <2>5. Typed'
    BY <1>0, <1>1, <1>3, <1>4, <2>4 DEF Typed
  <2> QED BY <1>2, <2>4, <2>5, TypeOKParts DEF TInv
<1>5. CASE Write(c) /\ holder' # holder
  <2>0. run[c] \in {"welcome", "send"} /\ ~Blocked(c) /\ run' = run
    BY <1>5 DEF Write
  <2>1. PICK s : holder' = [holder EXCEPT ![s] = c]
    BY <1>5 DEF Write
  <2>2. holder' \in [Conn -> Conn \cup {"heartbeat", None}]
    BY <1>0, <2>1 DEF Typed
  <2>3. OneWrite' /\ Writers'
    BY <1>0, <2>0, <2>1 DEF TInv, OneWrite, Writers, Typed, Blocked
  <2>4. Numbered'
    BY <1>1, <2>0 DEF TInv, Numbered
  <2>5. Typed'
    BY <1>0, <1>1, <1>3, <2>0, <2>2 DEF Typed
  <2> QED BY <1>2, <2>3, <2>4, <2>5, TypeOKParts DEF TInv
<1>6. CASE Unblock(c)
  <2>1. PICK s, r : /\ s \in Conn
                    /\ holder[s] = c /\ holder' = [holder EXCEPT ![s] = None]
                    /\ run' = [run EXCEPT ![c] = AfterWrite(c, r)]
    BY <1>6 DEF Unblock
  <2>2. PICK next \in RunStage : run' = [run EXCEPT ![c] = next] /\ next # "none"
    BY <2>1, AfterWriteStage DEF RunStage
  <2>3. run[c] \in {"welcome", "send"}
    BY <1>0, <2>1 DEF Writers
  <2>4. holder' \in [Conn -> Conn \cup {"heartbeat", None}] /\ run' \in [Conn -> RunStage]
    BY <1>0, <2>1, <2>2 DEF Typed
  <2>5. \A t \in Conn : holder'[t] # c /\ (holder'[t] \in Conn => holder'[t] = holder[t])
    BY <1>0, <2>1, ConnAssumption DEF Typed, TInv, OneWrite
  <2>6. OneWrite' /\ Writers'
    BY <1>0, <2>2, <2>5 DEF TInv, OneWrite, Writers, Typed
  <2>7. Numbered'
    BY <1>0, <1>1, <2>2, <2>3 DEF TInv, Numbered, Typed
  <2>8. Typed'
    BY <1>0, <1>1, <1>3, <2>4 DEF Typed
  <2> QED BY <1>2, <2>6, <2>7, <2>8, TypeOKParts DEF TInv
<1> QED BY <1>4, <1>5, <1>6

\* Heartbeat's steps keep the types.
LEMMA HeartbeatTyped ==
    ASSUME TInv, Heartbeat
    PROVE  TInv'
<1>0. Typed /\ Writers
  BY TypeOKParts DEF TInv
<1>1. UNCHANGED <<main, todo, toJoin, starts, listening, peer, faults, fd, shut,
                  liveSockets, sessions, ended, spawned, tracked, run, to>>
  BY DEF Heartbeat, PingRound, Ping, PingUnblock, Drop, HeartbeatExit, CloseClient, CloseSocket,
     stopVars, sockVars, sessVars, peerVars, thrVars
<1>2. /\ sock' \in [Conn -> {"new", "open", "closed"}] /\ badClose' \in BOOLEAN
      /\ closed' \in [Conn -> BOOLEAN]
      /\ \A d \in Conn : sock'[d] = "new" => sock[d] = "new"
  <2>1. CASE Drop
    BY <1>0, <2>1, CloseClientTyped DEF Drop
  <2>2. CASE ~Drop
    BY <1>0, <2>2 DEF Heartbeat, PingRound, Ping, PingUnblock, HeartbeatExit, Typed,
       sockVars, sessVars
  <2> QED BY <2>1, <2>2
<1>3. /\ holder' \in [Conn -> Conn \cup {"heartbeat", None}]
      /\ \A s \in Conn : holder'[s] = holder[s] \/ holder'[s] \notin Conn
  <2>1. CASE holder' = holder
    BY <1>0, <2>1 DEF Typed
  <2>2. CASE \E s, h : h \in {"heartbeat", None} /\ holder' = [holder EXCEPT ![s] = h]
    <3>1. PICK s, h : h \in {"heartbeat", None} /\ holder' = [holder EXCEPT ![s] = h]
      BY <2>2
    <3>2. h \notin Conn
      BY <3>1, ConnAssumption
    <3> QED BY <1>0, <3>1, <3>2 DEF Typed
  <2>3. ASSUME NEW s \in Conn, Ping(s)
        PROVE  holder' = holder \/ holder' = [holder EXCEPT ![sessions[fd[s]]] = "heartbeat"]
    BY <2>3 DEF Ping
  <2>4. PingUnblock => \E s : holder' = [holder EXCEPT ![s] = None]
    BY DEF PingUnblock
  <2> QED BY <2>1, <2>2, <2>3, <2>4 DEF Heartbeat, PingRound, Drop, HeartbeatExit
<1>4. hb' \in HbType /\ (hb'.cur # None <=> hb'.at \in {"blocked", "drop"})
  <2>0. hb \in HbType
    BY <1>0 DEF Typed
  <2>1. CASE \E s \in Conn \cup {None} : hb' = PingDone(s)
    BY <2>0, <2>1, PingDoneFields
  <2>2. CASE \E s \in Conn : \E at \in {"blocked", "drop"} :
                hb' = [hb EXCEPT !.at = at, !.cur = s]
    <3>1. PICK s \in Conn, at \in {"blocked", "drop"} : hb' = [hb EXCEPT !.at = at, !.cur = s]
      BY <2>2
    <3>2. s # None
      BY ConnAssumption
    <3> QED BY <2>0, <3>1, <3>2 DEF HbType
  <2>3. CASE PingRound
    <3>1. PICK all \in SUBSET Conn : hb' = [hb EXCEPT !.at = "ping", !.left = all]
      <4>1. Range(sessions) \ {None} \subseteq Conn
        BY <1>0 DEF Typed, Range
      <4> QED BY <2>3, <4>1 DEF PingRound
    <3> QED BY <1>0, <2>0, <2>3, <3>1 DEF Typed, HbType, PingRound
  <2>4. CASE HeartbeatExit
    BY <1>0, <2>0, <2>4 DEF Typed, HbType, HeartbeatExit
  <2>5. CASE hb.at = "blocked" /\ hb' = [hb EXCEPT !.at = "drop"]
    BY <1>0, <2>0, <2>5 DEF Typed, HbType
  <2>6. hb.cur \in Conn \cup {None}
    BY <2>0 DEF HbType
  <2>7. PingUnblock =>
          \/ \E s \in Conn \cup {None} : hb' = PingDone(s)
          \/ hb.at = "blocked" /\ hb' = [hb EXCEPT !.at = "drop"]
    BY <2>6 DEF PingUnblock
  <2>8. Drop => \E s \in Conn \cup {None} : hb' = PingDone(s)
    BY <2>6 DEF Drop
  <2>9. ASSUME NEW s \in Conn, Ping(s)
        PROVE  \/ hb' = PingDone(s)
               \/ \E at \in {"blocked", "drop"} : hb' = [hb EXCEPT !.at = at, !.cur = s]
    BY <2>9 DEF Ping
  <2> QED BY <2>1, <2>2, <2>3, <2>4, <2>5, <2>7, <2>8, <2>9 DEF Heartbeat
<1>5. OneWrite' /\ Numbered' /\ Writers'
  BY <1>1, <1>2, <1>3, CalmThreads DEF Writers
<1>6. Typed'
  BY <1>0, <1>1, <1>2, <1>3, <1>4 DEF Typed
<1>7. Paused'
  <2>1. hb.at = "done" => hb' = hb
    BY <1>0 DEF Heartbeat, PingRound, Ping, PingUnblock, Drop, HeartbeatExit
  <2> QED BY <1>1, <2>1 DEF TInv, Paused
<1> QED BY <1>5, <1>6, <1>7, TypeOKParts DEF TInv
\* Start and stop keep the types.
LEMMA ServerTyped ==
    ASSUME TInv, Start \/ Stop
    PROVE  TInv'
<1>0. Typed /\ Writers
  BY TypeOKParts DEF TInv
<1>1. UNCHANGED <<peer, faults, fd, liveSockets, sessions, ended, run, spawned, to, holder>>
  BY DEF Start, Stop, StopWeb, ShutdownWeb, JoinWebAccept, JoinHeartbeat, StopTcp, SnapshotTcp,
     CloseTcp, Join, CloseClient, CloseSocket, stopVars, sockVars, sessVars, peerVars, thrVars
<1>2. /\ sock' \in [Conn -> {"new", "open", "closed"}] /\ badClose' \in BOOLEAN
      /\ closed' \in [Conn -> BOOLEAN]
      /\ \A d \in Conn : sock'[d] = "new" => sock[d] = "new"
  <2>1. CASE CloseTcp
    BY <1>0, <2>1, CloseClientTyped DEF CloseTcp, Typed
  <2>2. CASE ~CloseTcp
    BY <1>0, <2>2 DEF Start, Stop, StopWeb, ShutdownWeb, JoinWebAccept, JoinHeartbeat, StopTcp,
       SnapshotTcp, Join, Typed, sockVars, sessVars
  <2> QED BY <2>1, <2>2
<1>3. main' \in MainStage /\ starts' \in Nat
  BY <1>0 DEF Start, Stop, StopWeb, ShutdownWeb, JoinWebAccept, JoinHeartbeat, StopTcp, SnapshotTcp,
     CloseTcp, Join, Typed, MainStage
<1>4. listening' \in [Port -> BOOLEAN]
  BY <1>0 DEF Start, Stop, StopWeb, ShutdownWeb, JoinWebAccept, JoinHeartbeat, StopTcp, SnapshotTcp,
     CloseTcp, Join, Typed
<1>5. todo' \subseteq Fd
  <2>1. CASE StopWeb
    BY <1>0, <2>1 DEF StopWeb, TInv, Numbered, Typed
  <2>2. CASE ~StopWeb
    BY <1>0, <2>2 DEF Start, Stop, ShutdownWeb, JoinWebAccept, JoinHeartbeat, StopTcp,
       SnapshotTcp, CloseTcp, Join, Typed
  <2> QED BY <2>1, <2>2
<1>6. toJoin' \subseteq Conn /\ tracked' \in [Port -> SUBSET Conn]
  <2>1. CASE CloseTcp
    BY <1>0, <2>1 DEF CloseTcp, Typed, Port
  <2>2. CASE Join
    BY <1>0, <2>2 DEF Join, Typed, Port
  <2>3. CASE ~CloseTcp /\ ~Join
    BY <1>0, <2>3 DEF Start, Stop, StopWeb, ShutdownWeb, JoinWebAccept, JoinHeartbeat, StopTcp,
       SnapshotTcp, Typed, thrVars
  <2> QED BY <2>1, <2>2, <2>3
<1>7. shut' \in [Conn -> BOOLEAN]
  BY <1>0 DEF Start, Stop, StopWeb, ShutdownWeb, JoinWebAccept, JoinHeartbeat, StopTcp, SnapshotTcp,
     CloseTcp, Join, CloseClient, CloseSocket, Typed, sockVars
<1>8. hb' \in HbType /\ (hb'.cur # None <=> hb'.at \in {"blocked", "drop"})
  <2>1. CASE hb' = hb
    BY <1>0, <2>1 DEF Typed
  <2>2. CASE Start
    BY <1>0, <2>2 DEF Start, Typed, HbType, TInv, Paused
  <2>3. CASE JoinWebAccept
    BY <1>0, <2>3 DEF JoinWebAccept, Typed, HbType
  <2> QED BY <2>1, <2>2, <2>3 DEF Stop, StopWeb, ShutdownWeb, JoinHeartbeat, StopTcp, SnapshotTcp,
             CloseTcp, Join
<1>9. OneWrite' /\ Numbered' /\ Writers'
  BY <1>1, <1>2, CalmThreads DEF Writers, TInv, Typed
<1>10. Typed'
  BY <1>0, <1>1, <1>2, <1>3, <1>4, <1>5, <1>6, <1>7, <1>8 DEF Typed
<1>11. Paused'
  <2>1. hb \in HbType
    BY <1>0 DEF Typed
  <2> QED BY <2>1 DEF TInv, Paused, HbType, Start, Stop, StopWeb, ShutdownWeb, JoinWebAccept,
             JoinHeartbeat, StopTcp, SnapshotTcp, CloseTcp, Join
<1> QED BY <1>9, <1>10, <1>11, TypeOKParts DEF TInv
\* A server that has not been started satisfies the type invariant.
LEMMA InitTyped == Init => TInv
<1> SUFFICES ASSUME Init PROVE TInv
  OBVIOUS
<1>1. Typed
  BY ConnAssumption DEF Init, Typed, HbType, MainStage, RunStage
<1>2. Writers /\ OneWrite
  BY ConnAssumption DEF Init, Writers, OneWrite
<1>3. Numbered /\ Paused
  BY DEF Init, Numbered, Paused
<1> QED BY <1>1, <1>2, <1>3, TypeOKParts DEF TInv

\* Every step keeps it.
LEMMA StepTyped == TInv /\ [Next]_vars => TInv'
<1> SUFFICES ASSUME TInv, [Next]_vars PROVE TInv'
  OBVIOUS
<1>1. CASE Start \/ Stop
  BY <1>1, ServerTyped
<1>2. CASE Heartbeat
  BY <1>2, HeartbeatTyped
<1>3. ASSUME NEW c \in Conn, Client(c) \/ Accept(c) \/ Thread(c) PROVE TInv'
  BY <1>3, ClientTyped, AcceptTyped, ThreadTyped, WriteTyped DEF Thread
<1>4. CASE UNCHANGED vars
  <2>1. Typed'
    BY <1>4, TypeOKParts DEF TInv, Typed, vars, stopVars, sockVars, sessVars, peerVars, thrVars
  <2>2. Writers' /\ OneWrite' /\ Numbered' /\ Paused'
    BY <1>4, TypeOKParts DEF TInv, Writers, OneWrite, Numbered, Paused, vars, stopVars, sockVars,
       thrVars
  <2> QED BY <2>1, <2>2, TypeOKParts DEF TInv
<1> QED BY <1>1, <1>2, <1>3, <1>4 DEF Next

\* TypeOK holds of every behaviour, with Reuse or without: a thread that holds a
\* send mutex is writing, whatever numbers the system hands out.
THEOREM LifecycleTyped == Spec => []TypeOK
<1>1. TInv => TypeOK
  BY DEF TInv
<1> QED BY <1>1, InitTyped, StepTyped, PTL DEF Spec
-----------------------------------------------------------------------------
(***************************************************************************)
(* The numbers, the session map and the joins.                             *)
(***************************************************************************)

\* What every step below starts from.
LEMMA Basics ==
    ASSUME IInv
    PROVE  /\ Typed /\ Writers /\ Numbered /\ ~badClose
           /\ \A c \in Conn : Kind[c] \in Port /\ SocketOf(c)
           /\ \A c \in Conn : Active(c) => fd[c] \in Fd
BY TypeOKParts, ConnAssumption DEF IInv, Tidy, TInv, Sockets, Numbered, Active

\* An open socket is in use, so it is the only one with its number.
LEMMA OwnerOne ==
    ASSUME IInv, NEW c \in Conn, sock[c] = "open"
    PROVE  Owner(fd[c]) = {c} /\ Active(c)
<1>1. \A d \in Conn : sock[d] = "open" => Active(d)
  BY Basics DEF SocketOf, Active
<1>2. \A d \in Conn : sock[d] = "open" /\ fd[d] = fd[c] => d = c
  BY <1>1 DEF IInv, Tidy, Unique
<1>3. \A d : d \in Owner(fd[c]) <=> d = c
  BY <1>2 DEF Owner
<1> QED BY <1>1, <1>3

\* closesocket of the number of an open socket closes that one.
LEMMA ClosesOwn ==
    ASSUME IInv, NEW c \in Conn, sock[c] = "open", CloseSocket(fd[c])
    PROVE  sock' = [sock EXCEPT ![c] = "closed"] /\ ~badClose' /\ UNCHANGED <<fd, shut>>
BY OwnerOne, Basics DEF CloseSocket, Typed

\* closeClient of a number closes the socket of the session at that number, or
\* finds it closed, or finds nothing.
LEMMA ClosesSession ==
    ASSUME IInv, NEW f \in Fd, CloseClient(f)
    PROVE  /\ ~badClose' /\ UNCHANGED <<fd, shut>>
           /\ \/ /\ UNCHANGED <<sock, closed>>
                 /\ sessions[f] # None => closed[sessions[f]]
              \/ \E s \in Conn :
                    /\ s = sessions[f] /\ InSession(s)
                    /\ sock' = [sock EXCEPT ![s] = "closed"]
                    /\ closed' = [closed EXCEPT ![s] = TRUE]
<1> DEFINE s == sessions[f]
<1>1. CASE s # None /\ ~closed[s]
  <2>1. s \in Conn /\ InSession(s) /\ fd[s] = f
    BY <1>1, Basics DEF IInv, Tidy, Mapped, Typed
  <2>2. sock[s] = "open"
    BY <1>1, <2>1, Basics DEF SocketOf, Typed, InSession
  <2>3. CloseSocket(fd[s]) /\ closed' = [closed EXCEPT ![s] = TRUE]
    BY <1>1, <2>1 DEF CloseClient
  <2>4. sock' = [sock EXCEPT ![s] = "closed"] /\ ~badClose' /\ UNCHANGED <<fd, shut>>
    <3> HIDE DEF s
    <3> QED BY <2>1, <2>2, <2>3, ClosesOwn
  <2> QED BY <2>1, <2>3, <2>4
<1>2. CASE ~(s # None /\ ~closed[s])
  BY <1>2, Basics DEF CloseClient
<1> QED BY <1>1, <1>2

\* A step that only closes the session's socket and flag together keeps the
\* stages of the sockets and the map.
LEMMA FlagKeeps ==
    ASSUME IInv,
           UNCHANGED <<run, fd, spawned, sessions, ended, liveSockets>>,
           \/ UNCHANGED <<sock, closed>>
           \/ \E s \in Conn : /\ InSession(s)
                              /\ sock' = [sock EXCEPT ![s] = "closed"]
                              /\ closed' = [closed EXCEPT ![s] = TRUE]
    PROVE  Sockets' /\ Mapped'
<1>1. Mapped'
  BY DEF IInv, Tidy, Mapped, InSession
<1>2. CASE UNCHANGED <<sock, closed>>
  BY <1>1, <1>2 DEF IInv, Tidy, Sockets, SocketOf, Active, InSession
<1>3. CASE \E s \in Conn : /\ InSession(s)
                           /\ sock' = [sock EXCEPT ![s] = "closed"]
                           /\ closed' = [closed EXCEPT ![s] = TRUE]
  <2>1. PICK s \in Conn : /\ InSession(s)
                          /\ sock' = [sock EXCEPT ![s] = "closed"]
                          /\ closed' = [closed EXCEPT ![s] = TRUE]
    BY <1>3
  <2>2. SocketOf(s)'
    BY <2>1, Basics DEF SocketOf, Active, InSession, Typed
  <2>3. ASSUME NEW d \in Conn, d # s PROVE SocketOf(d)'
    BY <2>1, <2>3, Basics DEF SocketOf, Active, InSession, Typed
  <2> QED BY <1>1, <2>2, <2>3 DEF Sockets
<1> QED BY <1>2, <1>3

\* No step but Accept puts a connection to work, so the numbers stay unique.
LEMMA NumbersKept ==
    ASSUME IInv, UNCHANGED fd,
           \A d \in Conn : /\ Active(d)' => Active(d)
                           /\ InSession(d) => InSession(d)' \/ run'[d] = "done"
                           /\ run[d] = "done" => run'[d] = "done"
                           /\ Pinging(d)' => Pinging(d) \/ InSession(d)
    PROVE  Unique' /\ Snapshot'
<1>1. \A d \in Conn : InSession(d) => Active(d)
  BY DEF InSession, Active
<1>2. Unique'
  <2>1. SUFFICES ASSUME NEW c \in Conn, NEW d \in Conn, c # d, Active(c)' \/ Pinging(c)',
                        Active(d)'
                 PROVE  fd[c] # fd[d]
    BY DEF Unique
  <2> QED BY <1>1, <2>1 DEF IInv, Tidy, Unique
<1>3. Snapshot'
  BY DEF IInv, Tidy, Snapshot
<1> QED BY <1>2, <1>3

\* Nor does a step that leaves stop where it is and spawns nobody undo what stop
\* has established.
LEMMA StopKept ==
    ASSUME IInv, UNCHANGED <<main, listening, toJoin, tracked, spawned>>,
           \A d \in Conn : Active(d)' => Active(d)
    PROVE  Joinable' /\ Stopping'
<1>1. Joinable'
  BY DEF IInv, Tidy, Joinable
<1>2. \A p \in Port : AcceptBusy(p)' => AcceptBusy(p)
  BY DEF AcceptBusy, Active
<1>3. Stopping'
  BY <1>2 DEF IInv, Tidy, Stopping, HasGossip, Port
<1> QED BY <1>1, <1>3

\* Only what happens to c decides about the stages of the sockets when nothing
\* else moves.
LEMMA OthersKept ==
    ASSUME IInv, NEW c \in Conn, SocketOf(c)',
           \A d \in Conn : d # c =>
              /\ run'[d] = run[d] /\ sock'[d] = sock[d] /\ closed'[d] = closed[d]
              /\ ended'[d] = ended[d] /\ spawned'[d] = spawned[d]
              /\ d \in liveSockets' <=> d \in liveSockets
    PROVE  Sockets'
<1>1. ASSUME NEW d \in Conn, d # c PROVE SocketOf(d)'
  BY <1>1, Basics DEF SocketOf, Active, InSession
<1> QED BY <1>1 DEF Sockets

\* The map is kept by a step that changes neither it nor who is in session.
LEMMA MapKept ==
    ASSUME IInv, UNCHANGED <<sessions, fd>>, \A d \in Conn : InSession(d)' <=> InSession(d)
    PROVE  Mapped'
<1>1. \A f \in Fd : sessions[f] # None => sessions[f] \in Conn
  BY Basics DEF Typed
<1> QED BY <1>1 DEF IInv, Tidy, Mapped
\* A thread whose connection is in session moves on and stays in session.
LEMMA SessionMoves ==
    ASSUME IInv, NEW c \in Conn, NEW next,
           InSession(c), run[c] # "remove", run' = [run EXCEPT ![c] = next],
           next \in {"close", "read", "send"} \/ (next = "spawn" /\ Kind[c] = "tcp"),
           UNCHANGED <<main, toJoin, listening, sock, fd, liveSockets, sessions, closed, ended,
                       spawned, tracked, hb, badClose>>
    PROVE  Tidy'
<1>0. run'[c] = next /\ \A d \in Conn : d # c => run'[d] = run[d]
  BY Basics DEF Typed
<1>1. \A d \in Conn : InSession(d)' <=> InSession(d)
  BY <1>0 DEF InSession
<1>2. \A d \in Conn : Active(d)' <=> Active(d)
  BY <1>0 DEF InSession, Active
<1>3. SocketOf(c)'
  BY <1>0, <1>1, <1>2, Basics DEF SocketOf, InSession
<1>4. Sockets' /\ Mapped'
  BY <1>0, <1>1, <1>3, OthersKept, MapKept
<1>5. Unique' /\ Snapshot'
  <2>1. \A d \in Conn : (run[d] = "done" => run'[d] = "done") /\ (Pinging(d)' <=> Pinging(d))
    BY <1>0 DEF InSession, Pinging
  <2> QED BY <1>1, <1>2, <2>1, NumbersKept
<1>6. Joinable' /\ Stopping'
  BY <1>2, StopKept
<1> QED BY <1>4, <1>5, <1>6, Basics DEF Tidy

\* After a write, c's thread is still in session.
LEMMA AfterWriteSession ==
    ASSUME NEW c \in Conn, NEW r
    PROVE  \/ AfterWrite(c, r) \in {"close", "read", "send"}
           \/ AfterWrite(c, r) = "spawn" /\ Kind[c] = "tcp"
BY DEF AfterWrite

\* EnterLoop, Read, ReadFails and the writes.
LEMMA MovesTidy ==
    ASSUME IInv, NEW c \in Conn,
           EnterLoop(c) \/ Read(c) \/ ReadFails(c) \/ Write(c) \/ Unblock(c)
    PROVE  Tidy'
<1>1. UNCHANGED <<main, toJoin, listening, sock, fd, liveSockets, sessions, closed, ended,
                  spawned, tracked, hb, badClose>>
  BY DEF EnterLoop, Read, ReadFails, Write, Unblock, stopVars, sockVars, sessVars
<1>2. run[c] \in {"welcome", "loop", "read", "send"}
  BY Basics DEF EnterLoop, Read, ReadFails, Write, Unblock, Writers
<1>3. InSession(c) /\ run[c] # "remove"
  BY <1>2 DEF InSession
<1>4. CASE EnterLoop(c) \/ Read(c) \/ ReadFails(c)
  <2>1. PICK next \in {"close", "read", "send"} : run' = [run EXCEPT ![c] = next]
    BY <1>4 DEF EnterLoop, Read, ReadFails
  <2> QED BY <1>1, <1>3, <2>1, SessionMoves
<1>5. CASE \E r : run' = [run EXCEPT ![c] = AfterWrite(c, r)]
  <2>1. PICK r : run' = [run EXCEPT ![c] = AfterWrite(c, r)]
    BY <1>5
  <2> QED BY <1>1, <1>3, <2>1, AfterWriteSession, SessionMoves
<1>6. CASE run' = run
  <2>1. \A d \in Conn : /\ (InSession(d)' <=> InSession(d)) /\ (Active(d)' <=> Active(d))
                        /\ (Pinging(d)' <=> Pinging(d))
    BY <1>1, <1>6 DEF InSession, Active, Pinging
  <2>2. Sockets' /\ Mapped'
    BY <1>1, <1>6, FlagKeeps
  <2>3. Unique' /\ Snapshot' /\ Joinable' /\ Stopping'
    BY <1>1, <1>6, <2>1, NumbersKept, StopKept
  <2> QED BY <1>1, <2>2, <2>3, Basics DEF Tidy
<1>7. CASE Write(c) \/ Unblock(c)
  BY <1>5, <1>6, <1>7 DEF Write, Unblock
<1> QED BY <1>4, <1>7

\* A thread that moves before its connection is in session.
LEMMA EarlyMoves ==
    ASSUME IInv, NEW c \in Conn, NEW next \in {"spawn", "headers", "add", "done"},
           run[c] \in {"track", "headers", "spawn"}, Kind[c] = "web",
           run' = [run EXCEPT ![c] = next],
           UNCHANGED <<main, toJoin, listening, fd, sessions, closed, ended, hb>>,
           \A d \in Conn : d # c => (d \in liveSockets' <=> d \in liveSockets),
           \/ UNCHANGED <<sock, badClose>> /\ next # "done"
           \/ CloseSocket(fd[c]) /\ next = "done" /\ c \notin liveSockets',
           \A d \in Conn : d # c => spawned'[d] = spawned[d]
    PROVE  Sockets' /\ Mapped' /\ Unique' /\ Snapshot' /\ ~badClose'
<1>0. run'[c] = next /\ \A d \in Conn : d # c => run'[d] = run[d]
  BY Basics DEF Typed
<1>1. \A d \in Conn : InSession(d)' <=> InSession(d)
  BY <1>0 DEF InSession
<1>2. \A d \in Conn : Active(d)' => Active(d)
  BY <1>0 DEF Active
<1>3. sock[c] = "open" /\ ~closed[c] /\ SocketOf(c)
  BY Basics DEF SocketOf, InSession, Active
<1>4. /\ ~badClose' /\ sock'[c] = (IF next = "done" THEN "closed" ELSE "open")
      /\ \A d \in Conn : d # c => sock'[d] = sock[d]
  BY <1>3, ClosesOwn, Basics DEF Typed
<1>5. SocketOf(c)'
  <2>1. CASE next = "done"
    BY <1>0, <1>3, <1>4, <2>1 DEF SocketOf, InSession, Active
  <2>2. CASE next # "done"
    BY <1>0, <1>3, <1>4, <2>2 DEF SocketOf, InSession, Active
  <2> QED BY <2>1, <2>2
<1>6. Sockets' /\ Mapped'
  BY <1>0, <1>1, <1>4, <1>5, OthersKept, MapKept
<1>7. Unique' /\ Snapshot'
  <2>1. \A d \in Conn : (run[d] = "done" => run'[d] = "done") /\ (Pinging(d)' <=> Pinging(d))
    BY <1>0 DEF Pinging
  <2> QED BY <1>1, <1>2, <2>1, NumbersKept
<1> QED BY <1>4, <1>6, <1>7

\* Track and Upgrade.
LEMMA BrowserTidy ==
    ASSUME IInv, NEW c \in Conn, Track(c) \/ Upgrade(c)
    PROVE  Tidy'
<1>1. UNCHANGED <<main, toJoin, listening, fd, sessions, closed, ended, hb, spawned, tracked>>
  BY DEF Track, Upgrade, CloseSocket, stopVars, sockVars, sessVars
<1>2. run[c] \in {"track", "headers"} /\ Kind[c] = "web"
  BY Basics DEF Track, Upgrade, SocketOf
<1>3. PICK next \in {"spawn", "add", "done"} :
         /\ run' = [run EXCEPT ![c] = next]
         /\ \/ UNCHANGED <<sock, badClose>> /\ next # "done"
            \/ CloseSocket(fd[c]) /\ next = "done" /\ c \notin liveSockets'
  <2>1. c \in liveSockets => run[c] # "track"
    BY Basics DEF SocketOf
  <2>2. CASE Track(c)
    BY <2>1, <2>2 DEF Track
  <2>3. CASE Upgrade(c)
    BY <2>3 DEF Upgrade, sockVars
  <2> QED BY <2>2, <2>3
<1>4. \A d \in Conn : d # c => (d \in liveSockets' <=> d \in liveSockets)
  BY DEF Track, Upgrade, sockVars
<1>5. Sockets' /\ Mapped' /\ Unique' /\ Snapshot' /\ ~badClose'
  BY <1>1, <1>2, <1>3, <1>4, EarlyMoves
<1>6. \A d \in Conn : Active(d)' => Active(d)
  BY <1>2, <1>3, Basics DEF Active, Typed
<1>7. Joinable' /\ Stopping'
  BY <1>1, <1>6, StopKept
<1> QED BY <1>5, <1>7 DEF Tidy
\* Spawn: the handler is tracked only while its port is listened on, before the
\* join that takes the handlers of that port.
LEMMA SpawnTidy ==
    ASSUME IInv, NEW c \in Conn, Spawn(c)
    PROVE  Tidy'
<1>0. /\ run[c] = "spawn" /\ Kind[c] \in Port /\ SocketOf(c) /\ Typed
      /\ UNCHANGED <<main, toJoin, listening, fd, sessions, closed, ended, hb>>
  BY Basics DEF Spawn, CloseSocket, stopVars, sockVars, sessVars
<1>1. CASE ~listening[Kind[c]] /\ Kind[c] = "tcp"
  <2>1. UNCHANGED <<sock, liveSockets, spawned, tracked, badClose>>
        /\ run' = [run EXCEPT ![c] = "close"]
    BY <1>1 DEF Spawn, sockVars
  <2>2. InSession(c)
    BY <1>0, <1>1 DEF InSession
  <2> QED BY <1>0, <2>1, <2>2, SessionMoves
<1>2. CASE ~listening[Kind[c]] /\ Kind[c] = "web"
  <2>1. /\ liveSockets' = liveSockets \ {c} /\ CloseSocket(fd[c])
        /\ run' = [run EXCEPT ![c] = "done"] /\ UNCHANGED <<spawned, tracked>>
    BY <1>2 DEF Spawn
  <2>2. /\ c \notin liveSockets'
        /\ \A d \in Conn : d # c => (d \in liveSockets' <=> d \in liveSockets)
    BY <2>1
  <2>3. Sockets' /\ Mapped' /\ Unique' /\ Snapshot' /\ ~badClose'
    BY <1>0, <1>2, <2>1, <2>2, EarlyMoves
  <2>4. \A d \in Conn : Active(d)' => Active(d)
    BY <1>0, <2>1 DEF Active, Typed
  <2>5. Joinable' /\ Stopping'
    BY <1>0, <2>1, <2>4, StopKept
  <2> QED BY <2>3, <2>5 DEF Tidy
<1>3. CASE listening[Kind[c]]
  <2>1. /\ spawned' = [spawned EXCEPT ![c] = TRUE]
        /\ tracked' = [tracked EXCEPT ![Kind[c]] = @ \cup {c}]
        /\ run' = [run EXCEPT ![c] = IF Kind[c] = "tcp" THEN "loop" ELSE "headers"]
        /\ UNCHANGED <<sock, liveSockets, badClose>>
    BY <1>3 DEF Spawn, sockVars
  <2>2. \A d \in Conn : d # c => spawned'[d] = spawned[d] /\ run'[d] = run[d]
    BY <1>0, <2>1 DEF Typed
  <2>3. Sockets' /\ Mapped' /\ Unique' /\ Snapshot' /\ ~badClose'
    <3>1. CASE Kind[c] = "web"
      <4>1. run' = [run EXCEPT ![c] = "headers"]
        BY <2>1, <3>1
      <4> QED BY <1>0, <2>1, <2>2, <3>1, <4>1, EarlyMoves
    <3>2. CASE Kind[c] = "tcp"
      <4>1. run'[c] = "loop"
        BY <1>0, <2>1, <3>2 DEF Typed
      <4>2. \A d \in Conn : InSession(d)' <=> InSession(d)
        BY <1>0, <2>2, <3>2, <4>1 DEF InSession
      <4>3. \A d \in Conn : Active(d)' <=> Active(d)
        BY <1>0, <2>2, <3>2, <4>1 DEF Active
      <4>4. SocketOf(c)'
        BY <1>0, <2>1, <3>2, <4>1 DEF SocketOf, InSession, Active
      <4>5. Sockets' /\ Mapped'
        BY <1>0, <2>1, <2>2, <4>2, <4>4, OthersKept, MapKept
      <4>6. \A d \in Conn : (run[d] = "done" => run'[d] = "done") /\ (Pinging(d)' <=> Pinging(d))
        BY <1>0, <2>2 DEF Pinging
      <4>7. Unique' /\ Snapshot'
        BY <1>0, <4>2, <4>3, <4>6, NumbersKept
      <4> QED BY <2>1, <4>5, <4>7, Basics
    <3> QED BY <1>0, <3>1, <3>2 DEF Port
  <2>4. /\ \A d \in Conn : Active(d)' => Active(d)
        /\ \A d \in Conn : spawned[d] => spawned'[d]
    BY <1>0, <2>1, <2>2 DEF Active, Typed
  <2>5. Joinable'
    <3>1. ASSUME NEW d \in Conn, Active(d)', spawned'[d]
          PROVE  d \in tracked'[Kind[d]] \cup toJoin'
      <4>0. Kind[d] \in Port
        BY Basics
      <4>1. CASE d = c
        BY <1>0, <2>1, <4>1 DEF Typed
      <4>2. CASE d # c
        <5>1. d \in tracked[Kind[d]] \cup toJoin
          BY <2>2, <2>4, <3>1, <4>2 DEF IInv, Tidy, Joinable
        <5>2. tracked[Kind[d]] \subseteq tracked'[Kind[d]]
          BY <1>0, <2>1, <4>0 DEF Typed
        <5> QED BY <1>0, <5>1, <5>2
      <4> QED BY <4>1, <4>2
    <3> QED BY <3>1 DEF Joinable
  <2>6. Stopping'
    <3>1. \A p \in Port : AcceptBusy(p)' => AcceptBusy(p)
      BY <2>4 DEF AcceptBusy, Active
    <3>2. Kind[c] = "tcp" => HasGossip /\ tracked'["web"] = tracked["web"]
      BY <1>0, <1>3, <2>1 DEF IInv, Tidy, Stopping, Typed, Port
    <3>3. Kind[c] = "web" => main = "running"
      BY <1>3 DEF IInv, Tidy, Stopping
    <3>4. HasGossip' <=> HasGossip
      BY <1>0 DEF HasGossip
    <3>5. main = "running" => Stopping'
      BY <1>0, <3>1, <3>4 DEF IInv, Tidy, Stopping, Port
    <3>6. HasGossip => Stopping'
      BY <1>0, <3>1, <3>4 DEF IInv, Tidy, Stopping, Port, HasGossip
    <3> QED BY <1>0, <3>2, <3>3, <3>5, <3>6 DEF Port
  <2> QED BY <2>3, <2>5, <2>6 DEF Tidy
<1> QED BY <1>0, <1>1, <1>2, <1>3 DEF Port

\* openSession: nobody else has the number, so the new session takes no other's
\* place.
LEMMA OpenTidy ==
    ASSUME IInv, NEW c \in Conn, OpenSession(c)
    PROVE  Tidy'
<1>0. /\ UNCHANGED <<main, toJoin, listening, sock, fd, liveSockets, closed, ended, spawned,
                     tracked, hb, badClose>>
      /\ run[c] = "add" /\ sessions' = [sessions EXCEPT ![fd[c]] = c]
  BY DEF OpenSession, stopVars, sockVars
<1>1. PICK next \in {"welcome", "close"} : run' = [run EXCEPT ![c] = next]
  BY DEF OpenSession
<1>2. Typed /\ SocketOf(c) /\ Active(c) /\ fd[c] \in Fd /\ ~InSession(c)
  BY <1>0, Basics DEF Active, InSession
<1>3. run'[c] = next /\ \A d \in Conn : d # c => run'[d] = run[d]
  BY <1>1, <1>2 DEF Typed
<1>4. /\ InSession(c)' /\ \A d \in Conn : d # c => (InSession(d)' <=> InSession(d))
      /\ \A d \in Conn : Active(d)' <=> Active(d)
  BY <1>0, <1>3 DEF InSession, Active
<1>5. SocketOf(c)'
  BY <1>0, <1>2, <1>3 DEF SocketOf, InSession, Active
<1>6. Sockets'
  BY <1>0, <1>3, <1>5, OthersKept
<1>7. Mapped'
  <2>1. \A d \in Conn : d # c /\ InSession(d) => fd[d] # fd[c]
    BY <1>2 DEF IInv, Tidy, Unique, InSession, Active
  <2>2. ASSUME NEW d \in Conn, InSession(d)' PROVE sessions'[fd[d]] = d
    BY <1>0, <1>2, <1>4, <2>1, <2>2, Basics DEF IInv, Tidy, Mapped, Typed
  <2>3. ASSUME NEW f \in Fd, NEW e \in Conn, sessions'[f] = e
        PROVE  InSession(e)' /\ fd[e] = f
    <3>1. CASE f = fd[c]
      BY <1>0, <1>2, <1>4, <2>3, <3>1 DEF Typed
    <3>2. CASE f # fd[c]
      <4>1. sessions[f] = e /\ e # None
        BY <1>0, <1>2, <2>3, <3>2, ConnAssumption DEF Typed
      <4>2. InSession(e) /\ fd[e] = f
        BY <4>1 DEF IInv, Tidy, Mapped
      <4> QED BY <1>2, <1>4, <4>2
    <3> QED BY <3>1, <3>2
  <2>4. \A f \in Fd : sessions'[f] \in Conn \cup {None}
    BY <1>0, <1>2 DEF Typed
  <2> QED BY <1>0, <2>2, <2>3, <2>4 DEF Mapped
<1>8. Unique' /\ Snapshot'
  <2>1. \A d \in Conn : (run[d] = "done" => run'[d] = "done") /\ (Pinging(d)' <=> Pinging(d))
    BY <1>0, <1>3 DEF Pinging
  <2> QED BY <1>0, <1>2, <1>4, <2>1, NumbersKept
<1>9. Joinable' /\ Stopping'
  BY <1>0, <1>4, StopKept
<1> QED BY <1>0, <1>6, <1>7, <1>8, <1>9, Basics DEF Tidy
\* releaseClient, first half: the flag and the socket of c's own session.
LEMMA CloseTidy ==
    ASSUME IInv, NEW c \in Conn, Close(c)
    PROVE  Tidy'
<1>0. /\ UNCHANGED <<main, toJoin, listening, liveSockets, sessions, ended, spawned, tracked, hb>>
      /\ run[c] = "close" /\ CloseClient(fd[c]) /\ run' = [run EXCEPT ![c] = "remove"]
  BY DEF Close, stopVars
<1>1. Typed /\ SocketOf(c) /\ InSession(c) /\ fd[c] \in Fd
  BY <1>0, Basics DEF Active, InSession
<1>2. sessions[fd[c]] = c /\ c # None
  BY <1>1, ConnAssumption DEF IInv, Tidy, Mapped
<1>3. /\ ~badClose' /\ UNCHANGED fd /\ closed'[c] /\ sock'[c] = "closed"
      /\ \A d \in Conn : d # c => sock'[d] = sock[d] /\ closed'[d] = closed[d]
  <2>0. ~badClose' /\ UNCHANGED fd
    BY <1>0, <1>1, ClosesSession
  <2>1. CASE UNCHANGED <<sock, closed>> /\ closed[c]
    BY <1>1, <2>0, <2>1 DEF SocketOf
  <2>2. CASE /\ sock' = [sock EXCEPT ![c] = "closed"]
             /\ closed' = [closed EXCEPT ![c] = TRUE]
    BY <1>1, <2>0, <2>2 DEF Typed
  <2>3. \/ UNCHANGED <<sock, closed>> /\ closed[c]
        \/ /\ sock' = [sock EXCEPT ![c] = "closed"]
           /\ closed' = [closed EXCEPT ![c] = TRUE]
    BY <1>0, <1>1, <1>2, ClosesSession
  <2> QED BY <2>1, <2>2, <2>3
<1>4. run'[c] = "remove" /\ \A d \in Conn : d # c => run'[d] = run[d]
  BY <1>0, <1>1 DEF Typed
<1>5. /\ \A d \in Conn : InSession(d)' <=> InSession(d)
      /\ \A d \in Conn : Active(d)' <=> Active(d)
  BY <1>0, <1>4 DEF InSession, Active
<1>6. SocketOf(c)'
  BY <1>0, <1>1, <1>3, <1>4 DEF SocketOf, InSession, Active
<1>7. Sockets' /\ Mapped'
  BY <1>0, <1>3, <1>4, <1>5, <1>6, OthersKept, MapKept
<1>8. Unique' /\ Snapshot'
  <2>1. \A d \in Conn : (run[d] = "done" => run'[d] = "done") /\ (Pinging(d)' <=> Pinging(d))
    BY <1>0, <1>4 DEF Pinging
  <2> QED BY <1>3, <1>5, <2>1, NumbersKept
<1>9. Joinable' /\ Stopping'
  BY <1>0, <1>5, StopKept
<1> QED BY <1>3, <1>7, <1>8, <1>9 DEF Tidy

\* releaseClient, second half: the session at c's number is c's own.
LEMMA RemoveTidy ==
    ASSUME IInv, NEW c \in Conn, Remove(c)
    PROVE  Tidy'
<1>0. /\ UNCHANGED <<main, toJoin, listening, sock, fd, closed, spawned, tracked, hb, badClose>>
      /\ run[c] = "remove" /\ run' = [run EXCEPT ![c] = "done"]
      /\ liveSockets' = liveSockets \ {c} /\ sessions' = [sessions EXCEPT ![fd[c]] = None]
  BY DEF Remove, RemoveSession, stopVars
<1>1. Typed /\ SocketOf(c) /\ InSession(c) /\ fd[c] \in Fd
  BY <1>0, Basics DEF Active, InSession
<1>2. sessions[fd[c]] = c /\ c # None
  BY <1>1, ConnAssumption DEF IInv, Tidy, Mapped
<1>3. ended'[c] # "no" /\ \A d \in Conn : d # c => ended'[d] = ended[d]
  BY <1>1, <1>2 DEF Remove, RemoveSession, Typed
<1>4. run'[c] = "done" /\ \A d \in Conn : d # c => run'[d] = run[d]
  BY <1>0, <1>1 DEF Typed
<1>5. /\ ~InSession(c)' /\ \A d \in Conn : d # c => (InSession(d)' <=> InSession(d))
      /\ \A d \in Conn : Active(d)' => Active(d)
  BY <1>0, <1>4 DEF InSession, Active
<1>6. SocketOf(c)'
  BY <1>0, <1>1, <1>3, <1>4 DEF SocketOf, InSession, Active
<1>7. Sockets'
  <2>1. \A d \in Conn : d # c => (d \in liveSockets' <=> d \in liveSockets)
    BY <1>0
  <2> QED BY <1>0, <1>3, <1>4, <1>6, <2>1, OthersKept
<1>8. Mapped'
  <2>1. \A d \in Conn : d # c /\ InSession(d) => fd[d] # fd[c] /\ fd[d] \in Fd
    BY <1>1, Basics DEF IInv, Tidy, Unique, InSession, Active
  <2>2. ASSUME NEW d \in Conn, InSession(d)' PROVE sessions'[fd[d]] = d
    BY <1>0, <1>1, <1>5, <2>1, <2>2 DEF IInv, Tidy, Mapped, Typed
  <2>3. ASSUME NEW f \in Fd, NEW e \in Conn, sessions'[f] = e
        PROVE  InSession(e)' /\ fd[e] = f
    <3>1. f # fd[c] /\ sessions[f] = e /\ e # None
      BY <1>0, <1>1, <2>3, ConnAssumption DEF Typed
    <3>2. InSession(e) /\ fd[e] = f
      BY <3>1 DEF IInv, Tidy, Mapped
    <3> QED BY <1>5, <3>1, <3>2
  <2>4. \A f \in Fd : sessions'[f] \in Conn \cup {None}
    BY <1>0, <1>1 DEF Typed
  <2> QED BY <1>0, <2>2, <2>3, <2>4 DEF Mapped
<1>9. Unique' /\ Snapshot'
  <2>1. \A d \in Conn : /\ InSession(d) => InSession(d)' \/ run'[d] = "done"
                        /\ run[d] = "done" => run'[d] = "done"
                        /\ Pinging(d)' <=> Pinging(d)
    BY <1>0, <1>4, <1>5 DEF Pinging
  <2> QED BY <1>0, <1>5, <2>1, NumbersKept
<1>10. Joinable' /\ Stopping'
  BY <1>0, <1>5, StopKept
<1> QED BY <1>0, <1>7, <1>8, <1>9, <1>10, Basics DEF Tidy

\* Accept: the number it gets is nobody's.
LEMMA AcceptTidy ==
    ASSUME IInv, ~Reuse, NEW c \in Conn, Accept(c)
    PROVE  Tidy'
<1> DEFINE p == Kind[c]
<1>0. /\ UNCHANGED <<main, toJoin, listening, liveSockets, sessions, closed, ended, spawned,
                     tracked, hb, badClose>>
      /\ sock[c] = "new" /\ sock' = [sock EXCEPT ![c] = "open"]
      /\ ListenSocketOpen(p)
  BY DEF Accept, stopVars, sessVars
<1>1. PICK f \in FreeFd : fd' = [fd EXCEPT ![c] = f]
  BY DEF Accept
<1>2. PICK next \in {"add", "track"} :
         run' = [run EXCEPT ![c] = next] /\ (next = "track" => p = "web")
  <2>1. p \in {"tcp", "web"}
    BY Basics DEF Port
  <2> QED BY <2>1 DEF Accept
<1>3. Typed /\ SocketOf(c) /\ run[c] = "none" /\ p \in Port
  BY <1>0, Basics DEF SocketOf
<1>4. run'[c] = next /\ \A d \in Conn : d # c => run'[d] = run[d] /\ sock'[d] = sock[d]
  BY <1>0, <1>2, <1>3 DEF Typed
<1>5. fd'[c] = f /\ \A d \in Conn : d # c => fd'[d] = fd[d]
  BY <1>1, <1>3 DEF Typed
<1>6. \A d \in Conn : Active(d) \/ Pinging(d) => fd[d] # f
  <2>1. ~Referenced(f)
    BY DEF FreeFd
  <2> QED BY <2>1 DEF Referenced, Active, Pinging
<1>7. /\ \A d \in Conn : InSession(d)' <=> InSession(d)
      /\ \A d \in Conn : d # c => (Active(d)' <=> Active(d))
      /\ ~InSession(c) /\ \A d \in Conn : Pinging(d)' <=> Pinging(d)
  BY <1>0, <1>3, <1>4 DEF InSession, Active, Pinging
<1>8. Sockets'
  <2>1. sock'[c] = "open"
    BY <1>0, <1>3 DEF Typed
  <2>2. SocketOf(c)'
    BY <1>0, <1>2, <1>3, <1>4, <2>1 DEF SocketOf, InSession, Active
  <2> QED BY <1>0, <1>4, <2>2, OthersKept
<1>9. Mapped'
  <2>1. \A g \in Fd : sessions[g] # None => sessions[g] \in Conn
    BY <1>3 DEF Typed
  <2> QED BY <1>0, <1>5, <1>7, <2>1 DEF IInv, Tidy, Mapped
<1>10. Unique'
  <2>1. SUFFICES ASSUME NEW a \in Conn, NEW b \in Conn, a # b, Active(a)' \/ Pinging(a)',
                        Active(b)'
                 PROVE  fd'[a] # fd'[b]
    BY DEF Unique
  <2>2. CASE a = c
    BY <1>5, <1>6, <1>7, <2>1, <2>2
  <2>3. CASE b = c
    BY <1>5, <1>6, <1>7, <2>1, <2>3
  <2>4. CASE a # c /\ b # c
    BY <1>5, <1>7, <2>1, <2>4 DEF IInv, Tidy, Unique
  <2> QED BY <2>2, <2>3, <2>4
<1>11. Snapshot'
  BY <1>3, <1>4, <1>7 DEF IInv, Tidy, Snapshot
<1>12. Joinable'
  BY <1>0, <1>3, <1>7 DEF IInv, Tidy, Joinable, SocketOf
<1>13. Stopping'
  <2>1. \A q \in Port : AcceptBusy(q)' => AcceptBusy(q) \/ q = p
    BY <1>0, <1>4 DEF AcceptBusy
  <2>2. \/ main = "running"
        \/ p = "tcp" /\ (HasGossip \/ main = "snapshot")
    BY <1>0, <1>3 DEF ListenSocketOpen, IInv, Tidy, Stopping, Port
  <2>3. HasGossip' <=> HasGossip
    BY <1>0 DEF HasGossip
  <2>4. CASE main = "running"
    BY <1>0, <2>3, <2>4 DEF IInv, Tidy, Stopping
  <2>5. CASE p = "tcp" /\ (HasGossip \/ main = "snapshot")
    BY <1>0, <2>1, <2>3, <2>5 DEF IInv, Tidy, Stopping, HasGossip, Port
  <2> QED BY <2>2, <2>4, <2>5
<1> QED BY <1>0, <1>8, <1>9, <1>10, <1>11, <1>12, <1>13, Basics DEF Tidy
\* A step of Heartbeat, or of stop, that moves no thread and touches no tracked
\* handler keeps everything but what stop has established.
LEMMA StillTidy ==
    ASSUME IInv,
           UNCHANGED <<run, fd, spawned, sessions, ended, liveSockets>>, ~badClose',
           \A d \in Conn : Pinging(d)' => Pinging(d) \/ InSession(d),
           \/ UNCHANGED <<sock, closed>>
           \/ \E s \in Conn : /\ InSession(s)
                              /\ sock' = [sock EXCEPT ![s] = "closed"]
                              /\ closed' = [closed EXCEPT ![s] = TRUE]
    PROVE  Sockets' /\ Mapped' /\ Unique' /\ Snapshot' /\ ~badClose'
<1>1. \A d \in Conn : (InSession(d)' <=> InSession(d)) /\ (Active(d)' <=> Active(d))
  BY DEF InSession, Active
<1>2. Sockets' /\ Mapped'
  BY FlagKeeps
<1>3. Unique' /\ Snapshot'
  BY <1>1, NumbersKept
<1> QED BY <1>2, <1>3

\* Heartbeat: it drops the connection its snapshot means, or none.
LEMMA HeartbeatTidy ==
    ASSUME IInv, Heartbeat
    PROVE  Tidy'
<1>0. /\ UNCHANGED <<main, toJoin, listening, fd, liveSockets, sessions, ended, spawned,
                     tracked, run>>
      /\ Typed /\ hb \in HbType
  BY Basics DEF Heartbeat, PingRound, Ping, PingUnblock, Drop, HeartbeatExit, CloseClient,
     CloseSocket, stopVars, sockVars, sessVars, thrVars, Typed
<1>1. \A d \in Conn : Pinging(d)' => Pinging(d) \/ InSession(d)
  <2>1. CASE \E s : hb' = PingDone(s)
    <3>1. PICK s : hb' = PingDone(s)
      BY <2>1
    <3>2. hb'.left \subseteq hb.left /\ hb'.cur = None
      BY <1>0, <3>1, PingDoneFields
    <3> QED BY <3>2, ConnAssumption DEF Pinging
  <2>2. CASE \E s \in hb.left : \E at : hb' = [hb EXCEPT !.at = at, !.cur = s]
    <3>1. PICK s, at : s \in hb.left /\ hb' = [hb EXCEPT !.at = at, !.cur = s]
      BY <2>2
    <3>2. hb'.left = hb.left /\ hb'.cur = s
      BY <1>0, <3>1 DEF HbType
    <3> QED BY <3>1, <3>2 DEF Pinging
  <2>3. CASE PingRound
    <3>1. hb'.left = Range(sessions) \ {None} /\ hb'.cur = hb.cur
      BY <1>0, <2>3 DEF PingRound, HbType
    <3>2. \A d \in Range(sessions) : d = None \/ InSession(d)
      BY <1>0 DEF IInv, Tidy, Mapped, Range, Typed
    <3> QED BY <3>1, <3>2, ConnAssumption DEF Pinging
  <2>4. CASE HeartbeatExit
    BY <1>0, <2>4 DEF HeartbeatExit, HbType, Pinging
  <2>5. CASE hb' = [hb EXCEPT !.at = "drop"]
    BY <1>0, <2>5 DEF HbType, Pinging
  <2>6. PingUnblock => (\E s : hb' = PingDone(s)) \/ hb' = [hb EXCEPT !.at = "drop"]
    BY DEF PingUnblock
  <2>7. Drop => \E s : hb' = PingDone(s)
    BY DEF Drop
  <2>8. ASSUME NEW s \in Conn, Ping(s)
        PROVE  \/ hb' = PingDone(s)
               \/ s \in hb.left /\ \E at : hb' = [hb EXCEPT !.at = at, !.cur = s]
    BY <2>8 DEF Ping
  <2> QED BY <2>1, <2>2, <2>3, <2>4, <2>5, <2>6, <2>7, <2>8 DEF Heartbeat
<1>2. /\ ~badClose'
      /\ \/ UNCHANGED <<sock, closed>>
         \/ \E s \in Conn : /\ InSession(s)
                            /\ sock' = [sock EXCEPT ![s] = "closed"]
                            /\ closed' = [closed EXCEPT ![s] = TRUE]
  <2>1. CASE Drop
    <3>1. hb.cur \in Conn
      BY <1>0, <2>1 DEF Drop, Typed, HbType
    <3>2. fd[hb.cur] \in Fd
      <4>1. InSession(hb.cur) \/ run[hb.cur] = "done"
        BY <3>1 DEF IInv, Tidy, Snapshot, Pinging
      <4> QED BY <3>1, <4>1, Basics DEF Numbered, InSession
    <3>3. CloseClient(fd[hb.cur])
      BY <2>1 DEF Drop
    <3> QED BY <3>2, <3>3, ClosesSession
  <2>2. CASE ~Drop
    <3>1. UNCHANGED <<sock, closed, badClose>>
      BY <2>2 DEF Heartbeat, PingRound, Ping, PingUnblock, HeartbeatExit, sockVars, sessVars
    <3> QED BY <3>1, Basics
  <2> QED BY <2>1, <2>2
<1>3. Sockets' /\ Mapped' /\ Unique' /\ Snapshot' /\ ~badClose'
  BY <1>0, <1>1, <1>2, StillTidy
<1>4. Joinable' /\ Stopping'
  <2>1. \A d \in Conn : Active(d)' => Active(d)
    BY <1>0 DEF Active
  <2> QED BY <1>0, <2>1, StopKept
<1> QED BY <1>3, <1>4 DEF Tidy

\* Start and stop: each join leaves one kind of thread out of the picture.
LEMMA ServerTidy ==
    ASSUME IInv, Start \/ Stop
    PROVE  Tidy'
<1>0. /\ UNCHANGED <<fd, liveSockets, sessions, ended, spawned, run>>
      /\ Typed /\ hb \in HbType
  BY Basics DEF Start, Stop, StopWeb, ShutdownWeb, JoinWebAccept, JoinHeartbeat, StopTcp,
     SnapshotTcp, CloseTcp, Join, CloseClient, CloseSocket, stopVars, sockVars, sessVars, thrVars,
     Typed
<1>1. \A d \in Conn : Pinging(d)' => Pinging(d)
  <2>1. hb'.left = hb.left /\ hb'.cur = hb.cur
    BY <1>0 DEF Start, Stop, StopWeb, ShutdownWeb, JoinWebAccept, JoinHeartbeat, StopTcp,
       SnapshotTcp, CloseTcp, Join, HbType
  <2> QED BY <2>1 DEF Pinging
<1>2. /\ ~badClose'
      /\ \/ UNCHANGED <<sock, closed>>
         \/ \E s \in Conn : /\ InSession(s)
                            /\ sock' = [sock EXCEPT ![s] = "closed"]
                            /\ closed' = [closed EXCEPT ![s] = TRUE]
  <2>1. ASSUME NEW f \in todo, CloseClient(f)
        PROVE  /\ ~badClose'
               /\ \/ UNCHANGED <<sock, closed>>
                  \/ \E s \in Conn : /\ InSession(s)
                                     /\ sock' = [sock EXCEPT ![s] = "closed"]
                                     /\ closed' = [closed EXCEPT ![s] = TRUE]
    <3>1. f \in Fd
      BY <1>0 DEF Typed
    <3> QED BY <2>1, <3>1, ClosesSession
  <2>2. CASE CloseTcp
    BY <2>1, <2>2, Basics DEF CloseTcp
  <2>3. CASE ~CloseTcp
    BY <2>3, Basics DEF Start, Stop, StopWeb, ShutdownWeb, JoinWebAccept, JoinHeartbeat, StopTcp,
       SnapshotTcp, Join, sockVars, sessVars
  <2> QED BY <2>2, <2>3
<1>3. Sockets' /\ Mapped' /\ Unique' /\ Snapshot' /\ ~badClose'
  BY <1>0, <1>1, <1>2, StillTidy
<1>4. \A c \in Conn : Active(c)' <=> Active(c)
  BY <1>0 DEF Active
<1>5. \A p \in Port : AcceptBusy(p)' <=> AcceptBusy(p)
  BY <1>0 DEF AcceptBusy
<1>6. Joinable' /\ Stopping'
  <2>1. CASE Start
    BY <1>0, <1>4, <1>5, <2>1 DEF Start, thrVars, IInv, Tidy, Joinable, Stopping, HasGossip
  <2>2. CASE StopWeb \/ ShutdownWeb \/ JoinWebAccept \/ JoinHeartbeat \/ StopTcp \/ SnapshotTcp
    <3>1. UNCHANGED <<toJoin, tracked>>
      BY <2>2 DEF StopWeb, ShutdownWeb, JoinWebAccept, JoinHeartbeat, StopTcp, SnapshotTcp, thrVars
    <3>2. Joinable'
      BY <1>0, <1>4, <3>1 DEF IInv, Tidy, Joinable
    <3>3. Stopping'
      BY <1>0, <1>5, <2>2, <3>1 DEF StopWeb, ShutdownWeb, JoinWebAccept, JoinHeartbeat, StopTcp,
         SnapshotTcp, IInv, Tidy, Stopping, HasGossip, Port, Typed
    <3> QED BY <3>2, <3>3
  <2>3. CASE CloseTcp /\ main' = main
    <3>1. UNCHANGED <<main, toJoin, tracked, listening>>
      BY <2>3 DEF CloseTcp
    <3> QED BY <1>0, <1>4, <3>1, StopKept
  <2>4. CASE CloseTcp /\ main' # main
    <3>1. /\ main = "closing" /\ main' = "join" /\ toJoin' = tracked["tcp"]
          /\ tracked' = [tracked EXCEPT !["tcp"] = {}] /\ UNCHANGED listening
      BY <2>4 DEF CloseTcp
    <3>2. tracked'["tcp"] = {} /\ tracked'["web"] = tracked["web"] /\ toJoin = {}
      BY <1>0, <3>1 DEF IInv, Tidy, Stopping, Typed, Port
    <3>3. Joinable'
      BY <1>0, <1>4, <3>1, <3>2, Basics DEF IInv, Tidy, Joinable, Port
    <3>4. Stopping'
      BY <1>5, <3>1, <3>2 DEF IInv, Tidy, Stopping, HasGossip, Port
    <3> QED BY <3>3, <3>4
  <2>5. CASE Join
    <3>1. Joined /\ UNCHANGED listening
      BY <2>5 DEF Join
    <3>2. \A c \in toJoin : ~Active(c)
      BY <3>1 DEF Joined, Active
    <3>3. CASE main = "join" \/ main = "joinAccept"
      <4>1. /\ tracked["tcp"] = {} /\ tracked'["tcp"] = {} /\ tracked'["web"] = tracked["web"]
            /\ toJoin' = {}
        BY <1>0, <2>5, <3>3 DEF Join, IInv, Tidy, Stopping, Typed, Port
      <4>2. Joinable'
        BY <1>0, <1>4, <3>2, <4>1, Basics DEF IInv, Tidy, Joinable, Port
      <4>3. Stopping'
        BY <1>5, <2>5, <3>1, <3>3, <4>1 DEF Join, IInv, Tidy, Stopping, HasGossip, Port
      <4> QED BY <4>2, <4>3
    <3>4. CASE main = "joinAgain"
      <4>1. /\ tracked["tcp"] = {} /\ tracked'["tcp"] = {} /\ tracked'["web"] = {}
            /\ toJoin' = tracked["web"] /\ main' = "joinWeb"
        BY <1>0, <2>5, <3>4 DEF Join, IInv, Tidy, Stopping, Typed, Port
      <4>2. Joinable'
        BY <1>0, <1>4, <3>2, <4>1, Basics DEF IInv, Tidy, Joinable, Port
      <4>3. \A c \in Conn : Kind[c] = "tcp" => ~Active(c)
        BY <3>2, <3>4, <4>1 DEF IInv, Tidy, Joinable, Stopping, AcceptBusy, Active
      <4>4. Stopping'
        BY <1>4, <1>5, <3>1, <3>4, <4>1, <4>3 DEF IInv, Tidy, Stopping, HasGossip, Port
      <4> QED BY <4>2, <4>4
    <3>5. CASE main = "joinWeb"
      <4>1. /\ tracked["tcp"] = {} /\ tracked["web"] = {} /\ UNCHANGED tracked
            /\ toJoin' = {} /\ main' = "stopped"
        BY <2>5, <3>5 DEF Join, IInv, Tidy, Stopping
      <4>2. \A c \in Conn : ~Active(c)
        BY <3>2, <3>5, <4>1, Basics DEF IInv, Tidy, Joinable, Stopping, AcceptBusy, Active, Port
      <4>3. Joinable'
        BY <1>4, <4>2 DEF Joinable
      <4>4. Stopping'
        BY <1>4, <1>5, <3>1, <3>5, <4>1, <4>2 DEF IInv, Tidy, Stopping, HasGossip, Port
      <4> QED BY <4>3, <4>4
    <3> QED BY <2>5, <3>3, <3>4, <3>5 DEF Join
  <2> QED BY <2>1, <2>2, <2>3, <2>4, <2>5 DEF Stop
<1> QED BY <1>3, <1>6 DEF Tidy
-----------------------------------------------------------------------------
(***************************************************************************)
(* The invariant and the theorems.                                         *)
(***************************************************************************)

\* A server that has not been started satisfies the invariant.
LEMMA InitTidy == Init => IInv
<1> SUFFICES ASSUME Init PROVE IInv
  OBVIOUS
<1>1. \A c \in Conn : run[c] = "none" /\ ~Active(c) /\ ~InSession(c) /\ ~Pinging(c)
  BY ConnAssumption DEF Init, Active, InSession, Pinging
<1>2. ~badClose /\ Mapped
  BY <1>1 DEF Init, Mapped
<1>3. Sockets
  <2>1. \A c \in Conn : /\ sock[c] = "new" /\ ~spawned[c] /\ ~closed[c]
                        /\ c \notin liveSockets
    BY DEF Init
  <2> QED BY <1>1, <2>1 DEF Sockets, SocketOf
<1>4. Unique /\ Snapshot /\ Joinable
  BY <1>1 DEF Unique, Snapshot, Joinable
<1>5. Stopping
  <2>1. ~AcceptBusy("web") /\ ~AcceptBusy("tcp")
    BY <1>1 DEF AcceptBusy
  <2> QED BY <1>1, <2>1 DEF Init, Stopping, Port
<1> QED BY <1>2, <1>3, <1>4, <1>5, InitTyped DEF IInv, Tidy

\* Every step keeps it, unless the system reuses a number a thread still holds.
LEMMA StepTidy ==
    ASSUME ~Reuse PROVE IInv /\ [Next]_vars => IInv'
<1> SUFFICES ASSUME IInv, [Next]_vars PROVE IInv'
  OBVIOUS
<1>1. TInv'
  BY StepTyped DEF IInv
<1>2. CASE Start \/ Stop
  BY <1>1, <1>2, ServerTidy DEF IInv
<1>3. CASE Heartbeat
  BY <1>1, <1>3, HeartbeatTidy DEF IInv
<1>4. ASSUME NEW c \in Conn, Accept(c) \/ Thread(c) PROVE Tidy'
  BY <1>4, AcceptTidy, BrowserTidy, SpawnTidy, OpenTidy, MovesTidy, CloseTidy, RemoveTidy DEF Thread
<1>5. ASSUME (\E c \in Conn : Client(c)) \/ UNCHANGED vars PROVE Tidy'
  <2>1. UNCHANGED <<main, toJoin, listening, sock, fd, liveSockets, sessions, closed, ended,
                    spawned, tracked, run, hb, badClose>>
    BY <1>5 DEF Client, Falter, Recover, Timeout, vars, stopVars, sockVars, sessVars, thrVars
  <2>2. \A d \in Conn : (Pinging(d)' <=> Pinging(d)) /\ (Active(d)' <=> Active(d))
    BY <2>1 DEF Pinging, Active
  <2>3. Sockets' /\ Mapped' /\ Unique' /\ Snapshot' /\ ~badClose'
    BY <2>1, <2>2, StillTidy, Basics
  <2>4. Joinable' /\ Stopping'
    BY <2>1, <2>2, StopKept
  <2> QED BY <2>3, <2>4 DEF Tidy
<1> QED BY <1>1, <1>2, <1>3, <1>4, <1>5 DEF Next, IInv

\* The inductive invariant holds of every behaviour in which a number is not reused
\* while some thread still holds it.
THEOREM LifecycleInvariant == ~Reuse => (Spec => []IInv)
<1> SUFFICES ASSUME ~Reuse PROVE Spec => []IInv
  OBVIOUS
<1>1. IInv /\ [Next]_vars => IInv'
  BY StepTidy
<1> QED BY <1>1, InitTidy, PTL DEF Spec

\* Released holds of every such behaviour, for any number of clients, restarts and
\* faults; with Reuse it does not (the run LifecycleReuse).
THEOREM ClientsReleased == ~Reuse => (Spec => []Released)
<1>1. IInv => Released
  <2> SUFFICES ASSUME IInv, NEW c \in Conn, run[c] = "done"
               PROVE  /\ sock[c] = "closed"
                      /\ \A f \in Fd : sessions[f] # c
                      /\ closed[c] => ended[c] # "no"
    BY DEF Released
  <2>1. \A f \in Fd : sessions[f] # c
    BY ConnAssumption DEF IInv, Tidy, Mapped, InSession
  <2> QED BY <2>1, Basics DEF SocketOf
<1> QED BY <1>1, LifecycleInvariant, PTL

\* ClosedOnce holds of every such behaviour: the handler, Heartbeat and stop never
\* close a number between them that is not, or no longer, their client's.
THEOREM SocketsClosedOnce == ~Reuse => (Spec => []ClosedOnce)
<1>1. IInv => ClosedOnce
  <2> SUFFICES ASSUME IInv PROVE ClosedOnce
    OBVIOUS
  <2>1. ASSUME NEW f \in Fd, sessions[f] # None
        PROVE  closed[sessions[f]] <=> sock[sessions[f]] = "closed"
    <3>1. sessions[f] \in Conn /\ InSession(sessions[f])
      BY <2>1, Basics DEF IInv, Tidy, Mapped, Typed
    <3> QED BY <3>1, Basics DEF SocketOf
  <2> QED BY <2>1, Basics DEF ClosedOnce
<1> QED BY <1>1, LifecycleInvariant, PTL

\* StoppedClean holds of every such behaviour: whoever was accepted, and whenever,
\* stop's joins have waited for the thread that served it.
THEOREM StopLeavesNothing == ~Reuse => (Spec => []StoppedClean)
<1>1. IInv => StoppedClean
  <2> SUFFICES ASSUME IInv, main = "stopped"
               PROVE  /\ \A c \in Conn : sock[c] # "open" /\ run[c] \in {"none", "done"}
                      /\ \A f \in Fd : sessions[f] = None
                      /\ \A p \in Port : tracked[p] = {}
                      /\ liveSockets = {} /\ hb.at = "done"
    BY DEF StoppedClean
  <2>1. \A c \in Conn : ~Active(c)
    BY DEF IInv, Tidy, Stopping
  <2>2. \A c \in Conn : sock[c] # "open" /\ run[c] \in {"none", "done"} /\ c \notin liveSockets
    BY <2>1, Basics DEF SocketOf, Active
  <2>3. \A f \in Fd : sessions[f] = None
    BY <2>1, Basics DEF IInv, Tidy, Mapped, Typed, InSession, Active
  <2>4. \A p \in Port : tracked[p] = {}
    BY DEF IInv, Tidy, Stopping, Port
  <2>5. liveSockets = {} /\ hb.at = "done"
    BY <2>2, Basics DEF Typed, IInv, TInv, Paused
  <2> QED BY <2>2, <2>3, <2>4, <2>5
<1> QED BY <1>1, LifecycleInvariant, PTL
=============================================================================
