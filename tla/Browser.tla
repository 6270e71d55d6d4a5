------------------------------ MODULE Browser -------------------------------
(***************************************************************************)
(* The browser client (web/src/service).  One page, one thread: a step is  *)
(* an event handler together with the promise continuations it sets off.   *)
(* The page keeps a session (user, room, transcript), a list of waiters    *)
(* for replies, which are told apart by packet type only and time out      *)
(* after 15 seconds, and one socket, opened again one second after it was  *)
(* lost.                                                                   *)
(*                                                                         *)
(* The server's side of the connection is its session's user and room, a   *)
(* handler that takes requests in order, and pushes: the welcome, messages *)
(* of others, and the move to the Lobby after a kick.  There is one        *)
(* account.  The room directory, and requests whose reply only ends the    *)
(* busy state (send, create, invite, kick, profile), change nothing here   *)
(* and are one request, OTHER.  Sign-up is LOGIN.                          *)
(***************************************************************************)
EXTENDS Naturals, Sequences, FiniteSets

CONSTANTS
    Lobby, Other,   \* the rooms
    MaxRequests,    \* bound: requests the user makes
    MaxChats,       \* bound: messages of other users
    MaxDrops        \* bound: lost connections, kicks, pages closed

ASSUME RoomAssumption == Lobby # Other
ASSUME BoundAssumption == MaxRequests \in Nat /\ MaxChats \in Nat /\ MaxDrops \in Nat

Room == {Lobby, Other}
Chat == 1..MaxChats
Type == {"LOGIN", "LOGOUT", "ROOM_JOIN", "ROOM_LEAVE", "HISTORY", "RECONNECT", "OTHER"}

VARIABLES
    watched,    \* LISTENERS is not empty
    sock,       \* readyState of CONN_SOCKET
    retry,      \* the timer that opens the socket again is set
    user, room, \* session.user and the name of session.currentRoom
    transcript, \* the messages in session.transcript
    hold,       \* HOLD_CHAT
    held,       \* PENDING_CHAT
    task,       \* the function withBusy runs: what it waits for
    waiters,    \* WAITERS; a waiter of the task, or of resumeSignedIn
    requests, chats, drops,
    srv,        \* the server's session for the connection
    owed,       \* the request the server's handler has carried out, not answered
    up, down,   \* packets under way
    saved,      \* saved[r]: messages of r the server has stored
    loaded,     \* history: the transcript was loaded for the room on screen
    late,       \* history: on this connection a waiter timed out before its reply,
                \* or a kick overtook a reply
    strayed     \* history: the session was resumed in another room than shown

page == <<user, room, transcript, hold, held, task, loaded, strayed>>
limits == <<requests, chats, drops>>
server == <<srv, owed, saved>>
vars == <<watched, sock, retry, page, waiters, limits, server, up, down, late>>

NoTask == [type |-> "OTHER", room |-> Lobby, stage |-> "none"]
NoSession == [user |-> "none", room |-> Lobby]

Request(t, r) == [type |-> t, room |-> r]
NoRequest == Request("OTHER", Lobby)
NoReply == [kind |-> "none", type |-> "OTHER", ok |-> FALSE, room |-> Lobby, chat |-> {}]
Reply(t, ok, r, c) == [kind |-> "reply", type |-> t, ok |-> ok, room |-> r, chat |-> c]
Push(k, r, c) == [NoReply EXCEPT !.kind = k, !.room = r, !.chat = c]

Init ==
    /\ watched = FALSE /\ sock = "closed" /\ retry = FALSE
    /\ user = "none" /\ room = Lobby
    /\ transcript = {} /\ hold = FALSE /\ held = {}
    /\ task = NoTask /\ waiters = <<>>
    /\ requests = 0 /\ chats = 0 /\ drops = 0
    /\ srv = NoSession /\ owed = <<>> /\ up = <<>> /\ down = <<>>
    /\ saved = [r \in Room |-> {}]
    /\ loaded = FALSE /\ late = FALSE /\ strayed = FALSE

-----------------------------------------------------------------------------
(***************************************************************************)
(* Requests.                                                               *)
(***************************************************************************)

Waiter(t, by) == [type |-> t, by |-> by]

\* request on an open socket: a waiter with its timer, and the packet.
Ask(t, r, by) ==
    /\ waiters' = Append(waiters, Waiter(t, by))
    /\ up' = Append(up, Request(t, r))

\* The checks blockedSignIn, blockedUser, blockedIdentity and leaveRoom's.
Blocked(t, r) ==
    CASE t = "LOGIN" -> user = "account"
      [] t \in {"LOGOUT", "OTHER"} -> user # "account"
      [] t = "ROOM_JOIN" -> user = "none"
      [] t = "ROOM_LEAVE" -> user = "none" \/ room = Lobby

\* A click: refused while another one is busy; a blocked one changes nothing.
Click(t, r) ==
    /\ task = NoTask /\ sock = "open"
    /\ t = "ROOM_JOIN" \/ r = Lobby
    /\ ~Blocked(t, r)
    /\ requests < MaxRequests /\ requests' = requests + 1
    /\ task' = [type |-> t, room |-> r, stage |-> "reply"]
    /\ Ask(t, r, "task")
    /\ UNCHANGED <<watched, sock, retry, user, room, transcript, hold, held, loaded, strayed,
                   chats, drops, server, down, late>>

-----------------------------------------------------------------------------
(***************************************************************************)
(* What a waiter's reply, or null (a reply that is not there), sets off.   *)
(***************************************************************************)

\* The end of resetTranscript: the history or an error line, and what came
\* meanwhile.
ShowHistory(reply) ==
    /\ transcript' = reply.chat \cup held
    /\ held' = {} /\ hold' = FALSE
    /\ loaded' = (reply.ok /\ reply.room = room)
    /\ task' = NoTask
    /\ UNCHANGED <<user, room, strayed>>

\* The task's request was refused or its reply is missing.
GiveUp ==
    /\ task' = NoTask
    /\ UNCHANGED <<user, room, transcript, hold, held, loaded, strayed>>

\* Mutant: LOGIN leaves the page in the room it showed.
MutLoginKeepsRoom(reply) ==
    /\ user' = CASE reply.type = "LOGIN" -> "account"
                 [] reply.type = "LOGOUT" -> "guest"
                 [] OTHER -> user
    /\ room' = CASE reply.type = "ROOM_JOIN" -> reply.room
                 [] reply.type = "LOGIN" -> room
                 [] OTHER -> Lobby
    /\ strayed' = FALSE
    /\ transcript' = {} /\ held' = {} /\ hold' = TRUE
    /\ task' = [task EXCEPT !.stage = "history"]
    /\ UNCHANGED loaded

\* login, logout, joinRoom and leaveRoom go on, up to resetTranscript's request.
Advance(reply) ==
    /\ user' = CASE reply.type = "LOGIN" -> "account"
                 [] reply.type = "LOGOUT" -> "guest"
                 [] OTHER -> user
    /\ room' = IF reply.type = "ROOM_JOIN" THEN reply.room ELSE Lobby
    /\ strayed' = FALSE
    /\ transcript' = {} /\ held' = {} /\ hold' = TRUE
    /\ task' = [task EXCEPT !.stage = "history"]
    /\ UNCHANGED loaded

\* resumeSignedIn takes the user, not the room, from the reply.
Resumed(reply) ==
    /\ user' = IF reply.ok THEN "account" ELSE user
    /\ strayed' = (strayed \/ (reply.ok /\ reply.room # room))
    /\ UNCHANGED <<room, transcript, hold, held, task, loaded>>

\* Waiter i is finished with this reply.  `rest` are the other waiters.
Finish(i, reply) ==
    LET rest == [j \in 1..(Len(waiters) - 1) |-> waiters[IF j < i THEN j ELSE j + 1]]
    IN IF waiters[i].by = "resume"
       THEN Resumed(reply) /\ waiters' = rest /\ UNCHANGED up
       ELSE IF task.stage = "history"
       THEN ShowHistory(reply) /\ waiters' = rest /\ UNCHANGED up
       ELSE IF ~reply.ok \/ task.type = "OTHER"
       THEN GiveUp /\ waiters' = rest /\ UNCHANGED up
       ELSE /\ Advance(reply)
            /\ waiters' = Append(rest, Waiter("HISTORY", "task"))
            /\ up' = Append(up, Request("HISTORY", room'))

\* Mutant: requests have no timer.
MutNoTimer(i) == FALSE /\ UNCHANGED vars

\* The waiter's timer: the reply may still come.
Timeout(i) ==
    /\ Finish(i, NoReply)
    /\ late' = TRUE
    /\ UNCHANGED <<watched, sock, retry, limits, server, down>>

-----------------------------------------------------------------------------
(***************************************************************************)
(* The socket.                                                             *)
(***************************************************************************)

\* openSocket, when there is no socket in use.
OpenSocket == sock' = IF sock = "closed" THEN "connecting" ELSE sock

Watch ==
    /\ ~watched /\ watched' = TRUE
    /\ OpenSocket
    /\ UNCHANGED <<retry, page, waiters, limits, server, up, down, late>>

\* The last listener goes: the socket is dropped, and onclose, which sees
\* another CONN_SOCKET, neither fails the waiters nor sets the timer.
Unwatch ==
    /\ watched /\ watched' = FALSE
    /\ drops < MaxDrops /\ drops' = drops + 1
    /\ sock' = "closed"
    /\ srv' = NoSession /\ owed' = <<>> /\ up' = <<>> /\ down' = <<>>
    /\ UNCHANGED <<retry, page, waiters, requests, chats, saved, late>>

Retry ==
    /\ retry /\ retry' = FALSE
    /\ OpenSocket
    /\ UNCHANGED <<watched, page, waiters, limits, server, up, down, late>>

\* onopen: the server has opened a session and sent the welcome; a page that
\* shows an account asks to resume it in the room on screen.
OnOpen ==
    /\ sock = "connecting" /\ sock' = "open"
    /\ srv' = [user |-> "guest", room |-> Lobby] /\ owed' = <<>>
    /\ down' = <<Push("welcome", Lobby, {})>>
    /\ late' = FALSE
    /\ IF user = "account" THEN Ask("RECONNECT", room, "resume") ELSE UNCHANGED <<waiters, up>>
    /\ UNCHANGED <<watched, retry, page, limits, saved>>

\* onclose: every waiter gets null, and with it the task.
OnClose ==
    /\ sock # "closed" /\ sock' = "closed"
    /\ drops < MaxDrops /\ drops' = drops + 1
    /\ waiters' = <<>>
    /\ srv' = NoSession /\ owed' = <<>> /\ up' = <<>> /\ down' = <<>>
    /\ retry' = (retry \/ watched)
    /\ IF task.stage = "history" THEN ShowHistory(NoReply) ELSE GiveUp
    /\ UNCHANGED <<watched, requests, chats, saved, late>>

\* The welcome names an anonymous user and the Lobby: applyRoomList takes both.
Welcome ==
    /\ user' = "guest" /\ room' = Lobby
    /\ transcript' = {} /\ held' = {}
    /\ loaded' = FALSE /\ strayed' = FALSE
    /\ UNCHANGED <<hold, task>>

ToLobby ==
    /\ room' = Lobby
    /\ loaded' = FALSE /\ strayed' = FALSE
    /\ UNCHANGED <<user, transcript, hold, held, task>>

\* Mutant: messages that come while the history is loading are dropped.
MutDropHeld(f) ==
    /\ transcript' = IF f.room = room /\ ~hold THEN transcript \cup f.chat ELSE transcript
    /\ UNCHANGED <<user, room, hold, held, task, loaded, strayed>>

\* enqueueChat: messages of other rooms are dropped, others kept back while the
\* history is loading.
EnqueueChat(f) ==
    /\ transcript' = IF f.room = room /\ ~hold THEN transcript \cup f.chat ELSE transcript
    /\ held' = IF f.room = room /\ hold THEN held \cup f.chat ELSE held
    /\ UNCHANGED <<user, room, hold, task, loaded, strayed>>

\* The first waiter of the packet's type.
WaiterFor(t) ==
    {i \in 1..Len(waiters) : waiters[i].type = t /\ \A j \in 1..(i - 1) : waiters[j].type # t}

OnFrame ==
    LET f == Head(down)
    IN /\ sock = "open" /\ down # <<>> /\ down' = Tail(down)
       /\ \/ f.kind = "welcome" /\ Welcome /\ UNCHANGED <<waiters, up>>
          \/ f.kind = "lobby" /\ ToLobby /\ UNCHANGED <<waiters, up>>
          \/ f.kind = "chat" /\ EnqueueChat(f) /\ UNCHANGED <<waiters, up>>
          \/ f.kind = "reply" /\ \E i \in WaiterFor(f.type) : Finish(i, f)
          \/ f.kind = "reply" /\ WaiterFor(f.type) = {} /\ UNCHANGED <<page, waiters, up>>
       /\ UNCHANGED <<watched, sock, retry, limits, server, late>>

-----------------------------------------------------------------------------
(***************************************************************************)
(* The server.                                                             *)
(***************************************************************************)

\* The handler of the connection carries a request out, or refuses it.
Handle(ok) ==
    LET q == Head(up)
        known == srv.user = "account"
        done == \/ ok /\ q.type \in {"LOGIN", "RECONNECT"} /\ ~known
                \/ ok /\ q.type = "ROOM_JOIN"
                \/ ok /\ q.type = "OTHER"
                \/ q.type = "LOGOUT" /\ known
                \/ q.type \in {"ROOM_LEAVE", "HISTORY"}
    IN /\ sock = "open" /\ owed = <<>> /\ up # <<>>
       /\ up' = Tail(up)
       /\ srv' = IF ~done \/ q.type \in {"HISTORY", "OTHER"} THEN srv
                 ELSE [user |-> CASE q.type \in {"LOGIN", "RECONNECT"} -> "account"
                                  [] q.type = "LOGOUT" -> "guest"
                                  [] OTHER -> srv.user,
                       room |-> IF q.type \in {"ROOM_JOIN", "RECONNECT"} THEN q.room
                                ELSE Lobby]
       /\ owed' = <<Reply(q.type, done, q.room,
                          IF q.type = "HISTORY" THEN saved[q.room] ELSE {})>>
       /\ UNCHANGED <<watched, sock, retry, page, waiters, limits, saved, down, late>>

Answer ==
    /\ sock = "open" /\ owed # <<>> /\ owed' = <<>>
    /\ down' = Append(down, owed[1])
    /\ UNCHANGED <<watched, sock, retry, page, waiters, limits, srv, saved, up, late>>

\* Somebody else writes in r.
ChatIn(r) ==
    /\ chats < MaxChats /\ chats' = chats + 1
    /\ saved' = [saved EXCEPT ![r] = @ \cup {chats + 1}]
    /\ down' = IF srv # NoSession /\ srv.room = r
               THEN Append(down, Push("chat", r, {chats + 1})) ELSE down
    /\ UNCHANGED <<watched, sock, retry, page, waiters, requests, drops, srv, owed, up, late>>

\* The session is kicked out of its room.
Kick ==
    /\ srv.room # Lobby /\ srv' = [srv EXCEPT !.room = Lobby]
    /\ drops < MaxDrops /\ drops' = drops + 1
    /\ down' = Append(down, Push("lobby", Lobby, {}))
    /\ late' = (late \/ owed # <<>>)
    /\ UNCHANGED <<watched, sock, retry, page, waiters, requests, chats, owed, saved, up>>

Next ==
    \/ Watch \/ Unwatch \/ Retry \/ OnOpen \/ OnClose \/ OnFrame
    \/ \E t \in {"LOGIN", "LOGOUT", "ROOM_JOIN", "ROOM_LEAVE", "OTHER"}, r \in Room : Click(t, r)
    \/ \E i \in 1..Len(waiters) : Timeout(i)
    \/ \E ok \in BOOLEAN : Handle(ok)
    \/ Answer \/ Kick
    \/ \E r \in Room : ChatIn(r)

Spec == Init /\ [][Next]_vars

\* The event loop runs the timers that have run out; nothing is assumed of the
\* server or of the network.
FairSpec == Spec /\ WF_vars(\E i \in 1..Len(waiters) : Timeout(i))

-----------------------------------------------------------------------------
(***************************************************************************)
(* What must hold.                                                         *)
(***************************************************************************)

\* Nothing is under way between the page and the server.
Settled ==
    /\ sock = "open" /\ up = <<>> /\ down = <<>> /\ owed = <<>>
    /\ task = NoTask /\ waiters = <<>>

\* Once everything has been answered, the page shows the user and the room the
\* server's session has, across lost connections, resumed sessions and kicks;
\* unless an answer came after its timeout or after a kick, and, for the room,
\* unless the session was resumed elsewhere than in the Lobby, which the
\* welcome has put on screen (chatService.js, resumeSignedIn, applyRoomList).
PageAgrees ==
    Settled /\ ~late => user = srv.user /\ (strayed \/ room = srv.room)

\* No stored message of the room on screen is missing from a transcript that
\* was loaded, whenever it was written: before the history was asked for,
\* while it was loading, or since (chatService.js, resetTranscript, enqueueChat).
NothingLost ==
    Settled /\ ~late /\ loaded => saved[srv.room] \subseteq transcript

\* The page never stays busy, although the server may not answer and the page
\* may be closed and opened again (chatService.js, withBusy, request).
BusyEnds == (task # NoTask) ~> (task = NoTask)
=============================================================================
