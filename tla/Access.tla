------------------------------- MODULE Access -------------------------------
(***************************************************************************)
(* Private rooms, invitations, kicks and messages across nodes.  Every     *)
(* node has its own rooms, allow_list and messages tables, changed by the  *)
(* handlers of PacketProcessor and by applyEvent of GossipManager.         *)
(*                                                                         *)
(* Between the nodes is what module EventBus leaves of gossip: events are  *)
(* taken in in any order, late, never, or again once they have been        *)
(* forgotten.  An event is taken in and applied in one step here.          *)
(*                                                                         *)
(* A handler is cut where other threads come between: after the check,     *)
(* after the change of the tables, before the rumor.  Sessions belong to   *)
(* users with an account every node knows (module Presence has accounts    *)
(* and logins); guests and refused requests change no state here.  The     *)
(* member sets and the membership table, which ROOM_JOIN is about, are in  *)
(* module Rooms: joinRoom and deleteRoom are single steps.                 *)
(***************************************************************************)
EXTENDS Naturals, Sequences, FiniteSets

CONSTANTS
    Node, User,
    Admin,          \* users of type ADMIN
    Home,           \* Home[u]: the node u logs in on
    Lobby,          \* the seed room
    Extra,          \* names of rooms that can be created
    MAX_EVENT_LOG,  \* events a node remembers
    MaxSteps,       \* bound: requests and faults
    MaxFaults       \* bound: resumed sessions, crashes, events taken in again

ASSUME UserAssumption == Admin \subseteq User /\ Home \in [User -> Node]
ASSUME NameAssumption == Lobby \notin Extra
ASSUME BoundAssumption ==
    MAX_EVENT_LOG \in Nat \ {0} /\ MaxSteps \in Nat /\ MaxFaults \in Nat

Room == {Lobby} \cup Extra

VARIABLES
    events,     \* all events rumored so far; an event is its position here
    got,        \* got[n]: events n has taken in since its process was started
    rooms,      \* rooms[n][r]: the row of r at n, id 0 if there is none
    nextId,     \* nextId[n]: the id of the next room created at n
    allow,      \* allow[n]: the rows of allow_list
    saved,      \* saved[n]: the messages in the messages table
    at,         \* at[u]: the node u's session is on
    place,      \* place[u]: the name of the session's room
    shown,      \* shown[u]: messages pushed to the session, without those the
                \* node has deleted since
    op,         \* op[u]: where the handler of u's socket is
    requests, faults,
    granted,    \* history: <<user, room, creator>> of creations and invitations
    inOrder,    \* history: every node took events in in their order
    crossed,    \* history: a room was changed while another change of it had still to
                \* be rumored or to reach the node, or a change was applied again
    unsaid,     \* history: a handler died before its rumor, or an event named a room
                \* whose ROOM_CREATED had still to be rumored
    raced,      \* history: users whose joinRoom followed a check that no longer held
    twice       \* history: a session was pushed a message it had been shown

bus == <<events, got>>
tables == <<rooms, nextId, allow, saved>>
sessions == <<at, place, shown>>
limits == <<requests, faults, granted>>
history == <<inOrder, crossed, unsaid, raced, twice>>
vars == <<bus, tables, sessions, op, limits, history>>

Privacy == {"PUBLIC", "PRIVATE"}
Kind == {"ROOM_CREATED", "ROOM_ACL_ADD", "ROOM_KICK", "ROOM_DELETED", "MESSAGE"}

\* `user` is the creator, the invited, the kicked or the sender; `privacy` is
\* that of a new room.
Event == [kind : Kind, user : User, room : Room, privacy : Privacy]
Say(k, u, r, p) == [kind |-> k, user |-> u, room |-> r, privacy |-> p]
NoEvent == Say("MESSAGE", CHOOSE u \in User : TRUE, Lobby, "PUBLIC")

NoRoom == [id |-> 0, privacy |-> "PUBLIC"]

\* A handler: to enter room `to`, looked up as `copy` when it was checked (NoRoom
\* in a RECONNECT); to expel a kicked user; to rumor `ev`.
Idle == [pc |-> "idle", to |-> Lobby, copy |-> NoRoom, ev |-> NoEvent]
Entering(r, row) == [Idle EXCEPT !.pc = "enter", !.to = r, !.copy = row]
Rumoring(ev) == [Idle EXCEPT !.pc = "rumor", !.ev = ev]
Expelling(ev) == [Idle EXCEPT !.pc = "expel", !.ev = ev]

RoomRow == [id : Nat, privacy : Privacy]
AllowRow == [id : Nat, user : User, creator : BOOLEAN]

TypeOK ==
    /\ events \in Seq(Event)
    /\ got \in [Node -> SUBSET (1..Len(events))]
    /\ rooms \in [Node -> [Room -> RoomRow]]
    /\ nextId \in [Node -> Nat]
    /\ allow \in [Node -> SUBSET AllowRow]
    /\ saved \in [Node -> SUBSET (1..Len(events))]
    /\ at \in [User -> Node] /\ place \in [User -> Room]
    /\ shown \in [User -> SUBSET (1..Len(events))]
    /\ op \in [User -> [pc : {"idle", "enter", "expel", "rumor"},
                        to : Room, copy : RoomRow, ev : Event]]
    \* Nobody stays in a room the node does not have.
    /\ \A u \in User : rooms[at[u]][place[u]].id # 0

\* Before the first request, the rooms in old exist everywhere, created by u.
InitWith(old, u, privacy) ==
    LET Row(r) == CASE r = Lobby -> [id |-> 1, privacy |-> "PUBLIC"]
                    [] r \in old -> [id |-> 3, privacy |-> privacy]
                    [] OTHER -> NoRoom
    IN /\ rooms = [n \in Node |-> [r \in Room |-> Row(r)]]
       /\ nextId = [n \in Node |-> IF old = {} THEN 3 ELSE 4]
       /\ allow = [n \in Node |-> {[id |-> 3, user |-> u, creator |-> TRUE] : r \in old}]
       /\ granted = {<<u, r, TRUE>> : r \in old}

Init ==
    /\ events = <<>> /\ got = [n \in Node |-> {}]
    /\ \E old \in {{}} \cup {{r} : r \in Extra}, u \in User, privacy \in Privacy :
          InitWith(old, u, privacy)
    /\ saved = [n \in Node |-> {}]
    /\ at = Home
    /\ place = [u \in User |-> Lobby]
    /\ shown = [u \in User |-> {}]
    /\ op = [u \in User |-> Idle]
    /\ requests = 0 /\ faults = 0
    /\ inOrder = TRUE /\ crossed = FALSE /\ unsaid = FALSE
    /\ raced = {} /\ twice = FALSE

-----------------------------------------------------------------------------
(***************************************************************************)
(* The tables.                                                             *)
(***************************************************************************)

Exists(n, r) == rooms[n][r].id # 0
Ids(n) == {rooms[n][r].id : r \in Room} \ {0}

Listed(n, id, u) == \E row \in allow[n] : row.id = id /\ row.user = u
IsCreator(n, r, u) == [id |-> rooms[n][r].id, user |-> u, creator |-> TRUE] \in allow[n]

\* addToAllowList: INSERT OR IGNORE, one row per room and user.
WithRow(n, id, u, creator) ==
    IF Listed(n, id, u) THEN allow[n]
    ELSE allow[n] \cup {[id |-> id, user |-> u, creator |-> creator]}
AddToAllowList(n, id, u, creator) ==
    allow' = [allow EXCEPT ![n] = WithRow(n, id, u, creator)]
RemoveFromAllowList(n, id, u) ==
    allow' = [allow EXCEPT ![n] = {row \in @ : ~(row.id = id /\ row.user = u)}]

\* createRoom: the room and its creator's row.
NewRoom(n, r, privacy, u) ==
    /\ rooms' = [rooms EXCEPT ![n][r] = [id |-> nextId[n], privacy |-> privacy]]
    /\ nextId' = [nextId EXCEPT ![n] = @ + 1]
    /\ AddToAllowList(n, nextId[n], u, TRUE)
    /\ UNCHANGED saved

\* The sessions of users in S leave for the Lobby of their node.
ToLobby(S) == place' = [u \in User |-> IF u \in S THEN Lobby ELSE place[u]]
Members(n, r) == {u \in User : at[u] = n /\ place[u] = r}

\* deleteRoom: the room, its allow_list and messages rows; its members go to
\* the Lobby.
EraseRoom(n, r) ==
    LET gone == {e \in saved[n] : events[e].room = r}
    IN /\ rooms' = [rooms EXCEPT ![n][r] = NoRoom]
       /\ allow' = [allow EXCEPT ![n] = {row \in @ : row.id # rooms[n][r].id}]
       /\ saved' = [saved EXCEPT ![n] = @ \ gone]
       /\ ToLobby(Members(n, r))
       /\ shown' = [u \in User |-> IF at[u] = n THEN shown[u] \ gone ELSE shown[u]]
       /\ UNCHANGED <<nextId, at>>

-----------------------------------------------------------------------------
(***************************************************************************)
(* The requests.                                                           *)
(***************************************************************************)

Begin(u, o) ==
    /\ op[u].pc = "idle" /\ requests + faults < MaxSteps
    /\ requests' = requests + 1
    /\ op' = [op EXCEPT ![u] = o]

Fault ==
    /\ requests + faults < MaxSteps /\ faults < MaxFaults
    /\ faults' = faults + 1

\* May u enter r on node n?
Admissible(n, u, r) ==
    /\ Exists(n, r)
    /\ \/ rooms[n][r].privacy = "PUBLIC"
       \/ u \in Admin
       \/ Listed(n, rooms[n][r].id, u)

\* The creator of a room, or an ADMIN.
InCharge(n, u, r) == u \in Admin \/ IsCreator(n, r, u)

\* ROOM_JOIN, the check.  ROOM_LEAVE is a join of the Lobby that adds no row to
\* the Lobby's list, which nobody reads.
RoomJoin(u, r) ==
    /\ Admissible(at[u], u, r)
    /\ Begin(u, Entering(r, rooms[at[u]][r]))
    /\ UNCHANGED <<bus, tables, sessions, faults, granted, history>>

\* Mutant: the row is added to the room that has the name now.
MutAddByName(u) ==
    LET n == at[u]
        o == op[u]
    IN /\ o.pc = "enter"
       /\ place' = [place EXCEPT ![u] = IF Exists(n, o.to) THEN o.to ELSE @]
       /\ IF Exists(n, o.to) /\ o.copy.privacy = "PUBLIC"
          THEN AddToAllowList(n, rooms[n][o.to].id, u, FALSE)
          ELSE UNCHANGED allow
       /\ raced' = IF Admissible(n, u, o.to) THEN raced \ {u} ELSE raced \cup {u}
       /\ op' = [op EXCEPT ![u] = Idle]
       /\ UNCHANGED <<bus, rooms, nextId, saved, at, shown, limits, inOrder, crossed,
                      unsaid, twice>>

\* Mutant: joinRoom trusts the room that was looked up at the check.
MutEnterBlind(u) ==
    /\ op[u].pc = "enter"
    /\ place' = [place EXCEPT ![u] = op[u].to]
    /\ op' = [op EXCEPT ![u] = Idle]
    /\ UNCHANGED <<bus, tables, at, shown, limits, history>>

\* joinRoom looks the name up again; a public room then gets an allow_list row
\* for the user.  ROOM_JOIN takes the room looked up at the check, whose id must
\* still be there (foreign key); RECONNECT looks it up once more.
Enter(u) ==
    LET n == at[u]
        o == op[u]
        row == IF o.copy = NoRoom THEN rooms[n][o.to] ELSE o.copy
    IN /\ o.pc = "enter"
       /\ place' = [place EXCEPT ![u] = IF Exists(n, o.to) THEN o.to ELSE @]
       /\ IF Exists(n, o.to) /\ row.privacy = "PUBLIC" /\ row.id \in Ids(n)
          THEN AddToAllowList(n, row.id, u, FALSE)
          ELSE UNCHANGED allow
       /\ raced' = IF Admissible(n, u, o.to) THEN raced \ {u} ELSE raced \cup {u}
       /\ op' = [op EXCEPT ![u] = Idle]
       /\ UNCHANGED <<bus, rooms, nextId, saved, at, shown, limits, inOrder, crossed,
                      unsaid, twice>>

\* RECONNECT of u on a new connection to n, with the room the client was in: the
\* old session is gone, the new one is in the Lobby until joinRoom.
Reconnect(u, n, r) ==
    /\ op[u].pc = "idle" /\ Fault
    /\ at' = [at EXCEPT ![u] = n]
    /\ place' = [place EXCEPT ![u] = Lobby]
    /\ shown' = [shown EXCEPT ![u] = {}]
    /\ op' = [op EXCEPT ![u] = IF r # Lobby /\ Admissible(n, u, r)
                               THEN Entering(r, NoRoom) ELSE Idle]
    /\ UNCHANGED <<bus, tables, requests, granted, history>>

RoomCreate(u, r, privacy) ==
    /\ ~Exists(at[u], r)
    /\ NewRoom(at[u], r, privacy, u)
    /\ Begin(u, Rumoring(Say("ROOM_CREATED", u, r, privacy)))
    /\ granted' = granted \cup {<<u, r, TRUE>>}
    /\ UNCHANGED <<bus, sessions, faults, history>>

\* Mutant: the invitation is not rumored.
MutInviteOnlyHere(u, r, v) ==
    LET n == at[u]
    IN /\ Exists(n, r) /\ InCharge(n, u, r)
       /\ rooms[n][r].privacy = "PRIVATE" \/ u \in Admin
       /\ AddToAllowList(n, rooms[n][r].id, v, FALSE)
       /\ Begin(u, Idle)
       /\ granted' = granted \cup {<<v, r, FALSE>>}
       /\ UNCHANGED <<bus, rooms, nextId, saved, sessions, faults, history>>

RoomInvite(u, r, v) ==
    LET n == at[u]
    IN /\ Exists(n, r) /\ InCharge(n, u, r)
       /\ rooms[n][r].privacy = "PRIVATE" \/ u \in Admin
       /\ AddToAllowList(n, rooms[n][r].id, v, FALSE)
       /\ Begin(u, Rumoring(Say("ROOM_ACL_ADD", v, r, "PUBLIC")))
       /\ granted' = granted \cup {<<v, r, FALSE>>}
       /\ UNCHANGED <<bus, rooms, nextId, saved, sessions, faults, history>>

RoomDelete(u, r) ==
    /\ u \in Admin /\ r # Lobby /\ Exists(at[u], r)
    /\ EraseRoom(at[u], r)
    /\ Begin(u, Rumoring(Say("ROOM_DELETED", u, r, "PUBLIC")))
    /\ UNCHANGED <<bus, faults, granted, history>>

RoomKick(u, r, v) ==
    LET n == at[u]
    IN /\ r # Lobby /\ v # u
       /\ Exists(n, r) /\ InCharge(n, u, r)
       /\ RemoveFromAllowList(n, rooms[n][r].id, v)
       /\ Begin(u, Expelling(Say("ROOM_KICK", v, r, "PUBLIC")))
       /\ UNCHANGED <<bus, rooms, nextId, saved, sessions, faults, granted, history>>

\* The kicked user's session, if it is on this node and in the room.
Expel(u) ==
    LET ev == op[u].ev
    IN /\ op[u].pc = "expel"
       /\ ToLobby({ev.user} \cap Members(at[u], ev.room))
       /\ op' = [op EXCEPT ![u] = Rumoring(ev)]
       /\ UNCHANGED <<bus, tables, at, shown, limits, history>>

\* MESSAGE of a logged-in user reads the session's room.  Messages in the
\* Lobby, which is always there and open to all, are left out.
Message(u) ==
    /\ place[u] # Lobby
    /\ Begin(u, Rumoring(Say("MESSAGE", u, place[u], "PUBLIC")))
    /\ UNCHANGED <<bus, tables, sessions, faults, granted, history>>

-----------------------------------------------------------------------------
(***************************************************************************)
(* Events.                                                                 *)
(***************************************************************************)

\* The event changes the room r.
Alters(ev, r) == ev.kind # "MESSAGE" /\ ev.room = r

\* Handlers of n that have changed the tables, or are about to, and have not
\* rumored it yet.
Unsaid(n) == {u \in User : at[u] = n /\ op[u].pc \in {"expel", "rumor"}}

\* An existing room only gets the creator's row.
ApplyCreated(n, ev) ==
    /\ \/ ~Exists(n, ev.room) /\ NewRoom(n, ev.room, ev.privacy, ev.user)
       \/ /\ Exists(n, ev.room)
          /\ AddToAllowList(n, rooms[n][ev.room].id, ev.user, TRUE)
          /\ UNCHANGED <<rooms, nextId, saved>>
    /\ UNCHANGED <<sessions, twice>>

\* An unknown room drops the event.
ApplyAclAdd(n, ev) ==
    /\ IF Exists(n, ev.room)
       THEN AddToAllowList(n, rooms[n][ev.room].id, ev.user, FALSE)
       ELSE UNCHANGED allow
    /\ UNCHANGED <<rooms, nextId, saved, sessions, twice>>

ApplyDeleted(n, ev) ==
    /\ IF Exists(n, ev.room) THEN EraseRoom(n, ev.room) ELSE UNCHANGED <<tables, sessions>>
    /\ UNCHANGED twice

\* Mutant: the session stays where it is.
MutKickListOnly(n, ev) ==
    /\ RemoveFromAllowList(n, rooms[n][ev.room].id, ev.user)
    /\ UNCHANGED <<rooms, nextId, saved, sessions, twice>>

\* The row is removed and the session, if it is here and in the room, expelled.
ApplyKick(n, ev) ==
    /\ IF Exists(n, ev.room)
       THEN RemoveFromAllowList(n, rooms[n][ev.room].id, ev.user)
       ELSE UNCHANGED allow
    /\ ToLobby({ev.user} \cap Members(n, ev.room))
    /\ UNCHANGED <<rooms, nextId, saved, at, shown, twice>>

\* Mutant: a message that is already in the table is pushed all the same.
MutPushAlways(n, e, ev) ==
    /\ IF Exists(n, ev.room)
       THEN /\ saved' = [saved EXCEPT ![n] = @ \cup {e}]
            /\ shown' = [u \in User |-> IF u \in Members(n, ev.room)
                                        THEN shown[u] \cup {e} ELSE shown[u]]
            /\ twice' = (twice \/ \E u \in Members(n, ev.room) : e \in shown[u])
       ELSE UNCHANGED <<saved, shown, twice>>
    /\ UNCHANGED <<rooms, nextId, allow, at, place>>

\* Mutant: a message is saved only where somebody is in the room.
MutSaveForMembers(n, e, ev) ==
    /\ IF Exists(n, ev.room) /\ e \notin saved[n] /\ Members(n, ev.room) # {}
       THEN /\ saved' = [saved EXCEPT ![n] = @ \cup {e}]
            /\ shown' = [u \in User |-> IF u \in Members(n, ev.room)
                                        THEN shown[u] \cup {e} ELSE shown[u]]
            /\ twice' = (twice \/ \E u \in Members(n, ev.room) : e \in shown[u])
       ELSE UNCHANGED <<saved, shown, twice>>
    /\ UNCHANGED <<rooms, nextId, allow, at, place>>

\* A message is saved once (INSERT OR IGNORE) and pushed to the room's members
\* when it was new; an unknown room drops it.
ApplyMessage(n, e, ev) ==
    /\ IF Exists(n, ev.room) /\ e \notin saved[n]
       THEN /\ saved' = [saved EXCEPT ![n] = @ \cup {e}]
            /\ shown' = [u \in User |-> IF u \in Members(n, ev.room)
                                        THEN shown[u] \cup {e} ELSE shown[u]]
            /\ twice' = (twice \/ \E u \in Members(n, ev.room) : e \in shown[u])
       ELSE UNCHANGED <<saved, shown, twice>>
    /\ UNCHANGED <<rooms, nextId, allow, at, place>>

ApplyEvent(n, e, ev) ==
    \/ ev.kind = "ROOM_CREATED" /\ ApplyCreated(n, ev)
    \/ ev.kind = "ROOM_ACL_ADD" /\ ApplyAclAdd(n, ev)
    \/ ev.kind = "ROOM_DELETED" /\ ApplyDeleted(n, ev)
    \/ ev.kind = "ROOM_KICK" /\ ApplyKick(n, ev)
    \/ ev.kind = "MESSAGE" /\ ApplyMessage(n, e, ev)

\* rumor: the event is taken in and applied here, and offered to the peers.
Rumor(u) ==
    LET n == at[u]
        ev == op[u].ev
        e == Len(events) + 1
    IN /\ op[u].pc = "rumor"
       /\ events' = Append(events, ev)
       /\ got' = [got EXCEPT ![n] = @ \cup {e}]
       /\ ApplyEvent(n, e, ev)
       /\ op' = [op EXCEPT ![u] = Idle]
       /\ crossed' = (crossed \/ \E x \in 1..Len(events) \ got[n] :
                         Alters(ev, ev.room) /\ Alters(events[x], ev.room))
       /\ unsaid' = (unsaid \/ \E v \in Unsaid(n) \ {u} :
                         op[v].ev.kind = "ROOM_CREATED" /\ op[v].ev.room = ev.room)
       /\ UNCHANGED <<limits, inOrder, raced>>

\* handlePeer of n reads an event it does not remember: a new one, or, when its
\* log has been full, one it has forgotten.
Receive(n, e) ==
    LET ev == events[e]
    IN /\ \/ e \notin got[n] /\ UNCHANGED faults
          \/ /\ e \in got[n] /\ Cardinality(got[n]) > MAX_EVENT_LOG
             /\ Fault
       /\ got' = [got EXCEPT ![n] = @ \cup {e}]
       /\ ApplyEvent(n, e, ev)
       /\ inOrder' = (inOrder /\ 1..(e - 1) \subseteq got[n])
       /\ crossed' = (crossed \/ /\ Alters(ev, ev.room)
                                 /\ \/ e \in got[n]
                                    \/ \E u \in Unsaid(n) : Alters(op[u].ev, ev.room))
       /\ UNCHANGED <<events, op, requests, granted, unsaid, raced>>

\* The process of n dies and is started again: the tables stay, the sessions and
\* the log are gone; the clients come back to the Lobby.
Crash(n) ==
    /\ Fault
    /\ got' = [got EXCEPT ![n] = {}]
    /\ op' = [u \in User |-> IF at[u] = n THEN Idle ELSE op[u]]
    /\ ToLobby({u \in User : at[u] = n})
    /\ shown' = [u \in User |-> IF at[u] = n THEN {} ELSE shown[u]]
    /\ unsaid' = (unsaid \/ Unsaid(n) # {})
    /\ UNCHANGED <<events, tables, at, requests, granted, inOrder, crossed, raced, twice>>

Next ==
    \/ \E u \in User :
          \/ \E r \in Room : RoomJoin(u, r)
          \/ \E r \in Extra, privacy \in Privacy : RoomCreate(u, r, privacy)
          \/ \E r \in Extra, v \in User : RoomInvite(u, r, v)
          \/ \E r \in Room, v \in User : RoomKick(u, r, v)
          \/ \E r \in Room : RoomDelete(u, r)
          \/ \E n \in Node, r \in Room : Reconnect(u, n, r)
          \/ Message(u)
          \/ Enter(u) \/ Expel(u) \/ Rumor(u)
    \/ \E n \in Node :
          \/ \E e \in 1..Len(events) : Receive(n, e)
          \/ Crash(n)

Spec == Init /\ [][Next]_vars

-----------------------------------------------------------------------------
(***************************************************************************)
(* What must hold.                                                         *)
(***************************************************************************)

\* A session that sits in a private room belongs to an ADMIN or to a user its
\* node lists for the room, except while the kick that struck the user off is
\* on its way to the session, and except for a join whose check no longer held
\* when joinRoom ran (packet_processor.cpp, ROOM_JOIN and ROOM_KICK;
\* gossip_manager.cpp, ROOM_KICK).
ClosedRooms ==
    \A u \in User \ Admin :
        LET n == at[u]
            r == place[u]
        IN rooms[n][r].privacy = "PRIVATE" =>
              \/ Listed(n, rooms[n][r].id, u)
              \/ u \in raced
              \/ \E v \in User : /\ at[v] = n /\ op[v].pc = "expel"
                                 /\ op[v].ev.user = u /\ op[v].ev.room = r

\* Nobody is on the list of a private room without having created a room of
\* that name or having been invited to one, however joins, deletions and
\* creations overlap (addToAllowList in ROOM_JOIN and RECONNECT).
ListedByRight ==
    \A n \in Node, r \in Room : rooms[n][r].privacy = "PRIVATE" =>
        \A row \in allow[n] : row.id = rooms[n][r].id =>
            <<row.user, r, row.creator>> \in granted

\* Every handler has finished and every node has applied every event.
Settled ==
    /\ \A u \in User : op[u].pc = "idle"
    /\ \A n \in Node : got[n] = 1..Len(events)

Listing(n, r) == {<<row.user, row.creator>> :
                     row \in {x \in allow[n] : x.id = rooms[n][r].id}}

\* When events about a room came in order, once, and never crossed each other,
\* the nodes end up with the same rooms and the same lists for private ones
\* (applyEvent of ROOM_CREATED, ROOM_ACL_ADD, ROOM_KICK and ROOM_DELETED).
ListsAgree ==
    Settled /\ inOrder /\ ~crossed /\ ~unsaid =>
        \A n, m \in Node, r \in Room :
            /\ Exists(n, r) = Exists(m, r)
            /\ rooms[n][r].privacy = rooms[m][r].privacy
            /\ rooms[n][r].privacy = "PRIVATE" => Listing(n, r) = Listing(m, r)

\* While no room has been deleted and events came in order, all nodes end up
\* with the same message history, also when events come again after they were
\* forgotten (applyEvent of MESSAGE).
HistoriesAgree ==
    Settled /\ inOrder /\ ~unsaid /\ (\A e \in 1..Len(events) : events[e].kind # "ROOM_DELETED") =>
        \A n, m \in Node : saved[n] = saved[m]

\* A session is pushed a message once, and what it was pushed is in its node's
\* history, although a forgotten event is applied again (saveMessage is asked
\* whether the row was new).
PushedOnce == ~twice /\ \A u \in User : shown[u] \subseteq saved[at[u]]
=============================================================================
