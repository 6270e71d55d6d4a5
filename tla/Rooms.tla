------------------------------- MODULE Rooms --------------------------------
(***************************************************************************)
(* RoomManager of one node (src/server/room_manager.cpp), with the         *)
(* handlers of PacketProcessor, ConnectionManager and GossipManager that   *)
(* call it.  Who is in which room is kept three times: the member sets of  *)
(* RoomManager (guarded by its mutex), the room of each ClientSession, and *)
(* the membership table.  joinRoom, leaveAll and deleteRoom read the       *)
(* session before they take the mutex and write the table after they have  *)
(* released it, so each is cut at those points.                            *)
(*                                                                         *)
(* A socket's handler thread works on its own session; it also deletes     *)
(* rooms and kicks others, and Peer, a gossip thread, does the same for    *)
(* events of other nodes.  Who may do what (ADMIN, allow_list) is left     *)
(* open: a refused request is no step.  Every socket has a user of its own *)
(* who logs in on it, or who had a session on another node before.  The    *)
(* room a handler reads for its ROOM_JOIN event and the one joinRoom reads *)
(* a few lines later are one read.                                         *)
(***************************************************************************)
EXTENDS Naturals, FiniteSets

CONSTANTS
    Sock,
    Peer,           \* the gossip thread
    Lobby, General, \* the seed rooms
    Extra,          \* names of rooms that can be created and deleted
    MaxOps,         \* bound: operations started in a behaviour
    MaxFaults       \* bound: database calls that fail

ASSUME ThreadAssumption == Peer \notin Sock
ASSUME RoomAssumption == Lobby # General /\ {Lobby, General} \cap Extra = {}
ASSUME OpsAssumption == MaxOps \in Nat /\ MaxFaults \in Nat

Room == {Lobby, General} \cup Extra
Thread == Sock \cup {Peer}

VARIABLES
    known,      \* known[r]: id of r in knownRooms, 0 if it is not there
    members,    \* members[r]: sockets a broadcast to r reaches
    dbRoom,     \* dbRoom[r]: id of r in the rooms table, 0 if it is not there
    membership, \* <<s, id>>: the user of s has a membership row for room id
    open,       \* sockets in the session map
    used,       \* sockets that have been accepted
    auth,       \* auth[s]: the session is authenticated
    room,       \* room[s]: the session's room, [name, id]
    away,       \* away[s]: is the user's session on another node: no, yes, or
                \* back from there (RECONNECT)
    op,         \* op[t]: the operation thread t is in
    ops, faults, nextId,
    overlapped  \* history: two operations have been under way together

db == <<dbRoom, membership>>
session == <<open, used, auth, room, away>>
vars == <<known, members, db, session, op, ops, faults, nextId, overlapped>>

LobbyRoom == [name |-> Lobby, id |-> 1]

(***************************************************************************)
(* pc of an operation; `then` and `orElse` are where it goes on after a    *)
(* successful and a failed joinRoom, `then` after leaveAll and deleteRoom. *)
(*   join, enter, persist, rollback      joinRoom                          *)
(*   fallback                            RECONNECT's second joinRoom       *)
(*   leave, exit, wipe                   leaveAll                          *)
(*   anon, rejoin                        what LOGOUT and RECONNECT-away do *)
(*                                       after leaveAll                    *)
(*   drop, relocate                      deleteRoom                        *)
(* and the events a handler rumors, applied here by the same thread:       *)
(*   rumor, rumorIfAuth                  ROOM_JOIN                         *)
(*   logout, deleted, kick               LOGOUT, ROOM_DELETED, ROOM_KICK   *)
(***************************************************************************)
PC == {"idle", "join", "enter", "persist", "rollback", "fallback", "leave", "exit",
       "wipe", "anon", "rejoin", "drop", "relocate", "rumor", "rumorIfAuth",
       "logout", "deleted", "kick"}

\* kicked: the room a ROOM_KICK is about, Lobby in other operations;
\* moved: the sockets deleteRoom found in the room.
Op == [pc : PC, s : Thread, to : Room, id : Nat, prev : [name : Room, id : Nat],
       persist : BOOLEAN, then : PC, orElse : PC, kicked : Room, moved : SUBSET Sock]

Nothing == [pc |-> "idle", s |-> Peer, to |-> Lobby, id |-> 0, prev |-> LobbyRoom,
            persist |-> FALSE, then |-> "idle", orElse |-> "idle", kicked |-> Lobby,
            moved |-> {}]

Join(s, r, then, orElse) ==
    [Nothing EXCEPT !.pc = "join", !.s = s, !.to = r, !.then = then, !.orElse = orElse]
Leave(s, then, after) ==
    [Nothing EXCEPT !.pc = "leave", !.s = s, !.then = then, !.orElse = after]

TypeOK ==
    /\ known \in [Room -> Nat] /\ dbRoom \in [Room -> Nat]
    /\ members \in [Room -> SUBSET Sock]
    /\ membership \subseteq Sock \X (Nat \ {0})
    /\ open \subseteq used /\ used \subseteq Sock
    /\ away \in [Sock -> {"no", "yes", "back"}]
    /\ auth \in [Sock -> BOOLEAN]
    /\ room \in [Sock -> [name : Room, id : Nat]]
    /\ op \in [Thread -> Op]
    /\ ops \in Nat /\ faults \in Nat /\ nextId \in Nat
    /\ overlapped \in BOOLEAN

Init ==
    /\ known = [r \in Room |-> IF r = Lobby THEN 1 ELSE IF r = General THEN 2 ELSE 0]
    /\ dbRoom = known
    /\ members = [r \in Room |-> {}]
    /\ open = {} /\ used = {}
    /\ away \in [Sock -> {"no", "yes"}]
    /\ membership = {<<s, 1>> : s \in {x \in Sock : away[x] = "yes"}}
    /\ auth = [s \in Sock |-> FALSE]
    /\ room = [s \in Sock |-> LobbyRoom]
    /\ op = [t \in Thread |-> Nothing]
    /\ ops = 0 /\ faults = 0 /\ nextId = 3
    /\ overlapped = FALSE

-----------------------------------------------------------------------------
At(t, pc) == op[t].pc = pc
Goto(t, pc) == op' = [op EXCEPT ![t] = IF pc = "idle" THEN Nothing ELSE [@ EXCEPT !.pc = pc]]
Finish(t) == op' = [op EXCEPT ![t] = Nothing]

\* A thread that is idle begins an operation.
Begin(t, o) ==
    /\ At(t, "idle") /\ ops < MaxOps
    /\ ops' = ops + 1
    /\ overlapped' = (overlapped \/ \E x \in Thread : ~At(x, "idle"))
    /\ op' = [op EXCEPT ![t] = o]

\* A database call that need not fail does.
Fault == faults < MaxFaults /\ faults' = faults + 1

Rows(s) == {x \in membership : x[1] = s}

\* The table after ROOM_JOIN of the user of s, from one room to another, has been
\* applied; unknown rooms are skipped, and the row needs the room's (foreign key).
JoinedRows(s, from, to) ==
    LET old == IF from = to THEN {} ELSE {<<s, known[from]>>}
        new == IF dbRoom[to] = known[to] THEN {<<s, known[to]>>} ELSE {}
    IN IF known[to] = 0 THEN membership ELSE (membership \ old) \cup new

-----------------------------------------------------------------------------
(***************************************************************************)
(* joinRoom.                                                               *)
(***************************************************************************)

\* The session's room and state are read before the mutex is taken.
ReadSession(t) ==
    LET s == op[t].s
    IN /\ At(t, "join") \/ At(t, "leave")
       /\ op' = [op EXCEPT ![t].prev = room[s], ![t].persist = auth[s],
                           ![t].pc = IF @ = "join" THEN "enter" ELSE "exit"]
       /\ UNCHANGED <<known, members, db, session, ops, faults, nextId, overlapped>>

\* Mutant: the new room's member set is entered before the old one is left.
MutEnterThenLeave(t) ==
    LET o == op[t]
    IN /\ At(t, "enter") /\ known[o.to] # 0
       /\ members' = [r \in Room |->
                        IF r = o.prev.name THEN members[r] \ {o.s}
                        ELSE IF r = o.to THEN members[r] \cup {o.s}
                        ELSE members[r]]
       /\ room' = [room EXCEPT ![o.s] = [name |-> o.to, id |-> known[o.to]]]
       /\ op' = [op EXCEPT ![t].id = known[o.to],
                           ![t].pc = IF o.persist THEN "persist" ELSE o.then]
       /\ UNCHANGED <<known, db, open, used, auth, away, ops, faults, nextId, overlapped>>

\* Mutant: the room is not looked up again under the mutex.
MutEnterUnchecked(t) ==
    LET o == op[t]
    IN /\ At(t, "enter")
       /\ members' = [r \in Room |->
                        IF r = o.to THEN members[r] \cup {o.s}
                        ELSE IF r = o.prev.name THEN members[r] \ {o.s}
                        ELSE members[r]]
       /\ room' = [room EXCEPT ![o.s] = [name |-> o.to, id |-> known[o.to]]]
       /\ op' = [op EXCEPT ![t].id = known[o.to],
                           ![t].pc = IF o.persist THEN "persist" ELSE o.then]
       /\ UNCHANGED <<known, db, open, used, auth, away, ops, faults, nextId, overlapped>>

\* Under the mutex: out of the room read before, into the new one.
Enter(t) ==
    LET o == op[t]
    IN /\ At(t, "enter")
       /\ \/ /\ known[o.to] = 0
             /\ Goto(t, o.orElse)
             /\ UNCHANGED <<members, room>>
          \/ /\ known[o.to] # 0
             /\ members' = [r \in Room |->
                              IF r = o.to THEN members[r] \cup {o.s}
                              ELSE IF r = o.prev.name THEN members[r] \ {o.s}
                              ELSE members[r]]
             /\ room' = [room EXCEPT ![o.s] = [name |-> o.to, id |-> known[o.to]]]
             /\ op' = [op EXCEPT ![t] = IF ~o.persist /\ o.then = "idle" THEN Nothing
                                        ELSE [@ EXCEPT !.id = known[o.to],
                                              !.pc = IF o.persist THEN "persist" ELSE o.then]]
       /\ UNCHANGED <<known, db, open, used, auth, away, ops, faults, nextId, overlapped>>

\* Without the mutex: clearMembership of the old room, then setMembership of
\* the new one.  The second fails when the room is no longer in the rooms table
\* (foreign key), and either may fail for other reasons.
Persist(t) ==
    LET o      == op[t]
        old    == IF o.prev.id = o.id THEN {} ELSE {<<o.s, o.prev.id>>}
        exists == \E r \in Room : dbRoom[r] = o.id
    IN /\ At(t, "persist")
       /\ \/ /\ exists
             /\ membership' = (membership \ old) \cup {<<o.s, o.id>>}
             /\ Goto(t, o.then) /\ UNCHANGED faults
          \/ /\ ~exists
             /\ membership' = membership \ old
             /\ Goto(t, "rollback") /\ UNCHANGED faults
          \/ /\ Fault
             /\ membership' \in {membership, membership \ old}
             /\ Goto(t, "rollback")
       /\ UNCHANGED <<known, members, dbRoom, session, ops, nextId, overlapped>>

\* The join is undone in memory: back to the room read before, or to Lobby.
Rollback(t) ==
    LET o    == op[t]
        back == IF known[o.prev.name] = 0 THEN LobbyRoom
                ELSE [name |-> o.prev.name, id |-> known[o.prev.name]]
    IN /\ At(t, "rollback")
       /\ members' = [r \in Room |->
                        IF r = back.name THEN members[r] \cup {o.s}
                        ELSE IF r = o.to THEN members[r] \ {o.s}
                        ELSE members[r]]
       /\ room' = [room EXCEPT ![o.s] = back]
       /\ Goto(t, o.orElse)
       /\ UNCHANGED <<known, db, open, used, auth, away, ops, faults, nextId, overlapped>>

\* RECONNECT falls back to Lobby when the room it asked for cannot be joined.
Fallback(t) ==
    /\ At(t, "fallback")
    /\ op' = [op EXCEPT ![t] = Join(op[t].s, Lobby, "rumor", "rumor")]
    /\ UNCHANGED <<known, members, db, session, ops, faults, nextId, overlapped>>

\* rumorRoomJoin; ROOM_KICK's handler goes on with rumorRoomKick.
Rumor(t) ==
    LET o    == op[t]
        skip == At(t, "rumorIfAuth") /\ ~auth[o.s]
    IN /\ At(t, "rumor") \/ At(t, "rumorIfAuth")
       /\ \/ /\ membership' = IF skip THEN membership ELSE JoinedRows(o.s, o.prev.name, o.to)
             /\ UNCHANGED faults
          \/ /\ ~skip /\ Fault
             /\ membership' \in {membership, membership \ {<<o.s, known[o.prev.name]>>}}
       /\ Goto(t, IF o.kicked = Lobby THEN "idle" ELSE "kick")
       /\ UNCHANGED <<known, members, dbRoom, session, ops, nextId, overlapped>>

\* rumorRoomKick: the event looks for the session in the room once more.
KickAgain(t) ==
    LET s == op[t].s
    IN /\ At(t, "kick")
       /\ op' = [op EXCEPT ![t] = IF s \in open /\ auth[s] /\ room[s].name = op[t].kicked
                                  THEN Join(s, Lobby, "idle", "idle") ELSE Nothing]
       /\ UNCHANGED <<known, members, db, session, ops, faults, nextId, overlapped>>

-----------------------------------------------------------------------------
(***************************************************************************)
(* leaveAll, and what its callers do next.                                 *)
(***************************************************************************)
Exit(t) ==
    LET o == op[t]
    IN /\ At(t, "exit")
       /\ members' = [members EXCEPT ![o.prev.name] = @ \ {o.s}]
       /\ room' = [room EXCEPT ![o.s] = LobbyRoom]
       /\ Goto(t, IF o.persist THEN "wipe" ELSE o.then)
       /\ UNCHANGED <<known, db, open, used, auth, away, ops, faults, nextId,
                      overlapped>>

\* clearAllMembership; a failure is only logged.
Wipe(t) ==
    /\ At(t, "wipe")
    /\ \/ membership' = membership \ Rows(op[t].s) /\ UNCHANGED faults
       \/ Fault /\ UNCHANGED membership
    /\ Goto(t, op[t].then)
    /\ UNCHANGED <<known, members, dbRoom, session, ops, nextId, overlapped>>

\* LOGOUT turns the session anonymous, RECONNECT-away already did; both then
\* put the socket back in Lobby.
Rejoin(t) ==
    LET s == op[t].s
    IN /\ At(t, "anon") \/ At(t, "rejoin")
       /\ auth' = IF At(t, "anon") THEN [auth EXCEPT ![s] = FALSE] ELSE auth
       /\ op' = [op EXCEPT ![t] = Join(s, Lobby, @.orElse, @.orElse)]
       /\ UNCHANGED <<known, members, db, open, used, room, away, ops, faults,
                      nextId, overlapped>>

\* The LOGOUT event clears all rows of the user.
RumorLogout(t) ==
    /\ At(t, "logout")
    /\ \/ membership' = membership \ Rows(op[t].s) /\ UNCHANGED faults
       \/ Fault /\ UNCHANGED membership
    /\ Finish(t)
    /\ UNCHANGED <<known, members, dbRoom, session, ops, nextId, overlapped>>

-----------------------------------------------------------------------------
(***************************************************************************)
(* Requests of a client, run by the handler thread of its socket.          *)
(***************************************************************************)

\* openSession.
Accept(s) ==
    /\ s \notin used
    /\ used' = used \cup {s} /\ open' = open \cup {s}
    /\ Begin(s, Join(s, Lobby, "idle", "idle"))
    /\ UNCHANGED <<known, members, db, auth, room, away, faults, nextId>>

\* LOGIN, REGISTER: the session becomes the user's, then enters Lobby.
Login(s) ==
    /\ s \in open /\ ~auth[s] /\ away[s] # "yes"
    /\ auth' = [auth EXCEPT ![s] = TRUE]
    /\ Begin(s, Join(s, Lobby, "rumor", "rumor"))
    /\ UNCHANGED <<known, members, db, open, used, room, away, faults, nextId>>

\* RECONNECT: as LOGIN, for a user recorded on a node that is gone; the room is
\* the one the client was in, or Lobby when it is unknown or closed to the user.
Reconnect(s, r) ==
    /\ s \in open /\ ~auth[s] /\ away[s] = "yes"
    /\ r = Lobby \/ known[r] # 0
    /\ auth' = [auth EXCEPT ![s] = TRUE]
    /\ away' = [away EXCEPT ![s] = "back"]
    /\ Begin(s, Join(s, r, "rumor", "fallback"))
    /\ UNCHANGED <<known, members, db, open, used, room, faults, nextId>>

\* LOGOUT; an anonymous client only returns to Lobby.
Logout(s) ==
    /\ s \in open
    /\ Begin(s, Leave(s, "anon", IF auth[s] THEN "logout" ELSE "idle"))
    /\ UNCHANGED <<known, members, db, session, faults, nextId>>

\* ROOM_JOIN, and ROOM_LEAVE for Lobby.
RoomJoin(s, r) ==
    /\ s \in open /\ known[r] # 0
    /\ Begin(s, Join(s, r, "rumorIfAuth", "idle"))
    /\ UNCHANGED <<known, members, db, session, faults, nextId>>

\* removeSession: out of the session map, then leaveAll and LOGOUT.
RemoveSession(s) ==
    /\ s \in open
    /\ open' = open \ {s}
    /\ Begin(s, Leave(s, IF auth[s] THEN "logout" ELSE "idle", "idle"))
    /\ UNCHANGED <<known, members, db, used, auth, room, away, faults, nextId>>

-----------------------------------------------------------------------------
(***************************************************************************)
(* Requests and events about rooms, and about other users' sessions.       *)
(***************************************************************************)
Works(t) == t = Peer \/ t \in open

\* createRoom holds the mutex throughout.  The insert fails while the name is
\* still in the rooms table; when seeding the creator's allow_list row fails,
\* the room stays in the table and not in memory.
CreateRoom(t, r) ==
    /\ Works(t) /\ At(t, "idle") /\ ops < MaxOps
    /\ r \in Extra /\ known[r] = 0 /\ dbRoom[r] = 0
    /\ ops' = ops + 1
    /\ dbRoom' = [dbRoom EXCEPT ![r] = nextId] /\ nextId' = nextId + 1
    /\ \/ known' = [known EXCEPT ![r] = nextId] /\ UNCHANGED faults
       \/ Fault /\ UNCHANGED known
    /\ UNCHANGED <<members, membership, session, op, overlapped>>

\* deleteRoom under the mutex: the room leaves memory, its sockets are members
\* of Lobby from now on.
Erase(r) ==
    /\ known' = [known EXCEPT ![r] = 0]
    /\ members' = [members EXCEPT ![r] = {}, ![Lobby] = @ \cup members[r]]
Erasing(r, then) ==
    [Nothing EXCEPT !.pc = "drop", !.to = r, !.id = known[r], !.moved = members[r],
                    !.then = then]

\* Mutant: deleteRoom drops the row while the room is still in memory.
MutDropFirst(t, r) ==
    /\ Works(t) /\ r \in Extra /\ known[r] # 0
    /\ dbRoom' = [dbRoom EXCEPT ![r] = 0]
    /\ Begin(t, Erasing(r, IF t = Peer THEN "idle" ELSE "deleted"))
    /\ UNCHANGED <<known, members, membership, session, faults, nextId>>

\* ROOM_DELETE, request or event.
DeleteRoom(t, r) ==
    /\ Works(t) /\ r \in Extra /\ known[r] # 0
    /\ Erase(r)
    /\ Begin(t, Erasing(r, IF t = Peer THEN "idle" ELSE "deleted"))
    /\ UNCHANGED <<db, session, faults, nextId>>

\* Without the mutex: the rows of the room are deleted, membership before the
\* room itself, and the session map is copied.  When a statement fails, or the
\* room has no row, the rest of deleteRoom is not done.
Drop(t) ==
    LET o    == op[t]
        gone == {x \in membership : x[2] = o.id}
        here == o.moved \cap open
    IN /\ At(t, "drop")
       /\ \/ /\ dbRoom[o.to] = o.id
             /\ dbRoom' = [dbRoom EXCEPT ![o.to] = 0]
             /\ membership' = membership \ gone
             /\ op' = [op EXCEPT ![t] = IF here # {} THEN [@ EXCEPT !.pc = "relocate", !.moved = here]
                                        ELSE IF o.then = "idle" THEN Nothing
                                        ELSE [@ EXCEPT !.pc = o.then, !.moved = {}]]
             /\ UNCHANGED faults
          \/ /\ dbRoom[o.to] # o.id \/ Fault
             /\ dbRoom[o.to] # o.id => UNCHANGED faults
             /\ membership' \in {membership, membership \ gone}
             /\ Finish(t)
             /\ UNCHANGED dbRoom
       /\ UNCHANGED <<known, members, session, ops, nextId, overlapped>>

\* Mutant: deleteRoom moves the rows to Lobby and forgets the sessions.
MutRelocateRowsOnly(t, s) ==
    LET o == op[t]
    IN /\ At(t, "relocate") /\ s \in o.moved
       /\ membership' = IF auth[s] THEN (membership \ {<<s, o.id>>}) \cup {<<s, 1>>}
                        ELSE membership
       /\ op' = [op EXCEPT ![t] = Nothing]
       /\ UNCHANGED <<known, members, dbRoom, session, ops, faults, nextId, overlapped>>

\* One of the sessions that were in the room: room and row follow to Lobby.
Relocate(t, s) ==
    LET o    == op[t]
        left == o.moved \ {s}
    IN /\ At(t, "relocate") /\ s \in o.moved
       /\ room' = [room EXCEPT ![s] = LobbyRoom]
       /\ \/ /\ membership' = IF auth[s] THEN (membership \ {<<s, o.id>>}) \cup {<<s, 1>>}
                              ELSE membership
             /\ UNCHANGED faults
          \/ /\ auth[s] /\ Fault
             /\ membership' \in {membership, membership \ {<<s, o.id>>}}
       /\ op' = [op EXCEPT ![t] = IF left # {} THEN [@ EXCEPT !.moved = left]
                                  ELSE IF o.then = "idle" THEN Nothing
                                  ELSE [@ EXCEPT !.pc = o.then, !.moved = {}]]
       /\ UNCHANGED <<known, members, dbRoom, open, used, auth, away, ops,
                      nextId, overlapped>>

\* rumorRoomDeleted: applied here, the event deletes whatever room has the name.
DeleteAgain(t) ==
    LET r == op[t].to
    IN /\ At(t, "deleted")
       /\ \/ known[r] = 0 /\ Finish(t) /\ UNCHANGED <<known, members>>
          \/ known[r] # 0 /\ Erase(r) /\ op' = [op EXCEPT ![t] = Erasing(r, "idle")]
       /\ UNCHANGED <<db, session, ops, faults, nextId, overlapped>>

\* ROOM_KICK: the session found in the room is sent to Lobby, by the request,
\* which goes on to rumor both events, or by the event.
Kick(t, s) ==
    /\ Works(t) /\ t # s
    /\ s \in open /\ auth[s] /\ room[s].name # Lobby
    /\ \E then \in {"idle", "rumor"} :
          /\ then = "rumor" => t # Peer /\ known[room[s].name] # 0
          /\ Begin(t, [Join(s, Lobby, then, then) EXCEPT !.kicked = room[s].name])
    /\ UNCHANGED <<known, members, db, session, faults, nextId>>

\* RECONNECT of the user on another node: the session here turns anonymous.
Demote(s) ==
    /\ s \in open /\ auth[s]
    /\ auth' = [auth EXCEPT ![s] = FALSE]
    /\ away' = [away EXCEPT ![s] = "yes"]
    /\ Begin(Peer, Leave(s, "rejoin", "idle"))
    /\ UNCHANGED <<known, members, db, open, used, room, faults, nextId>>

\* ROOM_JOIN of the user on that node.  Leaving a room the user has no row for
\* is the same as leaving none.
RemoteJoin(s, from, to) ==
    /\ At(Peer, "idle") /\ away[s] = "yes"
    /\ from = to \/ <<s, known[from]>> \in membership
    /\ membership' = JoinedRows(s, from, to)
    /\ UNCHANGED <<known, members, dbRoom, session, op, ops, faults, nextId, overlapped>>

\* LOGOUT of the user on that node.
RemoteLogout(s) ==
    /\ At(Peer, "idle") /\ away[s] = "yes"
    /\ away' = [away EXCEPT ![s] = "no"]
    /\ membership' = membership \ Rows(s)
    /\ UNCHANGED <<known, members, dbRoom, open, used, auth, room, op, ops, faults,
                   nextId, overlapped>>

-----------------------------------------------------------------------------
Step(t) ==
    \/ ReadSession(t) \/ Enter(t) \/ Persist(t) \/ Rollback(t) \/ Fallback(t) \/ Rumor(t)
    \/ Exit(t) \/ Wipe(t) \/ Rejoin(t) \/ RumorLogout(t)
    \/ Drop(t) \/ (\E s \in Sock : Relocate(t, s)) \/ DeleteAgain(t) \/ KickAgain(t)

Request(s) ==
    \/ Accept(s) \/ Login(s) \/ Logout(s) \/ RemoveSession(s)
    \/ \E r \in Room : RoomJoin(s, r) \/ Reconnect(s, r)

Manage(t) ==
    \/ \E r \in Extra : CreateRoom(t, r) \/ DeleteRoom(t, r)
    \/ \E s \in Sock : Kick(t, s)

Next ==
    \/ \E t \in Thread : Step(t) \/ Manage(t)
    \/ \E s \in Sock :
          \/ Request(s) \/ Demote(s) \/ RemoteLogout(s)
          \/ \E from, to \in Room : RemoteJoin(s, from, to)

Spec == Init /\ [][Next]_vars

-----------------------------------------------------------------------------
(***************************************************************************)
(* Properties.                                                             *)
(***************************************************************************)
Untouched(s) == \A t \in Thread : At(t, "idle") \/ (op[t].s # s /\ s \notin op[t].moved)
RoomsOf(s) == {r \in Room : s \in members[r]}

\* Whatever joins, kicks, deletions and moves interleave, a connected client
\* that no thread is working on is in some room, and only rooms of the directory
\* have members: broadcasts and the room list still reach every client, and
\* deleting a room while somebody enters it strands nobody in a room that
\* broadcastAll skips.
Reachable ==
    /\ \A s \in open : Untouched(s) => RoomsOf(s) # {}
    /\ \A r \in Room : members[r] # {} => known[r] # 0

\* A room that is offered to clients exists in the database under the same id,
\* also while it is being created or deleted: joining it cannot hit a foreign
\* key for a room that is still in the directory.
DirectoryBacked == \A r \in Room : known[r] # 0 => dbRoom[r] = known[r]

\* The member sets, the session and the membership table tell the same story.
Aligned(s) ==
    /\ RoomsOf(s) = IF s \in open THEN {room[s].name} ELSE {}
    /\ s \in open => room[s].id = known[room[s].name]
    /\ away[s] = "no" => Rows(s) = IF s \in open /\ auth[s] THEN {<<s, room[s].id>>} ELSE {}

\* After any sequence of operations that did not overlap and in which the
\* database did not fail, the three records of every user agree.
AlignedInSequence ==
    (~overlapped /\ faults = 0 /\ \A t \in Thread : At(t, "idle"))
        => \A s \in Sock : Aligned(s)
=============================================================================
