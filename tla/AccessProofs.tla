---------------------------- MODULE AccessProofs ----------------------------
(***************************************************************************)
(* Proofs about Access, for any number of nodes, users, rooms, requests,   *)
(* crashes and events taken in late, again or out of order: the type       *)
(* invariant, that a private room holds nobody it does not list            *)
(* (ClosedRooms) and lists nobody without a right (ListedByRight), that a  *)
(* session is pushed a message once (PushedOnce) and that the nodes end up *)
(* with the same messages (HistoriesAgree), the same rooms and the same    *)
(* lists (ListsAgree).                                                     *)
(*                                                                         *)
(* The first four rest on IInv: a room's id belongs to one room for good   *)
(* (RowsAt, Copies), so an allow_list row made for a room that has been    *)
(* deleted meanwhile never opens another one, and an event carries the     *)
(* right it was made from (Backed).  HistoriesAgree needs, besides, why a  *)
(* node that takes events in in order knows the room of every message      *)
(* (Announced, Known).  ListsAgree needs what a room looks like on a node  *)
(* that has taken in only some of its events, compared with a reference    *)
(* history of the room (LInv, the last part of this module).               *)
(***************************************************************************)
EXTENDS Access, TLAPS

OpType == [pc : {"idle", "enter", "expel", "rumor"},
           to : Room, copy : RoomRow, ev : Event]

\* The rows of node n: the Lobby's is there for good, an id is given once.
RowsAt(n) ==
    /\ rooms[n][Lobby] = [id |-> 1, privacy |-> "PUBLIC"]
    /\ nextId[n] > 1
    /\ \A r \in Room : /\ rooms[n][r].id < nextId[n]
                       /\ rooms[n][r].id = 0 => rooms[n][r].privacy = "PUBLIC"
    /\ \A r, q \in Room :
          rooms[n][r].id = rooms[n][q].id /\ rooms[n][r].id # 0 => r = q
    /\ \A row \in allow[n] : row.id # 0 /\ row.id < nextId[n]

Tables ==
    /\ rooms \in [Node -> [Room -> RoomRow]]
    /\ nextId \in [Node -> Nat]
    /\ allow \in [Node -> SUBSET AllowRow]
    /\ \A n \in Node : RowsAt(n)

\* The right an event was made from.
Right(ev) ==
    /\ ev.kind = "ROOM_CREATED" => <<ev.user, ev.room, TRUE>> \in granted
    /\ ev.kind = "ROOM_ACL_ADD" => <<ev.user, ev.room, FALSE>> \in granted
    /\ ev.kind = "ROOM_DELETED" => ev.room # Lobby

Backed ==
    /\ \A e \in 1..Len(events) : Right(events[e])
    /\ \A u \in User : op[u].pc \in {"expel", "rumor"} => Right(op[u].ev)

\* The room a ROOM_JOIN was checked against still has its id to itself.
CopyOk(u) ==
    op[u].pc = "enter" /\ op[u].copy # NoRoom =>
        /\ op[u].copy.id # 0 /\ op[u].copy.id < nextId[at[u]]
        /\ \A r \in Room : rooms[at[u]][r].id = op[u].copy.id =>
              rooms[at[u]][r].privacy = op[u].copy.privacy

Copies == \A u \in User : CopyOk(u)

IInv == TypeOK /\ Tables /\ Backed /\ Copies /\ ListedByRight /\ ClosedRooms /\ PushedOnce

\* No room is deleted, or about to be.
NoDeletes ==
    /\ \A e \in 1..Len(events) : events[e].kind # "ROOM_DELETED"
    /\ \A u \in User : op[u].pc = "rumor" => op[u].ev.kind # "ROOM_DELETED"

Everywhere(r) == \A n \in Node : Exists(n, r)

\* A room was there from the start, or its creation was rumored as an event before e.
Announced(r, e) ==
    \/ Everywhere(r)
    \/ \E x \in 1..Len(events) :
          x < e /\ events[x].kind = "ROOM_CREATED" /\ events[x].room = r

\* Why the room of every message is known to a node that has the events before it.
Known ==
    /\ \A n \in Node, r \in Room : Exists(n, r) =>
          \/ Announced(r, Len(events) + 1)
          \/ \E u \in User : /\ at[u] = n /\ op[u].pc = "rumor"
                             /\ op[u].ev.kind = "ROOM_CREATED" /\ op[u].ev.room = r
    /\ \A e \in 1..Len(events) : events[e].kind = "MESSAGE" => Announced(events[e].room, e)
    /\ \A n \in Node : \A e \in got[n] :
          events[e].kind = "ROOM_CREATED" => Exists(n, events[e].room)
    /\ \A u \in User : op[u].pc = "rumor" /\ op[u].ev.kind = "MESSAGE" =>
          Exists(at[u], op[u].ev.room)
    /\ \A n \in Node : \A e \in got[n] : events[e].kind = "MESSAGE" => e \in saved[n]

OnlyMessages == \A n \in Node : \A e \in saved[n] : events[e].kind = "MESSAGE"

Kicking == \A u \in User : op[u].pc = "expel" => op[u].ev.kind = "ROOM_KICK"

HInv == OnlyMessages /\ Kicking /\ (inOrder /\ ~unsaid /\ NoDeletes => Known)
-----------------------------------------------------------------------------
(***************************************************************************)
(* What a change of one node's tables does.                                *)
(***************************************************************************)

\* x is not in a private room, or is listed for it.
Entitled(x) ==
    LET n == at[x]
        r == place[x]
    IN rooms[n][r].privacy = "PRIVATE" => Listed(n, rooms[n][r].id, x)

\* Rooms keep their rows, go, or get an id that is new.
Evolved ==
    \A m \in Node :
        /\ nextId'[m] >= nextId[m]
        /\ \A r \in Room : \/ rooms'[m][r] = rooms[m][r]
                           \/ rooms'[m][r].id = 0
                           \/ rooms'[m][r].id >= nextId[m]

\* addToAllowList adds at most the row it is for.
LEMMA RowAdded ==
    ASSUME Tables, NEW n \in Node, NEW id \in Nat, NEW u \in User, NEW creator \in BOOLEAN,
           AddToAllowList(n, id, u, creator)
    PROVE  /\ allow' \in [Node -> SUBSET AllowRow]
           /\ \A m \in Node : m # n => allow'[m] = allow[m]
           /\ allow[n] \subseteq allow'[n]
           /\ \A row \in allow'[n] : row \in allow[n]
                 \/ (row.id = id /\ row.user = u /\ row.creator = creator)
<1> DEFINE new == [id |-> id, user |-> u, creator |-> creator]
<1>1. new \in AllowRow /\ new.id = id /\ new.user = u /\ new.creator = creator
  BY DEF AllowRow
<1> HIDE DEF new
<1>2. WithRow(n, id, u, creator) \in SUBSET AllowRow
  BY <1>1 DEF WithRow, Tables, new
<1>3. allow' = [allow EXCEPT ![n] = WithRow(n, id, u, creator)]
  BY DEF AddToAllowList
<1>4. WithRow(n, id, u, creator) = allow[n] \/ WithRow(n, id, u, creator) = allow[n] \cup {new}
  BY DEF WithRow, new
<1>5. allow'[n] = WithRow(n, id, u, creator) /\ \A m \in Node : m # n => allow'[m] = allow[m]
  BY <1>3 DEF Tables
<1>6. allow' \in [Node -> SUBSET AllowRow]
  BY <1>2, <1>3 DEF Tables
<1> QED BY <1>1, <1>4, <1>5, <1>6

\* A row for a room that is there, and for whom the room is meant.
LEMMA AddStep ==
    ASSUME Tables, ListedByRight, NEW n \in Node, NEW r \in Room, NEW u \in User,
           NEW creator \in BOOLEAN, Exists(n, r),
           AddToAllowList(n, rooms[n][r].id, u, creator), UNCHANGED <<rooms, nextId>>,
           granted \subseteq granted',
           rooms[n][r].privacy = "PRIVATE" => <<u, r, creator>> \in granted'
    PROVE  /\ Tables' /\ ListedByRight' /\ Evolved
           /\ \A m \in Node : allow[m] \subseteq allow'[m]
<1> DEFINE id == rooms[n][r].id
<1>0. id \in Nat /\ id # 0 /\ id < nextId[n]
  BY DEF Tables, RowsAt, RoomRow, Exists
<1>1. /\ allow' \in [Node -> SUBSET AllowRow]
      /\ \A m \in Node : m # n => allow'[m] = allow[m]
      /\ allow[n] \subseteq allow'[n]
      /\ \A row \in allow'[n] : row \in allow[n]
            \/ (row.id = id /\ row.user = u /\ row.creator = creator)
  <2>1. id \in Nat /\ AddToAllowList(n, id, u, creator)
    BY <1>0
  <2> HIDE DEF id
  <2> QED BY <2>1, RowAdded
<1>2. \A m \in Node : RowsAt(m)'
  <2>1. ASSUME NEW m \in Node PROVE \A row \in allow'[m] : row.id # 0 /\ row.id < nextId[m]
    BY <1>0, <1>1 DEF Tables, RowsAt
  <2> QED BY <2>1 DEF Tables, RowsAt
<1>3. Tables'
  BY <1>1, <1>2 DEF Tables
<1>4. ListedByRight'
  <2>1. SUFFICES ASSUME NEW m \in Node, NEW q \in Room, rooms[m][q].privacy = "PRIVATE",
                        NEW row \in allow'[m], row.id = rooms[m][q].id
                 PROVE  <<row.user, q, row.creator>> \in granted'
    BY DEF ListedByRight
  <2>2. CASE row \in allow[m]
    BY <2>1, <2>2 DEF ListedByRight
  <2>3. CASE row \notin allow[m]
    <3>1. m = n /\ row.id = id /\ row.user = u /\ row.creator = creator
      BY <1>1, <2>3
    <3>2. q = r
      BY <1>0, <2>1, <3>1 DEF Tables, RowsAt
    <3> QED BY <2>1, <3>1, <3>2
  <2> QED BY <2>2, <2>3
<1>5. Evolved
  BY DEF Evolved, Tables
<1> QED BY <1>1, <1>3, <1>4, <1>5

\* A new room, its id not used before.
LEMMA NewStep ==
    ASSUME Tables, ListedByRight, NEW n \in Node, NEW r \in Room, NEW u \in User,
           NEW privacy \in Privacy, ~Exists(n, r), NewRoom(n, r, privacy, u),
           granted \subseteq granted', <<u, r, TRUE>> \in granted'
    PROVE  /\ Tables' /\ ListedByRight' /\ Evolved
           /\ \A m \in Node : allow[m] \subseteq allow'[m]
           /\ rooms'[n][r].id # 0
           /\ \A m \in Node, q \in Room : Exists(m, q) => rooms'[m][q] = rooms[m][q]
           /\ \A m \in Node, q \in Room : m # n \/ q # r => rooms'[m][q] = rooms[m][q]
<1> DEFINE new == [id |-> nextId[n], privacy |-> privacy]
           id == nextId[n]
<1>0. id \in Nat /\ id > 1
  BY DEF Tables, RowsAt
<1>1. new \in RoomRow /\ new.id = id /\ new.privacy = privacy
  BY <1>0 DEF RoomRow
<1>2. rooms' = [rooms EXCEPT ![n][r] = new] /\ nextId' = [nextId EXCEPT ![n] = @ + 1]
  BY DEF NewRoom
<1> HIDE DEF new
<1>3. /\ rooms'[n][r] = new
      /\ \A m \in Node, q \in Room : m # n \/ q # r => rooms'[m][q] = rooms[m][q]
  BY <1>2 DEF Tables
<1>4. rooms' \in [Node -> [Room -> RoomRow]] /\ nextId' \in [Node -> Nat]
  BY <1>0, <1>1, <1>2 DEF Tables
<1>5. nextId'[n] = id + 1 /\ \A m \in Node : m # n => nextId'[m] = nextId[m]
  BY <1>2 DEF Tables
<1>6. /\ allow' \in [Node -> SUBSET AllowRow]
      /\ \A m \in Node : m # n => allow'[m] = allow[m]
      /\ allow[n] \subseteq allow'[n]
      /\ \A row \in allow'[n] : row \in allow[n]
            \/ (row.id = id /\ row.user = u /\ row.creator = TRUE)
  <2>1. AddToAllowList(n, id, u, TRUE)
    BY DEF NewRoom
  <2> HIDE DEF id
  <2> QED BY <1>0, <2>1, RowAdded
<1> HIDE DEF id
<1>7. \A m \in Node : \A row \in allow'[m] : row.id # 0 /\ row.id < nextId'[m]
  <2>1. \A m \in Node : \A row \in allow[m] : row.id \in Nat /\ row.id # 0 /\ row.id < nextId[m]
    BY DEF Tables, RowsAt, AllowRow
  <2>2. id = nextId[n]
    BY DEF id
  <2> QED BY <1>0, <1>5, <1>6, <2>1, <2>2
<1>8. \A m \in Node, q \in Room : rooms[m][q].id \in Nat /\ rooms[m][q].id < nextId[m]
                                  /\ nextId[m] \in Nat
  BY DEF Tables, RowsAt, RoomRow
<1>9. r # Lobby
  BY DEF Exists, Tables, RowsAt
<1>10. \A m \in Node : RowsAt(m)'
  <2>1. SUFFICES ASSUME NEW m \in Node PROVE RowsAt(m)'
    OBVIOUS
  <2>2. id = nextId[n]
    BY DEF id
  <2>3. rooms'[m][Lobby] = [id |-> 1, privacy |-> "PUBLIC"] /\ nextId'[m] > 1
    BY <1>0, <1>3, <1>5, <1>9, <2>2 DEF Tables, RowsAt, Room
  <2>4. \A q \in Room : /\ rooms'[m][q].id < nextId'[m]
                        /\ rooms'[m][q].id = 0 => rooms'[m][q].privacy = "PUBLIC"
    BY <1>0, <1>1, <1>3, <1>5, <1>8, <2>2 DEF Tables, RowsAt
  <2>5. \A p, q \in Room :
           rooms'[m][p].id = rooms'[m][q].id /\ rooms'[m][p].id # 0 => p = q
    BY <1>0, <1>1, <1>3, <1>8, <2>2 DEF Tables, RowsAt
  <2> QED BY <1>7, <2>3, <2>4, <2>5 DEF RowsAt
<1>11. Tables'
  BY <1>4, <1>6, <1>10 DEF Tables
<1>12. ListedByRight'
  <2>1. SUFFICES ASSUME NEW m \in Node, NEW q \in Room, rooms'[m][q].privacy = "PRIVATE",
                        NEW row \in allow'[m], row.id = rooms'[m][q].id
                 PROVE  <<row.user, q, row.creator>> \in granted'
    BY DEF ListedByRight
  <2>2. id = nextId[n]
    BY DEF id
  <2>3. CASE m = n /\ q = r
    <3>1. row \notin allow[n]
      BY <1>1, <1>3, <2>1, <2>2, <2>3 DEF Tables, RowsAt, AllowRow
    <3> QED BY <1>6, <2>3, <3>1
  <2>4. CASE m # n \/ q # r
    <3>1. rooms'[m][q] = rooms[m][q]
      BY <1>3, <2>4
    <3>2. row \in allow[m]
      BY <1>6, <1>8, <2>1, <2>2, <3>1
    <3> QED BY <2>1, <3>1, <3>2 DEF ListedByRight
  <2> QED BY <2>3, <2>4
<1>13. Evolved
  BY <1>0, <1>1, <1>3, <1>5, <1>8 DEF Evolved, id
<1>14. \A m \in Node, q \in Room : Exists(m, q) => rooms'[m][q] = rooms[m][q]
  BY <1>3 DEF Exists
<1> QED BY <1>0, <1>1, <1>3, <1>6, <1>11, <1>12, <1>13, <1>14
\* Who is listed for what, and is still after the step.
StaysListed(m, q, x) ==
    Listed(m, rooms[m][q].id, x) =>
        \E row \in allow'[m] : row.id = rooms[m][q].id /\ row.user = x

\* One user's row of one room goes; nobody else's does.
LEMMA RemoveStep ==
    ASSUME Tables, ListedByRight, NEW n \in Node, NEW r \in Room, NEW v \in User, Exists(n, r),
           RemoveFromAllowList(n, rooms[n][r].id, v), UNCHANGED <<rooms, nextId>>,
           granted \subseteq granted'
    PROVE  /\ Tables' /\ ListedByRight' /\ Evolved
           /\ \A m \in Node, q \in Room, x \in User :
                 m # n \/ q # r \/ x # v => StaysListed(m, q, x)
<1>1. allow' = [allow EXCEPT ![n] = {row \in @ : ~(row.id = rooms[n][r].id /\ row.user = v)}]
  BY DEF RemoveFromAllowList
<1>2. /\ \A m \in Node : m # n => allow'[m] = allow[m]
      /\ allow'[n] = {row \in allow[n] : ~(row.id = rooms[n][r].id /\ row.user = v)}
  BY <1>1 DEF Tables
<1>3. \A m \in Node : allow'[m] \subseteq allow[m]
  BY <1>2
<1>4. allow' \in [Node -> SUBSET AllowRow]
  BY <1>1 DEF Tables
<1>5. Tables'
  BY <1>3, <1>4 DEF Tables, RowsAt
<1>6. ListedByRight'
  BY <1>3 DEF ListedByRight
<1>7. ASSUME NEW m \in Node, NEW q \in Room, NEW x \in User, m # n \/ q # r \/ x # v
      PROVE  StaysListed(m, q, x)
  <2>1. SUFFICES ASSUME NEW row \in allow[m], row.id = rooms[m][q].id, row.user = x
                 PROVE  row \in allow'[m]
    BY DEF StaysListed, Listed
  <2>2. m = n /\ x = v => row.id # rooms[n][r].id
    BY <1>7, <2>1 DEF Tables, RowsAt, Exists
  <2> QED BY <1>2, <2>1, <2>2
<1> QED BY <1>5, <1>6, <1>7 DEF Evolved, Tables

\* A room goes with its rows.
LEMMA EraseStep ==
    ASSUME Tables, ListedByRight, NEW n \in Node, NEW r \in Room, r # Lobby, EraseRoom(n, r),
           granted \subseteq granted'
    PROVE  /\ Tables' /\ ListedByRight' /\ Evolved
           /\ \A m \in Node, q \in Room : m # n \/ q # r =>
                 /\ rooms'[m][q] = rooms[m][q]
                 /\ rooms[m][q].id # 0 => \A x \in User : StaysListed(m, q, x)
<1> DEFINE id == rooms[n][r].id
<1>0. NoRoom \in RoomRow /\ NoRoom.id = 0 /\ NoRoom.privacy = "PUBLIC"
  BY DEF NoRoom, RoomRow, Privacy
<1>1. /\ rooms' = [rooms EXCEPT ![n][r] = NoRoom] /\ UNCHANGED nextId
      /\ allow' = [allow EXCEPT ![n] = {row \in @ : row.id # id}]
  BY DEF EraseRoom
<1> HIDE DEF NoRoom
<1>2. /\ rooms'[n][r] = NoRoom
      /\ \A m \in Node, q \in Room : m # n \/ q # r => rooms'[m][q] = rooms[m][q]
  BY <1>1 DEF Tables
<1>3. /\ \A m \in Node : m # n => allow'[m] = allow[m]
      /\ allow'[n] = {row \in allow[n] : row.id # id}
      /\ \A m \in Node : allow'[m] \subseteq allow[m]
  BY <1>1 DEF Tables
<1>4. rooms' \in [Node -> [Room -> RoomRow]] /\ allow' \in [Node -> SUBSET AllowRow]
  BY <1>0, <1>1 DEF Tables
<1>5. \A m \in Node : RowsAt(m)'
  <2>1. SUFFICES ASSUME NEW m \in Node PROVE RowsAt(m)'
    OBVIOUS
  <2>2. rooms'[m][Lobby] = [id |-> 1, privacy |-> "PUBLIC"] /\ nextId'[m] > 1
    BY <1>1, <1>2 DEF Tables, RowsAt, Room
  <2>3. \A q \in Room : /\ rooms'[m][q].id < nextId'[m]
                        /\ rooms'[m][q].id = 0 => rooms'[m][q].privacy = "PUBLIC"
    <3>1. nextId[m] \in Nat /\ nextId[m] > 1
      BY DEF Tables, RowsAt
    <3> QED BY <1>0, <1>1, <1>2, <3>1 DEF Tables, RowsAt
  <2>4. \A p, q \in Room :
           rooms'[m][p].id = rooms'[m][q].id /\ rooms'[m][p].id # 0 => p = q
    BY <1>0, <1>2 DEF Tables, RowsAt
  <2>5. \A row \in allow'[m] : row.id # 0 /\ row.id < nextId'[m]
    BY <1>1, <1>3 DEF Tables, RowsAt
  <2> QED BY <2>2, <2>3, <2>4, <2>5 DEF RowsAt
<1>6. Tables'
  BY <1>1, <1>4, <1>5 DEF Tables
<1>7. ListedByRight'
  <2>1. SUFFICES ASSUME NEW m \in Node, NEW q \in Room, rooms'[m][q].privacy = "PRIVATE",
                        NEW row \in allow'[m], row.id = rooms'[m][q].id
                 PROVE  <<row.user, q, row.creator>> \in granted'
    BY DEF ListedByRight
  <2>2. m # n \/ q # r
    BY <1>0, <1>2, <2>1
  <2> QED BY <1>2, <1>3, <2>1, <2>2 DEF ListedByRight
<1>8. Evolved
  BY <1>0, <1>1, <1>2 DEF Evolved, Tables
<1>9. ASSUME NEW m \in Node, NEW q \in Room, m # n \/ q # r, rooms[m][q].id # 0, NEW x \in User
      PROVE  StaysListed(m, q, x)
  <2>1. m = n => rooms[m][q].id # id
    BY <1>9 DEF Tables, RowsAt
  <2> QED BY <1>3, <2>1 DEF StaysListed, Listed
<1> QED BY <1>2, <1>6, <1>7, <1>8, <1>9

-----------------------------------------------------------------------------
(***************************************************************************)
(* Sessions.                                                               *)
(***************************************************************************)

\* Somebody is about to expel x from the room x is in.
Expelled(x) ==
    \E v \in User : /\ at[v] = at[x] /\ op[v].pc = "expel"
                    /\ op[v].ev.user = x /\ op[v].ev.room = place[x]

\* ClosedRooms in these words.
LEMMA ClosedMeans ==
    /\ ClosedRooms <=> \A x \in User \ Admin : Entitled(x) \/ x \in raced \/ Expelled(x)
    /\ ClosedRooms' <=> \A x \in User \ Admin : Entitled(x)' \/ x \in raced' \/ Expelled(x)'
BY DEF ClosedRooms, Entitled, Expelled

\* A step in which nobody loses a row for the room he stays in keeps the rooms
\* closed.
LEMMA ClosedKept ==
    ASSUME ClosedRooms, raced \subseteq raced',
           \A x \in User : \/ Entitled(x)'
                           \/ ~Entitled(x) /\ place'[x] = place[x] /\ at'[x] = at[x],
           \A v \in User : op[v].pc = "expel" =>
              op'[v].pc = "expel" /\ op'[v].ev = op[v].ev /\ at'[v] = at[v]
    PROVE  ClosedRooms'
<1>1. ASSUME NEW x \in User \ Admin, ~Entitled(x)' PROVE x \in raced' \/ Expelled(x)'
  <2>1. ~Entitled(x) /\ place'[x] = place[x] /\ at'[x] = at[x]
    BY <1>1
  <2>2. x \in raced \/ Expelled(x)
    BY <2>1, ClosedMeans
  <2>3. Expelled(x) => Expelled(x)'
    BY <2>1 DEF Expelled
  <2> QED BY <2>2, <2>3
<1> QED BY <1>1, ClosedMeans

\* A room whose row stays, and whose list keeps x, is as open to x as before.
LEMMA EntitledKept ==
    ASSUME NEW x \in User, place'[x] = place[x], at'[x] = at[x],
           rooms'[at[x]][place[x]] = rooms[at[x]][place[x]],
           StaysListed(at[x], place[x], x)
    PROVE  Entitled(x) => Entitled(x)'
BY DEF Entitled, StaysListed, Listed

\* In the Lobby everybody is entitled to be.
LEMMA LobbyOpen ==
    ASSUME Tables', NEW x \in User, at'[x] \in Node, place'[x] = Lobby
    PROVE  Entitled(x)' /\ rooms'[at'[x]][place'[x]].id # 0
BY DEF Tables, RowsAt, Entitled

\* Copies taken by handlers stay good while rooms evolve.
LEMMA CopiesKept ==
    ASSUME Copies, Tables, Tables', Evolved, at \in [User -> Node], op \in [User -> OpType],
           \A u \in User : op'[u].pc = "enter" /\ op'[u].copy # NoRoom =>
              op'[u] = op[u] /\ at'[u] = at[u]
    PROVE  Copies'
<1>1. SUFFICES ASSUME NEW u \in User, op[u].pc = "enter", op[u].copy # NoRoom,
                      op'[u] = op[u], at'[u] = at[u]
               PROVE  /\ op[u].copy.id # 0 /\ op[u].copy.id < nextId'[at[u]]
                      /\ \A r \in Room : rooms'[at[u]][r].id = op[u].copy.id =>
                            rooms'[at[u]][r].privacy = op[u].copy.privacy
  BY DEF Copies, CopyOk
<1>2. /\ op[u].copy.id # 0 /\ op[u].copy.id < nextId[at[u]]
      /\ \A r \in Room : rooms[at[u]][r].id = op[u].copy.id =>
            rooms[at[u]][r].privacy = op[u].copy.privacy
  BY <1>1 DEF Copies, CopyOk
<1>3. op[u].copy.id \in Nat /\ at[u] \in Node
  BY DEF OpType, RoomRow
<1>4. nextId[at[u]] \in Nat /\ nextId'[at[u]] \in Nat /\ nextId'[at[u]] >= nextId[at[u]]
  BY <1>3 DEF Tables, Evolved
<1>5. ASSUME NEW r \in Room, rooms'[at[u]][r].id = op[u].copy.id
      PROVE  rooms'[at[u]][r] = rooms[at[u]][r]
  BY <1>2, <1>3, <1>4, <1>5 DEF Evolved
<1> QED BY <1>2, <1>3, <1>4, <1>5

Housed == \A u \in User : rooms[at[u]][place[u]].id # 0

\* What applying event e to the tables and sessions of a node has to keep.
AppliedWell(e) ==
    /\ Tables' /\ ListedByRight' /\ Evolved /\ Housed' /\ PushedOnce'
    /\ UNCHANGED at /\ place' \in [User -> Room]
    /\ \A x \in User : Entitled(x)' \/ (~Entitled(x) /\ place'[x] = place[x])
    /\ saved' = [m \in Node |-> saved'[m]] /\ \A m \in Node : saved'[m] \subseteq saved[m] \cup {e}
    /\ shown' = [x \in User |-> shown'[x]] /\ \A x \in User : shown'[x] \subseteq shown[x] \cup {e}

\* What the lemmas below start from.
LEMMA Basics ==
    ASSUME IInv
    PROVE  /\ Tables /\ ListedByRight /\ ClosedRooms /\ PushedOnce /\ Housed /\ Copies /\ Backed
           /\ at \in [User -> Node] /\ place \in [User -> Room]
           /\ events \in Seq(Event) /\ op \in [User -> OpType]
           /\ got \in [Node -> SUBSET (1..Len(events))]
           /\ saved \in [Node -> SUBSET (1..Len(events))]
           /\ shown \in [User -> SUBSET (1..Len(events))]
BY DEF IInv, TypeOK, Housed, OpType

\* A step that adds rows and rooms and moves nobody keeps everybody housed and
\* entitled.
LEMMA GrowsWell ==
    ASSUME IInv, NEW e, Tables', ListedByRight', Evolved,
           \A m \in Node : allow[m] \subseteq allow'[m],
           \A m \in Node, q \in Room : Exists(m, q) => rooms'[m][q] = rooms[m][q],
           UNCHANGED <<at, place, shown, saved, twice>>
    PROVE  AppliedWell(e)
<1>1. \A x \in User : /\ at[x] \in Node /\ place[x] \in Room
                      /\ rooms'[at[x]][place[x]] = rooms[at[x]][place[x]]
  BY Basics DEF Housed, Exists
<1>2. Housed'
  BY <1>1, Basics DEF Housed
<1>3. \A x \in User : Entitled(x)' \/ (~Entitled(x) /\ place'[x] = place[x])
  <2>1. \A x \in User : StaysListed(at[x], place[x], x)
    BY <1>1 DEF StaysListed, Listed
  <2> QED BY <1>1, <2>1, EntitledKept
<1>4. PushedOnce'
  BY Basics DEF PushedOnce
<1>5. /\ saved' = [m \in Node |-> saved'[m]] /\ \A m \in Node : saved'[m] \subseteq saved[m] \cup {e}
      /\ shown' = [x \in User |-> shown'[x]] /\ \A x \in User : shown'[x] \subseteq shown[x] \cup {e}
  BY Basics
<1> QED BY <1>2, <1>3, <1>4, <1>5, Basics DEF AppliedWell

\* ROOM_CREATED.
LEMMA CreatedWell ==
    ASSUME IInv, NEW n \in Node, NEW ev \in Event, NEW e, ev.kind = "ROOM_CREATED",
           <<ev.user, ev.room, TRUE>> \in granted, UNCHANGED granted, ApplyCreated(n, ev)
    PROVE  AppliedWell(e)
<1>0. ev.room \in Room /\ ev.user \in User /\ ev.privacy \in Privacy /\ TRUE \in BOOLEAN
  BY DEF Event
<1>1. UNCHANGED <<at, place, shown, saved, twice>>
  BY DEF ApplyCreated, NewRoom, sessions
<1>2. /\ Tables' /\ ListedByRight' /\ Evolved
      /\ \A m \in Node : allow[m] \subseteq allow'[m]
      /\ \A m \in Node, q \in Room : Exists(m, q) => rooms'[m][q] = rooms[m][q]
  <2>1. CASE ~Exists(n, ev.room)
    <3>1. NewRoom(n, ev.room, ev.privacy, ev.user)
      BY <2>1 DEF ApplyCreated
    <3>2. Tables /\ ListedByRight /\ granted \subseteq granted' /\ <<ev.user, ev.room, TRUE>> \in granted'
      BY Basics
    <3> QED BY <1>0, <2>1, <3>1, <3>2, NewStep
  <2>2. CASE Exists(n, ev.room)
    <3>1. AddToAllowList(n, rooms[n][ev.room].id, ev.user, TRUE) /\ UNCHANGED <<rooms, nextId>>
      BY <2>2 DEF ApplyCreated
    <3>2. Tables /\ ListedByRight /\ granted \subseteq granted' /\ <<ev.user, ev.room, TRUE>> \in granted'
      BY Basics
    <3>3. /\ Tables' /\ ListedByRight' /\ Evolved
          /\ \A m \in Node : allow[m] \subseteq allow'[m]
      BY <1>0, <2>2, <3>1, <3>2, AddStep
    <3> QED BY <3>1, <3>3
  <2> QED BY <2>1, <2>2
<1> QED BY <1>1, <1>2, GrowsWell

\* ROOM_ACL_ADD.
LEMMA AclAddWell ==
    ASSUME IInv, NEW n \in Node, NEW ev \in Event, NEW e, ev.kind = "ROOM_ACL_ADD",
           <<ev.user, ev.room, FALSE>> \in granted, UNCHANGED granted, ApplyAclAdd(n, ev)
    PROVE  AppliedWell(e)
<1>0. ev.room \in Room /\ ev.user \in User /\ FALSE \in BOOLEAN
  BY DEF Event
<1>1. UNCHANGED <<at, place, shown, saved, twice, rooms, nextId>>
  BY DEF ApplyAclAdd, sessions
<1>2. /\ Tables' /\ ListedByRight' /\ Evolved
      /\ \A m \in Node : allow[m] \subseteq allow'[m]
  <2>1. CASE Exists(n, ev.room)
    <3>1. AddToAllowList(n, rooms[n][ev.room].id, ev.user, FALSE)
      BY <2>1 DEF ApplyAclAdd
    <3>2. Tables /\ ListedByRight /\ granted \subseteq granted' /\ <<ev.user, ev.room, FALSE>> \in granted'
      BY Basics
    <3> QED BY <1>0, <1>1, <2>1, <3>1, <3>2, AddStep
  <2>2. CASE ~Exists(n, ev.room)
    <3>1. UNCHANGED allow
      BY <2>2 DEF ApplyAclAdd
    <3> QED BY <1>1, <3>1, Basics DEF Tables, RowsAt, ListedByRight, Evolved
  <2> QED BY <2>1, <2>2
<1> QED BY <1>1, <1>2, GrowsWell

\* EraseRoom: the members are in the Lobby, and what was deleted is shown to nobody.
LEMMA ErasedWell ==
    ASSUME IInv, NEW n \in Node, NEW r \in Room, NEW e, r # Lobby, EraseRoom(n, r),
           UNCHANGED <<granted, twice>>
    PROVE  AppliedWell(e)
<1> DEFINE gone == {x \in saved[n] : events[x].room = r}
<1>0. /\ Tables' /\ ListedByRight' /\ Evolved
      /\ \A m \in Node, q \in Room : m # n \/ q # r =>
            /\ rooms'[m][q] = rooms[m][q]
            /\ rooms[m][q].id # 0 => \A x \in User : StaysListed(m, q, x)
  BY Basics, EraseStep
<1>1. /\ saved' = [saved EXCEPT ![n] = @ \ gone]
      /\ shown' = [u \in User |-> IF at[u] = n THEN shown[u] \ gone ELSE shown[u]]
      /\ place' = [u \in User |-> IF u \in Members(n, r) THEN Lobby ELSE place[u]]
      /\ UNCHANGED at
  BY DEF EraseRoom, ToLobby
<1> HIDE DEF gone
<1>2. place' \in [User -> Room]
  BY <1>1, Basics DEF Room
<1>3. ASSUME NEW x \in User
      PROVE  /\ rooms'[at'[x]][place'[x]].id # 0
             /\ Entitled(x)' \/ (~Entitled(x) /\ place'[x] = place[x])
  <2>0. at[x] \in Node /\ place[x] \in Room /\ at'[x] = at[x]
    BY <1>1, Basics
  <2>1. CASE x \in Members(n, r)
    BY <1>0, <1>1, <2>0, <2>1, LobbyOpen
  <2>2. CASE x \notin Members(n, r)
    <3>1. place'[x] = place[x] /\ (at[x] # n \/ place[x] # r)
      BY <1>1, <2>2 DEF Members
    <3>2. rooms[at[x]][place[x]].id # 0
      BY Basics DEF Housed
    <3> QED BY <1>0, <2>0, <3>1, <3>2, EntitledKept
  <2> QED BY <2>1, <2>2
<1>4. PushedOnce'
  <2>1. \A u \in User : shown[u] \subseteq saved[at[u]]
    BY Basics DEF PushedOnce
  <2>2. \A u \in User : shown'[u] \subseteq saved'[at'[u]]
    BY <1>1, <2>1, Basics
  <2> QED BY <2>2, Basics DEF PushedOnce
<1>5. /\ saved' = [m \in Node |-> saved'[m]] /\ \A m \in Node : saved'[m] \subseteq saved[m] \cup {e}
      /\ shown' = [x \in User |-> shown'[x]] /\ \A x \in User : shown'[x] \subseteq shown[x] \cup {e}
  BY <1>1, Basics
<1> QED BY <1>0, <1>1, <1>2, <1>3, <1>4, <1>5 DEF AppliedWell, Housed

\* ROOM_DELETED.
LEMMA DeletedWell ==
    ASSUME IInv, NEW n \in Node, NEW ev \in Event, NEW e, ev.room # Lobby, UNCHANGED granted,
           ApplyDeleted(n, ev)
    PROVE  AppliedWell(e)
<1>0. ev.room \in Room
  BY DEF Event
<1>1. CASE Exists(n, ev.room)
  BY <1>0, <1>1, ErasedWell DEF ApplyDeleted
<1>2. CASE ~Exists(n, ev.room)
  <2>1. UNCHANGED <<rooms, nextId, allow, saved, at, place, shown, twice>>
    BY <1>2 DEF ApplyDeleted, tables, sessions
  <2>2. Tables' /\ ListedByRight' /\ Evolved
    BY <2>1, Basics DEF Tables, RowsAt, ListedByRight, Evolved
  <2> QED BY <2>1, <2>2, GrowsWell
<1> QED BY <1>1, <1>2
\* ROOM_KICK: who loses the row leaves the room.
LEMMA KickWell ==
    ASSUME IInv, NEW n \in Node, NEW ev \in Event, NEW e, UNCHANGED granted, ApplyKick(n, ev)
    PROVE  AppliedWell(e)
<1> DEFINE v == ev.user
           r == ev.room
<1>0. v \in User /\ r \in Room
  BY DEF Event
<1>1. /\ UNCHANGED <<rooms, nextId, saved, at, shown, twice>>
      /\ place' = [u \in User |-> IF u \in {v} \cap Members(n, r) THEN Lobby ELSE place[u]]
      /\ Exists(n, r) => RemoveFromAllowList(n, rooms[n][r].id, v)
      /\ ~Exists(n, r) => UNCHANGED allow
  BY DEF ApplyKick, ToLobby
<1> HIDE DEF v, r
<1>2. /\ Tables' /\ ListedByRight' /\ Evolved
      /\ \A m \in Node, q \in Room, x \in User : m # n \/ q # r \/ x # v => StaysListed(m, q, x)
  <2>1. CASE Exists(n, r)
    <3>1. Tables /\ ListedByRight /\ granted \subseteq granted'
          /\ RemoveFromAllowList(n, rooms[n][r].id, v) /\ UNCHANGED <<rooms, nextId>>
      BY <1>1, <2>1, Basics
    <3> QED BY <1>0, <2>1, <3>1, RemoveStep
  <2>2. CASE ~Exists(n, r)
    BY <1>1, <2>2, Basics DEF Tables, RowsAt, ListedByRight, Evolved, StaysListed, Listed
  <2> QED BY <2>1, <2>2
<1>3. place' \in [User -> Room]
  BY <1>1, Basics DEF Room
<1>4. ASSUME NEW x \in User
      PROVE  /\ rooms'[at'[x]][place'[x]].id # 0
             /\ Entitled(x)' \/ (~Entitled(x) /\ place'[x] = place[x])
  <2>0. at[x] \in Node /\ place[x] \in Room /\ at'[x] = at[x] /\ rooms[at[x]][place[x]].id # 0
    BY <1>1, Basics DEF Housed
  <2>1. CASE x \in {v} \cap Members(n, r)
    BY <1>1, <1>2, <2>0, <2>1, LobbyOpen
  <2>2. CASE x \notin {v} \cap Members(n, r)
    <3>1. place'[x] = place[x] /\ (at[x] # n \/ place[x] # r \/ x # v)
      BY <1>1, <2>2 DEF Members
    <3>2. StaysListed(at[x], place[x], x)
      BY <1>2, <2>0, <3>1
    <3> QED BY <1>1, <2>0, <3>1, <3>2, EntitledKept
  <2> QED BY <2>1, <2>2
<1>5. PushedOnce'
  BY <1>1, Basics DEF PushedOnce
<1>6. /\ saved' = [m \in Node |-> saved'[m]] /\ \A m \in Node : saved'[m] \subseteq saved[m] \cup {e}
      /\ shown' = [x \in User |-> shown'[x]] /\ \A x \in User : shown'[x] \subseteq shown[x] \cup {e}
  BY <1>1, Basics
<1> QED BY <1>1, <1>2, <1>3, <1>4, <1>5, <1>6 DEF AppliedWell, Housed

\* MESSAGE: what is new to the table is new to the sessions.
LEMMA MessageWell ==
    ASSUME IInv, NEW n \in Node, NEW ev \in Event, NEW e, UNCHANGED granted,
           ApplyMessage(n, e, ev)
    PROVE  AppliedWell(e)
<1>0. UNCHANGED <<rooms, nextId, allow, at, place>>
  BY DEF ApplyMessage
<1>1. Tables' /\ ListedByRight' /\ Evolved
  BY <1>0, Basics DEF Tables, RowsAt, ListedByRight, Evolved
<1>2. CASE Exists(n, ev.room) /\ e \notin saved[n]
  <2>1. /\ saved' = [saved EXCEPT ![n] = @ \cup {e}]
        /\ shown' = [u \in User |-> IF u \in Members(n, ev.room)
                                    THEN shown[u] \cup {e} ELSE shown[u]]
        /\ twice' = (twice \/ \E u \in Members(n, ev.room) : e \in shown[u])
    BY <1>2 DEF ApplyMessage
  <2>2. \A u \in User : shown[u] \subseteq saved[at[u]]
    BY Basics DEF PushedOnce
  <2>3. \A u \in Members(n, ev.room) : e \notin shown[u] /\ at[u] = n /\ u \in User
    BY <1>2, <2>2 DEF Members
  <2>4. ~twice'
    BY <2>1, <2>3, Basics DEF PushedOnce
  <2>5. saved'[n] = saved[n] \cup {e} /\ \A m \in Node : m # n => saved'[m] = saved[m]
    BY <2>1, Basics
  <2>6. ASSUME NEW u \in User PROVE shown'[u] \subseteq saved'[at'[u]]
    <3>1. at[u] \in Node /\ at'[u] = at[u]
      BY <1>0, Basics
    <3> QED BY <2>1, <2>2, <2>3, <2>5, <3>1
  <2>7. PushedOnce'
    BY <2>4, <2>6 DEF PushedOnce
  <2>8. \A x \in User : Entitled(x)' <=> Entitled(x)
    BY <1>0 DEF Entitled, Listed
  <2>9. Housed'
    BY <1>0, Basics DEF Housed
  <2>10. /\ saved' = [m \in Node |-> saved'[m]]
         /\ \A m \in Node : saved'[m] \subseteq saved[m] \cup {e}
         /\ shown' = [x \in User |-> shown'[x]]
         /\ \A x \in User : shown'[x] \subseteq shown[x] \cup {e}
    BY <2>1, <2>5, Basics
  <2> QED BY <1>0, <1>1, <2>7, <2>8, <2>9, <2>10, Basics DEF AppliedWell
<1>3. CASE ~(Exists(n, ev.room) /\ e \notin saved[n])
  <2>1. UNCHANGED <<saved, shown, twice>>
    BY <1>3 DEF ApplyMessage
  <2> QED BY <1>0, <1>1, <2>1, GrowsWell
<1> QED BY <1>2, <1>3

\* applyEvent.
LEMMA EventWell ==
    ASSUME IInv, NEW n \in Node, NEW ev \in Event, NEW e, Right(ev), UNCHANGED granted,
           ApplyEvent(n, e, ev)
    PROVE  AppliedWell(e)
BY CreatedWell, AclAddWell, DeletedWell, KickWell, MessageWell DEF ApplyEvent, Right

-----------------------------------------------------------------------------
(***************************************************************************)
(* The handlers.                                                           *)
(***************************************************************************)

\* The stages of a handler.
LEMMA OpStages ==
    ASSUME NEW u \in User
    PROVE  /\ Idle \in OpType /\ Idle.pc = "idle"
           /\ \A r \in Room, row \in RoomRow :
                 /\ Entering(r, row) \in OpType
                 /\ Entering(r, row).pc = "enter" /\ Entering(r, row).to = r
                 /\ Entering(r, row).copy = row
           /\ \A ev \in Event :
                 /\ Rumoring(ev) \in OpType /\ Rumoring(ev).pc = "rumor" /\ Rumoring(ev).ev = ev
                 /\ Expelling(ev) \in OpType /\ Expelling(ev).pc = "expel"
                 /\ Expelling(ev).ev = ev
<1>1. (CHOOSE x \in User : TRUE) \in User
  OBVIOUS
<1>2. NoEvent \in Event
  BY <1>1 DEF NoEvent, Say, Event, Kind, Room, Privacy
<1>3. NoRoom \in RoomRow
  BY DEF NoRoom, RoomRow, Privacy
<1>4. Idle \in OpType /\ Idle.pc = "idle"
  BY <1>2, <1>3 DEF Idle, OpType, Room
<1> HIDE DEF NoEvent
<1>5. \A r \in Room, row \in RoomRow :
         /\ Entering(r, row) \in OpType
         /\ Entering(r, row).pc = "enter" /\ Entering(r, row).to = r
         /\ Entering(r, row).copy = row
  BY <1>4 DEF Entering, Idle, OpType
<1>6. \A ev \in Event :
         /\ Rumoring(ev) \in OpType /\ Rumoring(ev).pc = "rumor" /\ Rumoring(ev).ev = ev
         /\ Expelling(ev) \in OpType /\ Expelling(ev).pc = "expel" /\ Expelling(ev).ev = ev
  BY <1>4 DEF Rumoring, Expelling, Idle, OpType
<1> QED BY <1>4, <1>5, <1>6

\* The events handlers make.
LEMMA SayFields ==
    ASSUME NEW k \in Kind, NEW u \in User, NEW r \in Room, NEW p \in Privacy
    PROVE  /\ Say(k, u, r, p) \in Event
           /\ Say(k, u, r, p).kind = k /\ Say(k, u, r, p).user = u /\ Say(k, u, r, p).room = r
BY DEF Say, Event

\* The conjuncts of IInv, in the words of the lemmas above.
LEMMA Together ==
    ASSUME events' \in Seq(Event), got' \in [Node -> SUBSET (1..Len(events'))],
           saved' \in [Node -> SUBSET (1..Len(events'))],
           shown' \in [User -> SUBSET (1..Len(events'))],
           at' \in [User -> Node], place' \in [User -> Room], op' \in [User -> OpType],
           Tables', ListedByRight', Housed', PushedOnce', Backed', Copies', ClosedRooms'
    PROVE  IInv'
<1>1. TypeOK'
  BY DEF TypeOK, Tables, Housed, OpType
<1> QED BY <1>1 DEF IInv

\* A request whose change of the tables is all right leaves everything so.
LEMMA Begun ==
    ASSUME IInv, NEW u \in User, NEW o \in OpType, NEW e, Begin(u, o), AppliedWell(e),
           UNCHANGED <<events, got, raced>>, granted \subseteq granted',
           saved' \in [Node -> SUBSET (1..Len(events))],
           shown' \in [User -> SUBSET (1..Len(events))],
           o.pc \in {"expel", "rumor"} => Right(o.ev)',
           o.pc = "enter" => CopyOk(u)'
    PROVE  IInv'
<1>1. op[u].pc = "idle" /\ op' = [op EXCEPT ![u] = o]
  BY DEF Begin
<1>2. /\ op' \in [User -> OpType] /\ op'[u] = o
      /\ \A x \in User : x # u => op'[x] = op[x]
  BY <1>1, Basics
<1>3. Backed'
  <2>1. \A ev \in Event : Right(ev) => Right(ev)'
    BY DEF Right
  <2>2. \A x \in 1..Len(events) : events[x] \in Event
    BY Basics
  <2>3. \A x \in User : op[x].ev \in Event
    BY Basics DEF OpType
  <2>4. \A x \in 1..Len(events) : Right(events[x])'
    BY <2>1, <2>2, Basics DEF Backed, Right
  <2>5. \A x \in User : x # u /\ op[x].pc \in {"expel", "rumor"} => Right(op[x].ev)
    BY Basics DEF Backed
  <2>6. ASSUME NEW x \in User, op'[x].pc \in {"expel", "rumor"} PROVE Right(op[x].ev)'
    <3>1. CASE x = u
      BY <1>2, <2>6, <3>1 DEF Right
    <3>2. CASE x # u
      BY <1>2, <2>5, <2>6, <3>2 DEF Right
    <3> QED BY <3>1, <3>2
  <2> QED BY <2>4, <2>6 DEF Backed
<1>4. Copies'
  <2>1. SUFFICES ASSUME NEW x \in User, x # u PROVE CopyOk(x)'
    <3>1. CopyOk(u)'
      BY <1>2 DEF CopyOk
    <3> QED BY <2>1, <3>1 DEF Copies
  <2>2. CopyOk(x) /\ op'[x] = op[x] /\ at'[x] = at[x] /\ at[x] \in Node /\ op[x].copy \in RoomRow
    BY <1>2, <2>1, Basics DEF Copies, AppliedWell, OpType
  <2>3. nextId[at[x]] \in Nat /\ nextId'[at[x]] \in Nat /\ op[x].copy.id \in Nat
    BY <2>2, Basics DEF AppliedWell, Tables, RoomRow
  <2> QED BY <2>2, <2>3 DEF CopyOk, AppliedWell, Evolved
<1>5. ClosedRooms'
  <2>1. \A x \in User : \/ Entitled(x)'
                        \/ ~Entitled(x) /\ place'[x] = place[x] /\ at'[x] = at[x]
    BY DEF AppliedWell
  <2>2. \A v \in User : op[v].pc = "expel" =>
           op'[v].pc = "expel" /\ op'[v].ev = op[v].ev /\ at'[v] = at[v]
    BY <1>1, <1>2 DEF AppliedWell
  <2>3. ClosedRooms /\ raced \subseteq raced'
    BY Basics
  <2> QED BY <2>1, <2>2, <2>3, ClosedKept
<1> QED BY <1>2, <1>3, <1>4, <1>5, Basics, Together DEF AppliedWell

\* A step that leaves tables and sessions alone is applied well.
LEMMA NothingApplied ==
    ASSUME IInv, NEW e, UNCHANGED <<rooms, nextId, allow, saved, at, place, shown, twice, granted>>
    PROVE  AppliedWell(e)
<1>1. Tables' /\ ListedByRight' /\ Evolved
  BY Basics DEF Tables, RowsAt, ListedByRight, Evolved
<1> QED BY <1>1, GrowsWell

\* The check of ROOM_JOIN: the copy it takes is of the room it checked.
LEMMA RoomJoinKeeps ==
    ASSUME IInv, NEW u \in User, NEW r \in Room, RoomJoin(u, r)
    PROVE  IInv'
<1>1. /\ UNCHANGED <<rooms, nextId, allow, saved, at, place, shown, twice, granted>>
      /\ UNCHANGED <<events, got, raced>>
  BY DEF RoomJoin, bus, tables, sessions, history
<1>2. PICK o \in OpType : /\ o = Entering(r, rooms[at[u]][r])
                          /\ o.pc = "enter" /\ o.copy = rooms[at[u]][r]
  <2>1. rooms[at[u]][r] \in RoomRow
    BY Basics DEF Tables
  <2> QED BY <2>1, OpStages
<1>3. Begin(u, o) /\ rooms[at[u]][r].id # 0
  BY <1>2 DEF RoomJoin, Admissible, Exists
<1>4. CopyOk(u)'
  <2>1. op'[u] = o
    BY <1>3, Basics DEF Begin
  <2>2. RowsAt(at[u]) /\ at[u] \in Node
    BY Basics DEF Tables
  <2>3. \A q \in Room : rooms[at[u]][q].id = rooms[at[u]][r].id => q = r
    BY <1>3, <2>2 DEF RowsAt
  <2>4. rooms[at[u]][r].id < nextId[at[u]]
    BY <2>2 DEF RowsAt
  <2> QED BY <1>1, <1>2, <1>3, <2>1, <2>3, <2>4 DEF CopyOk
<1>5. AppliedWell(0)
  BY <1>1, NothingApplied
<1>6. saved' \in [Node -> SUBSET (1..Len(events))] /\ shown' \in [User -> SUBSET (1..Len(events))]
  BY <1>1, Basics
<1> QED BY <1>1, <1>2, <1>3, <1>4, <1>5, <1>6, Begun

\* MESSAGE reads the session and changes no table.
LEMMA MessageKeeps ==
    ASSUME IInv, NEW u \in User, Message(u)
    PROVE  IInv'
<1>1. /\ UNCHANGED <<rooms, nextId, allow, saved, at, place, shown, twice, granted>>
      /\ UNCHANGED <<events, got, raced>>
  BY DEF Message, bus, tables, sessions, history
<1>2. PICK ev \in Event : ev = Say("MESSAGE", u, place[u], "PUBLIC") /\ ev.kind = "MESSAGE"
  <2>1. place[u] \in Room /\ "MESSAGE" \in Kind /\ "PUBLIC" \in Privacy
    BY Basics DEF Kind, Privacy
  <2> QED BY <2>1, SayFields
<1>3. PICK o \in OpType : o = Rumoring(ev) /\ o.pc = "rumor" /\ o.ev = ev
  BY OpStages
<1>4. Begin(u, o)
  BY <1>2, <1>3 DEF Message
<1>5. AppliedWell(0)
  BY <1>1, NothingApplied
<1>6. saved' \in [Node -> SUBSET (1..Len(events))] /\ shown' \in [User -> SUBSET (1..Len(events))]
  BY <1>1, Basics
<1>7. Right(o.ev)'
  BY <1>2, <1>3 DEF Right
<1> QED BY <1>1, <1>3, <1>4, <1>5, <1>6, <1>7, Begun

\* ROOM_CREATE: the creator has the right that his event claims.
LEMMA RoomCreateKeeps ==
    ASSUME IInv, NEW u \in User, NEW r \in Extra, NEW privacy \in Privacy,
           RoomCreate(u, r, privacy)
    PROVE  IInv'
<1>0. r \in Room /\ at[u] \in Node
  BY Basics DEF Room
<1>1. /\ UNCHANGED <<events, got, raced, at, place, shown, saved, twice>>
      /\ granted' = granted \cup {<<u, r, TRUE>>}
      /\ NewRoom(at[u], r, privacy, u) /\ ~Exists(at[u], r)
  BY DEF RoomCreate, bus, sessions, history, NewRoom
<1>2. PICK ev \in Event : /\ ev = Say("ROOM_CREATED", u, r, privacy) /\ ev.kind = "ROOM_CREATED"
                          /\ ev.user = u /\ ev.room = r
  <2>1. "ROOM_CREATED" \in Kind
    BY DEF Kind
  <2> QED BY <1>0, <2>1, SayFields
<1>3. PICK o \in OpType : o = Rumoring(ev) /\ o.pc = "rumor" /\ o.ev = ev
  BY OpStages
<1>4. Begin(u, o)
  BY <1>2, <1>3 DEF RoomCreate
<1>5. AppliedWell(0)
  <2>1. Tables /\ ListedByRight /\ granted \subseteq granted' /\ <<u, r, TRUE>> \in granted'
    BY <1>1, Basics
  <2>2. /\ Tables' /\ ListedByRight' /\ Evolved
        /\ \A m \in Node : allow[m] \subseteq allow'[m]
        /\ \A m \in Node, q \in Room : Exists(m, q) => rooms'[m][q] = rooms[m][q]
    BY <1>0, <1>1, <2>1, NewStep
  <2> QED BY <1>1, <2>2, GrowsWell
<1>6. saved' \in [Node -> SUBSET (1..Len(events))] /\ shown' \in [User -> SUBSET (1..Len(events))]
  BY <1>1, Basics
<1>7. Right(o.ev)' /\ granted \subseteq granted'
  BY <1>1, <1>2, <1>3 DEF Right
<1> QED BY <1>1, <1>3, <1>4, <1>5, <1>6, <1>7, Begun

\* ROOM_INVITE: the invited user has the right that the event claims.
LEMMA RoomInviteKeeps ==
    ASSUME IInv, NEW u \in User, NEW r \in Extra, NEW v \in User, RoomInvite(u, r, v)
    PROVE  IInv'
<1>0. r \in Room /\ at[u] \in Node /\ FALSE \in BOOLEAN
  BY Basics DEF Room
<1>1. /\ UNCHANGED <<events, got, raced, at, place, shown, saved, twice, rooms, nextId>>
      /\ granted' = granted \cup {<<v, r, FALSE>>}
      /\ AddToAllowList(at[u], rooms[at[u]][r].id, v, FALSE) /\ Exists(at[u], r)
  BY DEF RoomInvite, bus, sessions, history
<1>2. PICK ev \in Event : /\ ev = Say("ROOM_ACL_ADD", v, r, "PUBLIC") /\ ev.kind = "ROOM_ACL_ADD"
                          /\ ev.user = v /\ ev.room = r
  <2>1. "ROOM_ACL_ADD" \in Kind /\ "PUBLIC" \in Privacy
    BY DEF Kind, Privacy
  <2> QED BY <1>0, <2>1, SayFields
<1>3. PICK o \in OpType : o = Rumoring(ev) /\ o.pc = "rumor" /\ o.ev = ev
  BY OpStages
<1>4. Begin(u, o)
  BY <1>2, <1>3 DEF RoomInvite
<1>5. AppliedWell(0)
  <2>1. Tables /\ ListedByRight /\ granted \subseteq granted' /\ <<v, r, FALSE>> \in granted'
    BY <1>1, Basics
  <2>2. /\ Tables' /\ ListedByRight' /\ Evolved
        /\ \A m \in Node : allow[m] \subseteq allow'[m]
    BY <1>0, <1>1, <2>1, AddStep
  <2> QED BY <1>1, <2>2, GrowsWell
<1>6. saved' \in [Node -> SUBSET (1..Len(events))] /\ shown' \in [User -> SUBSET (1..Len(events))]
  BY <1>1, Basics
<1>7. Right(o.ev)' /\ granted \subseteq granted'
  BY <1>1, <1>2, <1>3 DEF Right
<1> QED BY <1>1, <1>3, <1>4, <1>5, <1>6, <1>7, Begun

\* ROOM_DELETE: never the Lobby; the members are moved.
LEMMA RoomDeleteKeeps ==
    ASSUME IInv, NEW u \in User, NEW r \in Room, RoomDelete(u, r)
    PROVE  IInv'
<1>0. at[u] \in Node
  BY Basics
<1>1. /\ UNCHANGED <<events, got, raced, granted, twice>>
      /\ EraseRoom(at[u], r) /\ r # Lobby
  BY DEF RoomDelete, bus, history
<1>2. PICK ev \in Event : /\ ev = Say("ROOM_DELETED", u, r, "PUBLIC") /\ ev.kind = "ROOM_DELETED"
                          /\ ev.room = r
  <2>1. "ROOM_DELETED" \in Kind /\ "PUBLIC" \in Privacy
    BY DEF Kind, Privacy
  <2> QED BY <2>1, SayFields
<1>3. PICK o \in OpType : o = Rumoring(ev) /\ o.pc = "rumor" /\ o.ev = ev
  BY OpStages
<1>4. Begin(u, o)
  BY <1>2, <1>3 DEF RoomDelete
<1>5. AppliedWell(0)
  BY <1>0, <1>1, ErasedWell
<1>6. saved' \in [Node -> SUBSET (1..Len(events))] /\ shown' \in [User -> SUBSET (1..Len(events))]
  BY <1>1, Basics DEF EraseRoom
<1>7. Right(o.ev)' /\ granted \subseteq granted'
  BY <1>1, <1>2, <1>3 DEF Right
<1> QED BY <1>1, <1>3, <1>4, <1>5, <1>6, <1>7, Begun

\* ROOM_KICK: whoever loses his row is about to be expelled.
LEMMA RoomKickKeeps ==
    ASSUME IInv, NEW u \in User, NEW r \in Room, NEW v \in User, RoomKick(u, r, v)
    PROVE  IInv'
<1> DEFINE n == at[u]
<1>0. n \in Node
  BY Basics
<1>1. /\ UNCHANGED <<events, got, raced, granted, twice, rooms, nextId, saved, at, place, shown>>
      /\ RemoveFromAllowList(n, rooms[n][r].id, v) /\ Exists(n, r)
  BY DEF RoomKick, bus, sessions, history
<1>2. PICK ev \in Event : /\ ev = Say("ROOM_KICK", v, r, "PUBLIC") /\ ev.kind = "ROOM_KICK"
                          /\ ev.room = r /\ ev.user = v
  <2>1. "ROOM_KICK" \in Kind /\ "PUBLIC" \in Privacy
    BY DEF Kind, Privacy
  <2> QED BY <2>1, SayFields
<1>3. PICK o \in OpType : o = Expelling(ev) /\ o.pc = "expel" /\ o.ev = ev
  BY OpStages
<1>4. op[u].pc = "idle" /\ op' = [op EXCEPT ![u] = o]
  BY <1>2, <1>3 DEF RoomKick, Begin
<1>5. /\ op' \in [User -> OpType] /\ op'[u] = o
      /\ \A x \in User : x # u => op'[x] = op[x]
  BY <1>4, Basics
<1>6. /\ Tables' /\ ListedByRight' /\ Evolved
      /\ \A m \in Node, q \in Room, x \in User : m # n \/ q # r \/ x # v => StaysListed(m, q, x)
  <2>1. Tables /\ ListedByRight /\ granted \subseteq granted' /\ n \in Node
        /\ RemoveFromAllowList(n, rooms[n][r].id, v) /\ Exists(n, r)
    BY <1>0, <1>1, Basics
  <2> HIDE DEF n
  <2> QED BY <1>1, <2>1, RemoveStep
<1>7. Backed'
  <2>1. Right(o.ev)'
    BY <1>2, <1>3 DEF Right
  <2>2. \A x \in 1..Len(events) : Right(events[x])
    BY Basics DEF Backed
  <2>3. \A x \in User : op[x].pc \in {"expel", "rumor"} => Right(op[x].ev)
    BY Basics DEF Backed
  <2> QED BY <1>1, <1>5, <2>1, <2>2, <2>3 DEF Backed, Right
<1>8. Copies'
  <2>1. \A x \in User : op'[x].pc = "enter" /\ op'[x].copy # NoRoom =>
           op'[x] = op[x] /\ at'[x] = at[x]
    BY <1>1, <1>3, <1>5
  <2> QED BY <1>6, <2>1, Basics, CopiesKept
<1>9. ClosedRooms'
  <2>1. SUFFICES ASSUME NEW x \in User \ Admin, ~Entitled(x)'
                 PROVE  x \in raced' \/ Expelled(x)'
    BY ClosedMeans
  <2>2. at[x] \in Node /\ place[x] \in Room /\ at'[x] = at[x] /\ place'[x] = place[x]
    BY <1>1, Basics
  <2>3. CASE at[x] = n /\ place[x] = r /\ x = v
    BY <1>1, <1>2, <1>3, <1>5, <2>2, <2>3 DEF Expelled
  <2>4. CASE ~(at[x] = n /\ place[x] = r /\ x = v)
    <3>1. StaysListed(at[x], place[x], x)
      BY <1>6, <2>2, <2>4
    <3>2. ~Entitled(x)
      BY <1>1, <2>1, <2>2, <3>1, EntitledKept
    <3>3. x \in raced \/ Expelled(x)
      BY <3>2, Basics, ClosedMeans
    <3>4. Expelled(x) => Expelled(x)'
      BY <1>1, <1>4, <1>5 DEF Expelled
    <3> QED BY <1>1, <3>3, <3>4
  <2> QED BY <2>3, <2>4
<1>10. Housed' /\ PushedOnce'
  BY <1>1, Basics DEF Housed, PushedOnce
<1> QED BY <1>1, <1>5, <1>6, <1>7, <1>8, <1>9, <1>10, Basics, Together

\* The kicked user, who is struck off, is in the Lobby now.
LEMMA ExpelKeeps ==
    ASSUME IInv, NEW u \in User, Expel(u)
    PROVE  IInv'
<1> DEFINE ev == op[u].ev
           n == at[u]
<1>0. n \in Node /\ ev \in Event
  BY Basics DEF OpType
<1>1. /\ UNCHANGED <<events, got, raced, granted, twice, rooms, nextId, allow, saved, at, shown>>
      /\ op[u].pc = "expel" /\ op' = [op EXCEPT ![u] = Rumoring(ev)]
      /\ place' = [x \in User |-> IF x \in {ev.user} \cap Members(n, ev.room)
                                  THEN Lobby ELSE place[x]]
  BY DEF Expel, bus, tables, limits, history, ToLobby
<1>2. PICK o \in OpType : o = Rumoring(ev) /\ o.pc = "rumor" /\ o.ev = ev
  BY <1>0, OpStages
<1>3. /\ op' \in [User -> OpType] /\ op'[u] = o
      /\ \A x \in User : x # u => op'[x] = op[x]
  BY <1>1, <1>2, Basics
<1>4. Tables' /\ ListedByRight' /\ Evolved
  BY <1>1, Basics DEF Tables, RowsAt, ListedByRight, Evolved
<1>5. Right(ev) /\ (\A x \in 1..Len(events) : Right(events[x]))
      /\ \A x \in User : op[x].pc \in {"expel", "rumor"} => Right(op[x].ev)
  BY <1>1, Basics DEF Backed
<1> HIDE DEF ev, n
<1>6. Backed'
  BY <1>1, <1>2, <1>3, <1>5 DEF Backed, Right
<1>7. Copies'
  <2>1. \A x \in User : op'[x].pc = "enter" /\ op'[x].copy # NoRoom =>
           op'[x] = op[x] /\ at'[x] = at[x]
    BY <1>1, <1>2, <1>3
  <2> QED BY <1>4, <2>1, Basics, CopiesKept
<1>8. place' \in [User -> Room]
  BY <1>1, Basics DEF Room
<1>9. ASSUME NEW x \in User
      PROVE  /\ rooms'[at'[x]][place'[x]].id # 0
             /\ x \in Admin \/ Entitled(x)' \/ x \in raced' \/ Expelled(x)'
  <2>0. at'[x] = at[x] /\ at[x] \in Node
    BY <1>1, Basics
  <2>1. CASE x \in {ev.user} \cap Members(n, ev.room)
    BY <1>1, <1>4, <2>0, <2>1, LobbyOpen
  <2>2. CASE x \notin {ev.user} \cap Members(n, ev.room)
    <3>1. place'[x] = place[x]
      BY <1>1, <2>2
    <3>2. rooms[at[x]][place[x]].id # 0
      BY Basics DEF Housed
    <3>3. x \in Admin \/ Entitled(x) \/ x \in raced \/ Expelled(x)
      BY Basics, ClosedMeans
    <3>4. Entitled(x) => Entitled(x)'
      BY <1>1, <2>0, <3>1 DEF Entitled, Listed
    <3>5. Expelled(x) => Expelled(x)'
      <4>1. SUFFICES ASSUME NEW w \in User, at[w] = at[x], op[w].pc = "expel",
                            op[w].ev.user = x, op[w].ev.room = place[x]
                     PROVE  Expelled(x)'
        BY DEF Expelled
      <4>2. w # u
        BY <2>2, <4>1 DEF Members, ev, n
      <4> QED BY <1>1, <1>3, <2>0, <3>1, <4>1, <4>2 DEF Expelled
    <3> QED BY <1>1, <2>0, <3>1, <3>2, <3>3, <3>4, <3>5
  <2> QED BY <2>1, <2>2
<1>10. Housed' /\ ClosedRooms'
  BY <1>9, ClosedMeans DEF Housed
<1>11. PushedOnce'
  BY <1>1, Basics DEF PushedOnce
<1> QED BY <1>1, <1>3, <1>4, <1>6, <1>7, <1>8, <1>10, <1>11, Basics, Together

\* joinRoom: the row goes to the room it was looked up for, if that is there, and
\* the user into the room that has the name.
LEMMA EnterKeeps ==
    ASSUME IInv, NEW u \in User, Enter(u)
    PROVE  IInv'
<1> DEFINE n == at[u]
           o == op[u]
           row == IF o.copy = NoRoom THEN rooms[n][o.to] ELSE o.copy
           adds == Exists(n, o.to) /\ row.privacy = "PUBLIC" /\ row.id \in Ids(n)
<1>0. n \in Node /\ o \in OpType /\ o.to \in Room /\ o.copy \in RoomRow
  BY Basics DEF OpType
<1>1. /\ UNCHANGED <<events, got, granted, twice, rooms, nextId, saved, at, shown>>
      /\ o.pc = "enter" /\ op' = [op EXCEPT ![u] = Idle]
      /\ place' = [place EXCEPT ![u] = IF Exists(n, o.to) THEN o.to ELSE @]
      /\ raced' = IF Admissible(n, u, o.to) THEN raced \ {u} ELSE raced \cup {u}
  BY DEF Enter, bus, limits
<1>2. /\ adds => AddToAllowList(n, row.id, u, FALSE)
      /\ ~adds => UNCHANGED allow
  BY DEF Enter
<1>3. Tables' /\ ListedByRight' /\ Evolved /\ \A m \in Node : allow[m] \subseteq allow'[m]
  <2>1. CASE adds
    <3>1. PICK q \in Room : rooms[n][q].id = row.id /\ row.id # 0
      BY <2>1 DEF Ids
    <3>2. CASE o.copy = NoRoom
      <4>1. rooms[n][o.to].privacy = "PUBLIC" /\ row.id = rooms[n][o.to].id
        BY <2>1, <3>2
      <4>2. Tables /\ ListedByRight /\ Exists(n, o.to) /\ FALSE \in BOOLEAN
            /\ AddToAllowList(n, rooms[n][o.to].id, u, FALSE)
            /\ granted \subseteq granted'
        BY <1>1, <1>2, <2>1, <4>1, Basics
      <4> HIDE DEF n, o, row, adds
      <4> QED BY <1>0, <1>1, <4>1, <4>2, AddStep
    <3>3. CASE o.copy # NoRoom
      <4>1. rooms[n][q].privacy = "PUBLIC" /\ rooms[n][q].id = o.copy.id
        BY <1>1, <2>1, <3>1, <3>3, Basics DEF Copies, CopyOk
      <4>2. Tables /\ ListedByRight /\ Exists(n, q) /\ FALSE \in BOOLEAN
            /\ AddToAllowList(n, rooms[n][q].id, u, FALSE)
            /\ granted \subseteq granted'
        BY <1>1, <1>2, <2>1, <3>1, <4>1, Basics DEF Exists
      <4> HIDE DEF n, o, row, adds
      <4> QED BY <1>0, <1>1, <4>1, <4>2, AddStep
    <3> QED BY <3>2, <3>3
  <2>2. CASE ~adds
    BY <1>1, <1>2, <2>2, Basics DEF Tables, RowsAt, ListedByRight, Evolved
  <2> QED BY <2>1, <2>2
<1>4. /\ op' \in [User -> OpType] /\ op'[u].pc = "idle"
      /\ \A x \in User : x # u => op'[x] = op[x]
  BY <1>1, Basics, OpStages
<1> HIDE DEF adds, row
<1>5. Backed'
  <2>1. (\A x \in 1..Len(events) : Right(events[x]))
        /\ \A x \in User : op[x].pc \in {"expel", "rumor"} => Right(op[x].ev)
    BY Basics DEF Backed
  <2> QED BY <1>1, <1>4, <2>1 DEF Backed, Right
<1>6. Copies'
  <2>1. \A x \in User : op'[x].pc = "enter" /\ op'[x].copy # NoRoom =>
           op'[x] = op[x] /\ at'[x] = at[x]
    BY <1>1, <1>4
  <2> QED BY <1>3, <2>1, Basics, CopiesKept
<1>7. /\ place' \in [User -> Room] /\ place'[u] = (IF Exists(n, o.to) THEN o.to ELSE place[u])
      /\ \A x \in User : x # u => place'[x] = place[x]
  BY <1>0, <1>1, Basics
<1>8. ASSUME NEW x \in User
      PROVE  /\ rooms'[at'[x]][place'[x]].id # 0
             /\ x \in Admin \/ Entitled(x)' \/ x \in raced' \/ Expelled(x)'
  <2>0. at'[x] = at[x] /\ at[x] \in Node /\ place[x] \in Room /\ rooms[at[x]][place[x]].id # 0
    BY <1>1, Basics DEF Housed
  <2>1. CASE x = u
    <3>1. rooms'[at'[x]][place'[x]].id # 0
      BY <1>1, <1>7, <2>0, <2>1 DEF Exists
    <3>2. CASE Admissible(n, u, o.to)
      <4>1. place'[u] = o.to /\ (\/ rooms[n][o.to].privacy = "PUBLIC"
                                 \/ u \in Admin
                                 \/ Listed(n, rooms[n][o.to].id, u))
        BY <1>7, <3>2 DEF Admissible
      <4>2. Listed(n, rooms[n][o.to].id, u) =>
               \E w \in allow'[n] : w.id = rooms[n][o.to].id /\ w.user = u
        BY <1>0, <1>3 DEF Listed
      <4>3. u \in Admin \/ Entitled(u)'
        BY <1>1, <4>1, <4>2 DEF Entitled, Listed
      <4> QED BY <2>1, <3>1, <4>3
    <3>3. CASE ~Admissible(n, u, o.to)
      BY <1>1, <2>1, <3>1, <3>3
    <3> QED BY <3>2, <3>3
  <2>2. CASE x # u
    <3>1. place'[x] = place[x]
      BY <1>7, <2>2
    <3>3. x \in Admin \/ Entitled(x) \/ x \in raced \/ Expelled(x)
      BY Basics, ClosedMeans
    <3>4. Entitled(x) => Entitled(x)'
      <4>1. StaysListed(at[x], place[x], x)
        BY <1>3, <2>0 DEF StaysListed, Listed
      <4> QED BY <1>1, <2>0, <3>1, <4>1, EntitledKept
    <3>5. Expelled(x) => Expelled(x)'
      BY <1>1, <1>4, <2>0, <3>1 DEF Expelled
    <3>6. x \in raced => x \in raced'
      BY <1>1, <2>2
    <3> QED BY <1>1, <2>0, <3>1, <3>3, <3>4, <3>5, <3>6
  <2> QED BY <2>1, <2>2
<1>9. Housed' /\ ClosedRooms'
  BY <1>8, ClosedMeans DEF Housed
<1>10. PushedOnce'
  BY <1>1, Basics DEF PushedOnce
<1> QED BY <1>1, <1>3, <1>4, <1>5, <1>6, <1>7, <1>9, <1>10, Basics, Together

\* RECONNECT: the session is in the Lobby of its new node.
LEMMA ReconnectKeeps ==
    ASSUME IInv, NEW u \in User, NEW n \in Node, NEW r \in Room, Reconnect(u, n, r)
    PROVE  IInv'
<1> DEFINE o == IF r # Lobby /\ Admissible(n, u, r) THEN Entering(r, NoRoom) ELSE Idle
<1>1. /\ UNCHANGED <<events, got, granted, twice, rooms, nextId, allow, saved, raced>>
      /\ op[u].pc = "idle" /\ op' = [op EXCEPT ![u] = o]
      /\ at' = [at EXCEPT ![u] = n] /\ place' = [place EXCEPT ![u] = Lobby]
      /\ shown' = [shown EXCEPT ![u] = {}]
  BY DEF Reconnect, bus, tables, history
<1>2. o \in OpType /\ o.pc \in {"idle", "enter"} /\ (o.pc = "enter" => o.copy = NoRoom)
  <2>1. NoRoom \in RoomRow
    BY DEF NoRoom, RoomRow, Privacy
  <2> HIDE DEF NoRoom
  <2> QED BY <2>1, OpStages
<1> HIDE DEF o
<1>3. /\ op' \in [User -> OpType] /\ op'[u] = o
      /\ \A x \in User : x # u => op'[x] = op[x]
  BY <1>1, <1>2, Basics
<1>4. Tables' /\ ListedByRight' /\ Evolved
  BY <1>1, Basics DEF Tables, RowsAt, ListedByRight, Evolved
<1>5. Backed'
  <2>1. (\A x \in 1..Len(events) : Right(events[x]))
        /\ \A x \in User : op[x].pc \in {"expel", "rumor"} => Right(op[x].ev)
    BY Basics DEF Backed
  <2> QED BY <1>1, <1>2, <1>3, <2>1 DEF Backed, Right
<1>6. /\ at' \in [User -> Node] /\ at'[u] = n /\ place' \in [User -> Room] /\ place'[u] = Lobby
      /\ shown' \in [User -> SUBSET (1..Len(events))] /\ shown'[u] = {}
      /\ \A x \in User : x # u => at'[x] = at[x] /\ place'[x] = place[x] /\ shown'[x] = shown[x]
  BY <1>1, Basics DEF Room
<1>7. Copies'
  <2>1. \A x \in User : op'[x].pc = "enter" /\ op'[x].copy # NoRoom =>
           op'[x] = op[x] /\ at'[x] = at[x]
    BY <1>2, <1>3, <1>6
  <2> QED BY <1>4, <2>1, Basics, CopiesKept
<1>8. ASSUME NEW x \in User
      PROVE  /\ rooms'[at'[x]][place'[x]].id # 0
             /\ x \in Admin \/ Entitled(x)' \/ x \in raced' \/ Expelled(x)'
  <2>1. CASE x = u
    BY <1>4, <1>6, <2>1, LobbyOpen
  <2>2. CASE x # u
    <3>1. x \in Admin \/ Entitled(x) \/ x \in raced \/ Expelled(x)
      BY Basics, ClosedMeans
    <3>2. Entitled(x) => Entitled(x)'
      BY <1>1, <1>6, <2>2 DEF Entitled, Listed
    <3>3. Expelled(x) => Expelled(x)'
      BY <1>1, <1>3, <1>6, <2>2 DEF Expelled
    <3>4. rooms[at[x]][place[x]].id # 0
      BY Basics DEF Housed
    <3> QED BY <1>1, <1>6, <2>2, <3>1, <3>2, <3>3, <3>4
  <2> QED BY <2>1, <2>2
<1>9. Housed' /\ ClosedRooms'
  BY <1>8, ClosedMeans DEF Housed
<1>10. PushedOnce'
  <2>1. \A x \in User : shown'[x] \subseteq saved'[at'[x]]
    BY <1>1, <1>6, Basics DEF PushedOnce
  <2> QED BY <1>1, <2>1, Basics DEF PushedOnce
<1> QED BY <1>1, <1>3, <1>4, <1>5, <1>6, <1>7, <1>9, <1>10, Basics, Together

\* An event that is applied well leaves everything well.
LEMMA EventKeeps ==
    ASSUME IInv, events' \in Seq(Event), Len(events) <= Len(events'), NEW e \in 1..Len(events'),
           AppliedWell(e), UNCHANGED raced, got' \in [Node -> SUBSET (1..Len(events'))],
           op' \in [User -> OpType],
           \A x \in User : op[x].pc = "expel" \/ op'[x].pc = "enter" => op'[x] = op[x],
           Backed'
    PROVE  IInv'
<1>0. Len(events) \in Nat /\ Len(events') \in Nat
  BY Basics
<1>1. saved' \in [Node -> SUBSET (1..Len(events'))]
  <2>1. \A m \in Node : saved[m] \subseteq 1..Len(events) /\ saved'[m] \subseteq saved[m] \cup {e}
    BY Basics DEF AppliedWell
  <2>2. \A m \in Node : saved'[m] \subseteq 1..Len(events')
    BY <1>0, <2>1
  <2> QED BY <2>2 DEF AppliedWell
<1>2. shown' \in [User -> SUBSET (1..Len(events'))]
  <2>1. \A m \in User : shown[m] \subseteq 1..Len(events) /\ shown'[m] \subseteq shown[m] \cup {e}
    BY Basics DEF AppliedWell
  <2>2. \A m \in User : shown'[m] \subseteq 1..Len(events')
    BY <1>0, <2>1
  <2> QED BY <2>2 DEF AppliedWell
<1>3. Copies'
  <2>1. \A x \in User : op'[x].pc = "enter" /\ op'[x].copy # NoRoom =>
           op'[x] = op[x] /\ at'[x] = at[x]
    BY DEF AppliedWell
  <2> QED BY <2>1, Basics, CopiesKept DEF AppliedWell
<1>4. ClosedRooms'
  <2>1. \A x \in User : \/ Entitled(x)'
                        \/ ~Entitled(x) /\ place'[x] = place[x] /\ at'[x] = at[x]
    BY DEF AppliedWell
  <2>2. \A v \in User : op[v].pc = "expel" =>
           op'[v].pc = "expel" /\ op'[v].ev = op[v].ev /\ at'[v] = at[v]
    BY DEF AppliedWell
  <2>3. ClosedRooms /\ raced \subseteq raced'
    BY Basics
  <2> QED BY <2>1, <2>2, <2>3, ClosedKept
<1> QED BY <1>1, <1>2, <1>3, <1>4, Basics, Together DEF AppliedWell

\* rumor: the new event is applied here.
LEMMA RumorKeeps ==
    ASSUME IInv, NEW u \in User, Rumor(u)
    PROVE  IInv'
<1> DEFINE ev == op[u].ev
           n == at[u]
           e == Len(events) + 1
<1>0. n \in Node /\ ev \in Event /\ Len(events) \in Nat
  BY Basics DEF OpType
<1>1. /\ UNCHANGED <<granted, raced>>
      /\ op[u].pc = "rumor" /\ op' = [op EXCEPT ![u] = Idle]
      /\ events' = Append(events, ev) /\ got' = [got EXCEPT ![n] = @ \cup {e}]
      /\ ApplyEvent(n, e, ev)
  BY DEF Rumor, limits
<1>2. Right(ev) /\ (\A x \in 1..Len(events) : Right(events[x]))
      /\ \A x \in User : op[x].pc \in {"expel", "rumor"} => Right(op[x].ev)
  BY <1>1, Basics DEF Backed
<1> HIDE DEF ev, n
<1>3. AppliedWell(e)
  <2> HIDE DEF e
  <2> QED BY <1>0, <1>1, <1>2, EventWell
<1>4. /\ events' \in Seq(Event) /\ Len(events') = e /\ events'[e] = ev
      /\ \A x \in 1..Len(events) : events'[x] = events[x]
  BY <1>0, <1>1, Basics
<1>5. got' \in [Node -> SUBSET (1..Len(events'))]
  <2>1. \A m \in Node : got[m] \subseteq 1..Len(events')
    BY <1>0, <1>4, Basics
  <2>2. e \in 1..Len(events')
    BY <1>0, <1>4
  <2>3. got' = [m \in Node |-> IF m = n THEN got[m] \cup {e} ELSE got[m]]
    BY <1>1, Basics
  <2> QED BY <2>1, <2>2, <2>3
<1>6. /\ op' \in [User -> OpType] /\ op'[u].pc = "idle"
      /\ \A x \in User : x # u => op'[x] = op[x]
  BY <1>1, Basics, OpStages
<1>7. Backed'
  <2>1. \A x \in 1..Len(events') : Right(events[x])'
    <3>1. \A x \in 1..Len(events') : x \in 1..Len(events) \/ x = e
      BY <1>0, <1>4
    <3> QED BY <1>1, <1>2, <1>4, <3>1 DEF Right
  <2>2. \A x \in User : op'[x].pc \in {"expel", "rumor"} => Right(op[x].ev)'
    BY <1>1, <1>2, <1>6 DEF Right
  <2> QED BY <2>1, <2>2 DEF Backed
<1>8. Len(events) <= Len(events') /\ e \in 1..Len(events')
  BY <1>0, <1>4
<1>9. \A x \in User : op[x].pc = "expel" \/ op'[x].pc = "enter" => op'[x] = op[x]
  BY <1>1, <1>6
<1> HIDE DEF e
<1> QED BY <1>1, <1>3, <1>4, <1>5, <1>6, <1>7, <1>8, <1>9, EventKeeps

\* handlePeer: the event, new or forgotten, is applied here.
LEMMA ReceiveKeeps ==
    ASSUME IInv, NEW n \in Node, NEW e \in 1..Len(events), Receive(n, e)
    PROVE  IInv'
<1>0. events[e] \in Event /\ Len(events) \in Nat
  BY Basics
<1>1. /\ UNCHANGED <<events, op, granted, raced>>
      /\ got' = [got EXCEPT ![n] = @ \cup {e}]
      /\ ApplyEvent(n, e, events[e])
  BY DEF Receive
<1>2. (\A x \in 1..Len(events) : Right(events[x]))
      /\ \A x \in User : op[x].pc \in {"expel", "rumor"} => Right(op[x].ev)
  BY <1>1, Basics DEF Backed
<1>3. AppliedWell(e)
  <2>1. PICK ev \in Event : ev = events[e]
    BY <1>0
  <2>2. Right(ev) /\ ApplyEvent(n, e, ev)
    BY <1>1, <1>2, <2>1
  <2> QED BY <1>1, <2>2, EventWell
<1>4. got' \in [Node -> SUBSET (1..Len(events'))]
  BY <1>0, <1>1, Basics
<1>5. Backed'
  BY <1>1, <1>2 DEF Backed, Right
<1>6. /\ events' \in Seq(Event) /\ Len(events) <= Len(events') /\ e \in 1..Len(events')
      /\ op' \in [User -> OpType]
      /\ \A x \in User : op[x].pc = "expel" \/ op'[x].pc = "enter" => op'[x] = op[x]
  BY <1>0, <1>1, Basics
<1> QED BY <1>1, <1>3, <1>4, <1>5, <1>6, EventKeeps

\* A crash: everybody on the node is in the Lobby, and nothing is half done.
LEMMA CrashKeeps ==
    ASSUME IInv, NEW n \in Node, Crash(n)
    PROVE  IInv'
<1>1. /\ UNCHANGED <<events, at, granted, raced, twice, rooms, nextId, allow, saved>>
      /\ got' = [got EXCEPT ![n] = {}]
      /\ op' = [u \in User |-> IF at[u] = n THEN Idle ELSE op[u]]
      /\ place' = [u \in User |-> IF u \in {x \in User : at[x] = n} THEN Lobby ELSE place[u]]
      /\ shown' = [u \in User |-> IF at[u] = n THEN {} ELSE shown[u]]
  BY DEF Crash, tables, ToLobby
<1>2. Tables' /\ ListedByRight' /\ Evolved
  BY <1>1, Basics DEF Tables, RowsAt, ListedByRight, Evolved
<1>3. /\ op' \in [User -> OpType]
      /\ \A x \in User : at[x] = n => op'[x].pc = "idle"
      /\ \A x \in User : at[x] # n => op'[x] = op[x]
  BY <1>1, Basics, OpStages
<1>4. Backed'
  <2>1. (\A x \in 1..Len(events) : Right(events[x]))
        /\ \A x \in User : op[x].pc \in {"expel", "rumor"} => Right(op[x].ev)
    BY Basics DEF Backed
  <2>2. \A x \in User : op'[x].pc \in {"expel", "rumor"} => op'[x] = op[x]
    BY <1>3
  <2> QED BY <1>1, <2>1, <2>2 DEF Backed, Right
<1>5. Copies'
  <2>1. \A x \in User : op'[x].pc = "enter" /\ op'[x].copy # NoRoom =>
           op'[x] = op[x] /\ at'[x] = at[x]
    BY <1>1, <1>3
  <2> QED BY <1>2, <2>1, Basics, CopiesKept
<1>6. /\ place' \in [User -> Room] /\ got' \in [Node -> SUBSET (1..Len(events))]
      /\ shown' \in [User -> SUBSET (1..Len(events))]
      /\ \A x \in User : at[x] = n => place'[x] = Lobby /\ shown'[x] = {}
      /\ \A x \in User : at[x] # n => place'[x] = place[x] /\ shown'[x] = shown[x]
  BY <1>1, Basics DEF Room
<1>7. ASSUME NEW x \in User
      PROVE  /\ rooms'[at'[x]][place'[x]].id # 0
             /\ x \in Admin \/ Entitled(x)' \/ x \in raced' \/ Expelled(x)'
  <2>0. at'[x] \in Node /\ at'[x] = at[x]
    BY <1>1, Basics
  <2>1. CASE at[x] = n
    BY <1>2, <1>6, <2>0, <2>1, LobbyOpen
  <2>2. CASE at[x] # n
    <3>1. x \in Admin \/ Entitled(x) \/ x \in raced \/ Expelled(x)
      BY Basics, ClosedMeans
    <3>2. Entitled(x) => Entitled(x)'
      BY <1>1, <1>6, <2>2 DEF Entitled, Listed
    <3>3. Expelled(x) => Expelled(x)'
      BY <1>1, <1>3, <1>6, <2>2 DEF Expelled
    <3>4. rooms[at[x]][place[x]].id # 0
      BY Basics DEF Housed
    <3> QED BY <1>1, <1>6, <2>2, <3>1, <3>2, <3>3, <3>4
  <2> QED BY <2>1, <2>2
<1>8. Housed' /\ ClosedRooms'
  BY <1>7, ClosedMeans DEF Housed
<1>9. PushedOnce'
  <2>1. \A x \in User : shown'[x] \subseteq saved'[at'[x]]
    BY <1>1, <1>6, Basics DEF PushedOnce
  <2> QED BY <1>1, <2>1, Basics DEF PushedOnce
<1> QED BY <1>1, <1>2, <1>3, <1>4, <1>5, <1>6, <1>8, <1>9, Basics, Together

\* The first state: the Lobby, and perhaps one more room whose creator is listed.
LEMMA InitiallyIInv ==
    ASSUME Init
    PROVE  IInv
<1>1. PICK old \in {{}} \cup {{r} : r \in Extra}, w \in User, privacy \in Privacy :
         InitWith(old, w, privacy)
  BY DEF Init
<1>2. /\ events = <<>> /\ got = [n \in Node |-> {}] /\ saved = [n \in Node |-> {}]
      /\ at = Home /\ place = [u \in User |-> Lobby] /\ shown = [u \in User |-> {}]
      /\ op = [u \in User |-> Idle] /\ raced = {} /\ twice = FALSE
  BY DEF Init
<1> DEFINE Row(r) == CASE r = Lobby -> [id |-> 1, privacy |-> "PUBLIC"]
                       [] r \in old -> [id |-> 3, privacy |-> privacy]
                       [] OTHER -> NoRoom
           one == [id |-> 3, user |-> w, creator |-> TRUE]
<1>3. /\ rooms = [n \in Node |-> [r \in Room |-> Row(r)]]
      /\ nextId = [n \in Node |-> IF old = {} THEN 3 ELSE 4]
      /\ allow = [n \in Node |-> {one : r \in old}]
      /\ granted = {<<w, r, TRUE>> : r \in old}
  BY <1>1 DEF InitWith
<1>4. one \in AllowRow /\ one.id = 3 /\ one.user = w /\ one.creator = TRUE
  BY DEF AllowRow
<1>5. NoRoom \in RoomRow /\ NoRoom.id = 0 /\ NoRoom.privacy = "PUBLIC"
  BY DEF NoRoom, RoomRow, Privacy
<1>6. /\ Row(Lobby) = [id |-> 1, privacy |-> "PUBLIC"]
      /\ \A r \in Room : /\ Row(r) \in RoomRow
                         /\ Row(r).id \in {0, 1, 3}
                         /\ Row(r).id = 1 <=> r = Lobby
                         /\ Row(r).id = 3 <=> r \in old
                         /\ Row(r).id # 3 => Row(r).privacy = "PUBLIC"
  <2>1. Lobby \notin old
    BY NameAssumption
  <2>2. [id |-> 1, privacy |-> "PUBLIC"] \in RoomRow /\ [id |-> 3, privacy |-> privacy] \in RoomRow
    BY DEF RoomRow, Privacy
  <2> HIDE DEF NoRoom
  <2> QED BY <1>5, <2>1, <2>2
<1>7. old = {} \/ \E r \in Extra : old = {r}
  OBVIOUS
<1> HIDE DEF Row, one
<1>8. rooms \in [Node -> [Room -> RoomRow]] /\ nextId \in [Node -> Nat]
      /\ allow \in [Node -> SUBSET AllowRow]
  BY <1>3, <1>4, <1>6
<1>9. ASSUME NEW n \in Node PROVE RowsAt(n)
  <2>1. \A r \in Room : rooms[n][r] = Row(r)
    BY <1>3
  <2>2. Lobby \in Room
    BY DEF Room
  <2>3. nextId[n] = (IF old = {} THEN 3 ELSE 4) /\ allow[n] = {one : r \in old}
    BY <1>3
  <2> QED BY <1>4, <1>6, <1>7, <2>1, <2>2, <2>3 DEF RowsAt
<1>10. Tables
  BY <1>8, <1>9 DEF Tables
<1>11. ListedByRight
  <2>1. SUFFICES ASSUME NEW n \in Node, NEW r \in Room, rooms[n][r].privacy = "PRIVATE",
                        NEW row \in allow[n], row.id = rooms[n][r].id
                 PROVE  <<row.user, r, row.creator>> \in granted
    BY DEF ListedByRight
  <2>2. rooms[n][r] = Row(r) /\ row = one
    BY <1>3
  <2>3. r \in old
    BY <1>6, <2>1, <2>2
  <2> QED BY <1>3, <1>4, <2>2, <2>3
<1>12. ASSUME NEW u \in User
       PROVE  /\ at[u] \in Node /\ place[u] = Lobby /\ rooms[at[u]][place[u]] = Row(Lobby)
              /\ op[u].pc = "idle"
  BY <1>2, <1>3, UserAssumption, OpStages DEF Room
<1>13. Housed /\ ClosedRooms /\ Copies /\ PushedOnce
  BY <1>2, <1>6, <1>12 DEF Housed, ClosedRooms, Copies, CopyOk, PushedOnce
<1>14. Backed
  <2>1. Len(events) = 0
    BY <1>2
  <2> QED BY <1>12, <2>1 DEF Backed
<1>15. TypeOK
  <2>1. events \in Seq(Event)
    BY <1>2
  <2>2. op \in [User -> OpType]
    BY <1>2, OpStages
  <2>3. at \in [User -> Node] /\ place \in [User -> Room]
    BY <1>2, UserAssumption DEF Room
  <2> QED BY <1>2, <1>8, <1>13, <2>1, <2>2, <2>3 DEF TypeOK, Housed, OpType
<1> QED BY <1>10, <1>11, <1>13, <1>14, <1>15 DEF IInv

\* Every step keeps IInv.
LEMMA InductiveStep ==
    ASSUME IInv, [Next]_vars
    PROVE  IInv'
<1>1. CASE UNCHANGED vars
  <2>1. UNCHANGED <<events, got, rooms, nextId, allow, saved, at, place, shown, op, granted,
                    raced, twice>>
    BY <1>1 DEF vars, bus, tables, sessions, limits, history
  <2>2. TypeOK' /\ PushedOnce' /\ ListedByRight'
    BY <2>1 DEF IInv, TypeOK, PushedOnce, ListedByRight
  <2>3. Tables' /\ Backed' /\ Copies'
    BY <2>1 DEF IInv, Tables, RowsAt, Backed, Right, Copies, CopyOk
  <2>4. ClosedRooms'
    BY <2>1 DEF IInv, ClosedRooms, Listed
  <2> QED BY <2>2, <2>3, <2>4 DEF IInv
<1>2. CASE Next
  BY <1>2, RoomJoinKeeps, RoomCreateKeeps, RoomInviteKeeps, RoomKickKeeps, RoomDeleteKeeps,
     ReconnectKeeps, MessageKeeps, EnterKeeps, ExpelKeeps, RumorKeeps, ReceiveKeeps, CrashKeeps
     DEF Next
<1> QED BY <1>1, <1>2

\* IInv holds in every state of every behaviour.
THEOREM AccessInvariant == Spec => []IInv
BY InitiallyIInv, InductiveStep, PTL DEF Spec

\* The tables, the sessions and the handlers keep their types; nobody is in a room
\* his node does not have (joinRoom, deleteRoom).
THEOREM AccessTyped == Spec => []TypeOK
<1>1. IInv => TypeOK
  BY DEF IInv
<1> QED BY <1>1, AccessInvariant, PTL

\* Nobody is on the list of a private room without having created or been invited
\* to a room of that name (addToAllowList in ROOM_JOIN and RECONNECT).
THEOREM OnlyByRight == Spec => []ListedByRight
<1>1. IInv => ListedByRight
  BY DEF IInv
<1> QED BY <1>1, AccessInvariant, PTL

\* Who sits in a private room is an ADMIN, is listed, is being expelled, or joined
\* on a check that no longer held (ROOM_JOIN, ROOM_KICK).
THEOREM PrivateRoomsClosed == Spec => []ClosedRooms
<1>1. IInv => ClosedRooms
  BY DEF IInv
<1> QED BY <1>1, AccessInvariant, PTL

\* A session is pushed a message once, however often the event comes (applyEvent of
\* MESSAGE).
THEOREM MessagesPushedOnce == Spec => []PushedOnce
<1>1. IInv => PushedOnce
  BY DEF IInv
<1> QED BY <1>1, AccessInvariant, PTL

-----------------------------------------------------------------------------
(***************************************************************************)
(* The histories.                                                          *)
(***************************************************************************)

\* An event is about a room.
LEMMA EventRoom ==
    ASSUME IInv, NEW x \in 1..Len(events)
    PROVE  events[x] \in Event /\ events[x].room \in Room
<1>1. events[x] \in Event
  BY Basics
<1> QED BY <1>1 DEF Event

\* Rooms stay and events are only added.
Onward ==
    /\ Len(events) <= Len(events')
    /\ \A x \in 1..Len(events) : events'[x] = events[x]
    /\ \A m \in Node, r \in Room : Exists(m, r) => rooms'[m][r].id # 0

\* What was announced stays announced.
LEMMA StaysAnnounced ==
    ASSUME IInv, events' \in Seq(Event), Onward, NEW r \in Room, NEW y \in Nat, NEW z \in Nat,
           y <= z, Announced(r, y)
    PROVE  Announced(r, z)'
<1>0. Len(events) \in Nat /\ Len(events') \in Nat
  BY Basics
<1>1. CASE Everywhere(r)
  BY <1>1 DEF Onward, Announced, Everywhere, Exists
<1>2. CASE ~Everywhere(r)
  <2>1. PICK x \in 1..Len(events) :
           x < y /\ events[x].kind = "ROOM_CREATED" /\ events[x].room = r
    BY <1>2 DEF Announced
  <2>2. x \in 1..Len(events') /\ x < z /\ events'[x] = events[x]
    BY <1>0, <2>1 DEF Onward
  <2> QED BY <2>1, <2>2 DEF Announced
<1> QED BY <1>1, <1>2

\* A step that rumors nothing and takes nothing in.  The creator of a room is on the
\* way to its rumor; a message is from a room that is there.
LEMMA QuietHistory ==
    ASSUME IInv, HInv, UNCHANGED <<events, saved, inOrder>>,
           \A m \in Node : got'[m] \subseteq got[m],
           unsaid => unsaid',
           ~unsaid' => \A w \in User :
              op[w].pc = "rumor" /\ op[w].ev.kind \in {"ROOM_CREATED", "ROOM_DELETED"} =>
                 op'[w] = op[w] /\ at'[w] = at[w],
           \A w \in User : op'[w].pc = "rumor" /\ op'[w].ev.kind = "MESSAGE" =>
              \/ op'[w] = op[w] /\ at'[w] = at[w]
              \/ rooms'[at'[w]][op'[w].ev.room].id # 0,
           \A w \in User : op'[w].pc = "expel" => op'[w].ev.kind = "ROOM_KICK",
           \A m \in Node, r \in Room : Exists(m, r) => rooms'[m][r].id # 0,
           \A m \in Node, r \in Room : rooms'[m][r].id # 0 =>
              Exists(m, r) \/ \E u \in User : /\ at'[u] = m /\ op'[u].pc = "rumor"
                                              /\ op'[u].ev.kind = "ROOM_CREATED"
                                              /\ op'[u].ev.room = r
    PROVE  HInv'
<1>0. OnlyMessages' /\ Kicking'
  BY DEF HInv, OnlyMessages, Kicking
<1>1. SUFFICES ASSUME inOrder', ~unsaid', NoDeletes' PROVE Known'
  BY <1>0 DEF HInv
<1>2. NoDeletes
  BY <1>1 DEF NoDeletes
<1>3. Known
  BY <1>1, <1>2 DEF HInv
<1>4. Onward /\ events' \in Seq(Event) /\ Len(events) \in Nat
  BY Basics DEF Onward
<1>5. \A n \in Node, r \in Room : rooms'[n][r].id # 0 =>
         \/ Announced(r, Len(events) + 1)'
         \/ \E u \in User : /\ at'[u] = n /\ op'[u].pc = "rumor"
                            /\ op'[u].ev.kind = "ROOM_CREATED" /\ op'[u].ev.room = r
  <2>1. SUFFICES ASSUME NEW n \in Node, NEW r \in Room, Exists(n, r)
                 PROVE  \/ Announced(r, Len(events) + 1)'
                        \/ \E u \in User : /\ at'[u] = n /\ op'[u].pc = "rumor"
                                           /\ op'[u].ev.kind = "ROOM_CREATED" /\ op'[u].ev.room = r
    OBVIOUS
  <2>2. Len(events) + 1 \in Nat /\ Len(events) + 1 <= Len(events) + 1 /\ Len(events') = Len(events)
    BY <1>4
  <2>3. CASE Announced(r, Len(events) + 1)
    BY <1>4, <2>2, <2>3, StaysAnnounced
  <2>4. CASE \E u \in User : /\ at[u] = n /\ op[u].pc = "rumor"
                             /\ op[u].ev.kind = "ROOM_CREATED" /\ op[u].ev.room = r
    BY <1>1, <2>4
  <2> QED BY <1>3, <2>1, <2>3, <2>4 DEF Known
<1>6. \A x \in 1..Len(events') : events'[x].kind = "MESSAGE" => Announced(events[x].room, x)'
  <2>1. SUFFICES ASSUME NEW x \in 1..Len(events), events[x].kind = "MESSAGE"
                 PROVE  Announced(events[x].room, x)'
    BY <1>4
  <2>2. PICK r \in Room : r = events[x].room
    BY EventRoom
  <2>3. Announced(r, x) /\ x \in Nat /\ x <= x
    BY <1>3, <1>4, <2>1, <2>2 DEF Known
  <2>4. Announced(r, x)'
    BY <1>4, <2>3, StaysAnnounced
  <2> QED BY <2>2, <2>4 DEF Announced, Everywhere, Exists
<1>7. \A n \in Node : \A x \in got'[n] :
         /\ events'[x].kind = "ROOM_CREATED" => rooms'[n][events'[x].room].id # 0
         /\ events'[x].kind = "MESSAGE" => x \in saved'[n]
  <2>1. SUFFICES ASSUME NEW n \in Node, NEW x \in got[n]
                 PROVE  /\ events[x].kind = "ROOM_CREATED" => rooms'[n][events[x].room].id # 0
                        /\ events[x].kind = "MESSAGE" => x \in saved[n]
    OBVIOUS
  <2>2. x \in 1..Len(events)
    BY Basics
  <2>3. events[x].room \in Room
    BY <2>2, EventRoom
  <2> QED BY <1>3, <2>3 DEF Known
<1>8. \A u \in User : op'[u].pc = "rumor" /\ op'[u].ev.kind = "MESSAGE" =>
         rooms'[at'[u]][op'[u].ev.room].id # 0
  <2>1. \A u \in User : at[u] \in Node /\ op[u].ev.room \in Room
    BY Basics DEF OpType, Event
  <2> QED BY <1>3, <2>1 DEF Known
<1> QED BY <1>5, <1>6, <1>7, <1>8 DEF Known, Exists

\* What applying an event does to the rooms and the messages.
LEMMA Effects ==
    ASSUME IInv, NEW n \in Node, NEW e, NEW ev \in Event, ApplyEvent(n, e, ev)
    PROVE  /\ UNCHANGED at
           /\ ev.kind # "ROOM_DELETED" =>
                 /\ \A m \in Node, r \in Room : Exists(m, r) => rooms'[m][r].id # 0
                 /\ \A m \in Node : saved[m] \subseteq saved'[m]
           /\ \A m \in Node, r \in Room : rooms'[m][r].id # 0 =>
                 Exists(m, r) \/ (ev.kind = "ROOM_CREATED" /\ r = ev.room)
           /\ ev.kind = "ROOM_CREATED" => rooms'[n][ev.room].id # 0
           /\ ev.kind = "MESSAGE" /\ Exists(n, ev.room) => e \in saved'[n]
           /\ \A m \in Node : \A x \in saved'[m] : x \in saved[m] \/ (x = e /\ ev.kind = "MESSAGE")
<1>0. ev.room \in Room /\ rooms \in [Node -> [Room -> RoomRow]] /\ nextId[n] > 1
      /\ nextId[n] \in Nat /\ saved \in [Node -> SUBSET (1..Len(events))]
  BY Basics DEF Event, Tables, RowsAt
<1>1. CASE ev.kind = "ROOM_CREATED"
  <2>1. ApplyCreated(n, ev)
    BY <1>1 DEF ApplyEvent
  <2>2. UNCHANGED <<at, saved>>
    BY <2>1 DEF ApplyCreated, NewRoom, sessions
  <2>3. CASE Exists(n, ev.room)
    <3>1. UNCHANGED rooms
      BY <2>1, <2>3 DEF ApplyCreated
    <3> QED BY <1>1, <2>2, <2>3, <3>1 DEF Exists
  <2>4. CASE ~Exists(n, ev.room)
    <3>1. PICK row : row.id = nextId[n] /\ rooms' = [rooms EXCEPT ![n][ev.room] = row]
      BY <2>1, <2>4 DEF ApplyCreated, NewRoom
    <3>2. /\ rooms'[n][ev.room].id # 0
          /\ \A m \in Node, q \in Room : m # n \/ q # ev.room => rooms'[m][q] = rooms[m][q]
      BY <1>0, <3>1
    <3> QED BY <1>1, <2>2, <2>4, <3>2 DEF Exists
  <2> QED BY <2>3, <2>4
<1>2. CASE ev.kind = "ROOM_ACL_ADD" \/ ev.kind = "ROOM_KICK"
  <2>1. UNCHANGED <<rooms, saved, at>>
    BY <1>2 DEF ApplyEvent, ApplyAclAdd, ApplyKick, sessions
  <2> QED BY <1>2, <2>1 DEF Exists
<1>3. CASE ev.kind = "ROOM_DELETED"
  <2>1. ApplyDeleted(n, ev)
    BY <1>3 DEF ApplyEvent
  <2>2. CASE Exists(n, ev.room)
    <3>1. EraseRoom(n, ev.room)
      BY <2>1, <2>2 DEF ApplyDeleted
    <3>2. /\ rooms' = [rooms EXCEPT ![n][ev.room] = NoRoom] /\ UNCHANGED at
          /\ saved' = [saved EXCEPT ![n] = @ \ {x \in saved[n] : events[x].room = ev.room}]
      BY <3>1 DEF EraseRoom
    <3>3. NoRoom.id = 0
      BY DEF NoRoom
    <3> HIDE DEF NoRoom
    <3>4. \A m \in Node, r \in Room : rooms'[m][r].id # 0 => Exists(m, r)
      BY <1>0, <3>2, <3>3 DEF Exists
    <3>5. \A m \in Node : saved'[m] \subseteq saved[m]
      BY <1>0, <3>2
    <3> QED BY <1>3, <3>2, <3>4, <3>5
  <2>3. CASE ~Exists(n, ev.room)
    <3>1. UNCHANGED <<rooms, saved, at>>
      BY <2>1, <2>3 DEF ApplyDeleted, tables, sessions
    <3> QED BY <1>3, <3>1 DEF Exists
  <2> QED BY <2>2, <2>3
<1>4. CASE ev.kind = "MESSAGE"
  <2>1. ApplyMessage(n, e, ev)
    BY <1>4 DEF ApplyEvent
  <2>2. UNCHANGED <<rooms, at>>
    BY <2>1 DEF ApplyMessage
  <2>3. CASE Exists(n, ev.room) /\ e \notin saved[n]
    <3>1. saved' = [saved EXCEPT ![n] = @ \cup {e}]
      BY <2>1, <2>3 DEF ApplyMessage
    <3>2. saved'[n] = saved[n] \cup {e} /\ \A m \in Node : m # n => saved'[m] = saved[m]
      BY <1>0, <3>1
    <3>3. \A m \in Node : \A x \in saved'[m] : x \in saved[m] \/ x = e
      BY <3>2
    <3>4. \A m \in Node : saved[m] \subseteq saved'[m]
      BY <3>2
    <3> QED BY <1>4, <2>2, <3>2, <3>3, <3>4 DEF Exists
  <2>4. CASE ~(Exists(n, ev.room) /\ e \notin saved[n])
    <3>1. UNCHANGED saved
      BY <2>1, <2>4 DEF ApplyMessage
    <3> QED BY <1>4, <2>2, <2>4, <3>1 DEF Exists
  <2> QED BY <2>3, <2>4
<1>5. ev.kind \in Kind
  BY DEF Event
<1> QED BY <1>1, <1>2, <1>3, <1>4, <1>5 DEF Kind

\* The history of a node that takes e in: its room is there if it was announced before.
LEMMA RumorHistory ==
    ASSUME IInv, HInv, NEW u \in User, Rumor(u)
    PROVE  HInv'
<1> DEFINE ev == op[u].ev
           n == at[u]
           e == Len(events) + 1
<1>0. n \in Node /\ ev \in Event /\ ev.room \in Room /\ Len(events) \in Nat /\ e \in Nat
  BY Basics DEF OpType, Event
<1>1. /\ UNCHANGED inOrder
      /\ op[u].pc = "rumor" /\ op' = [op EXCEPT ![u] = Idle]
      /\ events' = Append(events, ev) /\ got' = [got EXCEPT ![n] = @ \cup {e}]
      /\ ApplyEvent(n, e, ev)
      /\ unsaid' = (unsaid \/ \E v \in Unsaid(n) \ {u} :
                         op[v].ev.kind = "ROOM_CREATED" /\ op[v].ev.room = ev.room)
  BY DEF Rumor
<1>2. /\ UNCHANGED at
      /\ ev.kind # "ROOM_DELETED" =>
            /\ \A m \in Node, r \in Room : Exists(m, r) => rooms'[m][r].id # 0
            /\ \A m \in Node : saved[m] \subseteq saved'[m]
      /\ \A m \in Node, r \in Room : rooms'[m][r].id # 0 =>
            Exists(m, r) \/ (ev.kind = "ROOM_CREATED" /\ r = ev.room)
      /\ ev.kind = "ROOM_CREATED" => rooms'[n][ev.room].id # 0
      /\ ev.kind = "MESSAGE" /\ Exists(n, ev.room) => e \in saved'[n]
      /\ \A m \in Node : \A x \in saved'[m] : x \in saved[m] \/ (x = e /\ ev.kind = "MESSAGE")
  <2>1. n \in Node /\ ev \in Event /\ ApplyEvent(n, e, ev)
    BY <1>0, <1>1
  <2> HIDE DEF n, ev, e
  <2> QED BY <2>1, Effects
<1> HIDE DEF ev, n
<1>3. /\ events' \in Seq(Event) /\ Len(events') = e /\ events'[e] = ev
      /\ \A x \in 1..Len(events) : events'[x] = events[x]
      /\ \A x \in 1..Len(events') : x \in 1..Len(events) \/ x = e
  BY <1>0, <1>1, Basics
<1>4. /\ op'[u].pc = "idle" /\ \A x \in User : x # u => op'[x] = op[x]
  BY <1>1, Basics, OpStages
<1>5. OnlyMessages' /\ Kicking'
  <2>1. \A m \in Node : saved[m] \subseteq 1..Len(events)
    BY Basics
  <2> QED BY <1>2, <1>3, <1>4, <2>1 DEF HInv, OnlyMessages, Kicking
<1>6. SUFFICES ASSUME inOrder', ~unsaid', NoDeletes' PROVE Known'
  BY <1>5 DEF HInv
<1>7. ~unsaid /\ ~\E v \in Unsaid(n) \ {u} :
         op[v].ev.kind = "ROOM_CREATED" /\ op[v].ev.room = ev.room
  BY <1>1, <1>6
<1>8. ev.kind # "ROOM_DELETED" /\ NoDeletes
  <2>1. e \in 1..Len(events')
    BY <1>0, <1>3
  <2>2. ev.kind # "ROOM_DELETED"
    BY <1>3, <1>6, <2>1 DEF NoDeletes
  <2>3. \A x \in 1..Len(events) : x \in 1..Len(events')
    BY <1>0, <1>3
  <2>4. \A x \in User : op[x].pc = "rumor" => op[x].ev.kind # "ROOM_DELETED"
    BY <1>4, <1>6, <2>2 DEF NoDeletes, ev
  <2> QED BY <1>3, <1>6, <2>2, <2>3, <2>4 DEF NoDeletes
<1>9. Known
  BY <1>1, <1>6, <1>7, <1>8 DEF HInv
<1>10. Onward
  BY <1>0, <1>2, <1>3, <1>8 DEF Onward
<1>11. ASSUME NEW m \in Node, NEW r \in Room, rooms'[m][r].id # 0
       PROVE  \/ Announced(r, Len(events) + 1)'
              \/ \E w \in User : /\ at'[w] = m /\ op'[w].pc = "rumor"
                                 /\ op'[w].ev.kind = "ROOM_CREATED" /\ op'[w].ev.room = r
  <2>0. /\ e \in 1..Len(events') /\ e < Len(events') + 1
        /\ e <= Len(events') + 1 /\ Len(events') + 1 \in Nat
    BY <1>0, <1>3
  <2>1. CASE ev.kind = "ROOM_CREATED" /\ r = ev.room
    BY <1>3, <2>0, <2>1 DEF Announced
  <2>2. CASE ~(ev.kind = "ROOM_CREATED" /\ r = ev.room)
    <3>1. Exists(m, r)
      BY <1>2, <1>11, <2>2
    <3>2. CASE Announced(r, e)
      BY <1>0, <1>3, <1>10, <2>0, <3>2, StaysAnnounced
    <3>3. CASE \E w \in User : /\ at[w] = m /\ op[w].pc = "rumor"
                               /\ op[w].ev.kind = "ROOM_CREATED" /\ op[w].ev.room = r
      BY <1>2, <1>4, <2>2, <3>3 DEF ev
    <3> QED BY <1>9, <3>1, <3>2, <3>3 DEF Known
  <2> QED BY <2>1, <2>2
<1>12. ASSUME NEW x \in 1..Len(events'), events'[x].kind = "MESSAGE"
       PROVE  Announced(events[x].room, x)'
  <2>1. CASE x \in 1..Len(events)
    <3>1. PICK r \in Room : r = events[x].room
      BY <2>1, EventRoom
    <3>2. Announced(r, x) /\ x \in Nat /\ x <= x
      BY <1>0, <1>3, <1>9, <1>12, <2>1, <3>1 DEF Known
    <3>3. Announced(r, x)'
      BY <1>3, <1>10, <3>2, StaysAnnounced
    <3> QED BY <1>3, <2>1, <3>1, <3>3 DEF Announced, Everywhere, Exists
  <2>2. CASE x = e
    <3>1. PICK r \in Room : r = ev.room
      BY <1>0
    <3>2. Exists(n, r) /\ ev.kind = "MESSAGE"
      BY <1>1, <1>3, <1>9, <1>12, <2>2, <3>1 DEF Known, ev, n
    <3>3. ~\E w \in User : /\ at[w] = n /\ op[w].pc = "rumor"
                           /\ op[w].ev.kind = "ROOM_CREATED" /\ op[w].ev.room = r
      BY <1>7, <3>1, <3>2 DEF Unsaid, ev
    <3>4. Announced(r, x) /\ x \in Nat /\ x <= x
      BY <1>0, <1>9, <2>2, <3>2, <3>3 DEF Known
    <3>5. Announced(r, x)'
      BY <1>3, <1>10, <3>4, StaysAnnounced
    <3> QED BY <1>3, <2>2, <3>1, <3>5 DEF Announced, Everywhere, Exists
  <2> QED BY <1>3, <2>1, <2>2
<1>13. ASSUME NEW m \in Node, NEW x \in got'[m]
       PROVE  /\ events'[x].kind = "ROOM_CREATED" => rooms'[m][events'[x].room].id # 0
              /\ events'[x].kind = "MESSAGE" => x \in saved'[m]
  <2>1. CASE x \in got[m]
    <3>1. x \in 1..Len(events)
      BY <2>1, Basics
    <3>2. events[x].room \in Room /\ events'[x] = events[x]
      BY <1>3, <3>1, EventRoom
    <3>3. /\ events[x].kind = "ROOM_CREATED" => Exists(m, events[x].room)
          /\ events[x].kind = "MESSAGE" => x \in saved[m]
      BY <1>9, <2>1 DEF Known
    <3> QED BY <1>2, <1>8, <3>2, <3>3
  <2>2. CASE x \notin got[m]
    <3>1. m = n /\ x = e
      BY <1>1, <1>13, <2>2, Basics
    <3>2. ev.kind = "MESSAGE" => Exists(n, ev.room)
      BY <1>1, <1>9 DEF Known, ev, n
    <3> QED BY <1>2, <1>3, <3>1, <3>2
  <2> QED BY <2>1, <2>2
<1>14. ASSUME NEW w \in User, op'[w].pc = "rumor", op'[w].ev.kind = "MESSAGE"
       PROVE  rooms'[at'[w]][op'[w].ev.room].id # 0
  <2>1. op'[w] = op[w]
    BY <1>4, <1>14
  <2>2. at[w] \in Node /\ op[w].ev.room \in Room
    BY Basics DEF OpType, Event
  <2> QED BY <1>2, <1>8, <1>9, <1>14, <2>1, <2>2 DEF Known
<1> QED BY <1>11, <1>12, <1>13, <1>14 DEF Known, Exists

\* An event that is taken in in order finds the room of every message announced
\* before it.
LEMMA ReceiveHistory ==
    ASSUME IInv, HInv, NEW n \in Node, NEW e \in 1..Len(events), Receive(n, e)
    PROVE  HInv'
<1> DEFINE ev == events[e]
<1>0. ev \in Event /\ ev.room \in Room /\ Len(events) \in Nat /\ e \in Nat
  BY Basics, EventRoom
<1>1. /\ UNCHANGED <<events, op, unsaid>>
      /\ got' = [got EXCEPT ![n] = @ \cup {e}]
      /\ ApplyEvent(n, e, ev)
      /\ inOrder' = (inOrder /\ 1..(e - 1) \subseteq got[n])
  BY DEF Receive
<1>2. /\ UNCHANGED at
      /\ ev.kind # "ROOM_DELETED" =>
            /\ \A m \in Node, r \in Room : Exists(m, r) => rooms'[m][r].id # 0
            /\ \A m \in Node : saved[m] \subseteq saved'[m]
      /\ \A m \in Node, r \in Room : rooms'[m][r].id # 0 =>
            Exists(m, r) \/ (ev.kind = "ROOM_CREATED" /\ r = ev.room)
      /\ ev.kind = "ROOM_CREATED" => rooms'[n][ev.room].id # 0
      /\ ev.kind = "MESSAGE" /\ Exists(n, ev.room) => e \in saved'[n]
      /\ \A m \in Node : \A x \in saved'[m] : x \in saved[m] \/ (x = e /\ ev.kind = "MESSAGE")
  <2>1. ev \in Event /\ ApplyEvent(n, e, ev)
    BY <1>0, <1>1
  <2> HIDE DEF ev
  <2> QED BY <2>1, Effects
<1>3. OnlyMessages' /\ Kicking'
  BY <1>1, <1>2 DEF HInv, OnlyMessages, Kicking
<1>4. SUFFICES ASSUME inOrder', ~unsaid', NoDeletes' PROVE Known'
  BY <1>3 DEF HInv
<1>5. inOrder /\ 1..(e - 1) \subseteq got[n]
  BY <1>1, <1>4
<1>6. NoDeletes /\ ev.kind # "ROOM_DELETED"
  BY <1>1, <1>4 DEF NoDeletes
<1>7. Known
  BY <1>1, <1>4, <1>5, <1>6 DEF HInv
<1>8. Onward /\ events' \in Seq(Event)
  BY <1>0, <1>1, <1>2, <1>6, Basics DEF Onward
<1>9. ASSUME NEW m \in Node, NEW r \in Room, rooms'[m][r].id # 0
      PROVE  \/ Announced(r, Len(events) + 1)'
             \/ \E w \in User : /\ at'[w] = m /\ op'[w].pc = "rumor"
                                /\ op'[w].ev.kind = "ROOM_CREATED" /\ op'[w].ev.room = r
  <2>0. /\ Len(events) + 1 \in Nat /\ Len(events') = Len(events) /\ e < Len(events') + 1
        /\ Len(events) + 1 <= Len(events') + 1
    BY <1>0, <1>1
  <2>1. CASE ev.kind = "ROOM_CREATED" /\ r = ev.room
    BY <1>1, <2>0, <2>1 DEF Announced
  <2>2. CASE ~(ev.kind = "ROOM_CREATED" /\ r = ev.room)
    <3>1. Exists(m, r)
      BY <1>2, <1>9, <2>2
    <3>2. CASE Announced(r, Len(events) + 1)
      BY <1>8, <2>0, <3>2, StaysAnnounced
    <3>3. CASE \E w \in User : /\ at[w] = m /\ op[w].pc = "rumor"
                               /\ op[w].ev.kind = "ROOM_CREATED" /\ op[w].ev.room = r
      BY <1>1, <1>2, <3>3
    <3> QED BY <1>7, <3>1, <3>2, <3>3 DEF Known
  <2> QED BY <2>1, <2>2
<1>10. ASSUME NEW x \in 1..Len(events'), events'[x].kind = "MESSAGE"
       PROVE  Announced(events[x].room, x)'
  <2>1. x \in 1..Len(events) /\ events'[x] = events[x] /\ x \in Nat /\ x <= x
    BY <1>1
  <2>2. PICK r \in Room : r = events[x].room
    BY <2>1, EventRoom
  <2>3. Announced(r, x)
    BY <1>7, <1>10, <2>1, <2>2 DEF Known
  <2>4. Announced(r, x)'
    BY <1>8, <2>1, <2>3, StaysAnnounced
  <2> QED BY <2>1, <2>2, <2>4 DEF Announced, Everywhere, Exists
<1>11. ASSUME NEW m \in Node, NEW x \in got'[m]
       PROVE  /\ events'[x].kind = "ROOM_CREATED" => rooms'[m][events'[x].room].id # 0
              /\ events'[x].kind = "MESSAGE" => x \in saved'[m]
  <2>1. CASE x \in got[m]
    <3>1. x \in 1..Len(events)
      BY <2>1, Basics
    <3>2. events[x].room \in Room /\ events'[x] = events[x]
      BY <1>1, <3>1, EventRoom
    <3>3. /\ events[x].kind = "ROOM_CREATED" => Exists(m, events[x].room)
          /\ events[x].kind = "MESSAGE" => x \in saved[m]
      BY <1>7, <2>1 DEF Known
    <3> QED BY <1>2, <1>6, <3>2, <3>3
  <2>2. CASE x \notin got[m]
    <3>1. m = n /\ x = e
      BY <1>1, <1>11, <2>2, Basics
    <3>2. ASSUME ev.kind = "MESSAGE" PROVE Exists(n, ev.room)
      <4>1. Announced(ev.room, e)
        BY <1>7, <3>2 DEF Known
      <4>2. CASE Everywhere(ev.room)
        BY <4>2 DEF Everywhere
      <4>3. CASE ~Everywhere(ev.room)
        <5>1. PICK y \in 1..Len(events) :
                 y < e /\ events[y].kind = "ROOM_CREATED" /\ events[y].room = ev.room
          BY <4>1, <4>3 DEF Announced
        <5>2. y \in got[n]
          BY <1>0, <1>5, <5>1
        <5> QED BY <1>7, <5>1, <5>2 DEF Known
      <4> QED BY <4>2, <4>3
    <3> QED BY <1>1, <1>2, <3>1, <3>2
  <2> QED BY <2>1, <2>2
<1>12. ASSUME NEW w \in User, op'[w].pc = "rumor", op'[w].ev.kind = "MESSAGE"
       PROVE  rooms'[at'[w]][op'[w].ev.room].id # 0
  <2>1. at[w] \in Node /\ op[w].ev.room \in Room
    BY Basics DEF OpType, Event
  <2> QED BY <1>1, <1>2, <1>6, <1>7, <1>12, <2>1 DEF Known
<1> QED BY <1>9, <1>10, <1>11, <1>12 DEF Known, Exists

\* A request that is not a deletion.
LEMMA RequestHistory ==
    ASSUME IInv, HInv, NEW u \in User, NEW o \in OpType, Begin(u, o),
           UNCHANGED <<events, got, saved, at, inOrder, unsaid>>,
           o.pc = "expel" => o.ev.kind = "ROOM_KICK",
           o.pc = "rumor" /\ o.ev.kind = "MESSAGE" => Exists(at[u], o.ev.room),
           \A m \in Node, r \in Room : Exists(m, r) => rooms'[m][r].id # 0,
           \A m \in Node, r \in Room : rooms'[m][r].id # 0 =>
              Exists(m, r) \/ (/\ at[u] = m /\ o.pc = "rumor"
                               /\ o.ev.kind = "ROOM_CREATED" /\ o.ev.room = r)
    PROVE  HInv'
<1>1. op[u].pc = "idle" /\ op'[u] = o /\ \A x \in User : x # u => op'[x] = op[x]
  BY Basics DEF Begin
<1>2. ~unsaid' => \A w \in User :
         op[w].pc = "rumor" /\ op[w].ev.kind \in {"ROOM_CREATED", "ROOM_DELETED"} =>
            op'[w] = op[w] /\ at'[w] = at[w]
  BY <1>1
<1>3. \A w \in User : op'[w].pc = "rumor" /\ op'[w].ev.kind = "MESSAGE" =>
         \/ op'[w] = op[w] /\ at'[w] = at[w]
         \/ rooms'[at'[w]][op'[w].ev.room].id # 0
  <2>1. at[u] \in Node /\ o.ev.room \in Room
    BY Basics DEF OpType, Event
  <2> QED BY <1>1, <2>1
<1>4. \A w \in User : op'[w].pc = "expel" => op'[w].ev.kind = "ROOM_KICK"
  BY <1>1 DEF HInv, Kicking
<1>5. \A m \in Node, r \in Room : rooms'[m][r].id # 0 =>
         Exists(m, r) \/ \E w \in User : /\ at'[w] = m /\ op'[w].pc = "rumor"
                                         /\ op'[w].ev.kind = "ROOM_CREATED"
                                         /\ op'[w].ev.room = r
  BY <1>1
<1>6. unsaid => unsaid'
  OBVIOUS
<1>7. \A m \in Node : got'[m] \subseteq got[m]
  OBVIOUS
<1> QED BY <1>2, <1>3, <1>4, <1>5, <1>6, <1>7, QuietHistory

\* Requests that leave the rooms alone.
LEMMA PlainHistory ==
    ASSUME IInv, HInv, NEW u \in User,
           \/ \E r \in Room : RoomJoin(u, r)
           \/ \E r \in Extra, v \in User : RoomInvite(u, r, v)
           \/ \E r \in Room, v \in User : RoomKick(u, r, v)
           \/ Message(u)
    PROVE  HInv'
<1>0. "PUBLIC" \in Privacy /\ {"MESSAGE", "ROOM_KICK", "ROOM_ACL_ADD"} \subseteq Kind
      /\ Extra \subseteq Room
  BY DEF Privacy, Kind, Room
<1>1. UNCHANGED <<events, got, saved, at, inOrder, unsaid, rooms>>
  BY DEF RoomJoin, RoomInvite, RoomKick, Message, bus, tables, sessions, history
<1>2. PICK o \in OpType : /\ Begin(u, o)
                          /\ o.pc = "expel" => o.ev.kind = "ROOM_KICK"
                          /\ o.pc = "rumor" /\ o.ev.kind = "MESSAGE" => Exists(at[u], o.ev.room)
  <2>1. CASE \E r \in Room : RoomJoin(u, r)
    <3>1. PICK r \in Room : RoomJoin(u, r)
      BY <2>1
    <3>2. rooms[at[u]][r] \in RoomRow
      BY Basics DEF Tables
    <3>3. Entering(r, rooms[at[u]][r]) \in OpType /\ Entering(r, rooms[at[u]][r]).pc = "enter"
      BY <3>2, OpStages
    <3> QED BY <3>1, <3>3 DEF RoomJoin
  <2>2. CASE \E r \in Extra, v \in User : RoomInvite(u, r, v)
    <3>1. PICK r \in Extra, v \in User : RoomInvite(u, r, v)
      BY <2>2
    <3>2. PICK ev \in Event : ev = Say("ROOM_ACL_ADD", v, r, "PUBLIC") /\ ev.kind = "ROOM_ACL_ADD"
      BY <1>0, SayFields
    <3>3. PICK o \in OpType : o = Rumoring(ev) /\ o.pc = "rumor" /\ o.ev = ev
      BY OpStages
    <3> QED BY <3>1, <3>2, <3>3 DEF RoomInvite
  <2>3. CASE \E r \in Room, v \in User : RoomKick(u, r, v)
    <3>1. PICK r \in Room, v \in User : RoomKick(u, r, v)
      BY <2>3
    <3>2. PICK ev \in Event : ev = Say("ROOM_KICK", v, r, "PUBLIC") /\ ev.kind = "ROOM_KICK"
      BY <1>0, SayFields
    <3>3. PICK o \in OpType : o = Expelling(ev) /\ o.pc = "expel" /\ o.ev = ev
      BY OpStages
    <3> QED BY <3>1, <3>2, <3>3 DEF RoomKick
  <2>4. CASE Message(u)
    <3>1. place[u] \in Room /\ Exists(at[u], place[u])
      BY Basics DEF Housed, Exists
    <3>2. PICK ev \in Event : /\ ev = Say("MESSAGE", u, place[u], "PUBLIC")
                              /\ ev.kind = "MESSAGE" /\ ev.room = place[u]
      BY <1>0, <3>1, SayFields
    <3>3. PICK o \in OpType : o = Rumoring(ev) /\ o.pc = "rumor" /\ o.ev = ev
      BY OpStages
    <3> QED BY <2>4, <3>1, <3>2, <3>3 DEF Message
  <2> QED BY <2>1, <2>2, <2>3, <2>4
<1>3. /\ \A m \in Node, r \in Room : Exists(m, r) => rooms'[m][r].id # 0
      /\ \A m \in Node, r \in Room : rooms'[m][r].id # 0 => Exists(m, r)
  BY <1>1 DEF Exists
<1> QED BY <1>1, <1>2, <1>3, RequestHistory

\* ROOM_CREATE: until the rumor, the creator is the reason that the room is there.
LEMMA CreateHistory ==
    ASSUME IInv, HInv, NEW u \in User, NEW r \in Extra, NEW privacy \in Privacy,
           RoomCreate(u, r, privacy)
    PROVE  HInv'
<1>0. r \in Room /\ at[u] \in Node /\ "ROOM_CREATED" \in Kind
  BY Basics DEF Room, Kind
<1>1. UNCHANGED <<events, got, saved, at, inOrder, unsaid>> /\ NewRoom(at[u], r, privacy, u)
      /\ ~Exists(at[u], r) /\ granted' = granted \cup {<<u, r, TRUE>>}
  BY DEF RoomCreate, NewRoom, bus, sessions, history
<1>2. PICK ev \in Event : /\ ev = Say("ROOM_CREATED", u, r, privacy)
                          /\ ev.kind = "ROOM_CREATED" /\ ev.room = r
  BY <1>0, SayFields
<1>3. PICK o \in OpType : o = Rumoring(ev) /\ o.pc = "rumor" /\ o.ev = ev
  BY OpStages
<1>4. Begin(u, o)
  BY <1>2, <1>3 DEF RoomCreate
<1>5. /\ \A m \in Node, q \in Room : Exists(m, q) => rooms'[m][q] = rooms[m][q]
      /\ \A m \in Node, q \in Room : m # at[u] \/ q # r => rooms'[m][q] = rooms[m][q]
  <2>1. Tables /\ ListedByRight /\ granted \subseteq granted' /\ <<u, r, TRUE>> \in granted'
    BY <1>1, Basics
  <2> QED BY <1>0, <1>1, <2>1, NewStep
<1>6. /\ \A m \in Node, q \in Room : Exists(m, q) => rooms'[m][q].id # 0
      /\ \A m \in Node, q \in Room : rooms'[m][q].id # 0 =>
            Exists(m, q) \/ (m = at[u] /\ q = r)
  BY <1>5 DEF Exists
<1> QED BY <1>1, <1>2, <1>3, <1>4, <1>6, RequestHistory

\* A deletion takes the premise of Known away.
LEMMA DeleteHistory ==
    ASSUME IInv, HInv, NEW u \in User, NEW r \in Room, RoomDelete(u, r)
    PROVE  HInv'
<1>1. UNCHANGED events /\ EraseRoom(at[u], r) /\ at[u] \in Node
  BY Basics DEF RoomDelete, bus
<1>2. PICK ev \in Event : ev = Say("ROOM_DELETED", u, r, "PUBLIC") /\ ev.kind = "ROOM_DELETED"
  <2>1. "ROOM_DELETED" \in Kind /\ "PUBLIC" \in Privacy
    BY DEF Kind, Privacy
  <2> QED BY <2>1, SayFields
<1>3. PICK o \in OpType : o = Rumoring(ev) /\ o.pc = "rumor" /\ o.ev = ev
  BY OpStages
<1>4. op'[u] = o /\ \A x \in User : x # u => op'[x] = op[x]
  BY <1>2, <1>3, Basics DEF RoomDelete, Begin
<1>5. ~NoDeletes' /\ Kicking'
  BY <1>2, <1>3, <1>4 DEF NoDeletes, Kicking, HInv
<1>6. \A m \in Node : saved'[m] \subseteq saved[m]
  <2>1. saved' = [saved EXCEPT ![at[u]] = @ \ {x \in saved[at[u]] : events[x].room = r}]
    BY <1>1 DEF EraseRoom
  <2> QED BY <1>1, <2>1, Basics
<1>7. OnlyMessages'
  BY <1>1, <1>6 DEF OnlyMessages, HInv
<1> QED BY <1>5, <1>7 DEF HInv

\* The second halves of handlers, a resumed session, a crash.
LEMMA OtherHistory ==
    ASSUME IInv, HInv,
           \/ \E u \in User : Enter(u) \/ Expel(u)
           \/ \E u \in User, n \in Node, r \in Room : Reconnect(u, n, r)
           \/ \E n \in Node : Crash(n)
    PROVE  HInv'
<1> DEFINE NoneLost ==
             /\ \A m \in Node : got'[m] \subseteq got[m]
             /\ unsaid => unsaid'
             /\ ~unsaid' => \A w \in User : op[w].pc = "rumor" => op'[w] = op[w] /\ at'[w] = at[w]
             /\ \A w \in User : op'[w].pc = "rumor" /\ op'[w].ev.kind = "MESSAGE" =>
                   op'[w] = op[w] /\ at'[w] = at[w]
             /\ \A w \in User : op'[w].pc = "expel" => op'[w].ev.kind = "ROOM_KICK"
<1>1. UNCHANGED <<events, saved, inOrder, rooms>>
  BY DEF Enter, Expel, Reconnect, Crash, bus, tables, history
<1>2. /\ \A m \in Node, r \in Room : Exists(m, r) => rooms'[m][r].id # 0
      /\ \A m \in Node, r \in Room : rooms'[m][r].id # 0 => Exists(m, r)
  BY <1>1 DEF Exists
<1>3. \A w \in User : op[w].pc = "expel" => op[w].ev.kind = "ROOM_KICK"
  BY DEF HInv, Kicking
<1>4. NoneLost
  <2>1. ASSUME NEW u \in User, Enter(u) PROVE NoneLost
    <3>1. /\ UNCHANGED <<got, unsaid, at>> /\ op[u].pc = "enter"
          /\ op' = [op EXCEPT ![u] = Idle]
      BY <2>1 DEF Enter, bus
    <3>2. op'[u].pc = "idle" /\ \A x \in User : x # u => op'[x] = op[x]
      BY <3>1, Basics, OpStages
    <3> QED BY <1>3, <3>1, <3>2
  <2>2. ASSUME NEW u \in User, Expel(u) PROVE NoneLost
    <3>1. /\ UNCHANGED <<got, unsaid, at>> /\ op[u].pc = "expel"
          /\ op' = [op EXCEPT ![u] = Rumoring(op[u].ev)]
      BY <2>2 DEF Expel, bus, history
    <3>2. op[u].ev \in Event
      BY Basics DEF OpType
    <3>3. op'[u].pc = "rumor" /\ op'[u].ev = op[u].ev /\ \A x \in User : x # u => op'[x] = op[x]
      BY <3>1, <3>2, Basics, OpStages
    <3> QED BY <1>3, <3>1, <3>3
  <2>3. ASSUME NEW u \in User, NEW n \in Node, NEW r \in Room, Reconnect(u, n, r) PROVE NoneLost
    <3> DEFINE o == IF r # Lobby /\ Admissible(n, u, r) THEN Entering(r, NoRoom) ELSE Idle
    <3>1. /\ UNCHANGED <<got, unsaid>> /\ op[u].pc = "idle"
          /\ op' = [op EXCEPT ![u] = o] /\ at' = [at EXCEPT ![u] = n]
      BY <2>3 DEF Reconnect, bus, history
    <3>2. o.pc = "idle" \/ o.pc = "enter"
      <4>1. NoRoom \in RoomRow
        BY DEF NoRoom, RoomRow, Privacy
      <4> HIDE DEF NoRoom
      <4> QED BY <4>1, OpStages
    <3> HIDE DEF o
    <3>3. op'[u] = o /\ \A x \in User : x # u => op'[x] = op[x] /\ at'[x] = at[x]
      BY <3>1, Basics
    <3> QED BY <1>3, <3>1, <3>2, <3>3
  <2>4. ASSUME NEW n \in Node, Crash(n) PROVE NoneLost
    <3>1. /\ UNCHANGED at /\ got' = [got EXCEPT ![n] = {}]
          /\ op' = [u \in User |-> IF at[u] = n THEN Idle ELSE op[u]]
          /\ unsaid' = (unsaid \/ Unsaid(n) # {})
      BY <2>4 DEF Crash
    <3>2. \A x \in User : IF at[x] = n THEN op'[x].pc = "idle" ELSE op'[x] = op[x]
      BY <3>1, OpStages
    <3>3. \A m \in Node : got'[m] \subseteq got[m]
      BY <3>1, Basics
    <3>4. ~unsaid' => \A w \in User : op[w].pc = "rumor" => at[w] # n
      BY <3>1 DEF Unsaid
    <3>5. unsaid => unsaid'
      BY <3>1
    <3> QED BY <1>3, <3>1, <3>2, <3>3, <3>4, <3>5
  <2> QED BY <2>1, <2>2, <2>3, <2>4
<1> QED BY <1>1, <1>2, <1>4, QuietHistory

\* In the first state there are no events.
LEMMA InitiallyHInv ==
    ASSUME Init
    PROVE  HInv
<1>1. /\ events = <<>> /\ got = [n \in Node |-> {}] /\ saved = [n \in Node |-> {}]
      /\ op = [u \in User |-> Idle] /\ Len(events) = 0
  BY DEF Init
<1>2. \A u \in User : op[u].pc = "idle"
  BY <1>1, OpStages
<1>3. \A n, m \in Node, r \in Room : Exists(n, r) = Exists(m, r)
  <2>1. PICK old \in {{}} \cup {{r} : r \in Extra}, w \in User, privacy \in Privacy :
           InitWith(old, w, privacy)
    BY DEF Init
  <2>2. \A n, m \in Node : rooms[n] = rooms[m]
    BY <2>1 DEF InitWith
  <2> QED BY <2>2 DEF Exists
<1>4. Known
  BY <1>1, <1>2, <1>3 DEF Known, Announced, Everywhere
<1> QED BY <1>1, <1>2, <1>4 DEF HInv, OnlyMessages, Kicking

\* Every step keeps HInv.
LEMMA HistoryStep ==
    ASSUME IInv, HInv, [Next]_vars
    PROVE  HInv'
<1>1. CASE UNCHANGED vars
  <2>1. UNCHANGED <<events, got, rooms, saved, at, op, inOrder, unsaid>>
    BY <1>1 DEF vars, bus, tables, sessions, history
  <2>2. Known' <=> Known
    BY <2>1 DEF Known, Announced, Everywhere, Exists
  <2>3. (OnlyMessages' <=> OnlyMessages) /\ (Kicking' <=> Kicking) /\ (NoDeletes' <=> NoDeletes)
    BY <2>1 DEF OnlyMessages, Kicking, NoDeletes
  <2> QED BY <2>1, <2>2, <2>3 DEF HInv
<1>2. CASE Next
  BY <1>2, PlainHistory, CreateHistory, DeleteHistory, OtherHistory, RumorHistory, ReceiveHistory
     DEF Next
<1> QED BY <1>1, <1>2

\* When every node has every event, what it has saved is every message.
LEMMA HistoriesComplete ==
    ASSUME IInv, HInv
    PROVE  HistoriesAgree
<1>1. SUFFICES ASSUME Settled, inOrder, ~unsaid,
                      \A e \in 1..Len(events) : events[e].kind # "ROOM_DELETED",
                      NEW n \in Node
               PROVE  saved[n] = {e \in 1..Len(events) : events[e].kind = "MESSAGE"}
  BY DEF HistoriesAgree
<1>2. NoDeletes
  BY <1>1 DEF NoDeletes, Settled
<1>3. Known /\ OnlyMessages
  BY <1>1, <1>2 DEF HInv
<1>4. got[n] = 1..Len(events) /\ saved[n] \subseteq 1..Len(events)
  BY <1>1, Basics DEF Settled
<1> QED BY <1>3, <1>4 DEF Known, OnlyMessages

\* The nodes end up with the same message history, also when events came again after
\* they were forgotten, while no room was deleted and events came in order (applyEvent
\* of MESSAGE).
THEOREM SameHistories == Spec => []HistoriesAgree
<1>1. Init => IInv /\ HInv
  BY InitiallyIInv, InitiallyHInv
<1>2. IInv /\ HInv /\ [Next]_vars => (IInv /\ HInv)'
  BY InductiveStep, HistoryStep
<1>3. IInv /\ HInv => HistoriesAgree
  BY HistoriesComplete
<1> QED BY <1>1, <1>2, <1>3, PTL DEF Spec
-----------------------------------------------------------------------------
(***************************************************************************)
(* Why the lists agree.  A room is looked at as the others should see it   *)
(* too: the list of a public room only logs who was there.                 *)
(***************************************************************************)

Views == [form : {"absent"} \cup Privacy, list : [User -> {"none", "member", "creator"}]]

\* The allow_list of n has the row of v for id.
HasRow(n, id, v, creator) == [id |-> id, user |-> v, creator |-> creator] \in allow[n]

Mark(n, r, v) ==
    IF rooms[n][r].privacy # "PRIVATE" THEN "none"
    ELSE IF HasRow(n, rooms[n][r].id, v, TRUE) THEN "creator"
    ELSE IF HasRow(n, rooms[n][r].id, v, FALSE) THEN "member"
    ELSE "none"

\* What node n has of room r.
View(n, r) == [form |-> IF Exists(n, r) THEN rooms[n][r].privacy ELSE "absent",
               list |-> [v \in User |-> Mark(n, r, v)]]

\* Only a private room has a list.
Normal(w) == w \in Views /\ (w.form # "PRIVATE" => \A v \in User : w.list[v] = "none")

\* What an event makes of a view of its room, by a request or by applyEvent.
NewForm(w, ev) ==
    IF ev.kind = "ROOM_DELETED" THEN "absent"
    ELSE IF ev.kind = "ROOM_CREATED" /\ w.form = "absent" THEN ev.privacy
    ELSE w.form
NewMark(w, ev, v) ==
    IF ev.kind = "ROOM_DELETED" \/ (ev.kind = "ROOM_KICK" /\ v = ev.user) THEN "none"
    ELSE IF /\ ev.kind \in {"ROOM_CREATED", "ROOM_ACL_ADD"} /\ v = ev.user
            /\ NewForm(w, ev) = "PRIVATE" /\ w.list[v] = "none"
         THEN IF ev.kind = "ROOM_CREATED" THEN "creator" ELSE "member"
    ELSE w.list[v]
Outcome(w, ev) == [form |-> NewForm(w, ev), list |-> [v \in User |-> NewMark(w, ev, v)]]

\* Of the events L after i up to j, one deletes r; one kicks v from r.
Deleted(L, r, i, j) ==
    \E x \in 1..Len(L) : i < x /\ x <= j /\ L[x].kind = "ROOM_DELETED" /\ L[x].room = r
Struck(L, r, v, i, j) ==
    \E x \in 1..Len(L) : /\ i < x /\ x <= j /\ L[x].kind = "ROOM_KICK"
                         /\ L[x].room = r /\ L[x].user = v

\* R[k][r]: what the events 1..k make of r, one after the other.
Chain(L, R) ==
    \A k \in 1..Len(L), r \in Room :
        R[k][r] = IF Alters(L[k], r) THEN Outcome(R[k - 1][r], L[k]) ELSE R[k - 1][r]

\* What stays of a room from the i-th event to the j-th.
Stays(L, R, r, i, j) ==
    /\ (\A x \in 1..Len(L) : i < x /\ x <= j => ~Alters(L[x], r)) => R[j][r] = R[i][r]
    /\ R[i][r].form # "absent" /\ ~Deleted(L, r, i, j) =>
          /\ R[j][r].form = R[i][r].form
          /\ \A v \in User : R[i][r].list[v] # "none" /\ ~Struck(L, r, v, i, j) =>
                R[j][r].list[v] = R[i][r].list[v]

\* An event of a room that does not exist is about one that was deleted.
Founded(L, R) ==
    \A x \in 1..Len(L) :
        /\ L[x].kind \in {"ROOM_ACL_ADD", "ROOM_KICK"}
        /\ R[x - 1][L[x].room].form = "absent"
        => Deleted(L, L[x].room, 0, x - 1)

Reference(L, R) ==
    /\ R \in [0..Len(L) -> [Room -> Views]]
    /\ \A k \in 0..Len(L), r \in Room : Normal(R[k][r])
    /\ Chain(L, R)
    /\ \A i, j \in 0..Len(L), r \in Room : i <= j => Stays(L, R, r, i, j)
    /\ Founded(L, R)

\* g, the events a node has, holds of those that change r the ones up to k.
Cut(L, g, r, k) == \A x \in 1..Len(L) : Alters(L[x], r) => (x <= k <=> x \in g)
HasAll(L, g, r) == \A x \in 1..Len(L) : Alters(L[x], r) => x \in g

\* A node that has r as w and lacks the events after k.  Its own changes have been
\* rumored, so w may be ahead of R[k], but not of all the events, except where an
\* event to come will take the difference away.
Follows(L, R, w, r, k) ==
    \/ Deleted(L, r, k, Len(L))
    \/ /\ w.form # "absent" => R[Len(L)][r].form = w.form
       /\ R[k][r].form # "absent" => w.form # "absent"
       /\ w.form # "absent" /\ R[k][r].form = "absent" => ~Deleted(L, r, 0, k)
       /\ \A v \in User : ~Struck(L, r, v, k, Len(L)) =>
             /\ w.list[v] # "none" => R[Len(L)][r].list[v] = w.list[v]
             /\ R[k][r].list[v] # "none" => w.list[v] # "none"

\* The handlers of n that have changed r and have not rumored it, with their events.
Pending(n, r) ==
    {d \in User \X Event : /\ d[1] \in Unsaid(n) /\ d[2] = op[d[1]].ev
                           /\ Alters(d[2], r)}
Says(D, k) == \E d \in D : d[2].kind = k
SaysOf(D, k, v) == \E d \in D : d[2].kind = k /\ d[2].user = v

\* A node that has r as w, has all events about r, which make it z, and is to rumor
\* those in D; del when r was ever deleted.
Ahead(w, z, del, D) ==
    /\ ~Says(D, "ROOM_CREATED") =>
          (w.form # "absent" \/ Says(D, "ROOM_ACL_ADD") \/ Says(D, "ROOM_KICK")
              => z.form # "absent" \/ del)
    /\ ~Says(D, "ROOM_DELETED") /\ ~Says(D, "ROOM_CREATED") =>
          /\ w.form = z.form
          /\ \A v \in User : ~SaysOf(D, "ROOM_KICK", v) =>
                /\ \/ w.list[v] = z.list[v]
                   \/ z.list[v] = "none" /\ w.list[v] = "member" /\ SaysOf(D, "ROOM_ACL_ADD", v)
    /\ ~Says(D, "ROOM_DELETED") => \A c \in D : c[2].kind = "ROOM_CREATED" =>
          /\ z.form = "absent" /\ w.form = c[2].privacy
          /\ \A d \in D : d[2].kind = "ROOM_CREATED" => d = c
          /\ \A v \in User : ~SaysOf(D, "ROOM_KICK", v) =>
                /\ v = c[2].user /\ w.form = "PRIVATE" => w.list[v] = "creator"
                /\ v # c[2].user /\ w.list[v] # "none" =>
                      w.list[v] = "member" /\ SaysOf(D, "ROOM_ACL_ADD", v)

Track(L, R, g, w, D, r) ==
    /\ \E k \in 0..Len(L) : Cut(L, g, r, k) /\ (D = {} => Follows(L, R, w, r, k))
    /\ HasAll(L, g, r) => Ahead(w, R[Len(L)][r], Deleted(L, r, 0, Len(L)), D)

\* One row per room and user.
OneRow == \A n \in Node, id \in Nat, v \in User :
    ~(HasRow(n, id, v, TRUE) /\ HasRow(n, id, v, FALSE))

Tracks(R) ==
    /\ Reference(events, R)
    /\ \A n \in Node, r \in Room : Track(events, R, got[n], View(n, r), Pending(n, r), r)

LInv == OneRow /\ (inOrder /\ ~crossed /\ ~unsaid => \E R : Tracks(R))

\* An event makes a view of a view.
LEMMA OutcomeIs ==
    ASSUME NEW w, Normal(w), NEW ev \in Event
    PROVE  /\ Normal(Outcome(w, ev))
           /\ Outcome(w, ev).form = NewForm(w, ev)
           /\ \A v \in User : Outcome(w, ev).list[v] = NewMark(w, ev, v)
<1>1. w.form \in {"absent"} \cup Privacy /\ w.list \in [User -> {"none", "member", "creator"}]
  BY DEF Normal, Views
<1>2. ev.privacy \in Privacy /\ ev.user \in User /\ ev.kind \in Kind
  BY DEF Event
<1>3. NewForm(w, ev) \in {"absent"} \cup Privacy
  BY <1>1, <1>2 DEF NewForm
<1>4. \A v \in User : NewMark(w, ev, v) \in {"none", "member", "creator"}
  BY <1>1 DEF NewMark
<1>5. /\ Outcome(w, ev) \in Views
      /\ Outcome(w, ev).form = NewForm(w, ev)
      /\ \A v \in User : Outcome(w, ev).list[v] = NewMark(w, ev, v)
  BY <1>3, <1>4 DEF Outcome, Views
<1>6. ASSUME NewForm(w, ev) # "PRIVATE", NEW v \in User
      PROVE  NewMark(w, ev, v) = "none"
  <2>1. CASE ev.kind = "ROOM_DELETED"
    BY <2>1 DEF NewMark
  <2>2. CASE ev.kind # "ROOM_DELETED"
    <3>1. w.form # "PRIVATE"
      BY <1>6, <2>2 DEF NewForm
    <3>2. w.list[v] = "none"
      BY <3>1 DEF Normal
    <3> QED BY <1>6, <2>2, <3>2 DEF NewMark
  <2> QED BY <2>1, <2>2
<1> QED BY <1>5, <1>6 DEF Normal

\* What is left of a room when one more event is applied.
LEMMA OutcomeKeeps ==
    ASSUME NEW w, Normal(w), NEW ev \in Event, w.form # "absent", ev.kind # "ROOM_DELETED"
    PROVE  /\ Outcome(w, ev).form = w.form
           /\ \A v \in User : w.list[v] # "none" /\ ~(ev.kind = "ROOM_KICK" /\ ev.user = v) =>
                 Outcome(w, ev).list[v] = w.list[v]
BY OutcomeIs DEF NewForm, NewMark

\* The views of a reference are views.
LEMMA RefView ==
    ASSUME NEW L \in Seq(Event), NEW R, Reference(L, R), NEW k \in 0..Len(L), NEW r \in Room
    PROVE  /\ Normal(R[k][r])
           /\ R[k][r].form \in {"absent"} \cup Privacy
           /\ R[k][r].form # "PRIVATE" => \A v \in User : R[k][r].list[v] = "none"
           /\ \A v \in User : R[k][r].list[v] \in {"none", "member", "creator"}
<1>1. Normal(R[k][r])
  BY DEF Reference
<1> QED BY <1>1 DEF Normal, Views

\* The views after one more event.
Longer(L, R, ev) ==
    [k \in 0..(Len(L) + 1) |->
        IF k <= Len(L) THEN R[k]
        ELSE [r \in Room |-> IF Alters(ev, r) THEN Outcome(R[Len(L)][r], ev) ELSE R[Len(L)][r]]]

\* A log and the same log with one more event.
LEMMA LogLonger ==
    ASSUME NEW L \in Seq(Event), NEW ev \in Event
    PROVE  /\ Append(L, ev) \in Seq(Event)
           /\ Len(L) \in Nat /\ Len(Append(L, ev)) = Len(L) + 1
           /\ Append(L, ev)[Len(L) + 1] = ev
           /\ \A x \in 1..Len(L) : Append(L, ev)[x] = L[x]
OBVIOUS

\* Deletions and kicks in a log and in the longer one.
LEMMA MarksLonger ==
    ASSUME NEW L \in Seq(Event), NEW ev \in Event, NEW r \in Room, NEW i \in Nat
    PROVE  /\ \A j \in 0..Len(L) : Deleted(Append(L, ev), r, i, j) <=> Deleted(L, r, i, j)
           /\ \A j \in 0..Len(L), v \in User :
                 Struck(Append(L, ev), r, v, i, j) <=> Struck(L, r, v, i, j)
           /\ i <= Len(L) => /\ Deleted(Append(L, ev), r, i, Len(L) + 1) <=>
                                   Deleted(L, r, i, Len(L)) \/ (ev.kind = "ROOM_DELETED" /\ ev.room = r)
                             /\ \A v \in User : Struck(Append(L, ev), r, v, i, Len(L) + 1) <=>
                                   \/ Struck(L, r, v, i, Len(L))
                                   \/ ev.kind = "ROOM_KICK" /\ ev.room = r /\ ev.user = v
<1> DEFINE M == Append(L, ev)
<1>1. /\ Len(L) \in Nat /\ Len(M) = Len(L) + 1 /\ M[Len(L) + 1] = ev
      /\ \A x \in 1..Len(L) : M[x] = L[x]
  BY LogLonger
<1> HIDE DEF M
<1>2. ASSUME NEW j \in 0..Len(L)
      PROVE  Deleted(M, r, i, j) <=> Deleted(L, r, i, j)
  BY <1>1 DEF Deleted
<1>3. ASSUME NEW j \in 0..Len(L), NEW v \in User
      PROVE  Struck(M, r, v, i, j) <=> Struck(L, r, v, i, j)
  BY <1>1 DEF Struck
<1>4. ASSUME i <= Len(L)
      PROVE  Deleted(M, r, i, Len(L) + 1) <=>
                Deleted(L, r, i, Len(L)) \/ (ev.kind = "ROOM_DELETED" /\ ev.room = r)
  <2>1. ASSUME Deleted(M, r, i, Len(L) + 1)
        PROVE  Deleted(L, r, i, Len(L)) \/ (ev.kind = "ROOM_DELETED" /\ ev.room = r)
    BY <1>1, <2>1 DEF Deleted
  <2>2. ASSUME Deleted(L, r, i, Len(L)) PROVE Deleted(M, r, i, Len(L) + 1)
    BY <1>1, <2>2 DEF Deleted
  <2>3. ASSUME ev.kind = "ROOM_DELETED", ev.room = r PROVE Deleted(M, r, i, Len(L) + 1)
    BY <1>1, <1>4, <2>3 DEF Deleted
  <2> QED BY <2>1, <2>2, <2>3
<1>5. ASSUME i <= Len(L), NEW v \in User
      PROVE  Struck(M, r, v, i, Len(L) + 1) <=>
                Struck(L, r, v, i, Len(L)) \/ (ev.kind = "ROOM_KICK" /\ ev.room = r /\ ev.user = v)
  <2>1. ASSUME Struck(M, r, v, i, Len(L) + 1)
        PROVE  Struck(L, r, v, i, Len(L)) \/ (ev.kind = "ROOM_KICK" /\ ev.room = r /\ ev.user = v)
    BY <1>1, <2>1 DEF Struck
  <2>2. ASSUME Struck(L, r, v, i, Len(L)) PROVE Struck(M, r, v, i, Len(L) + 1)
    BY <1>1, <2>2 DEF Struck
  <2>3. ASSUME ev.kind = "ROOM_KICK", ev.room = r, ev.user = v PROVE Struck(M, r, v, i, Len(L) + 1)
    BY <1>1, <1>5, <2>3 DEF Struck
  <2> QED BY <2>1, <2>2, <2>3
<1> QED BY <1>2, <1>3, <1>4, <1>5 DEF M

\* The longer reference, position by position.
LEMMA LongerIs ==
    ASSUME NEW L \in Seq(Event), NEW R, Reference(L, R), NEW ev \in Event
    PROVE  /\ Longer(L, R, ev) \in [0..(Len(L) + 1) -> [Room -> Views]]
           /\ \A k \in 0..Len(L) : Longer(L, R, ev)[k] = R[k]
           /\ \A r \in Room : Longer(L, R, ev)[Len(L) + 1][r] =
                 IF Alters(ev, r) THEN Outcome(R[Len(L)][r], ev) ELSE R[Len(L)][r]
           /\ \A k \in 0..(Len(L) + 1), r \in Room : Normal(Longer(L, R, ev)[k][r])
<1> DEFINE S == Longer(L, R, ev)
           last == [r \in Room |-> IF Alters(ev, r) THEN Outcome(R[Len(L)][r], ev)
                                   ELSE R[Len(L)][r]]
<1>1. Len(L) \in Nat
  OBVIOUS
<1>2. \A k \in 0..Len(L) : R[k] \in [Room -> Views]
  BY DEF Reference
<1>3. \A r \in Room : Normal(R[Len(L)][r])
  BY <1>1 DEF Reference
<1>4. \A r \in Room : Normal(last[r])
  BY <1>3, OutcomeIs
<1>5. last \in [Room -> Views]
  BY <1>4 DEF Normal
<1>6. S = [k \in 0..(Len(L) + 1) |-> IF k <= Len(L) THEN R[k] ELSE last]
  BY DEF Longer
<1>7. \A r \in Room : last[r] = IF Alters(ev, r) THEN Outcome(R[Len(L)][r], ev) ELSE R[Len(L)][r]
  OBVIOUS
<1> HIDE DEF last, S
<1>8. S \in [0..(Len(L) + 1) -> [Room -> Views]]
  BY <1>1, <1>2, <1>5, <1>6
<1>9. (\A k \in 0..Len(L) : S[k] = R[k]) /\ S[Len(L) + 1] = last
  BY <1>1, <1>6
<1>10. \A k \in 0..Len(L), r \in Room : Normal(S[k][r])
  BY <1>9 DEF Reference
<1>11. \A k \in 0..(Len(L) + 1), r \in Room : Normal(S[k][r])
  BY <1>1, <1>4, <1>9, <1>10
<1> QED BY <1>7, <1>8, <1>9, <1>11 DEF S

\* A reference goes on being one.
LEMMA RefLonger ==
    ASSUME NEW L \in Seq(Event), NEW R, Reference(L, R), NEW ev \in Event,
           ev.kind \in {"ROOM_ACL_ADD", "ROOM_KICK"} /\ R[Len(L)][ev.room].form = "absent" =>
              Deleted(L, ev.room, 0, Len(L))
    PROVE  Reference(Append(L, ev), Longer(L, R, ev))
<1> DEFINE M == Append(L, ev)
           S == Longer(L, R, ev)
           n == Len(L)
<1>1. /\ n \in Nat /\ Len(M) = n + 1 /\ M[n + 1] = ev /\ M \in Seq(Event)
      /\ \A x \in 1..n : M[x] = L[x]
  BY LogLonger
<1>2. /\ S \in [0..(n + 1) -> [Room -> Views]]
      /\ \A k \in 0..n : S[k] = R[k]
      /\ \A r \in Room : S[n + 1][r] = IF Alters(ev, r) THEN Outcome(R[n][r], ev) ELSE R[n][r]
      /\ \A k \in 0..(n + 1), r \in Room : Normal(S[k][r])
  BY LongerIs
<1>3. \A x \in 1..n : L[x] \in Event
  OBVIOUS
<1>4. /\ \A i \in Nat, j \in 0..n, r \in Room : Deleted(M, r, i, j) <=> Deleted(L, r, i, j)
      /\ \A i \in Nat, j \in 0..n, r \in Room, v \in User :
            Struck(M, r, v, i, j) <=> Struck(L, r, v, i, j)
      /\ \A i \in 0..n, r \in Room : Deleted(M, r, i, n + 1) <=>
            Deleted(L, r, i, n) \/ (ev.kind = "ROOM_DELETED" /\ ev.room = r)
      /\ \A i \in 0..n, r \in Room, v \in User : Struck(M, r, v, i, n + 1) <=>
            Struck(L, r, v, i, n) \/ (ev.kind = "ROOM_KICK" /\ ev.room = r /\ ev.user = v)
  BY <1>1, MarksLonger
<1> HIDE DEF M, S, n
<1>5. Chain(M, S)
  <2> SUFFICES ASSUME NEW k \in 1..Len(M), NEW r \in Room
               PROVE  S[k][r] = IF Alters(M[k], r) THEN Outcome(S[k - 1][r], M[k]) ELSE S[k - 1][r]
    BY DEF Chain
  <2>1. CASE k = n + 1
    BY <1>1, <1>2, <2>1
  <2>2. CASE k \in 1..n
    <3>1. R[k][r] = IF Alters(L[k], r) THEN Outcome(R[k - 1][r], L[k]) ELSE R[k - 1][r]
      BY <2>2 DEF Reference, Chain, n
    <3>2. S[k] = R[k] /\ S[k - 1] = R[k - 1] /\ M[k] = L[k]
      BY <1>1, <1>2, <2>2
    <3> QED BY <3>1, <3>2
  <2> QED BY <1>1, <2>1, <2>2
<1>6. ASSUME NEW i \in 0..Len(M), NEW j \in 0..Len(M), NEW r \in Room, i <= j
      PROVE  Stays(M, S, r, i, j)
  <2>1. CASE j \in 0..n
    <3>1. Stays(L, R, r, i, j)
      BY <1>1, <1>6, <2>1 DEF Reference, n
    <3>2. S[i] = R[i] /\ S[j] = R[j]
      BY <1>1, <1>2, <1>6, <2>1
    <3>3. (Deleted(M, r, i, j) <=> Deleted(L, r, i, j))
          /\ \A v \in User : Struck(M, r, v, i, j) <=> Struck(L, r, v, i, j)
      BY <1>1, <1>4, <2>1
    <3>4. (\A x \in 1..Len(M) : i < x /\ x <= j => ~Alters(M[x], r)) =>
             (\A x \in 1..Len(L) : i < x /\ x <= j => ~Alters(L[x], r))
      BY <1>1, <2>1 DEF n
    <3> QED BY <3>1, <3>2, <3>3, <3>4 DEF Stays
  <2>2. CASE j = n + 1 /\ i = n + 1
    <3>1. \A v \in User : S[j][r].list[v] = S[i][r].list[v]
      BY <2>2
    <3> QED BY <2>2, <3>1 DEF Stays
  <2>3. CASE j = n + 1 /\ i \in 0..n
    <3>1. Stays(L, R, r, i, n)
      BY <1>1, <2>3 DEF Reference, n
    <3>2. S[i] = R[i]
      BY <1>2, <2>3
    <3> DEFINE a == R[i][r]
               b == R[n][r]
               c == S[j][r]
    <3>3. c = IF Alters(ev, r) THEN Outcome(b, ev) ELSE b
      BY <1>2, <2>3
    <3>4. Normal(b)
      BY <1>1 DEF Reference, n
    <3>5. (Deleted(M, r, i, j) <=> Deleted(L, r, i, n) \/ (ev.kind = "ROOM_DELETED" /\ ev.room = r))
          /\ \A v \in User : Struck(M, r, v, i, j) <=>
                Struck(L, r, v, i, n) \/ (ev.kind = "ROOM_KICK" /\ ev.room = r /\ ev.user = v)
      BY <1>4, <2>3
    <3>6. ASSUME \A x \in 1..Len(M) : i < x /\ x <= j => ~Alters(M[x], r) PROVE c = a
      <4>1. ~Alters(ev, r)
        BY <1>1, <2>3, <3>6
      <4>2. \A x \in 1..Len(L) : i < x /\ x <= n => ~Alters(L[x], r)
        BY <1>1, <2>3, <3>6 DEF n
      <4> QED BY <3>1, <3>3, <4>1, <4>2 DEF Stays
    <3>7. /\ a.form # "absent" /\ ~Deleted(L, r, i, n) => b.form = a.form
          /\ \A v \in User : /\ a.form # "absent" /\ ~Deleted(L, r, i, n)
                             /\ a.list[v] # "none" /\ ~Struck(L, r, v, i, n)
                             => b.list[v] = a.list[v]
      BY <3>1 DEF Stays
    <3>8. /\ b.form # "absent" /\ ~(ev.kind = "ROOM_DELETED" /\ ev.room = r) => c.form = b.form
          /\ \A v \in User : /\ b.form # "absent" /\ ~(ev.kind = "ROOM_DELETED" /\ ev.room = r)
                             /\ b.list[v] # "none"
                             /\ ~(ev.kind = "ROOM_KICK" /\ ev.room = r /\ ev.user = v)
                             => c.list[v] = b.list[v]
      <4>1. CASE Alters(ev, r)
        <5>1. c = Outcome(b, ev) /\ ev.room = r
          BY <3>3, <4>1 DEF Alters
        <5> HIDE DEF b, c
        <5> QED BY <3>4, <5>1, OutcomeKeeps
      <4>2. CASE ~Alters(ev, r)
        BY <3>3, <4>2
      <4> QED BY <4>1, <4>2
    <3> HIDE DEF a, b, c
    <3>9. a.form # "absent" /\ ~Deleted(M, r, i, j) =>
             /\ c.form = a.form
             /\ \A v \in User : a.list[v] # "none" /\ ~Struck(M, r, v, i, j) => c.list[v] = a.list[v]
      BY <3>5, <3>7, <3>8
    <3> QED BY <3>2, <3>6, <3>9 DEF Stays, a, c
  <2> QED BY <1>1, <1>6, <2>1, <2>2, <2>3
<1>7. Founded(M, S)
  <2> SUFFICES ASSUME NEW x \in 1..Len(M), M[x].kind \in {"ROOM_ACL_ADD", "ROOM_KICK"},
                      S[x - 1][M[x].room].form = "absent"
               PROVE  Deleted(M, M[x].room, 0, x - 1)
    BY DEF Founded
  <2>1. M[x].room \in Room
    <3>1. M[x] \in Event
      BY <1>1, <1>3
    <3> QED BY <3>1 DEF Event
  <2>2. CASE x = n + 1
    <3>1. M[x] = ev /\ S[x - 1] = R[n] /\ x - 1 = n
      BY <1>1, <1>2, <2>2
    <3>2. Deleted(L, ev.room, 0, n)
      BY <3>1 DEF n
    <3> QED BY <1>1, <1>4, <2>1, <3>1, <3>2
  <2>3. CASE x \in 1..n
    <3>1. M[x] = L[x] /\ S[x - 1] = R[x - 1] /\ x - 1 \in 0..n
      BY <1>1, <1>2, <2>3
    <3>2. Deleted(L, L[x].room, 0, x - 1)
      BY <2>3, <3>1 DEF Reference, Founded, n
    <3> QED BY <1>4, <2>1, <3>1, <3>2
  <2> QED BY <1>1, <2>2, <2>3
<1> QED BY <1>1, <1>2, <1>5, <1>6, <1>7 DEF Reference, M, S, n

\* Events about other rooms make no difference.
LEMMA FollowsOn ==
    ASSUME NEW L \in Seq(Event), NEW R, Reference(L, R), NEW r \in Room, NEW w,
           NEW i \in 0..Len(L), NEW j \in 0..Len(L), i <= j,
           \A x \in 1..Len(L) : i < x /\ x <= j => ~Alters(L[x], r),
           Follows(L, R, w, r, i)
    PROVE  Follows(L, R, w, r, j)
<1>1. R[j][r] = R[i][r]
  BY DEF Reference, Stays
<1>2. Deleted(L, r, i, Len(L)) => Deleted(L, r, j, Len(L))
  BY DEF Deleted, Alters
<1>3. Deleted(L, r, 0, j) => Deleted(L, r, 0, i)
  BY DEF Deleted, Alters
<1>4. ASSUME NEW v \in User, Struck(L, r, v, i, Len(L)) PROVE Struck(L, r, v, j, Len(L))
  BY <1>4 DEF Struck, Alters
<1> HIDE DEF Reference
<1> QED BY <1>1, <1>2, <1>3, <1>4 DEF Follows

\* A node that has lost its log is where a node without events may be.
LEMMA FollowsBack ==
    ASSUME NEW L \in Seq(Event), NEW R, Reference(L, R), NEW r \in Room, NEW w,
           NEW k \in 0..Len(L), Follows(L, R, w, r, k)
    PROVE  Follows(L, R, w, r, 0)
<1>1. Stays(L, R, r, 0, k)
  BY DEF Reference
<1>2. Deleted(L, r, k, Len(L)) => Deleted(L, r, 0, Len(L))
  BY DEF Deleted
<1>3. Deleted(L, r, 0, k) => Deleted(L, r, 0, Len(L))
  BY DEF Deleted
<1>4. ~Deleted(L, r, 0, 0)
  BY DEF Deleted
<1>5. \A v \in User : /\ Struck(L, r, v, k, Len(L)) => Struck(L, r, v, 0, Len(L))
                      /\ Struck(L, r, v, 0, k) => Struck(L, r, v, 0, Len(L))
  BY DEF Struck
<1>6. R[0][r].form # "PRIVATE" => \A v \in User : R[0][r].list[v] = "none"
  BY RefView
<1>7. ASSUME ~Deleted(L, r, 0, Len(L)) PROVE Follows(L, R, w, r, 0)
  <2>1. /\ w.form # "absent" => R[Len(L)][r].form = w.form
        /\ R[k][r].form # "absent" => w.form # "absent"
        /\ \A v \in User : ~Struck(L, r, v, k, Len(L)) =>
              /\ w.list[v] # "none" => R[Len(L)][r].list[v] = w.list[v]
              /\ R[k][r].list[v] # "none" => w.list[v] # "none"
    BY <1>2, <1>7 DEF Follows
  <2>2. R[0][r].form # "absent" =>
           /\ R[k][r].form = R[0][r].form
           /\ \A v \in User : R[0][r].list[v] # "none" /\ ~Struck(L, r, v, 0, k) =>
                 R[k][r].list[v] = R[0][r].list[v]
    BY <1>1, <1>3, <1>7 DEF Stays
  <2>3. R[0][r].form # "absent" => w.form # "absent"
    BY <2>1, <2>2
  <2>4. ASSUME NEW v \in User, ~Struck(L, r, v, 0, Len(L))
        PROVE  /\ w.list[v] # "none" => R[Len(L)][r].list[v] = w.list[v]
               /\ R[0][r].list[v] # "none" => w.list[v] # "none"
    BY <1>5, <1>6, <2>1, <2>2, <2>4
  <2> QED BY <1>4, <2>1, <2>3, <2>4 DEF Follows
<1>8. Deleted(L, r, 0, Len(L)) => Follows(L, R, w, r, 0)
  BY DEF Follows
<1> QED BY <1>7, <1>8

\* One more event, which the node has not got.
LEMMA FollowsMore ==
    ASSUME NEW L \in Seq(Event), NEW R, Reference(L, R), NEW ev \in Event, NEW r \in Room,
           NEW w, Normal(w), NEW k \in 0..Len(L), Follows(L, R, w, r, k)
    PROVE  Follows(Append(L, ev), Longer(L, R, ev), w, r, k)
<1> DEFINE M == Append(L, ev)
           S == Longer(L, R, ev)
           n == Len(L)
           z == R[n][r]
           y == S[n + 1][r]
<1>1. n \in Nat /\ Len(M) = n + 1
  BY LogLonger
<1>2. S[k] = R[k] /\ y = IF Alters(ev, r) THEN Outcome(z, ev) ELSE z
  BY LongerIs
<1>3. /\ Deleted(M, r, 0, k) <=> Deleted(L, r, 0, k)
      /\ Deleted(M, r, k, n + 1) <=> Deleted(L, r, k, n) \/ (ev.kind = "ROOM_DELETED" /\ ev.room = r)
      /\ \A v \in User : Struck(M, r, v, k, n + 1) <=>
            Struck(L, r, v, k, n) \/ (ev.kind = "ROOM_KICK" /\ ev.room = r /\ ev.user = v)
  BY MarksLonger
<1>4. Normal(z)
  BY <1>1, RefView
<1>5. z.form # "absent" /\ ~(ev.kind = "ROOM_DELETED" /\ ev.room = r) =>
         /\ y.form = z.form
         /\ \A v \in User : z.list[v] # "none"
                            /\ ~(ev.kind = "ROOM_KICK" /\ ev.room = r /\ ev.user = v) =>
               y.list[v] = z.list[v]
  <2>1. CASE Alters(ev, r)
    <3>1. y = Outcome(z, ev) /\ ev.room = r
      BY <1>2, <2>1 DEF Alters
    <3> HIDE DEF y, z
    <3> QED BY <1>4, <3>1, OutcomeKeeps
  <2>2. CASE ~Alters(ev, r)
    BY <1>2, <2>2
  <2> QED BY <2>1, <2>2
<1>6. /\ w.form # "PRIVATE" => \A v \in User : w.list[v] = "none"
      /\ z.form # "PRIVATE" => \A v \in User : z.list[v] = "none"
  BY <1>4 DEF Normal
<1>7. \/ Deleted(L, r, k, n)
      \/ /\ w.form # "absent" => z.form = w.form
         /\ R[k][r].form # "absent" => w.form # "absent"
         /\ w.form # "absent" /\ R[k][r].form = "absent" => ~Deleted(L, r, 0, k)
         /\ \A v \in User : ~Struck(L, r, v, k, n) =>
               /\ w.list[v] # "none" => z.list[v] = w.list[v]
               /\ R[k][r].list[v] # "none" => w.list[v] # "none"
  BY DEF Follows
<1> HIDE DEF M, S, n, y, z
<1>8. \/ Deleted(M, r, k, n + 1)
      \/ /\ w.form # "absent" => y.form = w.form
         /\ R[k][r].form # "absent" => w.form # "absent"
         /\ w.form # "absent" /\ R[k][r].form = "absent" => ~Deleted(M, r, 0, k)
         /\ \A v \in User : ~Struck(M, r, v, k, n + 1) =>
               /\ w.list[v] # "none" => y.list[v] = w.list[v]
               /\ R[k][r].list[v] # "none" => w.list[v] # "none"
  <2>1. CASE Deleted(M, r, k, n + 1)
    BY <2>1
  <2>2. CASE ~Deleted(M, r, k, n + 1)
    <3>1. ~(ev.kind = "ROOM_DELETED" /\ ev.room = r) /\ ~Deleted(L, r, k, n)
      BY <1>3, <2>2
    <3>2. w.form # "absent" => y.form = w.form
      BY <1>5, <1>7, <3>1
    <3>3. w.form # "absent" /\ R[k][r].form = "absent" => ~Deleted(M, r, 0, k)
      BY <1>3, <1>7, <3>1
    <3>4. ASSUME NEW v \in User, ~Struck(M, r, v, k, n + 1)
          PROVE  /\ w.list[v] # "none" => y.list[v] = w.list[v]
                 /\ R[k][r].list[v] # "none" => w.list[v] # "none"
      <4>1. ~Struck(L, r, v, k, n) /\ ~(ev.kind = "ROOM_KICK" /\ ev.room = r /\ ev.user = v)
        BY <1>3, <3>4
      <4> QED BY <1>5, <1>6, <1>7, <3>1, <4>1
    <3> QED BY <1>7, <3>1, <3>2, <3>3, <3>4
  <2> QED BY <2>1, <2>2
<1> QED BY <1>1, <1>2, <1>8 DEF Follows, M, S, n, y

\* The next event about r is applied.
LEMMA FollowsNext ==
    ASSUME NEW L \in Seq(Event), NEW R, Reference(L, R), NEW r \in Room, NEW w, Normal(w),
           NEW e \in 1..Len(L), Alters(L[e], r), Follows(L, R, w, r, e - 1)
    PROVE  Follows(L, R, Outcome(w, L[e]), r, e)
<1> DEFINE ev == L[e]
           n == Len(L)
           a == R[e - 1][r]
           b == R[e][r]
           z == R[n][r]
           y == Outcome(w, ev)
<1>1. ev \in Event /\ ev.room = r /\ n \in Nat /\ e - 1 \in 0..n /\ e \in 0..n /\ e <= n /\ n \in 0..n
  BY DEF Alters
<1>2. b = Outcome(a, ev)
  BY DEF Reference, Chain
<1>3. Normal(a) /\ Normal(b) /\ Normal(z) /\ Normal(y)
  <2>1. Normal(a) /\ Normal(b) /\ Normal(z)
    BY <1>1 DEF Reference
  <2>2. Normal(y)
    <3> HIDE DEF ev
    <3> QED BY <1>1, OutcomeIs
  <2> QED BY <2>1, <2>2
<1>4. Stays(L, R, r, e, n) /\ Stays(L, R, r, e - 1, n)
  BY <1>1 DEF Reference
<1>5. Deleted(L, r, e - 1, n) <=> Deleted(L, r, e, n) \/ ev.kind = "ROOM_DELETED"
  BY <1>1 DEF Deleted
<1>6. \A v \in User : Struck(L, r, v, e - 1, n) <=>
         Struck(L, r, v, e, n) \/ (ev.kind = "ROOM_KICK" /\ ev.user = v)
  BY <1>1 DEF Struck
<1>7. Deleted(L, r, 0, e) <=> Deleted(L, r, 0, e - 1) \/ ev.kind = "ROOM_DELETED"
  BY <1>1 DEF Deleted
<1>8. ev.kind \in {"ROOM_ACL_ADD", "ROOM_KICK"} /\ a.form = "absent" => Deleted(L, r, 0, e - 1)
  BY <1>1 DEF Reference, Founded
<1>9. /\ b.form = NewForm(a, ev) /\ \A v \in User : b.list[v] = NewMark(a, ev, v)
      /\ y.form = NewForm(w, ev) /\ \A v \in User : y.list[v] = NewMark(w, ev, v)
  <2> HIDE DEF a, b, y, ev
  <2>1. b.form = NewForm(a, ev) /\ \A v \in User : b.list[v] = NewMark(a, ev, v)
    BY <1>1, <1>2, <1>3, OutcomeIs
  <2>2. y.form = NewForm(w, ev) /\ \A v \in User : y.list[v] = NewMark(w, ev, v)
    BY <1>1, OutcomeIs DEF y
  <2> QED BY <2>1, <2>2
<1>10. CASE Deleted(L, r, e, n)
  BY <1>10 DEF Follows
<1>11. CASE ev.kind = "ROOM_DELETED" /\ ~Deleted(L, r, e, n)
  <2>1. y.form = "absent" /\ b.form = "absent"
    BY <1>9, <1>11 DEF NewForm
  <2>2. \A v \in User : y.list[v] = "none" /\ b.list[v] = "none"
    BY <1>9, <1>11 DEF NewMark
  <2> HIDE DEF y, ev
  <2> QED BY <2>1, <2>2 DEF Follows, y, ev
<1>12. CASE ev.kind # "ROOM_DELETED" /\ ~Deleted(L, r, e, n)
  <2>1. /\ w.form # "absent" => z.form = w.form
        /\ a.form # "absent" => w.form # "absent"
        /\ w.form # "absent" /\ a.form = "absent" => ~Deleted(L, r, 0, e - 1)
        /\ \A v \in User : ~Struck(L, r, v, e - 1, n) =>
              /\ w.list[v] # "none" => z.list[v] = w.list[v]
              /\ a.list[v] # "none" => w.list[v] # "none"
    BY <1>5, <1>12 DEF Follows
  <2>2. /\ b.form # "absent" => z.form = b.form
        /\ \A v \in User : b.form # "absent" /\ b.list[v] # "none" /\ ~Struck(L, r, v, e, n) =>
              z.list[v] = b.list[v]
    BY <1>4, <1>12 DEF Stays
  <2>3. a.form # "absent" => z.form = a.form
    BY <1>4, <1>5, <1>12 DEF Stays
  <2>4. /\ a.form # "PRIVATE" => \A v \in User : a.list[v] = "none"
        /\ b.form # "PRIVATE" => \A v \in User : b.list[v] = "none"
        /\ y.form # "PRIVATE" => \A v \in User : y.list[v] = "none"
        /\ w.form # "PRIVATE" => \A v \in User : w.list[v] = "none"
    BY <1>3 DEF Normal
  <2>5. ev.privacy # "absent" /\ ev.kind \in Kind \ {"ROOM_DELETED"}
    BY <1>1, <1>12 DEF Event, Privacy
  <2> HIDE DEF a, b, z, y, ev, n
  <2>6. y.form # "absent" => z.form = y.form
    BY <1>9, <1>12, <2>1, <2>2, <2>3, <2>5 DEF NewForm
  <2>7. b.form # "absent" => y.form # "absent"
    BY <1>9, <1>12, <2>1, <2>5 DEF NewForm
  <2>8. y.form # "absent" /\ b.form = "absent" => ~Deleted(L, r, 0, e)
    BY <1>7, <1>9, <1>12, <2>1, <2>5 DEF NewForm
  <2>9. ASSUME NEW v \in User, ~Struck(L, r, v, e, n)
        PROVE  /\ y.list[v] # "none" => z.list[v] = y.list[v]
               /\ b.list[v] # "none" => y.list[v] # "none"
    <3>1. CASE ev.kind = "ROOM_KICK" /\ ev.user = v
      <4>1. y.list[v] = "none" /\ b.list[v] = "none"
        BY <1>9, <3>1 DEF NewMark
      <4> QED BY <4>1
    <3>2. CASE ~(ev.kind = "ROOM_KICK" /\ ev.user = v)
      <4>1. /\ w.list[v] # "none" => z.list[v] = w.list[v]
            /\ a.list[v] # "none" => w.list[v] # "none"
        BY <1>6, <2>1, <2>9, <3>2
      <4>2. CASE w.list[v] # "none"
        <5>1. y.list[v] = w.list[v]
          BY <1>9, <1>12, <3>2, <4>2 DEF NewMark
        <5> QED BY <4>1, <4>2, <5>1
      <4>3. CASE w.list[v] = "none"
        <5>1. a.list[v] = "none"
          BY <4>1, <4>3
        <5>2. CASE ev.kind \in {"ROOM_CREATED", "ROOM_ACL_ADD"} /\ ev.user = v
          <6>1. ASSUME y.form = "PRIVATE" PROVE b.form = "PRIVATE"
            <7>1. CASE ev.kind = "ROOM_CREATED"
              BY <1>9, <2>2, <2>5, <2>6, <6>1, <7>1 DEF NewForm
            <7>2. CASE ev.kind = "ROOM_ACL_ADD"
              <8>1. w.form = "PRIVATE" /\ b.form = a.form
                BY <1>9, <6>1, <7>2 DEF NewForm
              <8>2. a.form # "absent"
                BY <1>8, <2>1, <7>2, <8>1
              <8> QED BY <2>1, <2>3, <8>1, <8>2
            <7> QED BY <5>2, <7>1, <7>2
          <6>2. ASSUME b.form = "PRIVATE" PROVE y.form = "PRIVATE"
            BY <2>2, <2>6, <2>7, <6>2
          <6>3. y.list[v] = b.list[v]
            <7>1. CASE y.form = "PRIVATE"
              <8>1. NewForm(w, ev) = "PRIVATE" /\ NewForm(a, ev) = "PRIVATE"
                BY <1>9, <6>1, <7>1
              <8> QED BY <1>9, <1>12, <3>2, <4>3, <5>1, <5>2, <8>1 DEF NewMark
            <7>2. CASE y.form # "PRIVATE"
              BY <2>4, <6>2, <7>2
            <7> QED BY <7>1, <7>2
          <6>4. ASSUME b.list[v] # "none" PROVE z.list[v] = b.list[v]
            <7>1. b.form # "absent"
              BY <2>4, <6>4
            <7> QED BY <2>2, <2>9, <6>4, <7>1
          <6> QED BY <6>3, <6>4
        <5>3. CASE ~(ev.kind \in {"ROOM_CREATED", "ROOM_ACL_ADD"} /\ ev.user = v)
          <6>1. y.list[v] = "none" /\ b.list[v] = "none"
            BY <1>9, <1>12, <4>3, <5>1, <5>3 DEF NewMark
          <6> QED BY <6>1
        <5> QED BY <5>2, <5>3
      <4> QED BY <4>2, <4>3
    <3> QED BY <3>1, <3>2
  <2> QED BY <2>6, <2>7, <2>8, <2>9 DEF Follows, b, z, y, ev, n
<1> QED BY <1>10, <1>11, <1>12

\* A node that has all events about r, and nothing to rumor, has r as they make it.
LEMMA FollowsAll ==
    ASSUME NEW L \in Seq(Event), NEW R, Reference(L, R), NEW r \in Room, NEW w, Normal(w),
           NEW g, HasAll(L, g, r), NEW k \in 0..Len(L), Cut(L, g, r, k), Follows(L, R, w, r, k)
    PROVE  /\ w.form = R[Len(L)][r].form
           /\ \A v \in User : w.list[v] = R[Len(L)][r].list[v]
<1> DEFINE n == Len(L)
<1>1. n \in Nat /\ n \in 0..n /\ k <= n
  OBVIOUS
<1>2. \A x \in 1..n : k < x /\ x <= n => ~Alters(L[x], r)
  BY DEF HasAll, Cut
<1>3. Follows(L, R, w, r, n)
  BY <1>1, <1>2, FollowsOn
<1>4. ~Deleted(L, r, n, n) /\ \A v \in User : ~Struck(L, r, v, n, n)
  BY <1>1 DEF Deleted, Struck
<1>5. /\ w.form # "absent" => R[n][r].form = w.form
      /\ R[n][r].form # "absent" => w.form # "absent"
      /\ \A v \in User : /\ w.list[v] # "none" => R[n][r].list[v] = w.list[v]
                         /\ R[n][r].list[v] # "none" => w.list[v] # "none"
  BY <1>3, <1>4 DEF Follows
<1> HIDE DEF n
<1>6. w.form = R[n][r].form
  BY <1>5
<1>7. \A v \in User : w.list[v] = R[n][r].list[v]
  BY <1>5
<1> QED BY <1>6, <1>7 DEF n

\* Three ways to show that a node keeps track of a room: it follows the events,
LEMMA TrackFollows ==
    ASSUME NEW L \in Seq(Event), NEW R, Reference(L, R), NEW r \in Room, NEW w, Normal(w),
           NEW g, NEW k \in 0..Len(L), Cut(L, g, r, k), Follows(L, R, w, r, k)
    PROVE  Track(L, R, g, w, {}, r)
<1>1. ASSUME HasAll(L, g, r) PROVE Ahead(w, R[Len(L)][r], Deleted(L, r, 0, Len(L)), {})
  <2>1. /\ w.form = R[Len(L)][r].form
        /\ \A v \in User : w.list[v] = R[Len(L)][r].list[v]
    BY <1>1, FollowsAll
  <2>2. \A kind : ~Says({}, kind) /\ \A v \in User : ~SaysOf({}, kind, v)
    BY DEF Says, SaysOf
  <2> QED BY <2>1, <2>2 DEF Ahead
<1> QED BY <1>1 DEF Track

\* it has them all and is ahead of them,
LEMMA TrackAhead ==
    ASSUME NEW L \in Seq(Event), NEW R, NEW r \in Room, NEW w, NEW g, NEW D,
           HasAll(L, g, r), Ahead(w, R[Len(L)][r], Deleted(L, r, 0, Len(L)), D)
    PROVE  Track(L, R, g, w, D, r)
<1> DEFINE n == Len(L)
<1>1. n \in 0..n
  OBVIOUS
<1>2. Cut(L, g, r, n)
  BY DEF HasAll, Cut
<1>3. ASSUME D = {} PROVE Follows(L, R, w, r, n)
  <2>1. \A kind : ~Says(D, kind) /\ \A v \in User : ~SaysOf(D, kind, v)
    BY <1>3 DEF Says, SaysOf
  <2>2. w.form = R[n][r].form /\ \A v \in User : w.list[v] = R[n][r].list[v]
    BY <2>1 DEF Ahead
  <2> QED BY <2>2 DEF Follows
<1> QED BY <1>1, <1>2, <1>3 DEF Track

\* or it has changed the room while an event about it was still to come.
LEMMA TrackApart ==
    ASSUME NEW L, NEW R, NEW r \in Room, NEW w, NEW g, NEW D, NEW k \in 0..Len(L),
           Cut(L, g, r, k), D # {}, ~HasAll(L, g, r)
    PROVE  Track(L, R, g, w, D, r)
BY DEF Track

\* A handler that changes the room is ahead, too.
LEMMA AheadRequest ==
    ASSUME NEW w, Normal(w), NEW z, Normal(z), NEW del, NEW D, NEW u, NEW ev \in Event,
           \A d \in D : d[2] \in Event, ev.kind # "MESSAGE", w.form = "absent" <=> ev.kind = "ROOM_CREATED", Ahead(w, z, del, D)
    PROVE  Ahead(Outcome(w, ev), z, del, D \cup {<<u, ev>>})
<1> DEFINE E == D \cup {<<u, ev>>}
           y == Outcome(w, ev)
<1>1. y.form = NewForm(w, ev) /\ \A v \in User : y.list[v] = NewMark(w, ev, v)
  BY OutcomeIs
<1>0. \A d : d \in E <=> d \in D \/ d = <<u, ev>>
  OBVIOUS
<1>2. \A k : Says(E, k) <=> Says(D, k) \/ ev.kind = k
  <2>1. <<u, ev>>[2] = ev
    OBVIOUS
  <2> HIDE DEF E
  <2> QED BY <1>0, <2>1 DEF Says
<1>3. \A k : \A v : SaysOf(E, k, v) <=> SaysOf(D, k, v) \/ (ev.kind = k /\ ev.user = v)
  <2>1. <<u, ev>>[2] = ev
    OBVIOUS
  <2> HIDE DEF E
  <2> QED BY <1>0, <2>1 DEF SaysOf
<1>4. /\ ev.kind \in {"ROOM_CREATED", "ROOM_ACL_ADD", "ROOM_KICK", "ROOM_DELETED"}
      /\ ev.privacy # "absent" /\ ev.privacy \in Privacy
  BY DEF Event, Kind, Privacy
<1>5. /\ w.form # "PRIVATE" => \A v \in User : w.list[v] = "none"
      /\ z.form # "PRIVATE" => \A v \in User : z.list[v] = "none"
  BY DEF Normal
<1>6. \A d \in E : d \in D \/ (d = <<u, ev>> /\ d[2] = ev)
  OBVIOUS
<1> HIDE DEF E, y
<1>7. ~Says(E, "ROOM_CREATED") =>
         (y.form # "absent" \/ Says(E, "ROOM_ACL_ADD") \/ Says(E, "ROOM_KICK") => z.form # "absent" \/ del)
  BY <1>2 DEF Ahead
<1>8. ASSUME ~Says(E, "ROOM_DELETED"), ~Says(E, "ROOM_CREATED")
      PROVE  /\ y.form = z.form
             /\ \A v \in User : ~SaysOf(E, "ROOM_KICK", v) =>
                   \/ y.list[v] = z.list[v]
                   \/ z.list[v] = "none" /\ y.list[v] = "member" /\ SaysOf(E, "ROOM_ACL_ADD", v)
  <2>1. ev.kind \in {"ROOM_ACL_ADD", "ROOM_KICK"} /\ ~Says(D, "ROOM_DELETED") /\ ~Says(D, "ROOM_CREATED")
    BY <1>2, <1>4, <1>8
  <2>2. /\ w.form = z.form
        /\ \A v \in User : ~SaysOf(D, "ROOM_KICK", v) =>
              \/ w.list[v] = z.list[v]
              \/ z.list[v] = "none" /\ w.list[v] = "member" /\ SaysOf(D, "ROOM_ACL_ADD", v)
    BY <2>1 DEF Ahead
  <2>3. y.form = z.form
    BY <1>1, <2>1, <2>2 DEF NewForm
  <2>4. ASSUME NEW v \in User, ~SaysOf(E, "ROOM_KICK", v)
        PROVE  \/ y.list[v] = z.list[v]
               \/ z.list[v] = "none" /\ y.list[v] = "member" /\ SaysOf(E, "ROOM_ACL_ADD", v)
    <3>1. ~SaysOf(D, "ROOM_KICK", v) /\ ~(ev.kind = "ROOM_KICK" /\ ev.user = v)
      BY <1>3, <2>4
    <3>2. \/ y.list[v] = w.list[v]
          \/ w.list[v] = "none" /\ y.list[v] = "member" /\ SaysOf(E, "ROOM_ACL_ADD", v)
      BY <1>1, <1>3, <2>1, <3>1 DEF NewMark
    <3> QED BY <1>3, <2>2, <3>1, <3>2
  <2> QED BY <2>3, <2>4
<1>9. ASSUME ~Says(E, "ROOM_DELETED"), NEW c \in E, c[2].kind = "ROOM_CREATED"
      PROVE  /\ z.form = "absent" /\ y.form = c[2].privacy
             /\ \A d \in E : d[2].kind = "ROOM_CREATED" => d = c
             /\ \A v \in User : ~SaysOf(E, "ROOM_KICK", v) =>
                   /\ v = c[2].user /\ y.form = "PRIVATE" => y.list[v] = "creator"
                   /\ v # c[2].user /\ y.list[v] # "none" =>
                         y.list[v] = "member" /\ SaysOf(E, "ROOM_ACL_ADD", v)
  <2>1. ~Says(D, "ROOM_DELETED") /\ ev.kind # "ROOM_DELETED"
    BY <1>2, <1>9
  <2>2. CASE ev.kind = "ROOM_CREATED"
    <3>1. w.form = "absent"
      BY <2>2
    <3>2. \A d \in D : d[2].kind # "ROOM_CREATED"
      <4> SUFFICES ASSUME NEW d \in D, d[2].kind = "ROOM_CREATED" PROVE FALSE
        OBVIOUS
      <4>1. w.form = d[2].privacy /\ z.form = "absent"
        BY <2>1 DEF Ahead
      <4>2. d[2].privacy \in Privacy
        BY DEF Event
      <4> QED BY <3>1, <4>1, <4>2 DEF Privacy
    <3>3. c[2] = ev /\ \A d \in E : d[2].kind = "ROOM_CREATED" => d = c
      BY <1>6, <1>9, <3>2
    <3>4. ~Says(D, "ROOM_CREATED")
      BY <3>2 DEF Says
    <3>5. z.form = "absent"
      BY <2>1, <3>1, <3>4 DEF Ahead
    <3>6. y.form = ev.privacy
      BY <1>1, <2>2, <3>1 DEF NewForm
    <3>7. ASSUME NEW v \in User
          PROVE  /\ v = ev.user /\ y.form = "PRIVATE" => y.list[v] = "creator"
                 /\ v # ev.user => y.list[v] = "none"
      <4>1. w.list[v] = "none"
        BY <1>5, <3>1
      <4> QED BY <1>1, <2>2, <4>1 DEF NewMark
    <3> QED BY <3>3, <3>5, <3>6, <3>7
  <2>3. CASE ev.kind # "ROOM_CREATED"
    <3>1. c \in D
      BY <1>6, <1>9, <2>3
    <3>2. /\ z.form = "absent" /\ w.form = c[2].privacy
          /\ \A d \in D : d[2].kind = "ROOM_CREATED" => d = c
          /\ \A v \in User : ~SaysOf(D, "ROOM_KICK", v) =>
                   /\ v = c[2].user /\ w.form = "PRIVATE" => w.list[v] = "creator"
                   /\ v # c[2].user /\ w.list[v] # "none" =>
                         w.list[v] = "member" /\ SaysOf(D, "ROOM_ACL_ADD", v)
      BY <1>9, <2>1, <3>1 DEF Ahead
    <3>3. y.form = w.form
      BY <1>1, <2>1, <2>3 DEF NewForm
    <3>4. \A d \in E : d[2].kind = "ROOM_CREATED" => d = c
      BY <1>6, <2>3, <3>2
    <3>5. ASSUME NEW v \in User, ~SaysOf(E, "ROOM_KICK", v)
          PROVE  /\ v = c[2].user /\ y.form = "PRIVATE" => y.list[v] = "creator"
                 /\ v # c[2].user /\ y.list[v] # "none" =>
                       y.list[v] = "member" /\ SaysOf(E, "ROOM_ACL_ADD", v)
      <4>1. ~SaysOf(D, "ROOM_KICK", v) /\ ~(ev.kind = "ROOM_KICK" /\ ev.user = v)
        BY <1>3, <3>5
      <4>2. \/ y.list[v] = w.list[v]
            \/ w.list[v] = "none" /\ y.list[v] = "member" /\ SaysOf(E, "ROOM_ACL_ADD", v)
        BY <1>1, <1>3, <1>4, <2>1, <2>3, <4>1 DEF NewMark
      <4> QED BY <1>3, <3>2, <3>3, <4>1, <4>2
    <3> QED BY <3>2, <3>3, <3>4, <3>5
  <2> QED BY <2>2, <2>3
<1> QED BY <1>7, <1>8, <1>9 DEF Ahead, E, y

\* A handler that rumors its change takes the reference along, when no creation
\* of the room is left to be rumored.
LEMMA AheadRumor ==
    ASSUME NEW w, Normal(w), NEW z, Normal(z), NEW del, NEW gone, NEW D, NEW u, NEW ev \in Event,
           <<u, ev>> \in D, ev.kind # "MESSAGE", gone <=> del \/ ev.kind = "ROOM_DELETED",
           \A d \in D : d # <<u, ev>> => d[2].kind # "ROOM_CREATED", Ahead(w, z, del, D)
    PROVE  /\ Ahead(Outcome(w, ev), Outcome(z, ev), gone, D \ {<<u, ev>>})
           /\ ev.kind \in {"ROOM_ACL_ADD", "ROOM_KICK"} /\ z.form = "absent" => del
<1> DEFINE E == D \ {<<u, ev>>}
           y == Outcome(w, ev)
           x == Outcome(z, ev)
<1>0. (\A d \in D : d \in E \/ d = <<u, ev>>) /\ (\A d \in E : d \in D /\ d # <<u, ev>>) /\ <<u, ev>>[2] = ev
  OBVIOUS
<1>1. /\ y.form = NewForm(w, ev) /\ \A v \in User : y.list[v] = NewMark(w, ev, v)
      /\ x.form = NewForm(z, ev) /\ \A v \in User : x.list[v] = NewMark(z, ev, v)
  BY OutcomeIs
<1>2. /\ ev.kind \in {"ROOM_CREATED", "ROOM_ACL_ADD", "ROOM_KICK", "ROOM_DELETED"}
      /\ ev.privacy # "absent" /\ ev.privacy \in Privacy
  BY DEF Event, Kind, Privacy
<1>3. /\ w.form # "PRIVATE" => \A v \in User : w.list[v] = "none"
      /\ z.form # "PRIVATE" => \A v \in User : z.list[v] = "none"
  BY DEF Normal
<1> HIDE DEF E, y, x
<1>4. /\ \A k : Says(D, k) => Says(E, k) \/ ev.kind = k
      /\ Says(D, ev.kind)
  BY <1>0 DEF Says
<1>5. /\ \A k : \A v : SaysOf(D, k, v) => SaysOf(E, k, v) \/ (ev.kind = k /\ ev.user = v)
      /\ \A k : \A v : SaysOf(E, k, v) => SaysOf(D, k, v)
  BY <1>0 DEF SaysOf
<1>6. ~Says(E, "ROOM_CREATED") /\ \A d \in E : d[2].kind # "ROOM_CREATED"
  BY <1>0 DEF Says
<1>7. ev.kind # "ROOM_CREATED" => ~Says(D, "ROOM_CREATED")
  BY <1>4, <1>6
<1>8. ev.kind \in {"ROOM_ACL_ADD", "ROOM_KICK"} => z.form # "absent" \/ del
  BY <1>4, <1>7 DEF Ahead
<1>9. x.form # "absent" \/ gone
  BY <1>1, <1>2, <1>8 DEF NewForm
<1>10. ASSUME ~Says(E, "ROOM_DELETED")
       PROVE  /\ y.form = x.form
              /\ \A v \in User : ~SaysOf(E, "ROOM_KICK", v) =>
                    \/ y.list[v] = x.list[v]
                    \/ x.list[v] = "none" /\ y.list[v] = "member" /\ SaysOf(E, "ROOM_ACL_ADD", v)
  <2>1. CASE ev.kind = "ROOM_DELETED"
    <3>1. y.form = x.form
      BY <1>1, <2>1 DEF NewForm
    <3>2. \A v \in User : y.list[v] = x.list[v]
      BY <1>1, <2>1 DEF NewMark
    <3> QED BY <3>1, <3>2
  <2>2. CASE ev.kind = "ROOM_CREATED"
    <3>1. ~Says(D, "ROOM_DELETED")
      BY <1>4, <1>10, <2>2
    <3>2. /\ z.form = "absent" /\ w.form = ev.privacy
          /\ \A v \in User : ~SaysOf(D, "ROOM_KICK", v) =>
                /\ v = ev.user /\ w.form = "PRIVATE" => w.list[v] = "creator"
                /\ v # ev.user /\ w.list[v] # "none" =>
                      w.list[v] = "member" /\ SaysOf(D, "ROOM_ACL_ADD", v)
      BY <1>0, <2>2, <3>1 DEF Ahead
    <3>3. y.form = ev.privacy /\ x.form = ev.privacy
      BY <1>1, <1>2, <2>2, <3>2 DEF NewForm
    <3>4. ASSUME NEW v \in User, ~SaysOf(E, "ROOM_KICK", v)
          PROVE  \/ y.list[v] = x.list[v]
                 \/ x.list[v] = "none" /\ y.list[v] = "member" /\ SaysOf(E, "ROOM_ACL_ADD", v)
      <4>1. ~SaysOf(D, "ROOM_KICK", v) /\ (SaysOf(D, "ROOM_ACL_ADD", v) => SaysOf(E, "ROOM_ACL_ADD", v))
        BY <1>5, <2>2, <3>4
      <4>2. z.list[v] = "none"
        BY <1>3, <3>2
      <4>3. CASE ev.privacy = "PRIVATE" /\ v = ev.user
        <5>1. NewForm(z, ev) = "PRIVATE" /\ w.list[v] = "creator"
          BY <1>1, <3>2, <3>3, <4>1, <4>3
        <5>2. y.list[v] = "creator"
          BY <1>1, <2>2, <5>1 DEF NewMark
        <5>3. x.list[v] = "creator"
          BY <1>1, <2>2, <4>2, <4>3, <5>1 DEF NewMark
        <5> QED BY <5>2, <5>3
      <4>4. CASE v # ev.user
        <5>1. y.list[v] = w.list[v] /\ x.list[v] = "none"
          BY <1>1, <2>2, <4>2, <4>4 DEF NewMark
        <5> QED BY <3>2, <4>1, <4>4, <5>1
      <4>5. CASE ev.privacy # "PRIVATE"
        <5>1. w.list[v] = "none" /\ NewForm(w, ev) # "PRIVATE" /\ NewForm(z, ev) # "PRIVATE"
          BY <1>1, <1>3, <3>2, <3>3, <4>5
        <5>2. y.list[v] = "none" /\ x.list[v] = "none"
          BY <1>1, <2>2, <4>2, <5>1 DEF NewMark
        <5> QED BY <5>2
      <4> QED BY <4>3, <4>4, <4>5
    <3> QED BY <3>3, <3>4
  <2>3. CASE ev.kind \in {"ROOM_ACL_ADD", "ROOM_KICK"}
    <3>1. ~Says(D, "ROOM_DELETED") /\ ~Says(D, "ROOM_CREATED")
      BY <1>4, <1>7, <1>10, <2>3
    <3>2. /\ w.form = z.form
          /\ \A v \in User : ~SaysOf(D, "ROOM_KICK", v) =>
                \/ w.list[v] = z.list[v]
                \/ z.list[v] = "none" /\ w.list[v] = "member" /\ SaysOf(D, "ROOM_ACL_ADD", v)
      BY <3>1 DEF Ahead
    <3>3. y.form = w.form /\ x.form = w.form /\ NewForm(w, ev) = w.form /\ NewForm(z, ev) = w.form
      BY <1>1, <2>3, <3>2 DEF NewForm
    <3>4. ASSUME NEW v \in User, ~SaysOf(E, "ROOM_KICK", v)
          PROVE  \/ y.list[v] = x.list[v]
                 \/ x.list[v] = "none" /\ y.list[v] = "member" /\ SaysOf(E, "ROOM_ACL_ADD", v)
      <4>1. CASE ev.kind = "ROOM_KICK" /\ v = ev.user
        BY <1>1, <4>1 DEF NewMark
      <4>2. CASE ev.kind = "ROOM_ACL_ADD" /\ v = ev.user
        <5>1. ~SaysOf(D, "ROOM_KICK", v)
          BY <1>5, <3>4, <4>2
        <5>2. /\ y.list[v] = IF w.form = "PRIVATE" /\ w.list[v] = "none" THEN "member" ELSE w.list[v]
              /\ x.list[v] = IF w.form = "PRIVATE" /\ z.list[v] = "none" THEN "member" ELSE z.list[v]
          BY <1>1, <3>3, <4>2 DEF NewMark
        <5> QED BY <1>3, <3>2, <5>1, <5>2
      <4>3. CASE v # ev.user
        <5>1. ~SaysOf(D, "ROOM_KICK", v) /\ (SaysOf(D, "ROOM_ACL_ADD", v) => SaysOf(E, "ROOM_ACL_ADD", v))
          BY <1>5, <3>4, <4>3
        <5>2. y.list[v] = w.list[v] /\ x.list[v] = z.list[v]
          BY <1>1, <2>3, <4>3 DEF NewMark
        <5> QED BY <3>2, <5>1, <5>2
      <4> QED BY <2>3, <4>1, <4>2, <4>3
    <3> QED BY <3>3, <3>4
  <2> QED BY <1>2, <2>1, <2>2, <2>3
<1>11. Ahead(y, x, gone, E)
  BY <1>6, <1>9, <1>10 DEF Ahead
<1> QED BY <1>8, <1>11 DEF E, y, x

\* A longer log for a room it says nothing about.
LEMMA TrackOther ==
    ASSUME NEW L \in Seq(Event), NEW R, Reference(L, R), NEW ev \in Event, NEW r \in Room,
           ~Alters(ev, r), NEW w, Normal(w), NEW D, NEW g, NEW h, g \subseteq h,
           h \subseteq g \cup {Len(L) + 1}, g \subseteq 1..Len(L), Track(L, R, g, w, D, r)
    PROVE  Track(Append(L, ev), Longer(L, R, ev), h, w, D, r)
<1> DEFINE M == Append(L, ev)
           S == Longer(L, R, ev)
           n == Len(L)
<1>1. /\ n \in Nat /\ Len(M) = n + 1 /\ M[n + 1] = ev
      /\ \A x \in 1..n : M[x] = L[x]
  BY LogLonger
<1>2. (\A k \in 0..n : S[k] = R[k]) /\ S[n + 1][r] = R[n][r]
  BY LongerIs
<1>3. Deleted(M, r, 0, n + 1) <=> Deleted(L, r, 0, n)
  <2>1. ~(ev.kind = "ROOM_DELETED" /\ ev.room = r)
    BY DEF Alters
  <2> QED BY <1>1, <2>1, MarksLonger
<1>4. PICK k \in 0..n : Cut(L, g, r, k) /\ (D = {} => Follows(L, R, w, r, k))
  BY DEF Track
<1>5. D = {} => Follows(M, S, w, r, k)
  BY <1>4, FollowsMore
<1> HIDE DEF M, S, n
<1>6. \A x \in 1..n : x \in g <=> x \in h
  BY <1>1 DEF n
<1>7. Cut(M, h, r, k)
  BY <1>1, <1>4, <1>6 DEF Cut, n
<1>8. HasAll(M, h, r) => HasAll(L, g, r)
  BY <1>1, <1>6 DEF HasAll, n
<1>9. HasAll(M, h, r) => Ahead(w, S[Len(M)][r], Deleted(M, r, 0, Len(M)), D)
  <2>1. ASSUME HasAll(L, g, r) PROVE Ahead(w, R[n][r], Deleted(L, r, 0, n), D)
    BY <2>1 DEF Track, n
  <2>2. Deleted(M, r, 0, n + 1) = Deleted(L, r, 0, n)
    BY <1>3 DEF Deleted
  <2> QED BY <1>1, <1>2, <1>8, <2>1, <2>2
<1> QED BY <1>1, <1>4, <1>5, <1>7, <1>9 DEF Track, M, S, n
-----------------------------------------------------------------------------
(***************************************************************************)
(* What the handlers and applyEvent make of the views.                     *)
(***************************************************************************)

\* Node n turns its view of the event's room into the outcome; nothing else is seen
\* to change.
Turned(n, ev) ==
    \A m \in Node, q \in Room :
        View(m, q)' = IF m = n /\ Alters(ev, q) THEN Outcome(View(m, q), ev) ELSE View(m, q)

\* A view is a view, and only private rooms show lists.
LEMMA ViewNormal ==
    ASSUME Tables, NEW n \in Node, NEW r \in Room
    PROVE  /\ Normal(View(n, r))
           /\ View(n, r).form = IF Exists(n, r) THEN rooms[n][r].privacy ELSE "absent"
           /\ \A v \in User : View(n, r).list[v] = Mark(n, r, v)
<1>1. rooms[n][r].privacy \in Privacy /\ (rooms[n][r].id = 0 => rooms[n][r].privacy = "PUBLIC")
  BY DEF Tables, RowsAt, RoomRow
<1>2. \A v \in User : Mark(n, r, v) \in {"none", "member", "creator"}
  BY DEF Mark
<1>3. /\ View(n, r).form = IF Exists(n, r) THEN rooms[n][r].privacy ELSE "absent"
      /\ \A v \in User : View(n, r).list[v] = Mark(n, r, v)
      /\ View(n, r) \in Views
  BY <1>1, <1>2 DEF View, Views
<1>4. View(n, r).form # "PRIVATE" => rooms[n][r].privacy # "PRIVATE"
  BY <1>1, <1>3 DEF Exists
<1>5. View(n, r).form # "PRIVATE" => \A v \in User : Mark(n, r, v) = "none"
  BY <1>4 DEF Mark
<1> QED BY <1>3, <1>5 DEF Normal

\* The rows after addToAllowList, removeFromAllowList and deleteRoom.
RowsGrow(n, id, u, creator) ==
    \A m \in Node, i \in Nat, v \in User :
        /\ HasRow(m, i, v, TRUE)' <=>
              \/ HasRow(m, i, v, TRUE)
              \/ /\ m = n /\ i = id /\ v = u /\ creator
                 /\ ~HasRow(n, id, u, TRUE) /\ ~HasRow(n, id, u, FALSE)
        /\ HasRow(m, i, v, FALSE)' <=>
              \/ HasRow(m, i, v, FALSE)
              \/ /\ m = n /\ i = id /\ v = u /\ ~creator
                 /\ ~HasRow(n, id, u, TRUE) /\ ~HasRow(n, id, u, FALSE)
RowsShrink(n, id, U) ==
    \A m \in Node, i \in Nat, v \in User :
        /\ HasRow(m, i, v, TRUE)' <=> HasRow(m, i, v, TRUE) /\ ~(m = n /\ i = id /\ v \in U)
        /\ HasRow(m, i, v, FALSE)' <=> HasRow(m, i, v, FALSE) /\ ~(m = n /\ i = id /\ v \in U)
SameRows(m, i) ==
    \A v \in User : /\ HasRow(m, i, v, TRUE)' <=> HasRow(m, i, v, TRUE)
                    /\ HasRow(m, i, v, FALSE)' <=> HasRow(m, i, v, FALSE)

\* addToAllowList, row by row.
LEMMA AddRows ==
    ASSUME Tables, NEW n \in Node, NEW id \in Nat, NEW u \in User, NEW creator \in BOOLEAN,
           AddToAllowList(n, id, u, creator)
    PROVE  RowsGrow(n, id, u, creator)
<1>1. Listed(n, id, u) <=> HasRow(n, id, u, TRUE) \/ HasRow(n, id, u, FALSE)
  <2>1. ASSUME Listed(n, id, u) PROVE HasRow(n, id, u, TRUE) \/ HasRow(n, id, u, FALSE)
    <3>1. PICK row \in allow[n] : row.id = id /\ row.user = u
      BY <2>1 DEF Listed
    <3>2. row \in AllowRow
      BY DEF Tables
    <3>3. row = [id |-> id, user |-> u, creator |-> row.creator] /\ row.creator \in BOOLEAN
      BY <3>1, <3>2 DEF AllowRow
    <3>4. row.creator = TRUE \/ row.creator = FALSE
      BY <3>3
    <3>5. [id |-> id, user |-> u, creator |-> row.creator] \in allow[n]
      BY <3>3
    <3> QED BY <3>4, <3>5 DEF HasRow
  <2>2. ASSUME HasRow(n, id, u, TRUE) PROVE Listed(n, id, u)
    BY <2>2 DEF HasRow, Listed
  <2>3. ASSUME HasRow(n, id, u, FALSE) PROVE Listed(n, id, u)
    BY <2>3 DEF HasRow, Listed
  <2> QED BY <2>1, <2>2, <2>3
<1> DEFINE new == [id |-> id, user |-> u, creator |-> creator]
<1>2. \A m \in Node : allow'[m] = IF m = n /\ ~Listed(n, id, u) THEN allow[n] \cup {new} ELSE allow[m]
  BY DEF AddToAllowList, WithRow, Tables
<1>3. ASSUME NEW i \in Nat, NEW v \in User, NEW c \in BOOLEAN
      PROVE  [id |-> i, user |-> v, creator |-> c] = new <=> i = id /\ v = u /\ c = creator
  OBVIOUS
<1> HIDE DEF new
<1>4. ASSUME NEW m \in Node, NEW i \in Nat, NEW v \in User, NEW c \in BOOLEAN
      PROVE  HasRow(m, i, v, c)' <=>
                 \/ HasRow(m, i, v, c)
                 \/ /\ m = n /\ i = id /\ v = u /\ c = creator
                    /\ ~HasRow(n, id, u, TRUE) /\ ~HasRow(n, id, u, FALSE)
  <2> DEFINE row == [id |-> i, user |-> v, creator |-> c]
  <2>1. row \in allow'[m] <=> row \in allow[m] \/ (m = n /\ ~Listed(n, id, u) /\ row = new)
    BY <1>2
  <2>2. (HasRow(m, i, v, c)' <=> row \in allow'[m]) /\ (HasRow(m, i, v, c) <=> row \in allow[m])
    BY DEF HasRow
  <2>3. row = new <=> i = id /\ v = u /\ c = creator
    BY <1>3
  <2> HIDE DEF row
  <2> QED BY <1>1, <2>1, <2>2, <2>3
<1>5. ASSUME NEW m \in Node, NEW i \in Nat, NEW v \in User
      PROVE  /\ HasRow(m, i, v, TRUE)' <=>
                   \/ HasRow(m, i, v, TRUE)
                   \/ /\ m = n /\ i = id /\ v = u /\ creator
                      /\ ~HasRow(n, id, u, TRUE) /\ ~HasRow(n, id, u, FALSE)
             /\ HasRow(m, i, v, FALSE)' <=>
                   \/ HasRow(m, i, v, FALSE)
                   \/ /\ m = n /\ i = id /\ v = u /\ ~creator
                      /\ ~HasRow(n, id, u, TRUE) /\ ~HasRow(n, id, u, FALSE)
  <2>1. HasRow(m, i, v, TRUE)' <=>
           \/ HasRow(m, i, v, TRUE)
           \/ /\ m = n /\ i = id /\ v = u /\ TRUE = creator
              /\ ~HasRow(n, id, u, TRUE) /\ ~HasRow(n, id, u, FALSE)
    BY <1>4, Zenon
  <2>2. HasRow(m, i, v, FALSE)' <=>
           \/ HasRow(m, i, v, FALSE)
           \/ /\ m = n /\ i = id /\ v = u /\ FALSE = creator
              /\ ~HasRow(n, id, u, TRUE) /\ ~HasRow(n, id, u, FALSE)
    BY <1>4, Zenon
  <2>3. (TRUE = creator <=> creator) /\ (FALSE = creator <=> ~creator)
    OBVIOUS
  <2> QED BY <2>1, <2>2, <2>3
<1> QED BY <1>5 DEF RowsGrow

\* removeFromAllowList.
LEMMA RemoveRows ==
    ASSUME Tables, NEW n \in Node, NEW id \in Nat, NEW u \in User,
           RemoveFromAllowList(n, id, u)
    PROVE  RowsShrink(n, id, {u})
<1>1. \A m \in Node : allow'[m] = IF m = n THEN {row \in allow[n] : ~(row.id = id /\ row.user = u)}
                                  ELSE allow[m]
  BY DEF RemoveFromAllowList, Tables
<1>2. ASSUME NEW m \in Node, NEW i \in Nat, NEW v \in User, NEW c \in BOOLEAN
      PROVE  HasRow(m, i, v, c)' <=> HasRow(m, i, v, c) /\ ~(m = n /\ i = id /\ v = u)
  <2> DEFINE row == [id |-> i, user |-> v, creator |-> c]
  <2>1. row.id = i /\ row.user = v
    OBVIOUS
  <2>2. (HasRow(m, i, v, c)' <=> row \in allow'[m]) /\ (HasRow(m, i, v, c) <=> row \in allow[m])
    BY DEF HasRow
  <2> HIDE DEF row
  <2> QED BY <1>1, <2>1, <2>2
<1> QED BY <1>2, Zenon DEF RowsShrink

\* deleteRoom's part of allow_list.
LEMMA EraseRows ==
    ASSUME Tables, NEW n \in Node, NEW id \in Nat,
           allow' = [allow EXCEPT ![n] = {row \in @ : row.id # id}]
    PROVE  RowsShrink(n, id, User)
<1>1. /\ allow'[n] = {x \in allow[n] : x.id # id}
      /\ \A m \in Node : m # n => allow'[m] = allow[m]
  BY DEF Tables
<1>2. ASSUME NEW m \in Node, NEW i \in Nat, NEW v \in User, NEW c \in BOOLEAN
      PROVE  HasRow(m, i, v, c)' <=> HasRow(m, i, v, c) /\ ~(m = n /\ i = id)
  <2> DEFINE row == [id |-> i, user |-> v, creator |-> c]
  <2>1. row.id = i
    OBVIOUS
  <2>2. (HasRow(m, i, v, c)' <=> row \in allow'[m]) /\ (HasRow(m, i, v, c) <=> row \in allow[m])
    BY DEF HasRow
  <2> HIDE DEF row
  <2>3. CASE m = n
    <3>1. row \in allow'[m] <=> row \in allow[m] /\ row.id # id
      BY <1>1, <2>3
    <3> QED BY <2>1, <2>2, <2>3, <3>1
  <2>4. CASE m # n
    BY <1>1, <2>2, <2>4
  <2> QED BY <2>3, <2>4
<1> QED BY <1>2, Zenon DEF RowsShrink

\* The mark of v on a private room, from the rows with its id.
LEMMA MarkIs ==
    ASSUME NEW m \in Node, NEW q \in Room, NEW v \in User, NEW id
    PROVE  /\ rooms[m][q].privacy = "PRIVATE" /\ rooms[m][q].id = id =>
                 Mark(m, q, v) = IF HasRow(m, id, v, TRUE) THEN "creator"
                                 ELSE IF HasRow(m, id, v, FALSE) THEN "member" ELSE "none"
           /\ rooms'[m][q].privacy = "PRIVATE" /\ rooms'[m][q].id = id =>
                 Mark(m, q, v)' = IF HasRow(m, id, v, TRUE)' THEN "creator"
                                  ELSE IF HasRow(m, id, v, FALSE)' THEN "member" ELSE "none"
<1>1. ASSUME rooms[m][q].privacy = "PRIVATE", rooms[m][q].id = id
      PROVE  Mark(m, q, v) = IF HasRow(m, id, v, TRUE) THEN "creator"
                             ELSE IF HasRow(m, id, v, FALSE) THEN "member" ELSE "none"
  BY <1>1 DEF Mark
<1>2. ASSUME rooms'[m][q].privacy = "PRIVATE", rooms'[m][q].id = id
      PROVE  Mark(m, q, v)' = IF HasRow(m, id, v, TRUE)' THEN "creator"
                              ELSE IF HasRow(m, id, v, FALSE)' THEN "member" ELSE "none"
  <2>1. \A c : [id |-> rooms'[m][q].id, user |-> v, creator |-> c] = [id |-> id, user |-> v, creator |-> c]
    BY <1>2
  <2> QED BY <1>2, <2>1 DEF Mark, HasRow
<1> QED BY <1>1, <1>2

\* A room whose row and, if it is private, list stay looks the same.
LEMMA ViewSame ==
    ASSUME NEW m \in Node, NEW q \in Room, rooms'[m][q] = rooms[m][q],
           NEW id, id = rooms[m][q].id,
           rooms[m][q].privacy = "PRIVATE" => SameRows(m, id)
    PROVE  View(m, q)' = View(m, q)
<1>1. ASSUME NEW v \in User PROVE Mark(m, q, v)' = Mark(m, q, v)
  <2>1. CASE rooms[m][q].privacy # "PRIVATE"
    BY <2>1 DEF Mark
  <2>2. CASE rooms[m][q].privacy = "PRIVATE"
    <3>1. /\ HasRow(m, id, v, TRUE)' <=> HasRow(m, id, v, TRUE)
          /\ HasRow(m, id, v, FALSE)' <=> HasRow(m, id, v, FALSE)
      BY <2>2 DEF SameRows
    <3> QED BY <2>2, <3>1, MarkIs
  <2> QED BY <2>1, <2>2
<1>2. Exists(m, q)' <=> Exists(m, q)
  BY DEF Exists
<1> QED BY <1>1, <1>2 DEF View

\* A room that gets the outcome's row and marks looks like the outcome.
LEMMA ViewTurned ==
    ASSUME NEW n \in Node, NEW ev,
           Exists(n, ev.room)' <=> NewForm(View(n, ev.room), ev) # "absent",
           Exists(n, ev.room)' => rooms'[n][ev.room].privacy = NewForm(View(n, ev.room), ev),
           \A v \in User : Mark(n, ev.room, v)' = NewMark(View(n, ev.room), ev, v)
    PROVE  View(n, ev.room)' = Outcome(View(n, ev.room), ev)
BY DEF View, Outcome

\* Rows with one id belong to one room.
LEMMA RoomIds ==
    ASSUME Tables, NEW n \in Node
    PROVE  /\ \A r \in Room : rooms[n][r].id \in Nat /\ rooms[n][r].id < nextId[n]
           /\ \A r \in Room : rooms[n][r].privacy = "PRIVATE" => rooms[n][r].id # 0
           /\ \A r, q \in Room : rooms[n][r].id = rooms[n][q].id /\ rooms[n][r].id # 0 => r = q
           /\ nextId[n] \in Nat
           /\ \A v \in User : ~HasRow(n, nextId[n], v, TRUE) /\ ~HasRow(n, nextId[n], v, FALSE)
<1>1. RowsAt(n) /\ rooms[n] \in [Room -> RoomRow] /\ nextId[n] \in Nat
  BY DEF Tables
<1>2. \A r \in Room : rooms[n][r].id \in Nat
  BY <1>1 DEF RoomRow
<1>3. ASSUME NEW v \in User, NEW c \in BOOLEAN PROVE ~HasRow(n, nextId[n], v, c)
  <2> SUFFICES ASSUME HasRow(n, nextId[n], v, c) PROVE FALSE
    OBVIOUS
  <2>1. [id |-> nextId[n], user |-> v, creator |-> c].id < nextId[n]
    BY <1>1 DEF HasRow, RowsAt
  <2> QED BY <1>1, <2>1
<1>4. \A v \in User : ~HasRow(n, nextId[n], v, TRUE) /\ ~HasRow(n, nextId[n], v, FALSE)
  BY <1>3, Zenon
<1> QED BY <1>1, <1>2, <1>4 DEF RowsAt

\* One row stays one row when rows are removed, or added where there was none.
LEMMA AddOneRow ==
    ASSUME OneRow, Tables, NEW n \in Node, NEW id \in Nat, NEW u \in User,
           NEW creator \in BOOLEAN, AddToAllowList(n, id, u, creator)
    PROVE  OneRow'
<1> SUFFICES ASSUME NEW m \in Node, NEW i \in Nat, NEW v \in User,
                    HasRow(m, i, v, TRUE)', HasRow(m, i, v, FALSE)'
             PROVE  FALSE
  BY DEF OneRow
<1>1. ~(HasRow(m, i, v, TRUE) /\ HasRow(m, i, v, FALSE))
  BY DEF OneRow
<1>2. RowsGrow(n, id, u, creator)
  BY AddRows
<1> QED BY <1>1, <1>2 DEF RowsGrow

\* A row is added to a room that is there.
LEMMA AddTurned ==
    ASSUME Tables, NEW n \in Node, NEW ev \in Event, Exists(n, ev.room),
           ev.kind \in {"ROOM_CREATED", "ROOM_ACL_ADD"},
           NEW creator \in BOOLEAN, creator <=> ev.kind = "ROOM_CREATED",
           AddToAllowList(n, rooms[n][ev.room].id, ev.user, creator), UNCHANGED rooms
    PROVE  Turned(n, ev)
<1> DEFINE r == ev.room
           u == ev.user
           w == View(n, r)
<1>1. r \in Room /\ u \in User
  BY DEF Event
<1>2. PICK id \in Nat : id = rooms[n][r].id
  BY <1>1, RoomIds
<1>3. RowsGrow(n, id, u, creator)
  BY <1>1, <1>2, AddRows
<1>4. /\ w.form = rooms[n][r].privacy /\ rooms[n][r].privacy \in Privacy
      /\ \A v \in User : w.list[v] = Mark(n, r, v)
  BY <1>1, ViewNormal DEF Tables, RoomRow
<1>5. NewForm(w, ev) = w.form /\ w.form # "absent"
  BY <1>4 DEF NewForm, Privacy
<1>6. ASSUME NEW v \in User PROVE Mark(n, r, v)' = NewMark(w, ev, v)
  <2>1. CASE rooms[n][r].privacy # "PRIVATE"
    <3>1. Mark(n, r, v) = "none" /\ Mark(n, r, v)' = "none"
      BY <2>1 DEF Mark
    <3> QED BY <1>4, <1>5, <2>1, <3>1 DEF NewMark
  <2>2. CASE rooms[n][r].privacy = "PRIVATE"
    <3>1. /\ Mark(n, r, v) = IF HasRow(n, id, v, TRUE) THEN "creator"
                             ELSE IF HasRow(n, id, v, FALSE) THEN "member" ELSE "none"
          /\ Mark(n, r, v)' = IF HasRow(n, id, v, TRUE)' THEN "creator"
                              ELSE IF HasRow(n, id, v, FALSE)' THEN "member" ELSE "none"
      BY <1>1, <1>2, <2>2, MarkIs
    <3>2. /\ HasRow(n, id, v, TRUE)' <=> \/ HasRow(n, id, v, TRUE)
                                         \/ /\ v = u /\ ev.kind = "ROOM_CREATED"
                                            /\ ~HasRow(n, id, v, TRUE) /\ ~HasRow(n, id, v, FALSE)
          /\ HasRow(n, id, v, FALSE)' <=> \/ HasRow(n, id, v, FALSE)
                                          \/ /\ v = u /\ ev.kind # "ROOM_CREATED"
                                             /\ ~HasRow(n, id, v, TRUE) /\ ~HasRow(n, id, v, FALSE)
      BY <1>3, <1>1 DEF RowsGrow
    <3>3. NewMark(w, ev, v) = IF v = u /\ Mark(n, r, v) = "none"
                              THEN IF ev.kind = "ROOM_CREATED" THEN "creator" ELSE "member"
                              ELSE Mark(n, r, v)
      BY <1>4, <1>5, <2>2 DEF NewMark
    <3> HIDE DEF r, u, w
    <3> QED BY <3>1, <3>2, <3>3
  <2> QED BY <2>1, <2>2
<1>7. View(n, r)' = Outcome(w, ev)
  <2>1. Exists(n, r)'
    BY <1>2 DEF Exists
  <2> QED BY <1>1, <1>4, <1>5, <1>6, <2>1, ViewTurned
<1>8. ASSUME NEW m \in Node, NEW q \in Room, m # n \/ q # r PROVE View(m, q)' = View(m, q)
  <2>1. PICK i \in Nat : i = rooms[m][q].id
    BY RoomIds
  <2>2. rooms[m][q].privacy = "PRIVATE" => m # n \/ i # id
    BY <1>1, <1>2, <1>8, <2>1, RoomIds DEF Exists
  <2>3. rooms[m][q].privacy = "PRIVATE" => SameRows(m, i)
    BY <1>3, <2>2 DEF RowsGrow, RowsShrink, SameRows
  <2> QED BY <2>1, <2>3, ViewSame
<1>9. \A q \in Room : Alters(ev, q) <=> q = r
  BY DEF Alters
<1> HIDE DEF w
<1> QED BY <1>7, <1>8, <1>9 DEF Turned, w

\* A room is created.
LEMMA NewTurned ==
    ASSUME Tables, NEW n \in Node, NEW ev \in Event, ~Exists(n, ev.room),
           ev.kind = "ROOM_CREATED", NewRoom(n, ev.room, ev.privacy, ev.user)
    PROVE  Turned(n, ev)
<1> DEFINE r == ev.room
           u == ev.user
           w == View(n, r)
<1>1. r \in Room /\ u \in User /\ ev.privacy \in Privacy
  BY DEF Event
<1>2. PICK id \in Nat : id = nextId[n]
  BY RoomIds
<1>3. AddToAllowList(n, id, u, TRUE) /\ rooms' = [rooms EXCEPT ![n][r] = [id |-> id, privacy |-> ev.privacy]]
  BY <1>2 DEF NewRoom
<1>4. /\ rooms'[n][r] = [id |-> id, privacy |-> ev.privacy]
      /\ \A m \in Node, q \in Room : m # n \/ q # r => rooms'[m][q] = rooms[m][q]
  BY <1>1, <1>3 DEF Tables
<1>5. RowsGrow(n, id, u, TRUE)
  BY <1>1, <1>3, AddRows
<1>6. \A v \in User : ~HasRow(n, id, v, TRUE) /\ ~HasRow(n, id, v, FALSE)
  BY <1>2, RoomIds
<1>7. id # 0
  BY <1>2 DEF Tables, RowsAt
<1>8. w.form = "absent" /\ \A v \in User : w.list[v] = "none"
  BY <1>1, ViewNormal DEF Normal
<1>9. NewForm(w, ev) = ev.privacy
  BY <1>8 DEF NewForm
<1>10. ASSUME NEW v \in User PROVE Mark(n, r, v)' = NewMark(w, ev, v)
  <2>1. NewMark(w, ev, v) = IF v = u /\ ev.privacy = "PRIVATE" THEN "creator" ELSE "none"
    BY <1>8, <1>9 DEF NewMark
  <2>2. CASE ev.privacy # "PRIVATE"
    <3>1. Mark(n, r, v)' = "none"
      BY <1>4, <2>2 DEF Mark
    <3> QED BY <2>1, <2>2, <3>1
  <2>3. CASE ev.privacy = "PRIVATE"
    <3>1. Mark(n, r, v)' = IF HasRow(n, id, v, TRUE)' THEN "creator"
                           ELSE IF HasRow(n, id, v, FALSE)' THEN "member" ELSE "none"
      <4>1. rooms'[n][r].privacy = "PRIVATE" /\ rooms'[n][r].id = id
        BY <1>4, <2>3
      <4> QED BY <1>1, <4>1, MarkIs
    <3>2. ~HasRow(n, id, v, FALSE)' /\ (HasRow(n, id, v, TRUE)' <=> v = u)
      BY <1>1, <1>5, <1>6 DEF RowsGrow
    <3> QED BY <2>1, <2>3, <3>1, <3>2
  <2> QED BY <2>2, <2>3
<1>11. View(n, r)' = Outcome(w, ev)
  <2>1. Exists(n, r)' /\ rooms'[n][r].privacy = ev.privacy /\ ev.privacy # "absent"
    BY <1>1, <1>4, <1>7 DEF Exists, Privacy
  <2> QED BY <1>1, <1>9, <1>10, <2>1, ViewTurned
<1>12. ASSUME NEW m \in Node, NEW q \in Room, m # n \/ q # r PROVE View(m, q)' = View(m, q)
  <2>1. PICK i \in Nat : i = rooms[m][q].id
    BY RoomIds
  <2>2. m # n \/ i # id
    <3>1. i < nextId[m] /\ nextId[m] \in Nat
      BY <2>1, RoomIds
    <3> QED BY <1>2, <3>1
  <2>3. SameRows(m, i)
    BY <1>5, <2>2 DEF RowsGrow, SameRows
  <2>4. rooms'[m][q] = rooms[m][q]
    BY <1>4, <1>12
  <2> QED BY <2>1, <2>3, <2>4, ViewSame
<1>13. \A q \in Room : Alters(ev, q) <=> q = r
  BY DEF Alters
<1> HIDE DEF w
<1> QED BY <1>11, <1>12, <1>13 DEF Turned, w

\* A row is removed.
LEMMA RemoveTurned ==
    ASSUME Tables, NEW n \in Node, NEW ev \in Event, Exists(n, ev.room), ev.kind = "ROOM_KICK",
           RemoveFromAllowList(n, rooms[n][ev.room].id, ev.user), UNCHANGED rooms
    PROVE  Turned(n, ev)
<1> DEFINE r == ev.room
           u == ev.user
           w == View(n, r)
<1>1. r \in Room /\ u \in User
  BY DEF Event
<1>2. PICK id \in Nat : id = rooms[n][r].id
  BY <1>1, RoomIds
<1>3. RowsShrink(n, id, {u})
  BY <1>1, <1>2, RemoveRows
<1>4. /\ w.form = rooms[n][r].privacy /\ rooms[n][r].privacy \in Privacy
      /\ \A v \in User : w.list[v] = Mark(n, r, v)
  BY <1>1, ViewNormal DEF Tables, RoomRow
<1>5. NewForm(w, ev) = w.form /\ w.form # "absent"
  BY <1>4 DEF NewForm, Privacy
<1>6. ASSUME NEW v \in User PROVE Mark(n, r, v)' = NewMark(w, ev, v)
  <2>1. NewMark(w, ev, v) = IF v = u THEN "none" ELSE Mark(n, r, v)
    BY <1>4 DEF NewMark
  <2>2. CASE rooms[n][r].privacy # "PRIVATE"
    <3>1. Mark(n, r, v) = "none" /\ Mark(n, r, v)' = "none"
      BY <2>2 DEF Mark
    <3> QED BY <2>1, <3>1
  <2>3. CASE rooms[n][r].privacy = "PRIVATE"
    <3>1. /\ Mark(n, r, v) = IF HasRow(n, id, v, TRUE) THEN "creator"
                             ELSE IF HasRow(n, id, v, FALSE) THEN "member" ELSE "none"
          /\ Mark(n, r, v)' = IF HasRow(n, id, v, TRUE)' THEN "creator"
                              ELSE IF HasRow(n, id, v, FALSE)' THEN "member" ELSE "none"
      BY <1>1, <1>2, <2>3, MarkIs
    <3>2. /\ HasRow(n, id, v, TRUE)' <=> HasRow(n, id, v, TRUE) /\ v # u
          /\ HasRow(n, id, v, FALSE)' <=> HasRow(n, id, v, FALSE) /\ v # u
      BY <1>3, <1>1 DEF RowsShrink
    <3> HIDE DEF r, u, w
    <3> QED BY <2>1, <3>1, <3>2
  <2> QED BY <2>2, <2>3
<1>7. View(n, r)' = Outcome(w, ev)
  <2>1. Exists(n, r)'
    BY <1>2 DEF Exists
  <2> QED BY <1>1, <1>4, <1>5, <1>6, <2>1, ViewTurned
<1>8. ASSUME NEW m \in Node, NEW q \in Room, m # n \/ q # r PROVE View(m, q)' = View(m, q)
  <2>1. PICK i \in Nat : i = rooms[m][q].id
    BY RoomIds
  <2>2. rooms[m][q].privacy = "PRIVATE" => m # n \/ i # id
    BY <1>1, <1>2, <1>8, <2>1, RoomIds DEF Exists
  <2>3. rooms[m][q].privacy = "PRIVATE" => SameRows(m, i)
    BY <1>3, <2>2 DEF RowsGrow, RowsShrink, SameRows
  <2> QED BY <2>1, <2>3, ViewSame
<1>9. \A q \in Room : Alters(ev, q) <=> q = r
  BY DEF Alters
<1> HIDE DEF w
<1> QED BY <1>7, <1>8, <1>9 DEF Turned, w

\* A room is deleted.
LEMMA EraseTurned ==
    ASSUME Tables, NEW n \in Node, NEW ev \in Event, Exists(n, ev.room),
           ev.kind = "ROOM_DELETED", EraseRoom(n, ev.room)
    PROVE  Turned(n, ev)
<1> DEFINE r == ev.room
           w == View(n, r)
<1>1. r \in Room
  BY DEF Event
<1>2. PICK id \in Nat : id = rooms[n][r].id
  BY <1>1, RoomIds
<1>3. /\ rooms' = [rooms EXCEPT ![n][r] = NoRoom]
      /\ allow' = [allow EXCEPT ![n] = {row \in @ : row.id # id}]
  BY <1>2 DEF EraseRoom
<1>4. RowsShrink(n, id, User)
  BY <1>3, EraseRows
<1>5. /\ rooms'[n][r].id = 0 /\ rooms'[n][r].privacy = "PUBLIC"
      /\ \A m \in Node, q \in Room : m # n \/ q # r => rooms'[m][q] = rooms[m][q]
  BY <1>1, <1>3 DEF Tables, NoRoom
<1>6. View(n, r)' = Outcome(w, ev)
  <2>1. ~Exists(n, r)'
    BY <1>5 DEF Exists
  <2>2. \A v \in User : Mark(n, r, v)' = "none"
    BY <1>5 DEF Mark
  <2>3. NewForm(w, ev) = "absent" /\ \A v \in User : NewMark(w, ev, v) = "none"
    BY DEF NewForm, NewMark
  <2> QED BY <1>1, <2>1, <2>2, <2>3, ViewTurned
<1>7. ASSUME NEW m \in Node, NEW q \in Room, m # n \/ q # r PROVE View(m, q)' = View(m, q)
  <2>1. PICK i \in Nat : i = rooms[m][q].id
    BY RoomIds
  <2>2. rooms[m][q].privacy = "PRIVATE" => m # n \/ i # id
    BY <1>1, <1>2, <1>7, <2>1, RoomIds DEF Exists
  <2>3. rooms[m][q].privacy = "PRIVATE" => SameRows(m, i)
    BY <1>4, <2>2 DEF RowsShrink, SameRows
  <2>4. rooms'[m][q] = rooms[m][q]
    BY <1>5, <1>7
  <2> QED BY <2>1, <2>3, <2>4, ViewSame
<1>8. \A q \in Room : Alters(ev, q) <=> q = r
  BY DEF Alters
<1> HIDE DEF w
<1> QED BY <1>6, <1>7, <1>8 DEF Turned, w

\* Removing rows leaves one row at most.
LEMMA LessOneRow ==
    ASSUME OneRow, NEW n, NEW id, NEW U, RowsShrink(n, id, U)
    PROVE  OneRow'
BY DEF OneRow, RowsShrink

\* Tables that stay show the same.
LEMMA ViewsSame ==
    ASSUME UNCHANGED <<rooms, allow>>
    PROVE  /\ \A m \in Node, q \in Room : View(m, q)' = View(m, q)
           /\ OneRow => OneRow'
<1>1. ASSUME NEW m \in Node, NEW q \in Room PROVE View(m, q)' = View(m, q)
  BY DEF View, Mark, HasRow, Exists
<1>2. OneRow => OneRow'
  BY DEF OneRow, HasRow
<1> QED BY <1>1, <1>2

\* An event about a room that is not there is dropped.
LEMMA DropTurned ==
    ASSUME Tables, NEW n \in Node, NEW ev \in Event, ~Exists(n, ev.room),
           ev.kind \in {"ROOM_ACL_ADD", "ROOM_KICK", "ROOM_DELETED"}, UNCHANGED <<rooms, allow>>
    PROVE  Turned(n, ev)
<1> DEFINE r == ev.room
           w == View(n, r)
<1>1. r \in Room
  BY DEF Event
<1>2. w.form = "absent" /\ \A v \in User : w.list[v] = "none" /\ Mark(n, r, v) = "none"
  BY <1>1, ViewNormal DEF Normal
<1>3. NewForm(w, ev) = "absent"
  BY <1>2 DEF NewForm
<1>4. \A v \in User : NewMark(w, ev, v) = "none"
  BY <1>2, <1>3 DEF NewMark
<1>5. ~Exists(n, r)' /\ \A v \in User : Mark(n, r, v)' = Mark(n, r, v)
  BY DEF Exists, Mark, HasRow
<1>6. View(n, r)' = Outcome(w, ev)
  BY <1>1, <1>2, <1>3, <1>4, <1>5, ViewTurned
<1>7. \A m \in Node, q \in Room : View(m, q)' = View(m, q)
  BY ViewsSame
<1>8. \A q \in Room : Alters(ev, q) <=> q = r
  BY DEF Alters
<1> HIDE DEF w
<1> QED BY <1>6, <1>7, <1>8 DEF Turned, w

\* applyEvent turns the node's view into the outcome.
LEMMA ApplyTurned ==
    ASSUME Tables, OneRow, NEW n \in Node, NEW ev \in Event, NEW e, ApplyEvent(n, e, ev)
    PROVE  Turned(n, ev) /\ OneRow'
<1> DEFINE r == ev.room
           u == ev.user
<1>1. r \in Room /\ u \in User
  BY DEF Event
<1>2. PICK id \in Nat : id = rooms[n][r].id
  BY <1>1, RoomIds
<1>3. CASE ev.kind = "ROOM_CREATED" /\ ApplyCreated(n, ev)
  <2>1. CASE ~Exists(n, r) /\ NewRoom(n, r, ev.privacy, u)
    <3>1. Turned(n, ev)
      BY <1>3, <2>1, NewTurned
    <3>2. PICK i \in Nat : i = nextId[n]
      BY RoomIds
    <3>3. AddToAllowList(n, i, u, TRUE)
      BY <2>1, <3>2 DEF NewRoom
    <3> QED BY <1>1, <3>1, <3>3, AddOneRow
  <2>2. CASE Exists(n, r) /\ AddToAllowList(n, rooms[n][r].id, u, TRUE) /\ UNCHANGED rooms
    <3>1. Turned(n, ev)
      BY <1>3, <2>2, AddTurned
    <3>2. AddToAllowList(n, id, u, TRUE)
      BY <1>2, <2>2
    <3> QED BY <1>1, <3>1, <3>2, AddOneRow
  <2> QED BY <1>3, <2>1, <2>2 DEF ApplyCreated
<1>4. CASE ev.kind = "ROOM_ACL_ADD" /\ ApplyAclAdd(n, ev)
  <2>1. CASE Exists(n, r)
    <3>1. AddToAllowList(n, rooms[n][r].id, u, FALSE) /\ UNCHANGED rooms
      BY <1>4, <2>1 DEF ApplyAclAdd
    <3>2. Turned(n, ev)
      BY <1>4, <2>1, <3>1, AddTurned
    <3>3. AddToAllowList(n, id, u, FALSE)
      BY <1>2, <3>1
    <3> QED BY <1>1, <3>2, <3>3, AddOneRow
  <2>2. CASE ~Exists(n, r)
    <3>1. UNCHANGED <<rooms, allow>>
      BY <1>4, <2>2 DEF ApplyAclAdd
    <3> QED BY <1>4, <2>2, <3>1, DropTurned, ViewsSame
  <2> QED BY <2>1, <2>2
<1>5. CASE ev.kind = "ROOM_DELETED" /\ ApplyDeleted(n, ev)
  <2>1. CASE Exists(n, r)
    <3>1. EraseRoom(n, r)
      BY <1>5, <2>1 DEF ApplyDeleted
    <3>2. Turned(n, ev)
      BY <1>5, <2>1, <3>1, EraseTurned
    <3>3. allow' = [allow EXCEPT ![n] = {row \in @ : row.id # id}]
      BY <1>2, <3>1 DEF EraseRoom
    <3> QED BY <3>2, <3>3, EraseRows, LessOneRow
  <2>2. CASE ~Exists(n, r)
    <3>1. UNCHANGED <<rooms, allow>>
      BY <1>5, <2>2 DEF ApplyDeleted, tables
    <3> QED BY <1>5, <2>2, <3>1, DropTurned, ViewsSame
  <2> QED BY <2>1, <2>2
<1>6. CASE ev.kind = "ROOM_KICK" /\ ApplyKick(n, ev)
  <2>1. CASE Exists(n, r)
    <3>1. RemoveFromAllowList(n, rooms[n][r].id, u) /\ UNCHANGED rooms
      BY <1>6, <2>1 DEF ApplyKick
    <3>2. Turned(n, ev)
      BY <1>6, <2>1, <3>1, RemoveTurned
    <3>3. RemoveFromAllowList(n, id, u)
      BY <1>2, <3>1
    <3> QED BY <1>1, <3>2, <3>3, RemoveRows, LessOneRow
  <2>2. CASE ~Exists(n, r)
    <3>1. UNCHANGED <<rooms, allow>>
      BY <1>6, <2>2 DEF ApplyKick
    <3> QED BY <1>6, <2>2, <3>1, DropTurned, ViewsSame
  <2> QED BY <2>1, <2>2
<1>7. CASE ev.kind = "MESSAGE" /\ ApplyMessage(n, e, ev)
  <2>1. UNCHANGED <<rooms, allow>>
    BY <1>7 DEF ApplyMessage
  <2>2. \A q \in Room : ~Alters(ev, q)
    BY <1>7 DEF Alters
  <2>3. (\A m \in Node, q \in Room : View(m, q)' = View(m, q)) /\ OneRow'
    BY <2>1, ViewsSame
  <2> QED BY <2>2, <2>3 DEF Turned
<1> QED BY <1>3, <1>4, <1>5, <1>6, <1>7 DEF ApplyEvent

\* joinRoom adds rows only for public rooms, whose lists are not looked at.
LEMMA EnterViews ==
    ASSUME IInv, OneRow, NEW u \in User, Enter(u)
    PROVE  (\A m \in Node, q \in Room : View(m, q)' = View(m, q)) /\ OneRow'
<1> DEFINE n == at[u]
           o == op[u]
           row == IF o.copy = NoRoom THEN rooms[n][o.to] ELSE o.copy
<1>1. /\ Tables /\ CopyOk(u) /\ n \in Node /\ o \in OpType
      /\ o.pc = "enter" /\ UNCHANGED rooms
      /\ IF Exists(n, o.to) /\ row.privacy = "PUBLIC" /\ row.id \in Ids(n)
         THEN AddToAllowList(n, row.id, u, FALSE) ELSE UNCHANGED allow
  BY DEF IInv, TypeOK, OpType, Copies, Enter
<1>2. o.to \in Room /\ o.copy \in RoomRow
  BY <1>1 DEF OpType
<1>3. row \in RoomRow
  BY <1>1, <1>2 DEF Tables
<1>4. CASE Exists(n, o.to) /\ row.privacy = "PUBLIC" /\ row.id \in Ids(n)
  <2>1. PICK id \in Nat : id = row.id
    BY <1>3 DEF RoomRow
  <2>2. \A q \in Room : rooms[n][q].id = id => rooms[n][q].privacy = "PUBLIC"
    <3>1. CASE o.copy = NoRoom
      <4>1. id # 0 /\ row = rooms[n][o.to]
        BY <1>4, <2>1, <3>1 DEF Ids
      <4> QED BY <1>1, <1>2, <1>4, <2>1, <4>1, RoomIds
    <3>2. CASE o.copy # NoRoom
      BY <1>1, <1>4, <2>1, <3>2 DEF CopyOk
    <3> QED BY <3>1, <3>2
  <2>3. AddToAllowList(n, id, u, FALSE)
    BY <1>1, <1>4, <2>1
  <2> HIDE DEF n, o, row
  <2>4. RowsGrow(n, id, u, FALSE) /\ OneRow'
    BY <1>1, <2>3, AddRows, AddOneRow
  <2>5. ASSUME NEW m \in Node, NEW q \in Room PROVE View(m, q)' = View(m, q)
    <3>1. PICK i \in Nat : i = rooms[m][q].id
      BY <1>1, RoomIds
    <3>2. rooms[m][q].privacy = "PRIVATE" => m # n \/ i # id
      BY <2>2, <3>1
    <3>3. rooms[m][q].privacy = "PRIVATE" => SameRows(m, i)
      BY <2>4, <3>2 DEF RowsGrow, SameRows
    <3>4. rooms'[m][q] = rooms[m][q]
      BY <1>1
    <3> QED BY <3>1, <3>3, <3>4, ViewSame
  <2> QED BY <2>4, <2>5
<1>5. CASE ~(Exists(n, o.to) /\ row.privacy = "PUBLIC" /\ row.id \in Ids(n))
  <2>1. UNCHANGED <<rooms, allow>>
    BY <1>1, <1>5
  <2> QED BY <2>1, ViewsSame
<1> QED BY <1>4, <1>5
-----------------------------------------------------------------------------
(***************************************************************************)
(* What the handlers have still to rumor.                                  *)
(***************************************************************************)

\* Pending, handler by handler.
LEMMA PendingIs ==
    ASSUME NEW m, NEW q
    PROVE  /\ \A d : d \in Pending(m, q) <=>
                 /\ d \in User \X Event /\ at[d[1]] = m /\ op[d[1]].pc \in {"expel", "rumor"}
                 /\ d[2] = op[d[1]].ev /\ Alters(d[2], q)
           /\ \A d : d \in Pending(m, q)' <=>
                 /\ d \in User \X Event /\ at'[d[1]] = m /\ op'[d[1]].pc \in {"expel", "rumor"}
                 /\ d[2] = op'[d[1]].ev /\ Alters(d[2], q)
<1>1. \A d : d \in User \X Event => d[1] \in User
  OBVIOUS
<1>2. \A d : d \in Pending(m, q) <=>
         /\ d \in User \X Event /\ at[d[1]] = m /\ op[d[1]].pc \in {"expel", "rumor"}
         /\ d[2] = op[d[1]].ev /\ Alters(d[2], q)
  BY <1>1 DEF Pending, Unsaid
<1>3. \A d : d \in Pending(m, q)' <=>
         /\ d \in User \X Event /\ at'[d[1]] = m /\ op'[d[1]].pc \in {"expel", "rumor"}
         /\ d[2] = op'[d[1]].ev /\ Alters(d[2], q)
  BY <1>1 DEF Pending, Unsaid, Alters
<1> QED BY <1>2, <1>3

\* Handlers that say the same as before.
LEMMA PendingSame ==
    ASSUME NEW m, NEW q,
           \A x \in User :
              \/ op'[x].pc \notin {"expel", "rumor"} /\ op[x].pc \notin {"expel", "rumor"}
              \/ /\ op'[x].pc \in {"expel", "rumor"} /\ op[x].pc \in {"expel", "rumor"}
                 /\ op'[x].ev = op[x].ev /\ at'[x] = at[x]
              \/ at'[x] # m /\ at[x] # m
    PROVE  Pending(m, q)' = Pending(m, q)
<1>1. \A d : d \in User \X Event => d[1] \in User
  OBVIOUS
<1>2. \A d : d \in Pending(m, q)' <=> d \in Pending(m, q)
  BY <1>1, PendingIs
<1> QED BY <1>2

\* The handler of u goes on to o.
Moves(u, o) == op' = [op EXCEPT ![u] = o]

\* A handler with a new event.
LEMMA PendingMore ==
    ASSUME IInv, NEW u \in User, op[u].pc = "idle", NEW o \in OpType, o.pc \in {"expel", "rumor"},
           Moves(u, o), at' = at, NEW m \in Node, NEW q \in Room
    PROVE  /\ m = at[u] /\ Alters(o.ev, q) => Pending(m, q)' = Pending(m, q) \cup {<<u, o.ev>>}
           /\ ~(m = at[u] /\ Alters(o.ev, q)) => Pending(m, q)' = Pending(m, q)
<1>1. op'[u] = o /\ \A x \in User : x # u => op'[x] = op[x]
  BY Basics DEF Moves
<1>2. /\ \A d : d \in User \X Event => d[1] \in User /\ d = <<d[1], d[2]>>
      /\ <<u, o.ev>> \in User \X Event /\ <<u, o.ev>>[1] = u /\ <<u, o.ev>>[2] = o.ev
  <2>1. o.ev \in Event
    BY DEF OpType
  <2> QED BY <2>1
<1>3. \A d : d \in Pending(m, q)' <=>
         d \in Pending(m, q) \/ (m = at[u] /\ Alters(o.ev, q) /\ d = <<u, o.ev>>)
  <2> SUFFICES ASSUME NEW d
               PROVE  d \in Pending(m, q)' <=>
                         d \in Pending(m, q) \/ (m = at[u] /\ Alters(o.ev, q) /\ d = <<u, o.ev>>)
    OBVIOUS
  <2>1. CASE d \notin User \X Event
    <3>1. d \notin Pending(m, q)' /\ d \notin Pending(m, q)
      BY <2>1, PendingIs
    <3>2. d # <<u, o.ev>>
      BY <1>2, <2>1
    <3> QED BY <3>1, <3>2
  <2>2. CASE d \in User \X Event /\ d[1] # u
    <3>1. d # <<u, o.ev>> /\ op'[d[1]] = op[d[1]] /\ at' = at
      BY <1>1, <1>2, <2>2
    <3> QED BY <2>2, <3>1, PendingIs
  <2>3. CASE d \in User \X Event /\ d[1] = u
    <3>1. d \notin Pending(m, q)
      BY <2>3, PendingIs
    <3>2. d = <<u, o.ev>> <=> d[2] = o.ev
      BY <1>2, <2>3
    <3>3. d \in Pending(m, q)' <=> at[u] = m /\ d[2] = o.ev /\ Alters(d[2], q)
      BY <1>1, <2>3, PendingIs
    <3> QED BY <1>2, <3>1, <3>2, <3>3
  <2> QED BY <2>1, <2>2, <2>3
<1>4. CASE m = at[u] /\ Alters(o.ev, q)
  BY <1>3, <1>4
<1>5. CASE ~(m = at[u] /\ Alters(o.ev, q))
  BY <1>3, <1>5
<1> QED BY <1>4, <1>5

\* A handler that has rumored its event.
LEMMA PendingLess ==
    ASSUME IInv, NEW u \in User, op[u].pc = "rumor", Moves(u, Idle),
           at' = at, NEW m \in Node, NEW q \in Room
    PROVE  /\ m = at[u] /\ Alters(op[u].ev, q) =>
                 /\ Pending(m, q)' = Pending(m, q) \ {<<u, op[u].ev>>}
                 /\ <<u, op[u].ev>> \in Pending(m, q)
           /\ ~(m = at[u] /\ Alters(op[u].ev, q)) => Pending(m, q)' = Pending(m, q)
<1> DEFINE p == <<u, op[u].ev>>
<1>1. op'[u] = Idle /\ Idle.pc = "idle" /\ (\A x \in User : x # u => op'[x] = op[x]) /\ op[u].ev \in Event
  BY Basics, OpStages DEF OpType, Moves
<1>2. /\ \A d : d \in User \X Event => d[1] \in User /\ d = <<d[1], d[2]>>
      /\ p \in User \X Event /\ p[1] = u /\ p[2] = op[u].ev
  BY <1>1
<1> HIDE DEF p
<1>3. m = at[u] /\ Alters(op[u].ev, q) => p \in Pending(m, q)
  BY <1>2, PendingIs
<1>4. \A d : d \in Pending(m, q)' <=> d \in Pending(m, q) /\ d # p
  <2> SUFFICES ASSUME NEW d PROVE d \in Pending(m, q)' <=> d \in Pending(m, q) /\ d # p
    OBVIOUS
  <2>1. CASE d \notin User \X Event
    BY <2>1, PendingIs
  <2>2. CASE d \in User \X Event /\ d[1] # u
    <3>1. d # p /\ op'[d[1]] = op[d[1]] /\ at' = at
      BY <1>1, <1>2, <2>2
    <3> QED BY <2>2, <3>1, PendingIs
  <2>3. CASE d \in User \X Event /\ d[1] = u
    <3>1. d \notin Pending(m, q)'
      BY <1>1, <2>3, PendingIs
    <3>2. d \in Pending(m, q) => d[2] = op[u].ev
      BY <2>3, PendingIs
    <3>3. d[2] = op[u].ev => d = p
      BY <1>2, <2>3
    <3> QED BY <3>1, <3>2, <3>3
  <2> QED BY <2>1, <2>2, <2>3
<1>5. ~(m = at[u] /\ Alters(op[u].ev, q)) => p \notin Pending(m, q)
  BY <1>2, PendingIs
<1>6. CASE m = at[u] /\ Alters(op[u].ev, q)
  BY <1>3, <1>4, <1>6 DEF p
<1>7. CASE ~(m = at[u] /\ Alters(op[u].ev, q))
  <2>1. Pending(m, q)' = Pending(m, q)
    BY <1>4, <1>5, <1>7
  <2> QED BY <1>7, <2>1
<1> QED BY <1>6, <1>7
-----------------------------------------------------------------------------
(***************************************************************************)
(* Every step keeps LInv.                                                  *)
(***************************************************************************)

\* A step after which everything looks as before.
LEMMA QuietLists ==
    ASSUME LInv, OneRow', UNCHANGED <<events, got, inOrder, crossed, unsaid>>,
           \A m \in Node, q \in Room : View(m, q)' = View(m, q),
           \A m \in Node, q \in Room : Pending(m, q)' = Pending(m, q)
    PROVE  LInv'
<1> SUFFICES ASSUME NEW R, Tracks(R) PROVE Tracks(R)'
  BY DEF LInv
<1>1. Reference(events, R)'
  BY DEF Tracks
<1>2. ASSUME NEW n \in Node, NEW r \in Room
      PROVE  Track(events', R, got'[n], View(n, r)', Pending(n, r)', r)
  <2>1. Track(events, R, got[n], View(n, r), Pending(n, r), r)
    BY DEF Tracks
  <2>2. View(n, r)' = View(n, r) /\ Pending(n, r)' = Pending(n, r)
    OBVIOUS
  <2> QED BY <2>1, <2>2
<1> QED BY <1>1, <1>2 DEF Tracks

\* Steps that change no room and announce no change.
LEMMA PlainLists ==
    ASSUME IInv, LInv, NEW u \in User,
           \/ \E r \in Room : RoomJoin(u, r)
           \/ \E n \in Node, r \in Room : Reconnect(u, n, r)
           \/ Message(u) \/ Enter(u) \/ Expel(u)
    PROVE  LInv'
<1>0. OneRow
  BY DEF LInv
<1>1. CASE \E r \in Room : RoomJoin(u, r)
  <2>1. PICK r \in Room : RoomJoin(u, r)
    BY <1>1
  <2>2. /\ UNCHANGED <<events, got, rooms, allow, at, inOrder, crossed, unsaid>>
        /\ op[u].pc = "idle" /\ op' = [op EXCEPT ![u] = Entering(r, rooms[at[u]][r])]
    BY <2>1 DEF RoomJoin, Begin, bus, tables, sessions, history
  <2>3. rooms[at[u]][r] \in RoomRow
    BY Basics DEF Tables
  <2>4. Entering(r, rooms[at[u]][r]).pc = "enter"
    BY <2>3, OpStages
  <2>5. op'[u].pc = "enter" /\ \A x \in User : x # u => op'[x] = op[x]
    BY <2>2, <2>4, Basics
  <2>6. \A m \in Node, q \in Room : Pending(m, q)' = Pending(m, q)
    BY <2>2, <2>5, PendingSame
  <2> QED BY <1>0, <2>2, <2>6, ViewsSame, QuietLists
<1>2. CASE \E n \in Node, r \in Room : Reconnect(u, n, r)
  <2>1. PICK n \in Node, r \in Room : Reconnect(u, n, r)
    BY <1>2
  <2>2. /\ UNCHANGED <<events, got, rooms, allow, inOrder, crossed, unsaid>>
        /\ op[u].pc = "idle" /\ at' = [at EXCEPT ![u] = n]
        /\ op' = [op EXCEPT ![u] = IF r # Lobby /\ Admissible(n, u, r)
                                   THEN Entering(r, NoRoom) ELSE Idle]
    BY <2>1 DEF Reconnect, bus, tables, history
  <2>3. NoRoom \in RoomRow
    BY DEF NoRoom, RoomRow, Privacy
  <2>4. Entering(r, NoRoom).pc = "enter" /\ Idle.pc = "idle"
    BY <2>3, OpStages
  <2>5. op'[u].pc \in {"idle", "enter"} /\ \A x \in User : x # u => op'[x] = op[x] /\ at'[x] = at[x]
    BY <2>2, <2>4, Basics
  <2>6. \A m \in Node, q \in Room : Pending(m, q)' = Pending(m, q)
    BY <2>2, <2>5, PendingSame
  <2> QED BY <1>0, <2>2, <2>6, ViewsSame, QuietLists
<1>3. CASE Message(u)
  <2> DEFINE ev == Say("MESSAGE", u, place[u], "PUBLIC")
  <2>1. /\ UNCHANGED <<events, got, rooms, allow, at, inOrder, crossed, unsaid>>
        /\ op[u].pc = "idle" /\ op' = [op EXCEPT ![u] = Rumoring(ev)]
    BY <1>3 DEF Message, Begin, bus, tables, sessions, history
  <2>2. ev \in Event /\ ev.kind = "MESSAGE"
    BY Basics, SayFields DEF Kind, Privacy
  <2> HIDE DEF ev
  <2>3. Rumoring(ev).pc = "rumor" /\ Rumoring(ev).ev = ev
    BY <2>2, OpStages
  <2>4. \A q \in Room : ~Alters(ev, q)
    BY <2>2 DEF Alters
  <2>5. ASSUME NEW m \in Node, NEW q \in Room PROVE Pending(m, q)' = Pending(m, q)
    <3> DEFINE o == Rumoring(ev)
    <3>1. o \in OpType /\ o.pc \in {"expel", "rumor"} /\ o.ev = ev /\ Moves(u, o)
      BY <2>1, <2>2, <2>3, OpStages DEF Moves
    <3> HIDE DEF o
    <3> QED BY <2>1, <2>2, <2>4, <3>1, PendingMore
  <2> QED BY <1>0, <2>1, <2>5, ViewsSame, QuietLists
<1>4. CASE Enter(u)
  <2>1. /\ UNCHANGED <<events, got, at, inOrder, crossed, unsaid>>
        /\ op[u].pc = "enter" /\ op' = [op EXCEPT ![u] = Idle]
    BY <1>4 DEF Enter, bus
  <2>2. op'[u].pc = "idle" /\ \A x \in User : x # u => op'[x] = op[x]
    BY <2>1, Basics, OpStages
  <2>3. \A m \in Node, q \in Room : Pending(m, q)' = Pending(m, q)
    BY <2>1, <2>2, PendingSame
  <2>4. (\A m \in Node, q \in Room : View(m, q)' = View(m, q)) /\ OneRow'
    BY <1>0, <1>4, EnterViews
  <2> QED BY <2>1, <2>3, <2>4, QuietLists
<1>5. CASE Expel(u)
  <2>1. /\ UNCHANGED <<events, got, rooms, allow, at, inOrder, crossed, unsaid>>
        /\ op[u].pc = "expel" /\ op' = [op EXCEPT ![u] = Rumoring(op[u].ev)]
    BY <1>5 DEF Expel, bus, tables, history
  <2>2. op[u].ev \in Event
    BY Basics DEF OpType
  <2>3. Rumoring(op[u].ev).pc = "rumor" /\ Rumoring(op[u].ev).ev = op[u].ev
    BY <2>2, OpStages
  <2>4. op'[u].pc = "rumor" /\ op'[u].ev = op[u].ev /\ \A x \in User : x # u => op'[x] = op[x]
    BY <2>1, <2>3, Basics
  <2>5. \A m \in Node, q \in Room : Pending(m, q)' = Pending(m, q)
    <3> SUFFICES ASSUME NEW m \in Node, NEW q \in Room PROVE Pending(m, q)' = Pending(m, q)
      OBVIOUS
    <3>1. \A x \in User :
              \/ op'[x].pc \notin {"expel", "rumor"} /\ op[x].pc \notin {"expel", "rumor"}
              \/ /\ op'[x].pc \in {"expel", "rumor"} /\ op[x].pc \in {"expel", "rumor"}
                 /\ op'[x].ev = op[x].ev /\ at'[x] = at[x]
      BY <2>1, <2>4
    <3> QED BY <3>1, PendingSame
  <2> QED BY <1>0, <2>1, <2>5, ViewsSame, QuietLists
<1> QED BY <1>1, <1>2, <1>3, <1>4, <1>5

\* A request that has changed a room and is to rumor ev.
LEMMA RequestLists ==
    ASSUME IInv, LInv, OneRow', NEW u \in User, NEW ev \in Event, NEW o \in OpType,
           ev.kind # "MESSAGE",
           o.pc \in {"expel", "rumor"}, o.ev = ev, op[u].pc = "idle", Moves(u, o),
           UNCHANGED <<events, got, at, inOrder, crossed, unsaid>>, Turned(at[u], ev),
           Exists(at[u], ev.room) <=> ev.kind # "ROOM_CREATED"
    PROVE  LInv'
<1> SUFFICES ASSUME NEW R, Tracks(R) PROVE Tracks(R)'
  BY DEF LInv
<1>1. Reference(events, R) /\ events \in Seq(Event) /\ Tables /\ at[u] \in Node
  BY Basics DEF Tracks
<1>2. ASSUME NEW n \in Node, NEW r \in Room
      PROVE  Track(events', R, got'[n], View(n, r)', Pending(n, r)', r)
  <2> DEFINE w == View(n, r)
             D == Pending(n, r)
             E == D \cup {<<u, ev>>}
             g == got[n]
             L == events
  <2>1. Track(L, R, g, w, D, r) /\ Normal(w)
    BY <1>1, ViewNormal DEF Tracks
  <2>2. /\ n = at[u] /\ Alters(ev, r) => Pending(n, r)' = E
        /\ ~(n = at[u] /\ Alters(ev, r)) => Pending(n, r)' = D
    BY PendingMore
  <2>3. View(n, r)' = IF n = at[u] /\ Alters(ev, r) THEN Outcome(w, ev) ELSE w
    BY DEF Turned
  <2>4. CASE n = at[u] /\ Alters(ev, r)
    <3>1. Track(L, R, g, Outcome(w, ev), E, r)
      <4>1. PICK k \in 0..Len(L) : Cut(L, g, r, k)
        BY <2>1 DEF Track
      <4>2. CASE ~HasAll(L, g, r)
        <5>1. E # {}
          OBVIOUS
        <5> HIDE DEF E, D, w, g, L
        <5> QED BY <4>1, <4>2, <5>1, TrackApart
      <4>3. CASE HasAll(L, g, r)
        <5>1. Ahead(w, R[Len(L)][r], Deleted(L, r, 0, Len(L)), D)
          BY <2>1, <4>3 DEF Track
        <5>2. Normal(R[Len(L)][r])
          BY <1>1, RefView
        <5>3. \A d \in D : d[2] \in Event
          BY PendingIs
        <5>4. w.form = "absent" <=> ev.kind = "ROOM_CREATED"
          <6>1. r = ev.room /\ (Exists(n, r) <=> ev.kind # "ROOM_CREATED")
            BY <2>4 DEF Alters
          <6>2. w.form = IF Exists(n, r) THEN rooms[n][r].privacy ELSE "absent"
            BY <1>1, ViewNormal
          <6>3. rooms[n][r].privacy # "absent"
            BY <1>1 DEF Tables, RoomRow, Privacy
          <6> QED BY <6>1, <6>2, <6>3
        <5> HIDE DEF D, w, g, L
        <5>5. Ahead(Outcome(w, ev), R[Len(L)][r], Deleted(L, r, 0, Len(L)), E)
          BY <2>1, <5>1, <5>2, <5>3, <5>4, AheadRequest
        <5> HIDE DEF E
        <5> QED BY <1>1, <4>3, <5>5, TrackAhead DEF L
      <4> QED BY <4>2, <4>3
    <3> HIDE DEF w, D, E
    <3> QED BY <2>2, <2>3, <2>4, <3>1
  <2>5. CASE ~(n = at[u] /\ Alters(ev, r))
    <3> HIDE DEF w, D, E
    <3> QED BY <2>1, <2>2, <2>3, <2>5
  <2> QED BY <2>4, <2>5
<1> QED BY <1>1, <1>2 DEF Tracks

\* The requests that change rooms.
LEMMA ChangeLists ==
    ASSUME IInv, LInv, NEW u \in User,
           \/ \E r \in Extra, privacy \in Privacy : RoomCreate(u, r, privacy)
           \/ \E r \in Extra, v \in User : RoomInvite(u, r, v)
           \/ \E r \in Room, v \in User : RoomKick(u, r, v)
           \/ \E r \in Room : RoomDelete(u, r)
    PROVE  LInv'
<1> DEFINE n == at[u]
<1>0. OneRow /\ Tables /\ n \in Node
  BY Basics DEF LInv
<1>1. CASE \E r \in Extra, privacy \in Privacy : RoomCreate(u, r, privacy)
  <2>1. PICK r \in Room, privacy \in Privacy : RoomCreate(u, r, privacy)
    BY <1>1 DEF Room
  <2> DEFINE ev == Say("ROOM_CREATED", u, r, privacy)
  <2>2. ev \in Event /\ ev.kind = "ROOM_CREATED" /\ ev.user = u /\ ev.room = r /\ ev.privacy = privacy
    BY SayFields DEF Kind, Say
  <2>3. /\ ~Exists(n, r) /\ NewRoom(n, r, privacy, u) /\ op[u].pc = "idle"
        /\ Moves(u, Rumoring(ev))
        /\ UNCHANGED <<events, got, at, inOrder, crossed, unsaid>>
    BY <2>1 DEF RoomCreate, Begin, bus, sessions, history, Moves
  <2> HIDE DEF ev
  <2>4. Rumoring(ev) \in OpType /\ Rumoring(ev).pc = "rumor" /\ Rumoring(ev).ev = ev
    BY <2>2, OpStages
  <2>5. Turned(n, ev)
    BY <1>0, <2>2, <2>3, NewTurned
  <2>6. PICK i \in Nat : i = nextId[n]
    BY <1>0, RoomIds
  <2>7. AddToAllowList(n, i, u, TRUE)
    BY <2>3, <2>6 DEF NewRoom
  <2>8. OneRow'
    BY <1>0, <2>7, AddOneRow
  <2> QED BY <2>2, <2>3, <2>4, <2>5, <2>8, RequestLists
<1>2. CASE \E r \in Extra, v \in User : RoomInvite(u, r, v)
  <2>1. PICK r \in Room, v \in User : RoomInvite(u, r, v)
    BY <1>2 DEF Room
  <2> DEFINE ev == Say("ROOM_ACL_ADD", v, r, "PUBLIC")
  <2>2. ev \in Event /\ ev.kind = "ROOM_ACL_ADD" /\ ev.user = v /\ ev.room = r
    BY SayFields DEF Kind, Privacy
  <2>3. /\ Exists(n, r) /\ AddToAllowList(n, rooms[n][r].id, v, FALSE) /\ op[u].pc = "idle"
        /\ Moves(u, Rumoring(ev))
        /\ UNCHANGED <<events, got, rooms, at, inOrder, crossed, unsaid>>
    BY <2>1 DEF RoomInvite, Begin, bus, sessions, history, Moves
  <2> HIDE DEF ev
  <2>4. Rumoring(ev) \in OpType /\ Rumoring(ev).pc = "rumor" /\ Rumoring(ev).ev = ev
    BY <2>2, OpStages
  <2>5. Turned(n, ev)
    BY <1>0, <2>2, <2>3, AddTurned
  <2>6. PICK i \in Nat : i = rooms[n][r].id
    BY <1>0, RoomIds
  <2>7. AddToAllowList(n, i, v, FALSE)
    BY <2>3, <2>6
  <2>8. OneRow'
    BY <1>0, <2>7, AddOneRow
  <2> QED BY <2>2, <2>3, <2>4, <2>5, <2>8, RequestLists
<1>3. CASE \E r \in Room, v \in User : RoomKick(u, r, v)
  <2>1. PICK r \in Room, v \in User : RoomKick(u, r, v)
    BY <1>3
  <2> DEFINE ev == Say("ROOM_KICK", v, r, "PUBLIC")
  <2>2. ev \in Event /\ ev.kind = "ROOM_KICK" /\ ev.user = v /\ ev.room = r
    BY SayFields DEF Kind, Privacy
  <2>3. /\ Exists(n, r) /\ RemoveFromAllowList(n, rooms[n][r].id, v) /\ op[u].pc = "idle"
        /\ Moves(u, Expelling(ev))
        /\ UNCHANGED <<events, got, rooms, at, inOrder, crossed, unsaid>>
    BY <2>1 DEF RoomKick, Begin, bus, sessions, history, Moves
  <2> HIDE DEF ev
  <2>4. Expelling(ev) \in OpType /\ Expelling(ev).pc = "expel" /\ Expelling(ev).ev = ev
    BY <2>2, OpStages
  <2>5. Turned(n, ev)
    BY <1>0, <2>2, <2>3, RemoveTurned
  <2>6. PICK i \in Nat : i = rooms[n][r].id
    BY <1>0, RoomIds
  <2>7. RemoveFromAllowList(n, i, v)
    BY <2>3, <2>6
  <2>8. OneRow'
    BY <1>0, <2>7, RemoveRows, LessOneRow
  <2> QED BY <2>2, <2>3, <2>4, <2>5, <2>8, RequestLists
<1>4. CASE \E r \in Room : RoomDelete(u, r)
  <2>1. PICK r \in Room : RoomDelete(u, r)
    BY <1>4
  <2> DEFINE ev == Say("ROOM_DELETED", u, r, "PUBLIC")
  <2>2. ev \in Event /\ ev.kind = "ROOM_DELETED" /\ ev.user = u /\ ev.room = r
    BY SayFields DEF Kind, Privacy
  <2>3. /\ Exists(n, r) /\ EraseRoom(n, r) /\ op[u].pc = "idle"
        /\ Moves(u, Rumoring(ev))
        /\ UNCHANGED <<events, got, at, inOrder, crossed, unsaid>>
    BY <2>1 DEF RoomDelete, EraseRoom, Begin, bus, history, Moves
  <2> HIDE DEF ev
  <2>4. Rumoring(ev) \in OpType /\ Rumoring(ev).pc = "rumor" /\ Rumoring(ev).ev = ev
    BY <2>2, OpStages
  <2>5. Turned(n, ev)
    BY <1>0, <2>2, <2>3, EraseTurned
  <2>6. PICK i \in Nat : i = rooms[n][r].id
    BY <1>0, RoomIds
  <2>7. allow' = [allow EXCEPT ![n] = {row \in @ : row.id # i}]
    BY <2>3, <2>6 DEF EraseRoom
  <2>8. OneRow'
    BY <1>0, <2>7, EraseRows, LessOneRow
  <2> QED BY <2>2, <2>3, <2>4, <2>5, <2>8, RequestLists
<1> QED BY <1>1, <1>2, <1>3, <1>4

\* The node that rumors a change of r.
LEMMA TrackRumored ==
    ASSUME NEW L \in Seq(Event), NEW R, Reference(L, R), NEW ev \in Event, NEW r \in Room,
           Alters(ev, r), NEW w, Normal(w), NEW D, NEW u, <<u, ev>> \in D,
           \A d \in D : d # <<u, ev>> => d[2].kind # "ROOM_CREATED",
           NEW g, HasAll(L, g, r), Track(L, R, g, w, D, r)
    PROVE  /\ Track(Append(L, ev), Longer(L, R, ev), g \cup {Len(L) + 1}, Outcome(w, ev),
                    D \ {<<u, ev>>}, r)
           /\ ev.kind \in {"ROOM_ACL_ADD", "ROOM_KICK"} /\ R[Len(L)][r].form = "absent" =>
                 Deleted(L, r, 0, Len(L))
<1> DEFINE M == Append(L, ev)
           S == Longer(L, R, ev)
           n == Len(L)
           z == R[n][r]
           E == D \ {<<u, ev>>}
           h == g \cup {n + 1}
           del == Deleted(L, r, 0, n)
           gone == Deleted(M, r, 0, n + 1)
<1>1. /\ n \in Nat /\ Len(M) = n + 1 /\ M[n + 1] = ev /\ M \in Seq(Event)
      /\ \A x \in 1..n : M[x] = L[x]
  BY LogLonger
<1>2. S[n + 1][r] = Outcome(z, ev)
  BY LongerIs
<1>3. ev.room = r /\ ev.kind # "MESSAGE"
  BY DEF Alters
<1>4. gone <=> del \/ ev.kind = "ROOM_DELETED"
  BY <1>1, <1>3, MarksLonger
<1>5. Normal(z) /\ Ahead(w, z, del, D)
  BY <1>1, RefView DEF Track
<1>6. HasAll(M, h, r)
  BY <1>1 DEF HasAll
<1> HIDE DEF M, S, n, z, h, del, gone
<1>7. /\ Ahead(Outcome(w, ev), Outcome(z, ev), gone, E)
      /\ ev.kind \in {"ROOM_ACL_ADD", "ROOM_KICK"} /\ z.form = "absent" => del
  BY <1>3, <1>4, <1>5, AheadRumor
<1> HIDE DEF E
<1>8. Track(M, S, h, Outcome(w, ev), E, r)
  <2>1. Ahead(Outcome(w, ev), S[Len(M)][r], Deleted(M, r, 0, Len(M)), E)
    BY <1>1, <1>2, <1>7 DEF gone
  <2> QED BY <1>1, <1>6, <2>1, TrackAhead
<1> QED BY <1>7, <1>8 DEF M, S, n, z, h, del, E

\* Another node, to which the change is still to come.
LEMMA TrackBehind ==
    ASSUME NEW L \in Seq(Event), NEW R, Reference(L, R), NEW ev \in Event, NEW r \in Room,
           Alters(ev, r), NEW w, Normal(w), NEW D, NEW g, g \subseteq 1..Len(L),
           Reference(Append(L, ev), Longer(L, R, ev)), Track(L, R, g, w, D, r)
    PROVE  Track(Append(L, ev), Longer(L, R, ev), g, w, D, r)
<1> DEFINE M == Append(L, ev)
           S == Longer(L, R, ev)
           n == Len(L)
<1>1. /\ n \in Nat /\ Len(M) = n + 1 /\ M[n + 1] = ev /\ M \in Seq(Event)
      /\ \A x \in 1..n : M[x] = L[x]
  BY LogLonger
<1>2. PICK k \in 0..n : Cut(L, g, r, k) /\ (D = {} => Follows(L, R, w, r, k))
  BY DEF Track
<1>3. D = {} => Follows(M, S, w, r, k)
  BY <1>2, FollowsMore
<1>4. n + 1 \notin g
  BY <1>1
<1>5. Cut(M, g, r, k)
  <2> SUFFICES ASSUME NEW x \in 1..Len(M), Alters(M[x], r) PROVE x <= k <=> x \in g
    BY DEF Cut
  <2>1. CASE x = n + 1
    BY <1>1, <1>4, <2>1
  <2>2. CASE x \in 1..n
    BY <1>1, <1>2, <2>2 DEF Cut
  <2> QED BY <1>1, <2>1, <2>2
<1>6. ~HasAll(M, g, r)
  BY <1>1, <1>4 DEF HasAll
<1>7. k \in 0..Len(M) /\ Reference(M, S)
  BY <1>1
<1> HIDE DEF M, S, n
<1>8. CASE D = {}
  BY <1>1, <1>3, <1>5, <1>7, <1>8, TrackFollows DEF M, S
<1>9. CASE D # {}
  BY <1>5, <1>6, <1>7, <1>9, TrackApart DEF M, S
<1> QED BY <1>8, <1>9

\* applyEvent moves no session to another node.
LEMMA ApplyStays ==
    ASSUME NEW n, NEW e, NEW ev, ApplyEvent(n, e, ev)
    PROVE  at' = at
BY DEF ApplyEvent, ApplyCreated, ApplyAclAdd, ApplyDeleted, ApplyKick, ApplyMessage, EraseRoom,
       sessions

\* A handler rumors its event.
LEMMA RumorLists ==
    ASSUME IInv, LInv, NEW u \in User, Rumor(u)
    PROVE  LInv'
<1> DEFINE n == at[u]
           ev == op[u].ev
           L == events
           M == Append(L, ev)
           e == Len(L) + 1
<1>1. /\ L \in Seq(Event) /\ n \in Node /\ ev \in Event /\ ev.room \in Room
      /\ Tables /\ OneRow /\ got \in [Node -> SUBSET (1..Len(L))]
  BY Basics DEF LInv, OpType, Event
<1>2. /\ op[u].pc = "rumor" /\ events' = M /\ got' = [got EXCEPT ![n] = @ \cup {e}]
      /\ ApplyEvent(n, e, ev) /\ Moves(u, Idle) /\ inOrder' = inOrder
      /\ crossed' = (crossed \/ \E x \in 1..Len(L) \ got[n] :
                        Alters(ev, ev.room) /\ Alters(L[x], ev.room))
      /\ unsaid' = (unsaid \/ \E v \in Unsaid(n) \ {u} :
                        op[v].ev.kind = "ROOM_CREATED" /\ op[v].ev.room = ev.room)
  BY DEF Rumor, Moves
<1>3. Turned(n, ev) /\ OneRow' /\ at' = at
  BY <1>1, <1>2, ApplyTurned, ApplyStays
<1>4. got'[n] = got[n] \cup {e} /\ \A m \in Node : m # n => got'[m] = got[m]
  BY <1>1, <1>2
<1>5. SUFFICES ASSUME ~crossed', ~unsaid', NEW R, Tracks(R) PROVE \E S : Tracks(S)'
  BY <1>2, <1>3 DEF LInv
<1>6. Reference(L, R)
      /\ \A m \in Node, q \in Room : Track(L, R, got[m], View(m, q), Pending(m, q), q)
  BY <1>5 DEF Tracks
<1> DEFINE S == Longer(L, R, ev)
<1>7. \A m \in Node, q \in Room : Normal(View(m, q))
  BY <1>1, ViewNormal
<1>8. ASSUME NEW q \in Room, Alters(ev, q)
      PROVE  /\ q = ev.room /\ HasAll(L, got[n], q)
             /\ <<u, ev>> \in Pending(n, q)
             /\ \A d \in Pending(n, q) : d # <<u, ev>> => d[2].kind # "ROOM_CREATED"
  <2>1. q = ev.room
    BY <1>8 DEF Alters
  <2>2. HasAll(L, got[n], q)
    <3>1. ~\E x \in 1..Len(L) \ got[n] : Alters(ev, ev.room) /\ Alters(L[x], ev.room)
      BY <1>2, <1>5
    <3> QED BY <1>8, <2>1, <3>1 DEF HasAll
  <2>3. <<u, ev>> \in Pending(n, q)
    BY <1>1, <1>2, <1>3, <1>8, PendingLess
  <2>4. ASSUME NEW d \in Pending(n, q), d # <<u, ev>>, d[2].kind = "ROOM_CREATED" PROVE FALSE
    <3>1. /\ d \in User \X Event /\ at[d[1]] = n /\ op[d[1]].pc \in {"expel", "rumor"}
          /\ d[2] = op[d[1]].ev /\ Alters(d[2], q)
      BY PendingIs
    <3>2. d[1] \in User /\ d = <<d[1], d[2]>>
      BY <3>1
    <3>3. d[1] # u
      BY <2>4, <3>1, <3>2
    <3>4. d[1] \in Unsaid(n) \ {u}
      BY <3>1, <3>2, <3>3 DEF Unsaid
    <3>5. op[d[1]].ev.kind = "ROOM_CREATED" /\ op[d[1]].ev.room = ev.room
      BY <2>1, <2>4, <3>1 DEF Alters
    <3> QED BY <1>2, <1>5, <3>4, <3>5
  <2> QED BY <2>1, <2>2, <2>3, <2>4
<1>9. ASSUME NEW q \in Room, Alters(ev, q)
      PROVE  /\ Track(M, S, got'[n], Outcome(View(n, q), ev), Pending(n, q) \ {<<u, ev>>}, q)
             /\ ev.kind \in {"ROOM_ACL_ADD", "ROOM_KICK"} /\ R[Len(L)][q].form = "absent" =>
                   Deleted(L, q, 0, Len(L))
  <2> DEFINE w == View(n, q)
             D == Pending(n, q)
             g == got[n]
  <2>1. /\ Normal(w) /\ HasAll(L, g, q) /\ Track(L, R, g, w, D, q)
        /\ <<u, ev>> \in D /\ (\A d \in D : d # <<u, ev>> => d[2].kind # "ROOM_CREATED")
        /\ got'[n] = g \cup {Len(L) + 1}
    BY <1>1, <1>4, <1>6, <1>7, <1>8, <1>9
  <2> HIDE DEF w, D, g, L, ev, n
  <2> QED BY <1>1, <1>6, <1>9, <2>1, TrackRumored DEF w, D
<1>10. Reference(M, S)
  <2>1. ASSUME ev.kind \in {"ROOM_ACL_ADD", "ROOM_KICK"}, R[Len(L)][ev.room].form = "absent"
        PROVE  Deleted(L, ev.room, 0, Len(L))
    <3>1. Alters(ev, ev.room)
      BY <2>1 DEF Alters
    <3> HIDE DEF L, ev
    <3> QED BY <1>1, <1>9, <2>1, <3>1
  <2> HIDE DEF L, ev
  <2> QED BY <1>1, <1>6, <2>1, RefLonger
<1>11. ASSUME NEW m \in Node, NEW q \in Room
       PROVE  Track(M, S, got'[m], View(m, q)', Pending(m, q)', q)
  <2> DEFINE w == View(m, q)
             D == Pending(m, q)
             g == got[m]
  <2>1. Normal(w) /\ Track(L, R, g, w, D, q) /\ g \subseteq 1..Len(L)
    BY <1>1, <1>6, <1>7
  <2>2. /\ m = n /\ Alters(ev, q) => Pending(m, q)' = D \ {<<u, ev>>}
        /\ ~(m = n /\ Alters(ev, q)) => Pending(m, q)' = D
    BY <1>2, <1>3, PendingLess
  <2>3. /\ m = n /\ Alters(ev, q) => View(m, q)' = Outcome(w, ev)
        /\ ~(m = n /\ Alters(ev, q)) => View(m, q)' = w
    BY <1>3 DEF Turned
  <2> HIDE DEF L, ev, n
  <2>4. CASE m = n /\ Alters(ev, q)
    BY <1>9, <2>2, <2>3, <2>4
  <2>5. CASE m # n /\ Alters(ev, q)
    <3>1. got'[m] = g /\ Pending(m, q)' = D /\ View(m, q)' = w
      BY <1>4, <2>2, <2>3, <2>5
    <3> HIDE DEF w, D, g
    <3>2. Track(M, S, g, w, D, q)
      BY <1>1, <1>6, <1>10, <2>1, <2>5, TrackBehind
    <3> QED BY <3>1, <3>2
  <2>6. CASE ~Alters(ev, q)
    <3>1. Pending(m, q)' = D /\ View(m, q)' = w
      BY <2>2, <2>3, <2>6
    <3>2. g \subseteq got'[m] /\ got'[m] \subseteq g \cup {Len(L) + 1}
      BY <1>4
    <3> HIDE DEF w, D, g
    <3>3. Track(M, S, got'[m], w, D, q)
      BY <1>1, <1>6, <2>1, <2>6, <3>2, TrackOther
    <3> QED BY <3>1, <3>3
  <2> QED BY <2>4, <2>5, <2>6
<1>12. PICK T : T = S
  OBVIOUS
<1> HIDE DEF S
<1>13. Tracks(T)'
  <2>1. Reference(events', T)
    BY <1>2, <1>10, <1>12
  <2>2. \A m \in Node, q \in Room : Track(events', T, got'[m], View(m, q)', Pending(m, q)', q)
    BY <1>2, <1>11, <1>12
  <2> QED BY <2>1, <2>2 DEF Tracks
<1> QED BY <1>13

\* An event about another room comes in.
LEMMA TrackSkips ==
    ASSUME NEW L, NEW R, NEW r, NEW w, NEW D, NEW g, NEW h,
           \A x \in 1..Len(L) : Alters(L[x], r) => (x \in g <=> x \in h),
           Track(L, R, g, w, D, r)
    PROVE  Track(L, R, h, w, D, r)
<1>1. HasAll(L, h, r) => HasAll(L, g, r)
  BY DEF HasAll
<1>2. PICK k \in 0..Len(L) : Cut(L, g, r, k) /\ (D = {} => Follows(L, R, w, r, k))
  BY DEF Track
<1>3. Cut(L, h, r, k)
  BY <1>2 DEF Cut
<1> QED BY <1>1, <1>2, <1>3 DEF Track

\* The next event about r comes in.
LEMMA TrackNext ==
    ASSUME NEW L \in Seq(Event), NEW R, Reference(L, R), NEW r \in Room, NEW w, Normal(w),
           NEW g, NEW e \in 1..Len(L), Alters(L[e], r), e \notin g, 1..(e - 1) \subseteq g,
           Track(L, R, g, w, {}, r)
    PROVE  Track(L, R, g \cup {e}, Outcome(w, L[e]), {}, r)
<1>1. PICK k \in 0..Len(L) : Cut(L, g, r, k) /\ Follows(L, R, w, r, k)
  BY DEF Track
<1>2. k <= e - 1 /\ e - 1 \in 0..Len(L) /\ e \in 0..Len(L)
  BY <1>1 DEF Cut
<1>3. \A x \in 1..Len(L) : k < x /\ x <= e - 1 => ~Alters(L[x], r)
  BY <1>1 DEF Cut
<1>4. Follows(L, R, w, r, e - 1)
  BY <1>1, <1>2, <1>3, FollowsOn
<1>5. Follows(L, R, Outcome(w, L[e]), r, e)
  BY <1>4, FollowsNext
<1>6. Cut(L, g \cup {e}, r, e)
  <2> SUFFICES ASSUME NEW x \in 1..Len(L), Alters(L[x], r) PROVE x <= e <=> x \in g \cup {e}
    BY DEF Cut
  <2>1. CASE x <= e
    BY <2>1
  <2>2. CASE ~(x <= e)
    BY <1>1, <1>2, <2>2 DEF Cut
  <2> QED BY <2>1, <2>2
<1>7. L[e] \in Event
  OBVIOUS
<1>8. Normal(Outcome(w, L[e]))
  BY <1>7, OutcomeIs
<1> QED BY <1>2, <1>5, <1>6, <1>8, TrackFollows

\* A node reads an event.
LEMMA ReceiveLists ==
    ASSUME IInv, LInv, NEW n \in Node, NEW e \in 1..Len(events), Receive(n, e)
    PROVE  LInv'
<1> DEFINE ev == events[e]
           L == events
<1>1. /\ L \in Seq(Event) /\ ev \in Event /\ ev.room \in Room
      /\ Tables /\ OneRow /\ got \in [Node -> SUBSET (1..Len(L))]
  <2>1. L \in Seq(Event) /\ Tables /\ OneRow /\ got \in [Node -> SUBSET (1..Len(L))]
    BY Basics DEF LInv
  <2>2. ev \in Event
    BY <2>1
  <2> QED BY <2>1, <2>2 DEF Event
<1>2. /\ events' = L /\ got' = [got EXCEPT ![n] = @ \cup {e}]
      /\ ApplyEvent(n, e, ev) /\ op' = op /\ unsaid' = unsaid
      /\ inOrder' = (inOrder /\ 1..(e - 1) \subseteq got[n])
      /\ crossed' = (crossed \/ /\ Alters(ev, ev.room)
                                /\ \/ e \in got[n]
                                   \/ \E u \in Unsaid(n) : Alters(op[u].ev, ev.room))
  BY DEF Receive
<1>3. Turned(n, ev) /\ OneRow' /\ at' = at
  BY <1>1, <1>2, ApplyTurned, ApplyStays
<1>4. got'[n] = got[n] \cup {e} /\ \A m \in Node : m # n => got'[m] = got[m]
  BY <1>1, <1>2
<1>5. SUFFICES ASSUME inOrder', ~crossed', NEW R, Tracks(R) PROVE Tracks(R)'
  BY <1>2, <1>3 DEF LInv
<1>6. Reference(L, R)
      /\ \A m \in Node, q \in Room : Track(L, R, got[m], View(m, q), Pending(m, q), q)
  BY <1>5 DEF Tracks
<1>7. \A m \in Node, q \in Room : Normal(View(m, q))
  BY <1>1, ViewNormal
<1>8. \A m \in Node, q \in Room : Pending(m, q)' = Pending(m, q)
  BY <1>2, <1>3, PendingSame
<1>9. ASSUME NEW m \in Node, NEW q \in Room
      PROVE  Track(L, R, got'[m], View(m, q)', Pending(m, q)', q)
  <2> DEFINE w == View(m, q)
             D == Pending(m, q)
             g == got[m]
  <2>1. Normal(w) /\ Track(L, R, g, w, D, q) /\ Pending(m, q)' = D
    BY <1>6, <1>7, <1>8
  <2>2. /\ m = n /\ Alters(ev, q) => View(m, q)' = Outcome(w, ev)
        /\ ~(m = n /\ Alters(ev, q)) => View(m, q)' = w
    BY <1>3 DEF Turned
  <2>3. CASE m = n /\ Alters(ev, q)
    <3>1. q = ev.room
      BY <2>3 DEF Alters
    <3>2. e \notin g /\ ~\E u \in Unsaid(n) : Alters(op[u].ev, q)
      BY <1>2, <1>5, <2>3, <3>1
    <3>3. D = {}
      <4>1. \A d \in D : d[1] \in Unsaid(n) /\ Alters(op[d[1]].ev, q)
        BY <2>3 DEF Pending
      <4> QED BY <3>2, <4>1
    <3>4. 1..(e - 1) \subseteq g
      BY <1>2, <1>5, <2>3
    <3>5. Track(L, R, g, w, {}, q)
      <4> HIDE DEF D, w, g
      <4> QED BY <2>1, <3>3
    <3> HIDE DEF w, D, g
    <3>6. Track(L, R, g \cup {e}, Outcome(w, L[e]), {}, q)
      BY <1>1, <1>6, <2>1, <2>3, <3>2, <3>4, <3>5, TrackNext
    <3>7. got'[m] = g \cup {e}
      BY <1>4, <2>3 DEF g
    <3> QED BY <2>1, <2>2, <2>3, <3>3, <3>6, <3>7
  <2>4. CASE ~(m = n /\ Alters(ev, q))
    <3>1. \A x \in 1..Len(L) : Alters(L[x], q) => (x \in g <=> x \in got'[m])
      BY <1>4, <2>4
    <3> HIDE DEF w, D, g
    <3>2. Track(L, R, got'[m], w, D, q)
      BY <2>1, <3>1, TrackSkips
    <3> QED BY <2>1, <2>2, <2>4, <3>2
  <2> QED BY <2>3, <2>4
<1>10. Reference(events', R)
      /\ \A m \in Node, q \in Room : Track(events', R, got'[m], View(m, q)', Pending(m, q)', q)
  BY <1>2, <1>6, <1>9
<1> QED BY <1>10 DEF Tracks

\* A process dies and is started again.
LEMMA CrashLists ==
    ASSUME IInv, LInv, NEW n \in Node, Crash(n)
    PROVE  LInv'
<1> DEFINE L == events
<1>1. /\ L \in Seq(Event) /\ Tables /\ OneRow /\ got \in [Node -> SUBSET (1..Len(L))]
      /\ op \in [User -> OpType]
  BY Basics DEF LInv
<1>2. /\ UNCHANGED <<events, rooms, allow, at, inOrder, crossed>> /\ got' = [got EXCEPT ![n] = {}]
      /\ op' = [u \in User |-> IF at[u] = n THEN Idle ELSE op[u]]
      /\ unsaid' = (unsaid \/ Unsaid(n) # {})
  BY DEF Crash, tables
<1>3. OneRow' /\ \A m \in Node, q \in Room : View(m, q)' = View(m, q)
  BY <1>1, <1>2, ViewsSame
<1>4. got'[n] = {} /\ \A m \in Node : m # n => got'[m] = got[m]
  BY <1>1, <1>2
<1>5. SUFFICES ASSUME ~unsaid', NEW R, Tracks(R) PROVE Tracks(R)'
  BY <1>2, <1>3 DEF LInv
<1>6. Reference(L, R)
      /\ \A m \in Node, q \in Room : Track(L, R, got[m], View(m, q), Pending(m, q), q)
  BY <1>5 DEF Tracks
<1>7. Unsaid(n) = {}
  BY <1>2, <1>5
<1>8. \A u \in User : /\ at[u] = n => op'[u].pc = "idle" /\ op[u].pc \notin {"expel", "rumor"}
                      /\ at[u] # n => op'[u] = op[u]
  <2>1. \A u \in User : Idle.pc = "idle"
    BY OpStages
  <2> QED BY <1>2, <1>7, <2>1 DEF Unsaid
<1>9. \A m \in Node, q \in Room : Pending(m, q)' = Pending(m, q)
  <2> SUFFICES ASSUME NEW m \in Node, NEW q \in Room PROVE Pending(m, q)' = Pending(m, q)
    OBVIOUS
  <2>1. \A x \in User :
           \/ op'[x].pc \notin {"expel", "rumor"} /\ op[x].pc \notin {"expel", "rumor"}
           \/ /\ op'[x].pc \in {"expel", "rumor"} /\ op[x].pc \in {"expel", "rumor"}
              /\ op'[x].ev = op[x].ev /\ at'[x] = at[x]
    <3> SUFFICES ASSUME NEW x \in User
                 PROVE  \/ op'[x].pc \notin {"expel", "rumor"} /\ op[x].pc \notin {"expel", "rumor"}
                        \/ /\ op'[x].pc \in {"expel", "rumor"} /\ op[x].pc \in {"expel", "rumor"}
                           /\ op'[x].ev = op[x].ev /\ at'[x] = at[x]
      OBVIOUS
    <3>1. CASE at[x] = n
      BY <1>8, <3>1
    <3>2. CASE at[x] # n
      <4>1. op'[x] = op[x] /\ at' = at
        BY <1>2, <1>8, <3>2
      <4> QED BY <4>1
    <3> QED BY <3>1, <3>2
  <2> QED BY <2>1, PendingSame
<1>10. ASSUME NEW m \in Node, NEW q \in Room
       PROVE  Track(L, R, got'[m], View(m, q), Pending(m, q), q)
  <2>1. CASE m # n
    BY <1>4, <1>6, <2>1
  <2>2. CASE m = n
    <3> DEFINE w == View(m, q)
    <3>1. Pending(m, q) = {}
      BY <1>7, <2>2 DEF Pending
    <3>2. PICK k \in 0..Len(L) : Follows(L, R, w, q, k)
      BY <1>6, <3>1 DEF Track
    <3>3. Normal(w)
      BY <1>1, ViewNormal
    <3> HIDE DEF w
    <3>4. Follows(L, R, w, q, 0)
      BY <1>1, <1>6, <3>2, FollowsBack
    <3>5. Cut(L, {}, q, 0) /\ 0 \in 0..Len(L)
      BY <1>1 DEF Cut
    <3>6. Track(L, R, {}, w, {}, q)
      BY <1>1, <1>6, <3>3, <3>4, <3>5, TrackFollows
    <3> QED BY <1>4, <2>2, <3>1, <3>6 DEF w
  <2> QED BY <2>1, <2>2
<1>11. Reference(events', R)
      /\ \A m \in Node, q \in Room : Track(events', R, got'[m], View(m, q)', Pending(m, q)', q)
  <2>1. events' = L
    BY <1>2
  <2>2. ASSUME NEW m \in Node, NEW q \in Room
        PROVE  Track(L, R, got'[m], View(m, q)', Pending(m, q)', q)
    <3>1. View(m, q)' = View(m, q) /\ Pending(m, q)' = Pending(m, q)
      BY <1>3, <1>9
    <3> QED BY <1>10, <3>1
  <2> QED BY <1>6, <2>1, <2>2
<1> QED BY <1>11 DEF Tracks

\* Before the first event, every node has the rooms the reference begins with.
LEMMA InitiallyLInv ==
    ASSUME Init
    PROVE  LInv
<1>1. /\ events = <<>> /\ got = [n \in Node |-> {}] /\ op = [u \in User |-> Idle]
      /\ Len(events) = 0 /\ events \in Seq(Event)
  BY DEF Init
<1>2. PICK old \in {{}} \cup {{r} : r \in Extra}, u \in User, privacy \in Privacy :
         InitWith(old, u, privacy)
  BY DEF Init
<1>3. Tables
  BY InitiallyIInv, Basics
<1>4. /\ \A n, m \in Node : rooms[n] = rooms[m] /\ allow[n] = allow[m]
      /\ \A n \in Node : \A row \in allow[n] : row = [id |-> 3, user |-> u, creator |-> TRUE]
  BY <1>2 DEF InitWith
<1>5. OneRow
  <2> SUFFICES ASSUME NEW n \in Node, NEW id \in Nat, NEW v \in User, HasRow(n, id, v, FALSE)
               PROVE  FALSE
    BY DEF OneRow
  <2>1. [id |-> id, user |-> v, creator |-> FALSE] = [id |-> 3, user |-> u, creator |-> TRUE]
    BY <1>4 DEF HasRow
  <2>2. [id |-> id, user |-> v, creator |-> FALSE].creator = FALSE
        /\ [id |-> 3, user |-> u, creator |-> TRUE].creator = TRUE
    OBVIOUS
  <2> QED BY <2>1, <2>2
<1>6. \A n, m \in Node, r \in Room : View(n, r) = View(m, r)
  <2>1. ASSUME NEW n \in Node, NEW m \in Node, NEW r \in Room PROVE View(n, r) = View(m, r)
    <3>1. rooms[n] = rooms[m] /\ allow[n] = allow[m]
      BY <1>4
    <3> QED BY <3>1 DEF View, Mark, HasRow, Exists
  <2> QED BY <2>1
<1>7. \A n \in Node, r \in Room : Pending(n, r) = {}
  <2>1. \A x \in User : op[x].pc = "idle"
    BY <1>1, OpStages
  <2> QED BY <2>1 DEF Pending, Unsaid
<1>8. u \in User /\ Home[u] \in Node
  BY UserAssumption
<1> DEFINE W == [r \in Room |-> View(Home[u], r)]
           R == [k \in 0..Len(events) |-> W]
<1>9. \A r \in Room : W[r] \in Views /\ Normal(W[r])
  BY <1>3, <1>8, ViewNormal DEF Normal
<1>10. W \in [Room -> Views]
  BY <1>9
<1>11. \A k \in 0..Len(events) : k = 0 /\ R[k] = W
  BY <1>1
<1>12. Reference(events, R)
  <2>1. R \in [0..Len(events) -> [Room -> Views]]
    BY <1>10
  <2> HIDE DEF R
  <2>2. \A k \in 0..Len(events), r \in Room : Normal(R[k][r])
    BY <1>9, <1>11
  <2>3. Chain(events, R) /\ Founded(events, R)
    BY <1>1 DEF Chain, Founded
  <2>4. ASSUME NEW i \in 0..Len(events), NEW j \in 0..Len(events), NEW r \in Room
        PROVE  Stays(events, R, r, i, j)
    <3>1. i = j
      BY <1>11
    <3> QED BY <3>1 DEF Stays
  <2> QED BY <2>1, <2>2, <2>3, <2>4 DEF Reference
<1>13. ASSUME NEW n \in Node, NEW r \in Room
       PROVE  Track(events, R, got[n], View(n, r), Pending(n, r), r)
  <2>1. Cut(events, got[n], r, 0) /\ 0 \in 0..Len(events)
    BY <1>1 DEF Cut
  <2>2. View(n, r) = R[0][r] /\ Normal(View(n, r))
    BY <1>3, <1>6, <1>8, <1>11, <2>1, ViewNormal
  <2>3. ~Deleted(events, r, 0, 0)
    BY <1>1 DEF Deleted
  <2>4. Follows(events, R, View(n, r), r, 0)
    <3> HIDE DEF R
    <3> QED BY <1>1, <2>2, <2>3 DEF Follows
  <2> HIDE DEF R
  <2>5. Track(events, R, got[n], View(n, r), {}, r)
    BY <1>1, <1>12, <2>1, <2>2, <2>4, TrackFollows
  <2> QED BY <1>7, <2>5
<1>14. PICK T : T = R
  OBVIOUS
<1> HIDE DEF R
<1>15. Tracks(T)
  BY <1>12, <1>13, <1>14 DEF Tracks
<1> QED BY <1>5, <1>15 DEF LInv

\* Every step keeps LInv.
LEMMA ListsStep ==
    ASSUME IInv, LInv, [Next]_vars
    PROVE  LInv'
<1>1. CASE UNCHANGED vars
  <2>1. UNCHANGED <<events, got, rooms, allow, at, op, inOrder, crossed, unsaid>>
    BY <1>1 DEF vars, bus, tables, sessions, history
  <2>2. OneRow' /\ \A m \in Node, q \in Room : View(m, q)' = View(m, q)
    BY <2>1, ViewsSame DEF LInv
  <2>3. \A m \in Node, q \in Room : Pending(m, q)' = Pending(m, q)
    BY <2>1, PendingSame
  <2> QED BY <2>1, <2>2, <2>3, QuietLists
<1>2. CASE Next
  BY <1>2, PlainLists, ChangeLists, RumorLists, ReceiveLists, CrashLists DEF Next
<1> QED BY <1>1, <1>2

\* The rows of a private room, from its marks.
LEMMA ListingIs ==
    ASSUME Tables, OneRow, NEW n \in Node, NEW r \in Room, rooms[n][r].privacy = "PRIVATE"
    PROVE  Listing(n, r) = {x \in User \X BOOLEAN :
              \/ x[2] = TRUE /\ View(n, r).list[x[1]] = "creator"
              \/ x[2] = FALSE /\ View(n, r).list[x[1]] = "member"}
<1>1. PICK id \in Nat : id = rooms[n][r].id
  BY RoomIds
<1>2. \A v \in User : View(n, r).list[v] = IF HasRow(n, id, v, TRUE) THEN "creator"
                                           ELSE IF HasRow(n, id, v, FALSE) THEN "member" ELSE "none"
  BY <1>1, ViewNormal, MarkIs
<1>3. \A v \in User : ~(HasRow(n, id, v, TRUE) /\ HasRow(n, id, v, FALSE))
  BY DEF OneRow
<1>4. \A v \in User : /\ HasRow(n, id, v, TRUE) <=> View(n, r).list[v] = "creator"
                      /\ HasRow(n, id, v, FALSE) <=> View(n, r).list[v] = "member"
  BY <1>2, <1>3
<1>5. ASSUME NEW x \in Listing(n, r)
      PROVE  /\ x \in User \X BOOLEAN
             /\ \/ x[2] = TRUE /\ HasRow(n, id, x[1], TRUE)
                \/ x[2] = FALSE /\ HasRow(n, id, x[1], FALSE)
  <2>1. PICK row \in allow[n] : row.id = id /\ x = <<row.user, row.creator>>
    BY <1>1 DEF Listing
  <2>2. row \in AllowRow
    BY DEF Tables
  <2>3. row.user \in User /\ row.creator \in BOOLEAN
        /\ row = [id |-> id, user |-> row.user, creator |-> row.creator]
    BY <2>1, <2>2 DEF AllowRow
  <2>4. x[1] = row.user /\ x[2] = row.creator /\ x \in User \X BOOLEAN
    BY <2>1, <2>3
  <2>5. [id |-> id, user |-> row.user, creator |-> row.creator] \in allow[n]
    BY <2>3
  <2>6. CASE row.creator = TRUE
    BY <2>4, <2>5, <2>6 DEF HasRow
  <2>7. CASE row.creator = FALSE
    BY <2>4, <2>5, <2>7 DEF HasRow
  <2> QED BY <2>3, <2>4, <2>6, <2>7
<1>6. ASSUME NEW v \in User, NEW c \in BOOLEAN, HasRow(n, id, v, c)
      PROVE  <<v, c>> \in Listing(n, r)
  <2> DEFINE row == [id |-> id, user |-> v, creator |-> c]
  <2>1. row \in allow[n] /\ row.id = id /\ row.user = v /\ row.creator = c
    BY <1>6 DEF HasRow
  <2> HIDE DEF row
  <2> QED BY <1>1, <2>1 DEF Listing
<1>7. ASSUME NEW x \in User \X BOOLEAN,
             \/ x[2] = TRUE /\ HasRow(n, id, x[1], TRUE)
             \/ x[2] = FALSE /\ HasRow(n, id, x[1], FALSE)
      PROVE  x \in Listing(n, r)
  <2>1. x[1] \in User /\ x = <<x[1], x[2]>>
    OBVIOUS
  <2>2. CASE x[2] = TRUE /\ HasRow(n, id, x[1], TRUE)
    <3>1. <<x[1], TRUE>> \in Listing(n, r)
      BY <1>6, <2>1, <2>2
    <3> QED BY <2>1, <2>2, <3>1
  <2>3. CASE x[2] = FALSE /\ HasRow(n, id, x[1], FALSE)
    <3>1. <<x[1], FALSE>> \in Listing(n, r)
      BY <1>6, <2>1, <2>3
    <3> QED BY <2>1, <2>3, <3>1
  <2> QED BY <1>7, <2>2, <2>3
<1>8. \A x \in User \X BOOLEAN : x[1] \in User
  OBVIOUS
<1> QED BY <1>4, <1>5, <1>7, <1>8

\* When every node has every event and nothing is left to rumor, every node has the
\* rooms the events make.
LEMMA ListsSettled ==
    ASSUME IInv, LInv
    PROVE  ListsAgree
<1>1. SUFFICES ASSUME Settled, inOrder, ~crossed, ~unsaid,
                      NEW n \in Node, NEW m \in Node, NEW r \in Room
               PROVE  /\ Exists(n, r) = Exists(m, r)
                      /\ rooms[n][r].privacy = rooms[m][r].privacy
                      /\ rooms[n][r].privacy = "PRIVATE" => Listing(n, r) = Listing(m, r)
  BY DEF ListsAgree
<1>2. PICK R : Tracks(R)
  BY <1>1 DEF LInv
<1>3. Tables /\ OneRow /\ events \in Seq(Event)
  BY Basics DEF LInv
<1>4. ASSUME NEW i \in Node
      PROVE  /\ View(i, r).form = R[Len(events)][r].form
             /\ \A v \in User : View(i, r).list[v] = R[Len(events)][r].list[v]
  <2>1. Pending(i, r) = {}
    BY <1>1 DEF Settled, Pending, Unsaid
  <2>2. HasAll(events, got[i], r)
    BY <1>1 DEF Settled, HasAll
  <2>3. PICK k \in 0..Len(events) : Cut(events, got[i], r, k) /\ Follows(events, R, View(i, r), r, k)
    BY <1>2, <2>1 DEF Tracks, Track
  <2>4. Reference(events, R) /\ Normal(View(i, r))
    BY <1>2, <1>3, ViewNormal DEF Tracks
  <2> QED BY <1>3, <2>2, <2>3, <2>4, FollowsAll
<1>5. /\ View(n, r).form = View(m, r).form
      /\ \A v \in User : View(n, r).list[v] = View(m, r).list[v]
  <2>1. View(n, r).form = R[Len(events)][r].form /\ View(m, r).form = R[Len(events)][r].form
    BY <1>4
  <2>2. \A v \in User : /\ View(n, r).list[v] = R[Len(events)][r].list[v]
                        /\ View(m, r).list[v] = R[Len(events)][r].list[v]
    BY <1>4
  <2> QED BY <2>1, <2>2
<1>6. ASSUME NEW i \in Node
      PROVE  /\ View(i, r).form = IF Exists(i, r) THEN rooms[i][r].privacy ELSE "absent"
             /\ rooms[i][r].privacy # "absent"
             /\ ~Exists(i, r) => rooms[i][r].privacy = "PUBLIC"
  <2>1. rooms[i][r].privacy \in Privacy /\ (rooms[i][r].id = 0 => rooms[i][r].privacy = "PUBLIC")
    BY <1>3 DEF Tables, RowsAt, RoomRow
  <2> QED BY <1>3, <2>1, ViewNormal DEF Exists, Privacy
<1>7. (Exists(n, r) <=> Exists(m, r)) /\ rooms[n][r].privacy = rooms[m][r].privacy
  <2>1. /\ View(n, r).form = IF Exists(n, r) THEN rooms[n][r].privacy ELSE "absent"
        /\ rooms[n][r].privacy # "absent" /\ (~Exists(n, r) => rooms[n][r].privacy = "PUBLIC")
    BY <1>6
  <2>2. /\ View(m, r).form = IF Exists(m, r) THEN rooms[m][r].privacy ELSE "absent"
        /\ rooms[m][r].privacy # "absent" /\ (~Exists(m, r) => rooms[m][r].privacy = "PUBLIC")
    BY <1>6
  <2> QED BY <1>5, <2>1, <2>2
<1>8. Exists(n, r) = Exists(m, r)
  BY <1>7 DEF Exists
<1>9. ASSUME rooms[n][r].privacy = "PRIVATE" PROVE Listing(n, r) = Listing(m, r)
  <2>1. rooms[m][r].privacy = "PRIVATE"
    BY <1>7, <1>9
  <2>2. \A x \in User \X BOOLEAN : View(n, r).list[x[1]] = View(m, r).list[x[1]]
    BY <1>5
  <2> DEFINE LN == {x \in User \X BOOLEAN : \/ x[2] = TRUE /\ View(n, r).list[x[1]] = "creator"
                                            \/ x[2] = FALSE /\ View(n, r).list[x[1]] = "member"}
             LM == {x \in User \X BOOLEAN : \/ x[2] = TRUE /\ View(m, r).list[x[1]] = "creator"
                                            \/ x[2] = FALSE /\ View(m, r).list[x[1]] = "member"}
  <2>3. Listing(n, r) = LN
    BY <1>3, <1>9, ListingIs
  <2>4. Listing(m, r) = LM
    BY <1>3, <2>1, ListingIs
  <2>5. LN = LM
    BY <2>2
  <2> QED BY <2>3, <2>4, <2>5
<1> QED BY <1>7, <1>8, <1>9

\* When events about a room came in order, once, and never crossed each other, the
\* nodes end up with the same rooms and the same lists for private ones (applyEvent of
\* ROOM_CREATED, ROOM_ACL_ADD, ROOM_KICK and ROOM_DELETED).
THEOREM SameLists == Spec => []ListsAgree
<1>1. Init => IInv /\ LInv
  BY InitiallyIInv, InitiallyLInv
<1>2. IInv /\ LInv /\ [Next]_vars => (IInv /\ LInv)'
  BY InductiveStep, ListsStep
<1>3. IInv /\ LInv => ListsAgree
  BY ListsSettled
<1> QED BY <1>1, <1>2, <1>3, PTL DEF Spec
=============================================================================
