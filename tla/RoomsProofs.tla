---------------------------- MODULE RoomsProofs -----------------------------
(***************************************************************************)
(* Proofs about Rooms: its type invariant, that every connected client is  *)
(* in a room of the directory (Reachable), that every room of the          *)
(* directory is in the database (DirectoryBacked), and that session,       *)
(* member sets and rows agree between operations that come one after the   *)
(* other (AlignedInSequence), for any number of sockets, rooms, operations *)
(* and database faults.                                                    *)
(*                                                                         *)
(* None of them is inductive.  For the first three the inductive invariant *)
(* IInv adds what an operation that is under way carries with it: Shape,   *)
(* the continuation and the session it can have at each pc; IdsFresh and   *)
(* Dropping, why the row that deleteRoom drops without the mutex is not    *)
(* that of a room created again under the same name; Closing and Placed,   *)
(* who puts a socket that is in no room back into one.                     *)
(*                                                                         *)
(* AlignedInSequence needs CInv, that ids tell rooms apart and a session   *)
(* is on one node only, and SInv: while no two operations have overlapped  *)
(* and no statement has failed, the pc of the one operation under way says *)
(* which of the three records is ahead of the others (AtWork, Moving), and *)
(* every other session is aligned.                                         *)
(***************************************************************************)
EXTENDS Rooms, TLAPS

JoinPC == {"join", "enter", "persist", "rollback"}
LeavePC == {"leave", "exit", "wipe"}
BackPC == {"anon", "rejoin"}
RoomPC == {"drop", "relocate", "deleted"}

\* What an operation carries at each pc: a session, except in deleteRoom, and the
\* continuations its caller can have asked for.
Shape(o) ==
    /\ o.pc \in PC \ (RoomPC \cup {"idle"}) => o.s \in Sock
    /\ o.pc \in JoinPC =>
          /\ o.then \in {"idle", "rumor", "rumorIfAuth", "logout"}
          /\ o.orElse \in {"idle", "rumor", "logout", "fallback"}
    /\ o.pc \in LeavePC => o.then \in BackPC \cup {"idle", "logout"}
    /\ o.pc \in LeavePC \cup BackPC => o.orElse \in {"idle", "logout"}
    /\ o.pc \in RoomPC => o.to \in Extra
    /\ o.pc \in {"drop", "relocate"} => o.then \in {"idle", "deleted"}
    /\ o.pc = "persist" => o.id # 0

Shapes == \A t \in Thread : Shape(op[t])

\* The seed rooms are there for good.
Seeded == known[Lobby] = 1 /\ known[General] = 2

\* Ids are never used twice.
IdsFresh == \A r \in Room : dbRoom[r] < nextId

\* A row deleteRoom is about to drop is not that of a room of the directory.
Dropping ==
    \A t \in Thread : At(t, "drop") =>
        /\ op[t].id # 0 /\ op[t].id < nextId
        /\ dbRoom[op[t].to] = op[t].id => known[op[t].to] = 0

\* Only rooms of the directory have members.
Listed == \A r \in Room : members[r] # {} => known[r] # 0

\* leaveAll runs for a session that is closed for good, or whose caller puts the
\* socket back into Lobby.
Closing ==
    \A t \in Thread : op[t].pc \in LeavePC =>
        /\ op[t].s \in used
        /\ op[t].s \in open => op[t].then \in BackPC

\* Thread t is going to put s into Lobby.
Owes(t, s) ==
    /\ op[t].s = s
    /\ \/ op[t].pc \in {"join", "enter"} /\ op[t].to = Lobby
       \/ op[t].pc \in LeavePC /\ op[t].then \in BackPC
       \/ op[t].pc \in BackPC

\* A connected socket is in a room or on its way to Lobby.
Placed == \A s \in open : RoomsOf(s) # {} \/ \E t \in Thread : Owes(t, s)

IInv ==
    /\ TypeOK /\ Shapes /\ Seeded /\ IdsFresh /\ Dropping
    /\ DirectoryBacked /\ Listed /\ Closing /\ Placed

-----------------------------------------------------------------------------
(***************************************************************************)
(* The operations a thread can be in.                                      *)
(***************************************************************************)

\* Thread t's operation becomes o and no other thread's changes.
Becomes(t, o) == op' = [op EXCEPT ![t] = o]

\* An operation record with the pc replaced is one, and keeps its other fields.
LEMMA PcReplaced ==
    ASSUME NEW o \in Op, NEW pc \in PC
    PROVE  LET n == [o EXCEPT !.pc = pc]
           IN /\ n \in Op /\ n.pc = pc /\ n.s = o.s /\ n.to = o.to /\ n.id = o.id
              /\ n.prev = o.prev /\ n.then = o.then /\ n.orElse = o.orElse
              /\ n.moved = o.moved /\ n.persist = o.persist
BY DEF Op

\* No operation is one, of the right shape.
LEMMA NothingShaped ==
    Nothing \in Op /\ Shape(Nothing) /\ Nothing.pc = "idle"
BY RoomAssumption DEF Nothing, Op, Shape, PC, Thread, Room, LobbyRoom, JoinPC, LeavePC,
   BackPC, RoomPC

\* The operations that start joinRoom have the right shape.
LEMMA JoinShaped ==
    ASSUME NEW s \in Sock, NEW r \in Room,
           NEW then \in {"idle", "rumor", "rumorIfAuth", "logout"},
           NEW orElse \in {"idle", "rumor", "logout", "fallback"}
    PROVE  LET o == Join(s, r, then, orElse)
           IN o \in Op /\ Shape(o) /\ o.pc = "join" /\ o.s = s /\ o.to = r
BY RoomAssumption DEF Join, Nothing, Op, Shape, PC, Thread, Room, LobbyRoom, JoinPC,
   LeavePC, BackPC, RoomPC

\* The operations that start leaveAll have the right shape.
LEMMA LeaveShaped ==
    ASSUME NEW s \in Sock, NEW then \in BackPC \cup {"idle", "logout"},
           NEW after \in {"idle", "logout"}
    PROVE  LET o == Leave(s, then, after)
           IN o \in Op /\ Shape(o) /\ o.pc = "leave" /\ o.s = s /\ o.then = then
BY RoomAssumption DEF Leave, Nothing, Op, Shape, PC, Thread, Room, LobbyRoom, JoinPC,
   LeavePC, BackPC, RoomPC

\* The operations that start the second part of deleteRoom have the right shape.
LEMMA ErasingShaped ==
    ASSUME TypeOK, NEW r \in Extra, NEW then \in {"idle", "deleted"}
    PROVE  LET o == Erasing(r, then)
           IN o \in Op /\ Shape(o) /\ o.pc = "drop" /\ o.to = r /\ o.id = known[r]
<1>1. known[r] \in Nat /\ members[r] \in SUBSET Sock /\ r \in Room
  BY DEF TypeOK, Room
<1> QED BY <1>1, RoomAssumption DEF Erasing, Nothing, Op, Shape, PC, Thread, Room, LobbyRoom,
           JoinPC, LeavePC, BackPC, RoomPC

\* A new operation of one thread keeps the table of operations typed and shaped.
LEMMA OpsKept ==
    ASSUME op \in [Thread -> Op], Shapes, NEW t \in Thread, NEW o \in Op, Shape(o),
           Becomes(t, o)
    PROVE  /\ op' \in [Thread -> Op] /\ Shapes' /\ op'[t] = o
           /\ \A u \in Thread \ {t} : op'[u] = op[u]
BY DEF Becomes, Shapes

\* Where Goto leads.
LEMMA GotoBecomes ==
    ASSUME op \in [Thread -> Op], NEW t \in Thread, NEW pc \in PC, Goto(t, pc)
    PROVE  LET o == IF pc = "idle" THEN Nothing ELSE [op[t] EXCEPT !.pc = pc]
           IN /\ Becomes(t, o) /\ o \in Op /\ o.pc = pc
              /\ pc # "idle" => /\ o.s = op[t].s /\ o.to = op[t].to /\ o.id = op[t].id
                                /\ o.then = op[t].then /\ o.orElse = op[t].orElse
BY PcReplaced, NothingShaped DEF Goto, Becomes

-----------------------------------------------------------------------------
(***************************************************************************)
(* What a step has to keep.                                                *)
(***************************************************************************)
Others(t) == \A u \in Thread \ {t} : op'[u] = op[u]

\* The directory and the rooms table stay related when neither changes and no
\* deletion begins.
LEMMA DirectoryKept ==
    ASSUME IdsFresh, Dropping, DirectoryBacked, UNCHANGED <<known, dbRoom, nextId>>,
           NEW t \in Thread, Others(t), op'[t].pc # "drop"
    PROVE  IdsFresh' /\ Dropping' /\ DirectoryBacked'
BY DEF IdsFresh, Dropping, DirectoryBacked, Others, At

\* A step that starts no leaveAll, and leaves one that is under way as it is.
LEMMA ClosingKept ==
    ASSUME Closing, UNCHANGED <<open, used>>, NEW t \in Thread, Others(t),
           op'[t].pc \in LeavePC =>
              /\ op[t].pc \in LeavePC
              /\ op'[t].s = op[t].s /\ op'[t].then = op[t].then
    PROVE  Closing'
BY DEF Closing, Others

\* A socket that is taken out of its room, or that thread t owes a room, is in one
\* after the step, or owed one by t.
LEMMA PlacedKept ==
    ASSUME Placed, open' \subseteq open, NEW t \in Thread, Others(t),
           \A s \in open' : (RoomsOf(s) # {} \/ Owes(t, s)) =>
                               (RoomsOf(s) # {} \/ Owes(t, s))'
    PROVE  Placed'
BY DEF Placed, Others, Owes

\* Nobody is taken out of a room.
LEMMA RoomsKept ==
    ASSUME members' = members
    PROVE  \A s : RoomsOf(s)' = RoomsOf(s)
BY DEF RoomsOf

\* What is left to show of a step that changes neither directory nor sessions and
\* begins neither leaveAll nor a deletion.
LEMMA CalmStep ==
    ASSUME IInv, NEW t \in Thread, Others(t),
           op'[t].pc \notin LeavePC \cup {"drop"},
           UNCHANGED <<known, dbRoom, nextId, open, used>>
    PROVE  Seeded' /\ IdsFresh' /\ Dropping' /\ DirectoryBacked' /\ Closing'
<1>1. IdsFresh' /\ Dropping' /\ DirectoryBacked'
  BY DirectoryKept DEF IInv
<1>2. Closing'
  BY ClosingKept DEF IInv
<1> QED BY <1>1, <1>2 DEF IInv, Seeded

\* The same, when no member set changes and t owed no room to anyone.
LEMMA FreeStep ==
    ASSUME IInv, NEW t \in Thread, Others(t),
           op'[t].pc \notin LeavePC \cup {"drop"},
           UNCHANGED <<known, dbRoom, nextId, open, used, members>>,
           \A s \in open : ~Owes(t, s)
    PROVE  /\ Seeded' /\ IdsFresh' /\ Dropping' /\ DirectoryBacked' /\ Closing'
           /\ Listed' /\ Placed'
<1>1. Placed'
  BY PlacedKept, RoomsKept DEF IInv
<1>2. Listed'
  BY DEF IInv, Listed
<1> QED BY <1>1, <1>2, CalmStep

\* The stages after joinRoom and leaveAll; each needs its session only.
After == {"idle", "rumor", "rumorIfAuth", "logout", "fallback", "kick"}

\* Goto leads an operation that has a session to one of those stages.
LEMMA GotoAfter ==
    ASSUME TypeOK, Shapes, NEW t \in Thread, op[t].s \in Sock, NEW pc \in After,
           Goto(t, pc)
    PROVE  op' \in [Thread -> Op] /\ Shapes' /\ Others(t) /\ op'[t].pc = pc
<1> DEFINE o == IF pc = "idle" THEN Nothing ELSE [op[t] EXCEPT !.pc = pc]
<1>0. pc \in PC /\ op \in [Thread -> Op]
  BY DEF TypeOK, After, PC
<1>1. Becomes(t, o) /\ o \in Op /\ o.pc = pc /\ (pc # "idle" => o.s \in Sock)
  BY <1>0, GotoBecomes
<1> HIDE DEF o
<1>2. Shape(o)
  BY <1>1 DEF Shape, After, JoinPC, LeavePC, BackPC, RoomPC
<1> QED BY <1>1, <1>2, OpsKept DEF TypeOK, Others

-----------------------------------------------------------------------------
(***************************************************************************)
(* One lemma for each step that has more to it.                            *)
(***************************************************************************)

\* Reading the session keeps the continuation and the debt of the operation.
LEMMA ReadSessionStep ==
    ASSUME IInv, NEW t \in Thread, ReadSession(t)
    PROVE  IInv'
<1>0. TypeOK /\ Shapes /\ Shape(op[t]) /\ op[t] \in Op
  BY DEF IInv, TypeOK, Shapes
<1>1. op[t].s \in Sock /\ room[op[t].s] \in [name : Room, id : Nat] /\ auth[op[t].s] \in BOOLEAN
  BY <1>0 DEF ReadSession, At, Shape, PC, RoomPC, TypeOK
<1> DEFINE pc == IF op[t].pc = "join" THEN "enter" ELSE "exit"
           prev == room[op[t].s]
           persist == auth[op[t].s]
           o == [op[t] EXCEPT !.prev = prev, !.persist = persist, !.pc = pc]
<1>2. Becomes(t, o) /\ pc \in PC
  BY <1>0 DEF ReadSession, Becomes, TypeOK, PC
<1>a. \/ op[t].pc = "join" /\ pc = "enter"
      \/ op[t].pc = "leave" /\ pc = "exit"
  BY DEF ReadSession, At
<1>b. /\ o \in Op /\ o.s = op[t].s /\ o.to = op[t].to /\ o.then = op[t].then
      /\ o.orElse = op[t].orElse /\ o.pc = pc
  <2>1. prev \in [name : Room, id : Nat] /\ persist \in BOOLEAN
    BY <1>1
  <2> HIDE DEF pc, prev, persist
  <2> QED BY <1>0, <1>2, <2>1 DEF Op
<1> HIDE DEF o
<1>3. /\ o \in Op /\ o.s = op[t].s /\ o.to = op[t].to /\ o.then = op[t].then
      /\ o.orElse = op[t].orElse
      /\ \/ op[t].pc = "join" /\ o.pc = "enter"
         \/ op[t].pc = "leave" /\ o.pc = "exit"
  BY <1>a, <1>b
<1>4. Shape(o)
  BY <1>0, <1>1, <1>3 DEF Shape, JoinPC, LeavePC, RoomPC, BackPC
<1>5. op' \in [Thread -> Op] /\ Shapes' /\ op'[t] = o /\ Others(t)
  BY <1>0, <1>2, <1>3, <1>4, OpsKept DEF TypeOK, Others
<1>6. UNCHANGED <<known, members, db, session, ops, faults, nextId, overlapped>>
  BY DEF ReadSession
<1>7. TypeOK' /\ Seeded' /\ Listed'
  BY <1>5, <1>6 DEF IInv, TypeOK, Seeded, Listed, db, session
<1>8. IdsFresh' /\ Dropping' /\ DirectoryBacked'
  BY <1>3, <1>5, <1>6, DirectoryKept DEF IInv, db
<1>9. Closing'
  BY <1>3, <1>5, <1>6, ClosingKept DEF IInv, session, LeavePC
<1>10. Placed'
  <2>1. \A s \in open : Owes(t, s) => Owes(t, s)'
    BY <1>3, <1>5 DEF Owes, LeavePC, BackPC
  <2> QED BY <1>5, <1>6, <2>1, PlacedKept, RoomsKept DEF IInv, session
<1> QED BY <1>5, <1>7, <1>8, <1>9, <1>10 DEF IInv

\* Entering a room: the socket is in the new one, or the room is gone and was not
\* Lobby.
LEMMA EnterStep ==
    ASSUME IInv, NEW t \in Thread, Enter(t)
    PROVE  IInv'
<1>0. TypeOK /\ Shapes /\ Shape(op[t]) /\ op[t] \in Op /\ op[t].pc = "enter"
  BY DEF IInv, TypeOK, Shapes, Enter, At
<1>1. /\ op[t].s \in Sock /\ op[t].to \in Room /\ known[op[t].to] \in Nat
      /\ op[t].then \in {"idle", "rumor", "rumorIfAuth", "logout"}
      /\ op[t].orElse \in {"idle", "rumor", "logout", "fallback"}
  BY <1>0 DEF Shape, PC, RoomPC, JoinPC, Op, TypeOK
<1>2. UNCHANGED <<known, dbRoom, membership, open, used, auth, away, ops, faults, nextId,
                  overlapped>>
  BY DEF Enter, db
<1>3. CASE known[op[t].to] = 0
  <2>1. Goto(t, op[t].orElse) /\ UNCHANGED <<members, room>>
    BY <1>3 DEF Enter
  <2>2. op' \in [Thread -> Op] /\ Shapes' /\ Others(t) /\ op'[t].pc = op[t].orElse
    BY <1>0, <1>1, <2>1, GotoAfter DEF After
  <2>3. \A s \in open : ~Owes(t, s)
    BY <1>0, <1>3 DEF Owes, IInv, Seeded, LeavePC, BackPC
  <2>4. op'[t].pc \notin LeavePC \cup {"drop"}
    BY <1>1, <2>2 DEF LeavePC
  <2>5. TypeOK'
    BY <1>0, <1>2, <2>1, <2>2 DEF TypeOK
  <2> QED BY <1>2, <2>1, <2>2, <2>3, <2>4, <2>5, FreeStep DEF IInv
<1>4. CASE known[op[t].to] # 0
  <2> DEFINE pc == IF op[t].persist THEN "persist" ELSE op[t].then
             o == IF ~op[t].persist /\ op[t].then = "idle" THEN Nothing
                  ELSE [op[t] EXCEPT !.id = known[op[t].to], !.pc = pc]
  <2>1. /\ members' = [r \in Room |->
                         IF r = op[t].to THEN members[r] \cup {op[t].s}
                         ELSE IF r = op[t].prev.name THEN members[r] \ {op[t].s}
                         ELSE members[r]]
        /\ room' = [room EXCEPT ![op[t].s] = [name |-> op[t].to, id |-> known[op[t].to]]]
        /\ Becomes(t, o)
    BY <1>0, <1>4 DEF Enter, Becomes, TypeOK
  <2>2. pc \in {"persist", "idle", "rumor", "rumorIfAuth", "logout"} /\ pc \in PC
    BY <1>1 DEF PC
  <2>3. \/ o = Nothing
        \/ /\ o \in Op /\ o.pc = pc /\ o.s \in Sock /\ o.id # 0
           /\ o.then = op[t].then /\ o.orElse = op[t].orElse
    <3> HIDE DEF pc
    <3> QED BY <1>0, <1>1, <1>4, <2>2 DEF Op
  <2> HIDE DEF o
  <2>4. o \in Op /\ Shape(o) /\ o.pc \notin LeavePC \cup {"drop"}
    <3>1. CASE o = Nothing
      BY <3>1, NothingShaped DEF LeavePC
    <3>2. CASE o # Nothing
      <4> HIDE DEF pc
      <4> QED BY <1>1, <2>2, <2>3, <3>2 DEF Shape, JoinPC, LeavePC, BackPC, RoomPC
    <3> QED BY <3>1, <3>2
  <2>5. op' \in [Thread -> Op] /\ Shapes' /\ Others(t) /\ op'[t] = o
    BY <1>0, <2>1, <2>4, OpsKept DEF TypeOK, Others
  <2>6. /\ members' \in [Room -> SUBSET Sock]
        /\ \A s \in Sock : s \in members'[op[t].to] \/ s # op[t].s
        /\ \A s \in Sock, r \in Room : s \in members[r] /\ s # op[t].s => s \in members'[r]
    BY <1>0, <1>1, <2>1 DEF TypeOK
  <2>7. room' \in [Sock -> [name : Room, id : Nat]]
    BY <1>0, <1>1, <2>1 DEF TypeOK
  <2>8. TypeOK'
    BY <1>0, <1>2, <2>5, <2>6, <2>7 DEF TypeOK
  <2>9. Listed'
    BY <1>0, <1>1, <1>2, <1>4, <2>1 DEF IInv, Listed, TypeOK
  <2>10. Placed'
    <3>1. ASSUME NEW s \in open' PROVE RoomsOf(s) # {} \/ Owes(t, s) => RoomsOf(s)' # {}
      BY <1>0, <1>1, <1>2, <2>6 DEF RoomsOf, Owes, TypeOK
    <3> QED BY <1>2, <2>5, <3>1, PlacedKept DEF IInv
  <2> QED BY <1>2, <2>4, <2>5, <2>8, <2>9, <2>10, CalmStep DEF IInv
<1> QED BY <1>3, <1>4

\* The two membership statements of joinRoom.
LEMMA PersistStep ==
    ASSUME IInv, NEW t \in Thread, Persist(t)
    PROVE  IInv'
<1>0. TypeOK /\ Shapes /\ Shape(op[t]) /\ op[t] \in Op /\ op[t].pc = "persist"
  BY DEF IInv, TypeOK, Shapes, Persist, At
<1>1. /\ op[t].s \in Sock /\ op[t].id \in Nat \ {0}
      /\ op[t].then \in {"idle", "rumor", "rumorIfAuth", "logout"}
      /\ op[t].orElse \in {"idle", "rumor", "logout", "fallback"}
  BY <1>0 DEF Shape, PC, RoomPC, JoinPC, Op
<1>2. /\ UNCHANGED <<known, members, dbRoom, open, used, auth, room, away, ops, nextId,
                     overlapped>>
      /\ faults' \in {faults, faults + 1}
      /\ membership' \subseteq membership \cup {<<op[t].s, op[t].id>>}
      /\ Goto(t, op[t].then) \/ Goto(t, "rollback")
  BY DEF Persist, Fault, session
<1>3. op' \in [Thread -> Op] /\ Shapes' /\ Others(t) /\ op'[t].pc \notin LeavePC \cup {"drop"}
  <2>1. CASE Goto(t, op[t].then)
    BY <1>0, <1>1, <2>1, GotoAfter DEF After, LeavePC
  <2>2. CASE Goto(t, "rollback")
    <3> DEFINE o == [op[t] EXCEPT !.pc = "rollback"]
    <3>1. /\ Becomes(t, o) /\ o \in Op /\ o.pc = "rollback" /\ o.s = op[t].s
          /\ o.then = op[t].then /\ o.orElse = op[t].orElse
      <4>1. "rollback" \in PC /\ Becomes(t, o)
        BY <2>2 DEF PC, Goto, Becomes
      <4> QED BY <1>0, <4>1, PcReplaced
    <3> HIDE DEF o
    <3>2. Shape(o)
      BY <1>1, <3>1 DEF Shape, JoinPC, LeavePC, BackPC, RoomPC
    <3> QED BY <1>0, <3>1, <3>2, OpsKept DEF TypeOK, Others, LeavePC
  <2> QED BY <1>2, <2>1, <2>2
<1>4. membership' \subseteq Sock \X (Nat \ {0})
  BY <1>0, <1>1, <1>2 DEF TypeOK
<1>5. TypeOK'
  BY <1>0, <1>2, <1>3, <1>4 DEF TypeOK
<1>6. \A s \in open : ~Owes(t, s)
  BY <1>0 DEF Owes, LeavePC, BackPC
<1> QED BY <1>2, <1>3, <1>5, <1>6, FreeStep DEF IInv

\* Rolling a join back puts the socket into a room of the directory.
LEMMA RollbackStep ==
    ASSUME IInv, NEW t \in Thread, Rollback(t)
    PROVE  IInv'
<1>0. TypeOK /\ Shapes /\ Shape(op[t]) /\ op[t] \in Op /\ op[t].pc = "rollback"
  BY DEF IInv, TypeOK, Shapes, Rollback, At
<1>1. /\ op[t].s \in Sock /\ op[t].prev \in [name : Room, id : Nat] /\ op[t].to \in Room
      /\ op[t].orElse \in {"idle", "rumor", "logout", "fallback"}
  BY <1>0 DEF Shape, PC, RoomPC, JoinPC, Op
<1> DEFINE back == IF known[op[t].prev.name] = 0 THEN LobbyRoom
                   ELSE [name |-> op[t].prev.name, id |-> known[op[t].prev.name]]
<1>2. /\ UNCHANGED <<known, dbRoom, membership, open, used, auth, away, ops, faults, nextId,
                     overlapped>>
      /\ members' = [r \in Room |->
                       IF r = back.name THEN members[r] \cup {op[t].s}
                       ELSE IF r = op[t].to THEN members[r] \ {op[t].s}
                       ELSE members[r]]
      /\ room' = [room EXCEPT ![op[t].s] = back]
      /\ Goto(t, op[t].orElse)
  BY DEF Rollback, db
<1>3. back \in [name : Room, id : Nat] /\ known[back.name] # 0
  BY <1>0, <1>1 DEF IInv, Seeded, TypeOK, LobbyRoom, Room
<1> HIDE DEF back
<1>4. op' \in [Thread -> Op] /\ Shapes' /\ Others(t) /\ op'[t].pc \notin LeavePC \cup {"drop"}
  BY <1>0, <1>1, <1>2, GotoAfter DEF After, LeavePC
<1>5. /\ members' \in [Room -> SUBSET Sock] /\ back.name \in Room
      /\ op[t].s \in members'[back.name]
      /\ \A s \in Sock, r \in Room : s \in members[r] /\ s # op[t].s => s \in members'[r]
  BY <1>0, <1>1, <1>2, <1>3 DEF TypeOK
<1>6. room' \in [Sock -> [name : Room, id : Nat]]
  BY <1>0, <1>1, <1>2, <1>3 DEF TypeOK
<1>7. TypeOK'
  BY <1>0, <1>2, <1>4, <1>5, <1>6 DEF TypeOK
<1>8. Listed'
  BY <1>0, <1>1, <1>2, <1>3 DEF IInv, Listed, TypeOK
<1>9. Placed'
  <2>1. ASSUME NEW s \in open' PROVE RoomsOf(s) # {} \/ Owes(t, s) => RoomsOf(s)' # {}
    BY <1>0, <1>2, <1>5 DEF RoomsOf, Owes, TypeOK, LeavePC, BackPC
  <2> QED BY <1>2, <1>4, <2>1, PlacedKept DEF IInv
<1> QED BY <1>2, <1>4, <1>7, <1>8, <1>9, CalmStep DEF IInv

\* Leaving all rooms: the socket of a session that stays open is owed Lobby.
LEMMA ExitStep ==
    ASSUME IInv, NEW t \in Thread, Exit(t)
    PROVE  IInv'
<1>0. TypeOK /\ Shapes /\ Shape(op[t]) /\ op[t] \in Op /\ op[t].pc = "exit"
  BY DEF IInv, TypeOK, Shapes, Exit, At
<1> DEFINE pc == IF op[t].persist THEN "wipe" ELSE op[t].then
           o == IF pc = "idle" THEN Nothing ELSE [op[t] EXCEPT !.pc = pc]
<1>1. /\ op[t].s \in Sock /\ op[t].prev.name \in Room
      /\ op[t].then \in BackPC \cup {"idle", "logout"} /\ op[t].orElse \in {"idle", "logout"}
      /\ op[t].s \in used /\ (op[t].s \in open => op[t].then \in BackPC)
  BY <1>0 DEF IInv, Closing, Shape, PC, RoomPC, LeavePC, Op
<1>2. /\ UNCHANGED <<known, dbRoom, membership, open, used, auth, away, ops, faults, nextId,
                     overlapped>>
      /\ members' = [members EXCEPT ![op[t].prev.name] = @ \ {op[t].s}]
      /\ room' = [room EXCEPT ![op[t].s] = LobbyRoom]
      /\ Goto(t, pc)
  BY DEF Exit, db
<1>3. pc = "wipe" \/ pc = op[t].then
  OBVIOUS
<1>4. pc \in PC
  BY <1>1, <1>3 DEF PC, BackPC
<1> HIDE DEF pc
<1>5. /\ Becomes(t, o) /\ o \in Op /\ o.pc = pc
      /\ pc # "idle" => /\ o.s = op[t].s /\ o.then = op[t].then /\ o.orElse = op[t].orElse
  BY <1>0, <1>2, <1>4, GotoBecomes DEF TypeOK
<1> HIDE DEF o
<1>6. Shape(o)
  BY <1>1, <1>3, <1>5 DEF Shape, JoinPC, LeavePC, BackPC, RoomPC
<1>7. op' \in [Thread -> Op] /\ Shapes' /\ Others(t) /\ op'[t] = o
  BY <1>0, <1>5, <1>6, OpsKept DEF TypeOK, Others
<1>8. /\ members' \in [Room -> SUBSET Sock]
      /\ \A r \in Room : members'[r] \subseteq members[r]
      /\ \A s \in Sock, r \in Room : s \in members[r] /\ s # op[t].s => s \in members'[r]
  BY <1>0, <1>1, <1>2 DEF TypeOK
<1>9. room' \in [Sock -> [name : Room, id : Nat]]
  BY <1>0, <1>1, <1>2 DEF TypeOK, LobbyRoom, Room
<1>10. TypeOK'
  BY <1>0, <1>2, <1>7, <1>8, <1>9 DEF TypeOK
<1>11. Listed' /\ Seeded'
  BY <1>2, <1>8 DEF IInv, Listed, Seeded
<1>12. IdsFresh' /\ Dropping' /\ DirectoryBacked'
  BY <1>1, <1>2, <1>3, <1>5, <1>7, DirectoryKept DEF IInv, BackPC
<1>13. Closing'
  BY <1>0, <1>1, <1>2, <1>3, <1>5, <1>7, ClosingKept DEF IInv, LeavePC, BackPC
<1>14. Placed'
  <2>1. ASSUME NEW s \in open', RoomsOf(s) # {} \/ Owes(t, s)
        PROVE  (RoomsOf(s) # {} \/ Owes(t, s))'
    <3>1. CASE s = op[t].s
      BY <1>1, <1>2, <1>3, <1>5, <1>7, <3>1 DEF Owes, LeavePC, BackPC
    <3>2. CASE s # op[t].s
      BY <1>0, <1>2, <1>8, <2>1, <3>2 DEF Owes, RoomsOf, TypeOK
    <3> QED BY <3>1, <3>2
  <2> QED BY <1>2, <1>7, <2>1, PlacedKept DEF IInv
<1> QED BY <1>7, <1>10, <1>11, <1>12, <1>13, <1>14 DEF IInv

\* clearAllMembership: the continuation that owes the socket a room is reached.
LEMMA WipeStep ==
    ASSUME IInv, NEW t \in Thread, Wipe(t)
    PROVE  IInv'
<1>0. TypeOK /\ Shapes /\ Shape(op[t]) /\ op[t] \in Op /\ op[t].pc = "wipe"
  BY DEF IInv, TypeOK, Shapes, Wipe, At
<1> DEFINE pc == op[t].then
           o == IF pc = "idle" THEN Nothing ELSE [op[t] EXCEPT !.pc = pc]
<1>1. /\ op[t].s \in Sock /\ op[t].orElse \in {"idle", "logout"}
      /\ pc \in BackPC \cup {"idle", "logout"} /\ (op[t].s \in open => pc \in BackPC)
  BY <1>0 DEF IInv, Closing, Shape, PC, RoomPC, LeavePC
<1>2. /\ UNCHANGED <<known, members, dbRoom, open, used, auth, room, away, ops, nextId,
                     overlapped>>
      /\ membership' \subseteq membership /\ faults' \in {faults, faults + 1}
      /\ Goto(t, pc)
  BY DEF Wipe, Fault, session
<1>3. pc \in PC
  BY <1>1 DEF PC, BackPC
<1> HIDE DEF pc
<1>4. /\ Becomes(t, o) /\ o \in Op /\ o.pc = pc
      /\ pc # "idle" => o.s = op[t].s /\ o.orElse = op[t].orElse
  BY <1>0, <1>2, <1>3, GotoBecomes DEF TypeOK
<1> HIDE DEF o
<1>5. Shape(o)
  BY <1>1, <1>4 DEF Shape, JoinPC, LeavePC, BackPC, RoomPC
<1>6. op' \in [Thread -> Op] /\ Shapes' /\ Others(t) /\ op'[t] = o
  BY <1>0, <1>4, <1>5, OpsKept DEF TypeOK, Others
<1>7. TypeOK' /\ Listed'
  BY <1>0, <1>2, <1>6 DEF IInv, TypeOK, Listed
<1>8. Placed'
  <2>1. \A s \in open : Owes(t, s) => Owes(t, s)'
    BY <1>0, <1>1, <1>4, <1>6 DEF Owes, LeavePC, BackPC
  <2> QED BY <1>2, <1>6, <2>1, PlacedKept, RoomsKept DEF IInv
<1>9. op'[t].pc \notin LeavePC \cup {"drop"}
  BY <1>1, <1>4, <1>6 DEF LeavePC, BackPC
<1> QED BY <1>2, <1>6, <1>7, <1>8, <1>9, CalmStep DEF IInv

\* The socket that left its room is about to enter Lobby.
LEMMA RejoinStep ==
    ASSUME IInv, NEW t \in Thread, Rejoin(t)
    PROVE  IInv'
<1>0. TypeOK /\ Shapes /\ Shape(op[t]) /\ op[t] \in Op /\ op[t].pc \in BackPC
  BY DEF IInv, TypeOK, Shapes, Rejoin, At, BackPC
<1> DEFINE o == Join(op[t].s, Lobby, op[t].orElse, op[t].orElse)
<1>1. op[t].s \in Sock /\ op[t].orElse \in {"idle", "logout"}
  BY <1>0 DEF Shape, PC, RoomPC, LeavePC, BackPC
<1>2. /\ UNCHANGED <<known, members, dbRoom, membership, open, used, room, away, ops, faults,
                     nextId, overlapped>>
      /\ Becomes(t, o)
  BY <1>0 DEF Rejoin, Becomes, db, TypeOK
<1>3. auth' \in [Sock -> BOOLEAN]
  BY <1>0, <1>1 DEF Rejoin, TypeOK
<1>4. o \in Op /\ Shape(o) /\ o.pc = "join" /\ o.s = op[t].s /\ o.to = Lobby
  BY <1>1, JoinShaped DEF Room
<1> HIDE DEF o
<1>5. op' \in [Thread -> Op] /\ Shapes' /\ Others(t) /\ op'[t] = o
  BY <1>0, <1>2, <1>4, OpsKept DEF TypeOK, Others
<1>6. TypeOK' /\ Listed'
  BY <1>0, <1>2, <1>3, <1>5 DEF IInv, TypeOK, Listed
<1>7. Placed'
  <2>1. \A s \in open : Owes(t, s) => Owes(t, s)'
    BY <1>4, <1>5 DEF Owes
  <2> QED BY <1>2, <1>5, <2>1, PlacedKept, RoomsKept DEF IInv
<1>8. op'[t].pc \notin LeavePC \cup {"drop"}
  BY <1>4, <1>5 DEF LeavePC
<1> QED BY <1>2, <1>5, <1>6, <1>7, <1>8, CalmStep DEF IInv

\* The remaining steps of operations that have a session: no debt, no room left.
LEMMA SessionStep ==
    ASSUME IInv, NEW t \in Thread, Fallback(t) \/ Rumor(t) \/ RumorLogout(t) \/ KickAgain(t)
    PROVE  IInv'
<1>0. /\ TypeOK /\ Shapes /\ Shape(op[t]) /\ op[t] \in Op
      /\ op[t].pc \in {"fallback", "rumor", "rumorIfAuth", "logout", "kick"}
  BY DEF IInv, TypeOK, Shapes, Fallback, Rumor, RumorLogout, KickAgain, At
<1>1. /\ op[t].s \in Sock /\ op[t].to \in Room /\ op[t].prev.name \in Room
      /\ known[op[t].to] \in Nat
  BY <1>0 DEF Shape, PC, RoomPC, Op, TypeOK
<1>2. UNCHANGED <<known, members, dbRoom, open, used, auth, room, away, ops, nextId, overlapped>>
  BY DEF Fallback, Rumor, RumorLogout, KickAgain, db, session
<1>3. faults' \in Nat
  BY <1>0 DEF Fallback, Rumor, RumorLogout, KickAgain, Fault, TypeOK
<1>4. membership' \subseteq Sock \X (Nat \ {0})
  <2>1. JoinedRows(op[t].s, op[t].prev.name, op[t].to)
            \subseteq membership \cup {<<op[t].s, x>> : x \in Nat \ {0}}
    BY <1>1 DEF JoinedRows
  <2>2. membership' \subseteq membership \cup {<<op[t].s, x>> : x \in Nat \ {0}}
    BY <2>1 DEF Fallback, Rumor, RumorLogout, KickAgain, db
  <2> QED BY <1>0, <1>1, <2>2 DEF TypeOK
<1>5. op' \in [Thread -> Op] /\ Shapes' /\ Others(t) /\ op'[t].pc \notin LeavePC \cup {"drop"}
  <2>1. CASE \E o \in Op : Becomes(t, o) /\ Shape(o) /\ o.pc \in {"idle", "join"}
    BY <1>0, <2>1, OpsKept DEF TypeOK, Others, LeavePC
  <2>2. CASE Fallback(t)
    <3> DEFINE o == Join(op[t].s, Lobby, "rumor", "rumor")
    <3>1. o \in Op /\ Shape(o) /\ o.pc = "join"
      BY <1>1, JoinShaped DEF Room
    <3>2. Becomes(t, o)
      BY <2>2 DEF Fallback, Becomes
    <3> HIDE DEF o
    <3> QED BY <2>1, <3>1, <3>2
  <2>3. CASE Rumor(t)
    BY <1>0, <1>1, <2>3, GotoAfter DEF Rumor, After, LeavePC
  <2>4. CASE RumorLogout(t)
    BY <2>1, <2>4, NothingShaped DEF RumorLogout, Finish, Becomes
  <2>5. CASE KickAgain(t)
    <3> DEFINE o == Join(op[t].s, Lobby, "idle", "idle")
    <3>1. o \in Op /\ Shape(o) /\ o.pc = "join"
      BY <1>1, JoinShaped DEF Room
    <3>2. Becomes(t, o) \/ Becomes(t, Nothing)
      BY <2>5 DEF KickAgain, Becomes
    <3> HIDE DEF o
    <3> QED BY <2>1, <3>1, <3>2, NothingShaped
  <2> QED BY <2>2, <2>3, <2>4, <2>5
<1>6. TypeOK'
  BY <1>0, <1>2, <1>3, <1>4, <1>5 DEF TypeOK
<1>7. \A s \in open : ~Owes(t, s)
  BY <1>0 DEF Owes, LeavePC, BackPC
<1> QED BY <1>2, <1>5, <1>6, <1>7, FreeStep DEF IInv

-----------------------------------------------------------------------------
(***************************************************************************)
(* deleteRoom.                                                             *)
(***************************************************************************)

\* A room that is erased from memory: its sockets are in Lobby, and the operation
\* that goes on to drop the row has the id of a room that is no longer listed.
LEMMA EraseStep ==
    ASSUME IInv, NEW t \in Thread, NEW r \in Extra, known[r] # 0,
           NEW then \in {"idle", "deleted"}, Erase(r), Becomes(t, Erasing(r, then)),
           op[t].pc \in {"idle", "deleted"},
           UNCHANGED <<db, session, faults, nextId>>,
           ops' \in Nat, overlapped' \in BOOLEAN
    PROVE  IInv'
<1> DEFINE o == Erasing(r, then)
<1>0. /\ TypeOK /\ Shapes /\ r \in Room /\ Lobby \in Room /\ r # Lobby /\ r # General
      /\ General \in Room
  BY RoomAssumption DEF IInv, Room
<1>1. o \in Op /\ Shape(o) /\ o.pc = "drop" /\ o.to = r /\ o.id = known[r]
  BY <1>0, ErasingShaped
<1>2. Becomes(t, o)
  OBVIOUS
<1> HIDE DEF o
<1>3. op' \in [Thread -> Op] /\ Shapes' /\ Others(t) /\ op'[t] = o
  BY <1>0, <1>1, <1>2, OpsKept DEF TypeOK, Others
<1>4. UNCHANGED <<dbRoom, membership, open, used, auth, room, away, faults, nextId>>
  BY DEF db, session
<1>5. /\ known' \in [Room -> Nat] /\ known'[r] = 0
      /\ \A x \in Room : x # r => known'[x] = known[x]
  BY <1>0 DEF Erase, TypeOK
<1>6. /\ members' \in [Room -> SUBSET Sock] /\ members'[r] = {}
      /\ members'[Lobby] = members[Lobby] \cup members[r]
      /\ \A x \in Room : x # r /\ x # Lobby => members'[x] = members[x]
  BY <1>0 DEF Erase, TypeOK
<1>7. TypeOK' /\ Seeded'
  BY <1>0, <1>3, <1>4, <1>5, <1>6 DEF IInv, TypeOK, Seeded
<1>8. IdsFresh' /\ DirectoryBacked'
  BY <1>4, <1>5 DEF IInv, IdsFresh, DirectoryBacked
<1>9. known[r] < nextId
  BY <1>0 DEF IInv, IdsFresh, DirectoryBacked
<1>10. Dropping'
  <2>1. ASSUME NEW u \in Thread, At(u, "drop")'
        PROVE  /\ op'[u].id # 0 /\ op'[u].id < nextId'
               /\ dbRoom'[op'[u].to] = op'[u].id => known'[op'[u].to] = 0
    <3>1. CASE u = t
      BY <1>1, <1>3, <1>4, <1>5, <1>9, <3>1
    <3>2. CASE u # t
      <4>1. op'[u] = op[u] /\ op[u].to \in Room /\ At(u, "drop")
        BY <1>0, <1>3, <2>1, <3>2 DEF Others, TypeOK, Op, At
      <4> QED BY <1>4, <1>5, <4>1 DEF IInv, Dropping
    <3> QED BY <3>1, <3>2
  <2> QED BY <2>1 DEF Dropping
<1>11. Listed'
  BY <1>0, <1>5, <1>6 DEF IInv, Listed, Seeded
<1>12. Closing'
  BY <1>1, <1>3, <1>4, ClosingKept DEF IInv, LeavePC
<1>13. Placed'
  <2>1. ASSUME NEW s \in open' PROVE RoomsOf(s) # {} \/ Owes(t, s) => RoomsOf(s)' # {}
    BY <1>0, <1>6 DEF RoomsOf, Owes, LeavePC, BackPC
  <2> QED BY <1>3, <1>4, <2>1, PlacedKept DEF IInv
<1> QED BY <1>3, <1>7, <1>8, <1>10, <1>11, <1>12, <1>13 DEF IInv

\* Dropping the rows: a row that goes has an id the directory no longer lists.
LEMMA DropStep ==
    ASSUME IInv, NEW t \in Thread, Drop(t)
    PROVE  IInv'
<1>0. TypeOK /\ Shapes /\ Shape(op[t]) /\ op[t] \in Op /\ op[t].pc = "drop"
  BY DEF IInv, TypeOK, Shapes, Drop, At
<1>1. /\ op[t].to \in Extra /\ op[t].to \in Room /\ op[t].moved \subseteq Sock
      /\ op[t].then \in {"idle", "deleted"} /\ op[t].id # 0
      /\ dbRoom[op[t].to] = op[t].id => known[op[t].to] = 0
  BY <1>0 DEF IInv, Dropping, At, Shape, RoomPC, Op
<1>2. /\ UNCHANGED <<known, members, open, used, auth, room, away, ops, nextId, overlapped>>
      /\ membership' \subseteq membership /\ faults' \in {faults, faults + 1}
  BY DEF Drop, Fault, session
<1>3. \/ dbRoom' = dbRoom
      \/ dbRoom[op[t].to] = op[t].id /\ dbRoom' = [dbRoom EXCEPT ![op[t].to] = 0]
  BY DEF Drop
<1>4. PICK o \in Op : /\ Becomes(t, o) /\ o.pc \in {"idle", "relocate", "deleted"}
                      /\ o = Nothing \/ (o.to = op[t].to /\ o.then = op[t].then)
  <2> DEFINE here == op[t].moved \cap open
  <2>1. here \in SUBSET Sock
    BY <1>1
  <2> DEFINE a == [op[t] EXCEPT !.pc = "relocate", !.moved = here]
             b == [op[t] EXCEPT !.pc = op[t].then, !.moved = {}]
  <2>2. Becomes(t, Nothing) \/ Becomes(t, a) \/ (Becomes(t, b) /\ op[t].then # "idle")
    BY <1>0 DEF Drop, Becomes, Finish, TypeOK
  <2>3. a \in Op /\ a.pc = "relocate" /\ a.to = op[t].to /\ a.then = op[t].then
    <3> HIDE DEF here
    <3> QED BY <1>0, <2>1 DEF Op, PC
  <2>4. b \in Op /\ b.pc = op[t].then /\ b.to = op[t].to /\ b.then = op[t].then
    BY <1>0, <1>1 DEF Op, PC
  <2> HIDE DEF a, b
  <2> QED BY <1>1, <2>2, <2>3, <2>4, NothingShaped
<1>5. Shape(o)
  <2>1. CASE o = Nothing
    BY <2>1, NothingShaped
  <2>2. CASE o # Nothing
    BY <1>1, <1>4, <2>2 DEF Shape, JoinPC, LeavePC, BackPC, RoomPC
  <2> QED BY <2>1, <2>2
<1>6. op' \in [Thread -> Op] /\ Shapes' /\ Others(t) /\ op'[t] = o
  BY <1>0, <1>4, <1>5, OpsKept DEF TypeOK, Others
<1>7. /\ dbRoom' \in [Room -> Nat]
      /\ \A r \in Room : dbRoom'[r] # dbRoom[r] => dbRoom'[r] = 0 /\ known[r] = 0
  BY <1>0, <1>1, <1>3 DEF TypeOK
<1>8. TypeOK' /\ Seeded' /\ Listed'
  BY <1>0, <1>2, <1>6, <1>7 DEF IInv, TypeOK, Seeded, Listed
<1>9. DirectoryBacked'
  BY <1>2, <1>7 DEF IInv, DirectoryBacked
<1>10. IdsFresh'
  <2>1. ASSUME NEW r \in Room PROVE dbRoom'[r] < nextId'
    BY <1>0, <1>2, <1>7 DEF IInv, IdsFresh, TypeOK
  <2> QED BY <2>1 DEF IdsFresh
<1>11. Dropping'
  <2>1. ASSUME NEW u \in Thread, At(u, "drop")'
        PROVE  /\ op'[u].id # 0 /\ op'[u].id < nextId'
               /\ dbRoom'[op'[u].to] = op'[u].id => known'[op'[u].to] = 0
    <3>1. op'[u] = op[u] /\ op[u].to \in Room /\ At(u, "drop")
      BY <1>0, <1>4, <1>6, <2>1 DEF Others, TypeOK, Op, At
    <3> QED BY <1>2, <1>7, <3>1 DEF IInv, Dropping
  <2> QED BY <2>1 DEF Dropping
<1>12. Closing'
  BY <1>2, <1>4, <1>6, ClosingKept DEF IInv, LeavePC
<1>13. Placed'
  <2>1. \A s \in open : ~Owes(t, s)
    BY <1>0 DEF Owes, LeavePC, BackPC
  <2> QED BY <1>2, <1>6, <2>1, PlacedKept, RoomsKept DEF IInv
<1> QED BY <1>6, <1>8, <1>9, <1>10, <1>11, <1>12, <1>13 DEF IInv

\* The sessions and rows of one socket follow to Lobby; the member sets already did.
LEMMA RelocateStep ==
    ASSUME IInv, NEW t \in Thread, NEW s \in Sock, Relocate(t, s)
    PROVE  IInv'
<1>0. TypeOK /\ Shapes /\ Shape(op[t]) /\ op[t] \in Op /\ op[t].pc = "relocate"
  BY DEF IInv, TypeOK, Shapes, Relocate, At
<1>1. op[t].to \in Extra /\ op[t].moved \subseteq Sock /\ op[t].then \in {"idle", "deleted"}
  BY <1>0 DEF Shape, RoomPC, Op
<1>2. /\ UNCHANGED <<known, members, dbRoom, open, used, auth, away, ops, nextId, overlapped>>
      /\ membership' \subseteq membership \cup {<<s, 1>>} /\ faults' \in {faults, faults + 1}
      /\ room' = [room EXCEPT ![s] = LobbyRoom]
  BY DEF Relocate, Fault
<1>3. PICK o \in Op : /\ Becomes(t, o) /\ o.pc \in {"idle", "relocate", "deleted"}
                      /\ o = Nothing \/ (o.to = op[t].to /\ o.then = op[t].then)
  <2> DEFINE left == op[t].moved \ {s}
  <2>1. left \in SUBSET Sock
    BY <1>1
  <2> DEFINE a == [op[t] EXCEPT !.moved = left]
             b == [op[t] EXCEPT !.pc = op[t].then, !.moved = {}]
  <2>2. Becomes(t, Nothing) \/ Becomes(t, a) \/ (Becomes(t, b) /\ op[t].then # "idle")
    BY <1>0 DEF Relocate, Becomes, TypeOK
  <2>3. a \in Op /\ a.pc = "relocate" /\ a.to = op[t].to /\ a.then = op[t].then
    <3> HIDE DEF left
    <3> QED BY <1>0, <2>1 DEF Op, PC
  <2>4. b \in Op /\ b.pc = op[t].then /\ b.to = op[t].to /\ b.then = op[t].then
    BY <1>0, <1>1 DEF Op, PC
  <2> HIDE DEF a, b
  <2> QED BY <1>1, <2>2, <2>3, <2>4, NothingShaped
<1>4. Shape(o)
  <2>1. CASE o = Nothing
    BY <2>1, NothingShaped
  <2>2. CASE o # Nothing
    BY <1>1, <1>3, <2>2 DEF Shape, JoinPC, LeavePC, BackPC, RoomPC
  <2> QED BY <2>1, <2>2
<1>5. op' \in [Thread -> Op] /\ Shapes' /\ Others(t) /\ op'[t] = o
  BY <1>0, <1>3, <1>4, OpsKept DEF TypeOK, Others
<1>6. room' \in [Sock -> [name : Room, id : Nat]] /\ membership' \subseteq Sock \X (Nat \ {0})
  BY <1>0, <1>2 DEF TypeOK, LobbyRoom, Room
<1>7. TypeOK'
  BY <1>0, <1>2, <1>5, <1>6 DEF TypeOK
<1>8. op'[t].pc \notin LeavePC \cup {"drop"} /\ \A x \in open : ~Owes(t, x)
  BY <1>0, <1>3, <1>5 DEF Owes, LeavePC, BackPC
<1> QED BY <1>2, <1>5, <1>7, <1>8, FreeStep DEF IInv

\* A room that comes into being has an id nobody waits to drop.
LEMMA CreateStep ==
    ASSUME IInv, NEW t \in Thread, NEW r \in Extra, CreateRoom(t, r)
    PROVE  IInv'
<1>0. /\ TypeOK /\ r \in Room /\ Lobby \in Room /\ r # Lobby /\ r # General
      /\ General \in Room
  BY RoomAssumption DEF IInv, Room
<1>1. /\ UNCHANGED <<members, membership, open, used, auth, room, away, op, overlapped>>
      /\ faults' \in {faults, faults + 1} /\ ops' = ops + 1 /\ nextId' = nextId + 1
      /\ known[r] = 0 /\ dbRoom[r] = 0
      /\ dbRoom' = [dbRoom EXCEPT ![r] = nextId]
      /\ known' = known \/ known' = [known EXCEPT ![r] = nextId]
  BY DEF CreateRoom, Fault, session
<1>2. /\ dbRoom' \in [Room -> Nat] /\ dbRoom'[r] = nextId
      /\ \A x \in Room : x # r => dbRoom'[x] = dbRoom[x]
      /\ known' \in [Room -> Nat] /\ known'[r] \in {0, nextId}
      /\ \A x \in Room : x # r => known'[x] = known[x]
      /\ nextId \in Nat
  BY <1>0, <1>1 DEF TypeOK
<1>3. TypeOK' /\ Shapes' /\ Seeded'
  BY <1>0, <1>1, <1>2 DEF IInv, TypeOK, Shapes, Seeded
<1>4. IdsFresh'
  <2>1. ASSUME NEW x \in Room PROVE dbRoom'[x] < nextId'
    BY <1>0, <1>1, <1>2 DEF IInv, IdsFresh, TypeOK
  <2> QED BY <2>1 DEF IdsFresh
<1>5. DirectoryBacked'
  BY <1>2 DEF IInv, DirectoryBacked
<1>6. Dropping'
  <2>1. ASSUME NEW u \in Thread, At(u, "drop")'
        PROVE  /\ op'[u].id # 0 /\ op'[u].id < nextId'
               /\ dbRoom'[op'[u].to] = op'[u].id => known'[op'[u].to] = 0
    <3>1. op'[u] = op[u] /\ op[u].to \in Room /\ At(u, "drop") /\ op[u].id \in Nat
      BY <1>0, <1>1, <2>1 DEF TypeOK, Op, At
    <3>2. op[u].id # 0 /\ op[u].id < nextId
          /\ (dbRoom[op[u].to] = op[u].id => known[op[u].to] = 0)
      BY <3>1 DEF IInv, Dropping
    <3> QED BY <1>1, <1>2, <3>1, <3>2
  <2> QED BY <2>1 DEF Dropping
<1>7. Listed' /\ Closing'
  BY <1>1, <1>2 DEF IInv, Listed, Closing
<1>8. Placed'
  BY <1>1, PlacedKept, RoomsKept DEF IInv, Others, Owes
<1> QED BY <1>3, <1>4, <1>5, <1>6, <1>7, <1>8 DEF IInv

\* The event that deletes the room once more.
LEMMA DeleteAgainStep ==
    ASSUME IInv, NEW t \in Thread, DeleteAgain(t)
    PROVE  IInv'
<1>0. TypeOK /\ Shapes /\ Shape(op[t]) /\ op[t].pc = "deleted" /\ op[t].to \in Extra
  BY DEF IInv, TypeOK, Shapes, DeleteAgain, At, Shape, RoomPC
<1>1. CASE known[op[t].to] = 0
  <2>1. /\ Becomes(t, Nothing)
        /\ UNCHANGED <<known, members, db, session, ops, faults, nextId, overlapped>>
    BY <1>1 DEF DeleteAgain, Finish, Becomes
  <2>2. op' \in [Thread -> Op] /\ Shapes' /\ Others(t) /\ op'[t] = Nothing
    BY <1>0, <2>1, NothingShaped, OpsKept DEF TypeOK, Others
  <2>3. TypeOK'
    BY <1>0, <2>1, <2>2 DEF TypeOK, db, session
  <2>4. op'[t].pc \notin LeavePC \cup {"drop"} /\ \A x \in open : ~Owes(t, x)
    BY <1>0, <2>2, NothingShaped DEF Owes, LeavePC, BackPC
  <2> QED BY <2>1, <2>2, <2>3, <2>4, FreeStep DEF IInv, db, session
<1>2. CASE known[op[t].to] # 0
  <2>1. /\ Erase(op[t].to) /\ Becomes(t, Erasing(op[t].to, "idle"))
        /\ UNCHANGED <<db, session, ops, faults, nextId, overlapped>>
    BY <1>2 DEF DeleteAgain, Becomes
  <2>2. ops' \in Nat /\ overlapped' \in BOOLEAN
    BY <1>0, <2>1 DEF TypeOK
  <2> QED BY <1>0, <1>2, <2>1, <2>2, EraseStep
<1> QED BY <1>1, <1>2

-----------------------------------------------------------------------------
(***************************************************************************)
(* Operations that begin.                                                  *)
(***************************************************************************)

\* Begin gives an idle thread its operation.
LEMMA BeginBecomes ==
    ASSUME IInv, NEW t \in Thread, NEW o \in Op, Shape(o), Begin(t, o)
    PROVE  /\ op' \in [Thread -> Op] /\ Shapes' /\ Others(t) /\ op'[t] = o
           /\ Becomes(t, o) /\ op[t].pc = "idle"
           /\ ops' \in Nat /\ overlapped' \in BOOLEAN
           /\ \A s : ~Owes(t, s)
<1>1. TypeOK /\ Shapes /\ op[t].pc = "idle" /\ Becomes(t, o) /\ ops' = ops + 1
  BY DEF IInv, Begin, At, Becomes
<1>2. overlapped' \in BOOLEAN
  BY DEF Begin
<1>3. op' \in [Thread -> Op] /\ Shapes' /\ Others(t) /\ op'[t] = o
  BY <1>1, OpsKept DEF TypeOK, Others
<1> QED BY <1>1, <1>2, <1>3 DEF TypeOK, Owes, LeavePC, BackPC

\* A join that begins, for a session that stays open, changes nothing else that
\* matters here.
LEMMA BeginJoinStep ==
    ASSUME IInv, NEW t \in Thread, NEW o \in Op, Shape(o), o.pc = "join", Begin(t, o),
           UNCHANGED <<known, members, db, open, used, room, faults, nextId>>,
           auth' \in [Sock -> BOOLEAN], away' \in [Sock -> {"no", "yes", "back"}]
    PROVE  IInv'
<1>1. /\ op' \in [Thread -> Op] /\ Shapes' /\ Others(t) /\ op'[t] = o
      /\ ops' \in Nat /\ overlapped' \in BOOLEAN /\ \A s : ~Owes(t, s)
  BY BeginBecomes
<1>2. TypeOK'
  BY <1>1 DEF IInv, TypeOK, db
<1> QED BY <1>1, <1>2, FreeStep DEF IInv, db, LeavePC

\* A leaveAll that begins, for a session that is closed or will be in Lobby again.
LEMMA BeginLeaveStep ==
    ASSUME IInv, NEW t \in Thread, NEW o \in Op, Shape(o), o.pc = "leave", Begin(t, o),
           o.s \in used, open' \subseteq open, o.s \in open' => o.then \in BackPC,
           UNCHANGED <<known, members, db, used, room, faults, nextId>>,
           auth' \in [Sock -> BOOLEAN], away' \in [Sock -> {"no", "yes", "back"}]
    PROVE  IInv'
<1>1. /\ op' \in [Thread -> Op] /\ Shapes' /\ Others(t) /\ op'[t] = o
      /\ ops' \in Nat /\ overlapped' \in BOOLEAN /\ \A s : ~Owes(t, s)
  BY BeginBecomes
<1>2. TypeOK' /\ Listed' /\ Seeded'
  BY <1>1 DEF IInv, TypeOK, db, Listed, Seeded
<1>3. IdsFresh' /\ Dropping' /\ DirectoryBacked'
  BY <1>1, DirectoryKept DEF IInv, db
<1>4. Closing'
  <2>1. ASSUME NEW u \in Thread, op'[u].pc \in LeavePC
        PROVE  op'[u].s \in used' /\ (op'[u].s \in open' => op'[u].then \in BackPC)
    <3>1. CASE u = t
      BY <1>1, <3>1
    <3>2. CASE u # t
      BY <1>1, <2>1, <3>2 DEF Others, IInv, Closing
    <3> QED BY <3>1, <3>2
  <2> QED BY <2>1 DEF Closing
<1>5. Placed'
  BY <1>1, PlacedKept, RoomsKept DEF IInv
<1> QED BY <1>1, <1>2, <1>3, <1>4, <1>5 DEF IInv

\* A new session is owed Lobby by its own handler thread.
LEMMA AcceptStep ==
    ASSUME IInv, NEW s \in Sock, Accept(s)
    PROVE  IInv'
<1> DEFINE o == Join(s, Lobby, "idle", "idle")
<1>0. TypeOK /\ s \in Thread
  BY DEF IInv, Thread
<1>1. o \in Op /\ Shape(o) /\ o.pc = "join" /\ o.s = s /\ o.to = Lobby
  BY JoinShaped DEF Room
<1>2. /\ s \notin used /\ Begin(s, o) /\ used' = used \cup {s} /\ open' = open \cup {s}
      /\ UNCHANGED <<known, members, dbRoom, membership, auth, room, away, faults, nextId>>
  BY DEF Accept, db
<1> HIDE DEF o
<1>3. /\ op' \in [Thread -> Op] /\ Shapes' /\ Others(s) /\ op'[s] = o /\ op[s].pc = "idle"
      /\ ops' \in Nat /\ overlapped' \in BOOLEAN /\ \A x : ~Owes(s, x)
  BY <1>0, <1>1, <1>2, BeginBecomes
<1>4. TypeOK' /\ Seeded' /\ Listed'
  BY <1>0, <1>2, <1>3 DEF IInv, TypeOK, Seeded, Listed
<1>5. IdsFresh' /\ Dropping' /\ DirectoryBacked'
  BY <1>0, <1>1, <1>2, <1>3, DirectoryKept DEF IInv
<1>6. Closing'
  <2>1. ASSUME NEW u \in Thread, op'[u].pc \in LeavePC
        PROVE  op'[u].s \in used' /\ (op'[u].s \in open' => op'[u].then \in BackPC)
    <3>1. u # s
      BY <1>1, <1>3, <2>1 DEF LeavePC
    <3>2. op'[u] = op[u] /\ op[u].s \in used /\ (op[u].s \in open => op[u].then \in BackPC)
      BY <1>3, <2>1, <3>1 DEF Others, IInv, Closing
    <3> QED BY <1>2, <3>2
  <2> QED BY <2>1 DEF Closing
<1>7. Placed'
  <2>1. ASSUME NEW x \in open' PROVE RoomsOf(x)' # {} \/ \E t \in Thread : Owes(t, x)'
    <3>1. CASE x = s
      BY <1>0, <1>1, <1>3, <3>1 DEF Owes
    <3>2. CASE x # s
      <4>1. RoomsOf(x) # {} \/ \E t \in Thread : Owes(t, x)
        BY <1>2, <3>2 DEF IInv, Placed
      <4>2. ASSUME NEW t \in Thread, Owes(t, x) PROVE Owes(t, x)'
        BY <1>3, <4>2 DEF Others, Owes
      <4> QED BY <1>2, <4>1, <4>2, RoomsKept
    <3> QED BY <3>1, <3>2
  <2> QED BY <2>1 DEF Placed
<1> QED BY <1>3, <1>4, <1>5, <1>6, <1>7 DEF IInv

-----------------------------------------------------------------------------
(***************************************************************************)
(* The invariant and the theorems.                                         *)
(***************************************************************************)

\* A node that has just started satisfies the invariant.
LEMMA InitiallyIInv == Init => IInv
<1> SUFFICES ASSUME Init PROVE IInv
  OBVIOUS
<1>1. /\ known = [r \in Room |-> IF r = Lobby THEN 1 ELSE IF r = General THEN 2 ELSE 0]
      /\ Lobby # General /\ Lobby \in Room /\ General \in Room
  BY RoomAssumption DEF Init, Room
<1>2. known \in [Room -> Nat] /\ dbRoom = known /\ known[Lobby] = 1 /\ known[General] = 2
      /\ \A r \in Room : known[r] < 3
  BY <1>1 DEF Init
<1>3. op \in [Thread -> Op] /\ \A t \in Thread : op[t] = Nothing
  BY NothingShaped DEF Init
<1>4. membership \subseteq Sock \X (Nat \ {0})
  BY DEF Init
<1>5. auth \in [Sock -> BOOLEAN] /\ overlapped \in BOOLEAN
  BY DEF Init
<1>6. TypeOK
  BY <1>1, <1>2, <1>3, <1>4, <1>5 DEF Init, TypeOK, LobbyRoom
<1>7. Shapes /\ Closing /\ Dropping
  BY <1>3, NothingShaped DEF Shapes, Closing, Dropping, At, LeavePC
<1>8. Seeded /\ IdsFresh /\ DirectoryBacked /\ Listed /\ Placed
  BY <1>1, <1>2 DEF Init, Seeded, IdsFresh, DirectoryBacked, Listed, Placed
<1> QED BY <1>6, <1>7, <1>8 DEF IInv

\* Every step keeps the invariant.
LEMMA InductiveStep == IInv /\ [Next]_vars => IInv'
<1> SUFFICES ASSUME IInv, [Next]_vars PROVE IInv'
  OBVIOUS
<1>0. TypeOK /\ \A s \in Sock : s \in Thread /\ Peer \in Thread /\ Lobby \in Room
  BY DEF IInv, Thread, Room
<1>1. ASSUME NEW t \in Thread, Step(t)
      PROVE  IInv'
  BY <1>1, ReadSessionStep, EnterStep, PersistStep, RollbackStep, SessionStep, ExitStep,
     WipeStep, RejoinStep, DropStep, RelocateStep, DeleteAgainStep DEF Step
<1>2. ASSUME NEW t \in Thread, NEW r \in Extra, CreateRoom(t, r)
      PROVE  IInv'
  BY <1>2, CreateStep
<1>3. ASSUME NEW t \in Thread, NEW r \in Extra, DeleteRoom(t, r)
      PROVE  IInv'
  <2> DEFINE then == IF t = Peer THEN "idle" ELSE "deleted"
             o == Erasing(r, then)
  <2>1. /\ known[r] # 0 /\ Erase(r) /\ Begin(t, o) /\ then \in {"idle", "deleted"}
        /\ UNCHANGED <<db, session, faults, nextId>>
    BY <1>3 DEF DeleteRoom
  <2> HIDE DEF then
  <2>2. o \in Op /\ Shape(o)
    BY <1>0, <2>1, ErasingShaped
  <2> HIDE DEF o
  <2>3. Becomes(t, o) /\ op[t].pc = "idle" /\ ops' \in Nat /\ overlapped' \in BOOLEAN
    BY <2>1, <2>2, BeginBecomes
  <2> QED BY <2>1, <2>3, EraseStep DEF o
<1>4. ASSUME NEW t \in Thread, NEW s \in Sock, Kick(t, s)
      PROVE  IInv'
  <2>1. PICK then \in {"idle", "rumor"} :
            Begin(t, [Join(s, Lobby, then, then) EXCEPT !.kicked = room[s].name])
    BY <1>4 DEF Kick
  <2> DEFINE j == Join(s, Lobby, then, then)
             o == [j EXCEPT !.kicked = room[s].name]
  <2>2. j \in Op /\ Shape(j) /\ j.pc = "join" /\ room[s].name \in Room
    BY <1>0, JoinShaped DEF TypeOK
  <2>3. /\ o \in Op /\ o.pc = "join" /\ o.s = j.s /\ o.then = j.then /\ o.orElse = j.orElse
        /\ o.to = j.to /\ o.id = j.id
    <3> HIDE DEF j
    <3> QED BY <2>2 DEF Op
  <2>4. Begin(t, o)
    BY <2>1
  <2> HIDE DEF j, o
  <2>5. Shape(o)
    BY <2>2, <2>3 DEF Shape, JoinPC, LeavePC, BackPC, RoomPC, PC
  <2>6. UNCHANGED <<known, members, db, open, used, room, faults, nextId, auth, away>>
    BY <1>4 DEF Kick, session
  <2>7. auth' \in [Sock -> BOOLEAN] /\ away' \in [Sock -> {"no", "yes", "back"}]
    BY <1>0, <2>6 DEF TypeOK
  <2> QED BY <2>3, <2>4, <2>5, <2>6, <2>7, BeginJoinStep
<1>5. ASSUME NEW s \in Sock, NEW r \in Room, Login(s) \/ Reconnect(s, r) \/ RoomJoin(s, r)
      PROVE  IInv'
  <2>1. PICK x \in Room, then \in {"rumor", "rumorIfAuth"}, orElse \in {"idle", "rumor", "fallback"} :
            Begin(s, Join(s, x, then, orElse))
    BY <1>0, <1>5 DEF Login, Reconnect, RoomJoin
  <2> DEFINE o == Join(s, x, then, orElse)
  <2>2. o \in Op /\ Shape(o) /\ o.pc = "join"
    BY JoinShaped
  <2>3. Begin(s, o)
    BY <2>1
  <2> HIDE DEF o
  <2>4. /\ UNCHANGED <<known, members, db, open, used, room, faults, nextId>>
        /\ auth' \in [Sock -> BOOLEAN] /\ away' \in [Sock -> {"no", "yes", "back"}]
    BY <1>0, <1>5 DEF Login, Reconnect, RoomJoin, session, TypeOK
  <2> QED BY <1>0, <2>2, <2>3, <2>4, BeginJoinStep
<1>6. ASSUME NEW s \in Sock, Logout(s) \/ RemoveSession(s) \/ Demote(s)
      PROVE  IInv'
  <2>1. PICK t \in Thread, then \in BackPC \cup {"idle", "logout"}, after \in {"idle", "logout"} :
            /\ Begin(t, Leave(s, then, after))
            /\ s \in open' => then \in BackPC
    BY <1>0, <1>6 DEF Logout, RemoveSession, Demote, BackPC
  <2> DEFINE o == Leave(s, then, after)
  <2>2. o \in Op /\ Shape(o) /\ o.pc = "leave" /\ o.s = s /\ o.then = then
    BY LeaveShaped
  <2>3. Begin(t, o)
    BY <2>1
  <2> HIDE DEF o
  <2>4. /\ UNCHANGED <<known, members, db, used, room, faults, nextId>>
        /\ open' \subseteq open /\ s \in used
    BY <1>0, <1>6 DEF Logout, RemoveSession, Demote, session, TypeOK
  <2>5. auth' \in [Sock -> BOOLEAN] /\ away' \in [Sock -> {"no", "yes", "back"}]
    BY <1>0, <1>6 DEF Logout, RemoveSession, Demote, session, TypeOK
  <2> QED BY <2>1, <2>2, <2>3, <2>4, <2>5, BeginLeaveStep
<1>7. ASSUME NEW s \in Sock, NEW from \in Room, NEW to \in Room,
             RemoteJoin(s, from, to) \/ RemoteLogout(s)
      PROVE  IInv'
  <2>1. UNCHANGED <<known, members, dbRoom, open, used, auth, room, op, ops, faults, nextId,
                    overlapped>>
    BY <1>7 DEF RemoteJoin, RemoteLogout, session
  <2>2. membership' \subseteq Sock \X (Nat \ {0})
    <3>1. known[to] \in Nat
      BY <1>0 DEF TypeOK
    <3>2. JoinedRows(s, from, to) \subseteq membership \cup {<<s, x>> : x \in Nat \ {0}}
      BY <3>1 DEF JoinedRows
    <3> QED BY <1>0, <1>7, <3>2 DEF RemoteJoin, RemoteLogout, TypeOK
  <2>3. away' \in [Sock -> {"no", "yes", "back"}]
    BY <1>0, <1>7 DEF RemoteJoin, RemoteLogout, session, TypeOK
  <2>4. TypeOK' /\ Shapes' /\ Seeded'
    BY <1>0, <2>1, <2>2, <2>3 DEF IInv, TypeOK, Shapes, Seeded
  <2>5. IdsFresh' /\ Dropping' /\ DirectoryBacked' /\ Listed' /\ Closing'
    BY <2>1 DEF IInv, IdsFresh, Dropping, At, DirectoryBacked, Listed, Closing
  <2>6. Placed'
    BY <2>1 DEF IInv, Placed, RoomsOf, Owes
  <2> QED BY <2>4, <2>5, <2>6 DEF IInv
<1>8. CASE UNCHANGED vars
  <2>1. UNCHANGED <<known, members, dbRoom, membership, open, used, auth, room, away, op, ops,
                    faults, nextId, overlapped>>
    BY <1>8 DEF vars, db, session
  <2> QED BY <2>1 DEF IInv, TypeOK, Shapes, Seeded, IdsFresh, Dropping, At, DirectoryBacked,
             Listed, Closing, Placed, RoomsOf, Owes
<1> QED BY <1>0, <1>1, <1>2, <1>3, <1>4, <1>5, <1>6, <1>7, <1>8, AcceptStep
        DEF Next, Manage, Request

\* The inductive invariant holds of every behaviour of the node.
THEOREM RoomsInvariant == Spec => []IInv
BY InitiallyIInv, InductiveStep, PTL DEF Spec

\* TypeOK holds of every behaviour, for any sockets and rooms: no operation leaves
\* a membership row without a room id, or is in a stage its caller did not ask for.
THEOREM RoomsTyped == Spec => []TypeOK
<1>1. IInv => TypeOK
  BY DEF IInv
<1> QED BY <1>1, RoomsInvariant, PTL

\* DirectoryBacked holds of every behaviour: deleteRoom's unguarded DELETE never
\* hits a room that createRoom has listed again under the same name.
THEOREM RoomsBacked == Spec => []DirectoryBacked
<1>1. IInv => DirectoryBacked
  BY DEF IInv
<1> QED BY <1>1, RoomsInvariant, PTL

\* Reachable holds of every behaviour: however joins, leaves, kicks and deletions
\* of any number of threads interleave, no connected client that nobody is working
\* on is left without a room, and no member set outlives its room.
THEOREM ClientsReachable == Spec => []Reachable
<1>1. IInv => Reachable
  <2> SUFFICES ASSUME IInv PROVE Reachable
    OBVIOUS
  <2>1. ASSUME NEW s \in open, Untouched(s) PROVE RoomsOf(s) # {}
    <3>1. \A t \in Thread : ~Owes(t, s)
      BY <2>1 DEF Untouched, At, Owes, LeavePC, BackPC
    <3> QED BY <3>1 DEF IInv, Placed
  <2> QED BY <2>1 DEF IInv, Listed, Reachable
<1> QED BY <1>1, RoomsInvariant, PTL
-----------------------------------------------------------------------------
(***************************************************************************)
(* One operation after the other.                                          *)
(***************************************************************************)

\* The ids of the rooms table are those of one room each.
DistinctIds == \A r, q \in Room : dbRoom[r] = dbRoom[q] /\ dbRoom[r] # 0 => r = q

\* A socket that was never accepted has the session openSession gives it.
Unused == \A s \in Sock \ used : room[s] = LobbyRoom /\ ~auth[s]

\* A user whose session is elsewhere has none here.
Elsewhere == \A s \in Sock : away[s] = "yes" => ~auth[s]

CInv == DistinctIds /\ Elsewhere

\* No two operations have overlapped and no statement has failed.
InSequence == ~overlapped /\ faults = 0

Alone == \A t, u \in Thread : ~At(t, "idle") /\ ~At(u, "idle") => t = u

\* s is in no room but r, in r alone, or in none.
InAtMost(s, r) == \A q \in Room : s \in members[q] => q = r
InOnly(s, r) == \A q \in Room : s \in members[q] <=> q = r
InNone(s) == \A q \in Room : s \notin members[q]

\* The user of s has a row for that room at most; there is none for 0.
RowsAmong(s, id) == \A j \in Nat : <<s, j>> \in membership => j = id

\* The same for a user whose session is not another node's.
OwnRows(s, id) == away[s] = "no" => RowsAmong(s, id)

\* The session of s names the room of the directory it is in, if it is in one.
Located(s) ==
    /\ InAtMost(s, room[s].name)
    /\ known[room[s].name] # 0 /\ room[s].id = known[room[s].name]

\* Out of every room, without a row.
Nowhere(s) == InNone(s) /\ room[s] = LobbyRoom /\ OwnRows(s, 0)

\* What holds of the one session t is working on, for each pc.
AtWork(t) ==
    LET o == op[t]
        s == o.s
    IN /\ o.pc \in {"join", "enter", "leave", "exit"} =>
             /\ Located(s)
             /\ OwnRows(s, IF auth[s] THEN room[s].id ELSE 0)
       /\ o.pc \in {"join", "enter"} =>
             /\ s \in open /\ known[o.to] # 0
             /\ o.then = "rumor" => auth[s]
             /\ o.then = "logout" => ~auth[s]
             /\ o.kicked # Lobby => o.to = Lobby
       /\ o.pc \in {"enter", "exit"} => o.prev = room[s] /\ o.persist = auth[s]
       /\ o.pc \in {"leave", "exit"} =>
             /\ o.then \in BackPC <=> s \in open
             /\ o.then = "rejoin" => ~auth[s]
       /\ o.pc = "persist" =>
             /\ s \in open /\ auth[s] /\ InOnly(s, o.to)
             /\ room[s] = [name |-> o.to, id |-> o.id] /\ o.id = known[o.to]
             /\ OwnRows(s, o.prev.id)
             /\ o.then # "logout"
             /\ o.kicked # Lobby => o.to = Lobby
       /\ o.pc \in {"rumor", "rumorIfAuth", "kick", "logout"} => Aligned(s)
       /\ o.pc \in {"rumor", "rumorIfAuth"} =>
             /\ s \in open /\ room[s].name = o.to
             /\ o.pc = "rumor" => auth[s]
             /\ o.kicked # Lobby => o.to = Lobby
       /\ o.pc = "kick" => room[s].name = Lobby /\ o.kicked # Lobby
       /\ o.pc = "logout" => s \notin open \/ ~auth[s]
       /\ o.pc = "wipe" => /\ InNone(s) /\ room[s] = LobbyRoom /\ o.then # "rejoin"
                           /\ o.then \in BackPC <=> s \in open
       /\ o.pc \in BackPC => s \in open /\ Nowhere(s)
       /\ o.pc = "rejoin" => ~auth[s]
       /\ o.pc \notin {"rollback", "fallback"}

\* What holds of the sessions deleteRoom is moving.
Moving(t) ==
    LET o == op[t]
    IN /\ o.pc \in RoomPC => o.s = Peer
       /\ o.pc \notin {"drop", "relocate"} => o.moved = {}
       /\ o.pc = "drop" => dbRoom[o.to] = o.id /\ o.id # 0 /\ known[o.to] = 0
       /\ o.pc \in {"drop", "relocate"} => \A s \in o.moved :
             /\ s \in open /\ InOnly(s, Lobby)
             /\ o.pc = "drop" => room[s].name = o.to
             /\ OwnRows(s, IF o.pc = "drop" THEN o.id ELSE 0)

SInv ==
    InSequence =>
        /\ Alone /\ Unused
        /\ \A t \in Thread : AtWork(t) /\ Moving(t)
        /\ \A s \in Sock : Untouched(s) => Aligned(s)

-----------------------------------------------------------------------------
(***************************************************************************)
(* What a session that is not worked on keeps.                             *)
(***************************************************************************)

\* A step leaves the records of s alone, its rows when the session is no other node's.
SameSession(s) ==
    /\ \A r \in Room : s \in members'[r] <=> s \in members[r]
    /\ room'[s] = room[s] /\ auth'[s] = auth[s] /\ away'[s] = away[s]
    /\ s \in open' <=> s \in open
    /\ away[s] = "no" => \A id \in Nat : <<s, id>> \in membership' <=> <<s, id>> \in membership

\* Rooms of the directory stay there under their id.
DirectoryStays == \A r \in Room : known[r] # 0 => known'[r] = known[r]

\* The rows of s, when membership is M, in terms of ids.
LEMMA RowsOfTable ==
    ASSUME NEW M \in SUBSET (Sock \X (Nat \ {0})), NEW s \in Sock
    PROVE  LET R == {x \in M : x[1] = s}
           IN /\ R = {} <=> \A j \in Nat : <<s, j>> \in M => j = 0
              /\ \A id \in Nat : R = {<<s, id>>} <=>
                    <<s, id>> \in M /\ \A j \in Nat : <<s, j>> \in M => j = id
<1> DEFINE R == {x \in M : x[1] = s}
<1>1. ASSUME NEW x \in R PROVE \E id \in Nat \ {0} : x = <<s, id>> /\ <<s, id>> \in M
  <2>1. x \in M /\ x[1] = s
    OBVIOUS
  <2>2. x \in Sock \X (Nat \ {0})
    BY <2>1
  <2>3. x = <<x[1], x[2]>> /\ x[2] \in Nat \ {0}
    BY <2>2
  <2> QED BY <2>1, <2>3
<1>2. \A id \in Nat : <<s, id>> \in M => <<s, id>> \in R /\ id # 0
  OBVIOUS
<1>3. \A i, j \in Nat : <<s, i>> = <<s, j>> => i = j
  OBVIOUS
<1>4. \A id \in Nat : <<s, id>> \in R => <<s, id>> \in M
  OBVIOUS
<1> HIDE DEF R
<1>5. R = {} <=> \A j \in Nat : <<s, j>> \in M => j = 0
  BY <1>1, <1>2
<1>6. ASSUME NEW id \in Nat
      PROVE  R = {<<s, id>>} <=> <<s, id>> \in M /\ \A j \in Nat : <<s, j>> \in M => j = id
  <2>1. ASSUME R = {<<s, id>>} PROVE <<s, id>> \in M /\ \A j \in Nat : <<s, j>> \in M => j = id
    BY <1>2, <1>3, <1>4, <2>1
  <2>2. ASSUME <<s, id>> \in M, \A j \in Nat : <<s, j>> \in M => j = id PROVE R = {<<s, id>>}
    <3>1. <<s, id>> \in R
      BY <1>2, <2>2
    <3>2. ASSUME NEW x \in R PROVE x = <<s, id>>
      <4>1. PICK j \in Nat : x = <<s, j>> /\ <<s, j>> \in M
        BY <1>1
      <4>2. j = id
        BY <2>2, <4>1
      <4> QED BY <4>1, <4>2
    <3> QED BY <3>1, <3>2
  <2> QED BY <2>1, <2>2
<1> QED BY <1>5, <1>6 DEF R

\* Aligned in terms of ids.
AlignedRecords(s) ==
    /\ IF s \in open THEN InOnly(s, room[s].name) /\ room[s].id = known[room[s].name]
       ELSE InNone(s)
    /\ away[s] = "no" =>
          IF s \in open /\ auth[s] THEN <<s, room[s].id>> \in membership /\ RowsAmong(s, room[s].id)
          ELSE RowsAmong(s, 0)

\* Aligned says of a session what AlignedRecords says, before a step and after it.
LEMMA AlignedMeans ==
    ASSUME TypeOK, TypeOK', NEW s \in Sock
    PROVE  (Aligned(s) <=> AlignedRecords(s)) /\ (Aligned(s)' <=> AlignedRecords(s)')
<1>1. /\ room[s].name \in Room /\ room[s].id \in Nat
      /\ room'[s].name \in Room /\ room'[s].id \in Nat
  BY DEF TypeOK
<1>2. /\ RoomsOf(s) = {} <=> InNone(s)
      /\ \A r \in Room : RoomsOf(s) = {r} <=> InOnly(s, r)
      /\ RoomsOf(s)' = {} <=> InNone(s)'
      /\ \A r \in Room : RoomsOf(s)' = {r} <=> \A q \in Room : s \in members'[q] <=> q = r
  BY DEF RoomsOf, InNone, InOnly
<1>3. /\ Rows(s) = {} <=> RowsAmong(s, 0)
      /\ \A id \in Nat : Rows(s) = {<<s, id>>} <=> <<s, id>> \in membership /\ RowsAmong(s, id)
  <2>1. membership \in SUBSET (Sock \X (Nat \ {0}))
    BY DEF TypeOK
  <2> QED BY <2>1, RowsOfTable DEF Rows, RowsAmong
<1>4. /\ Rows(s)' = {} <=> RowsAmong(s, 0)'
      /\ \A id \in Nat : Rows(s)' = {<<s, id>>} <=>
            <<s, id>> \in membership' /\ \A j \in Nat : <<s, j>> \in membership' => j = id
  <2>1. membership' \in SUBSET (Sock \X (Nat \ {0}))
    BY DEF TypeOK
  <2> QED BY <2>1, RowsOfTable DEF Rows, RowsAmong
<1>5. Aligned(s) <=> AlignedRecords(s)
  BY <1>1, <1>2, <1>3 DEF Aligned, AlignedRecords
<1>6. Aligned(s)' <=> AlignedRecords(s)'
  BY <1>1, <1>2, <1>4 DEF Aligned, AlignedRecords, InOnly, RowsAmong
<1> QED BY <1>5, <1>6

\* An aligned session that is left alone stays aligned, with the room it names.
LEMMA AlignedStill ==
    ASSUME TypeOK, TypeOK', NEW s \in Sock, SameSession(s), Aligned(s),
           s \in open => known'[room[s].name] = known[room[s].name]
    PROVE  Aligned(s)'
<1>1. AlignedRecords(s) /\ room[s].name \in Room /\ room[s].id \in Nat
  BY AlignedMeans DEF TypeOK
<1>2. AlignedRecords(s)'
  BY <1>1 DEF AlignedRecords, SameSession, InOnly, InNone, RowsAmong
<1> QED BY <1>2, AlignedMeans

\* The same where no room leaves the directory.
LEMMA AlignedKept ==
    ASSUME IInv, TypeOK', DirectoryStays, NEW s \in Sock, SameSession(s), Aligned(s)
    PROVE  Aligned(s)'
<1>1. TypeOK /\ AlignedRecords(s) /\ room[s].name \in Room
  BY AlignedMeans DEF IInv, TypeOK
<1>2. s \in open => known'[room[s].name] = known[room[s].name]
  BY <1>1 DEF AlignedRecords, InOnly, IInv, Listed, DirectoryStays
<1> QED BY <1>1, <1>2, AlignedStill

\* When operations do not overlap, t is the only thread at work.
LEMMA OnlyOne ==
    ASSUME SInv, InSequence, NEW t \in Thread, ~At(t, "idle")
    PROVE  /\ AtWork(t) /\ Moving(t) /\ Unused
           /\ \A u \in Thread : u # t => At(u, "idle")
           /\ \A s \in Sock : s # op[t].s /\ s \notin op[t].moved => Aligned(s)
BY DEF SInv, Alone, Untouched, At

\* t goes on to o; what t still works on is as AtWork and Moving say, the rest is
\* aligned.
LEMMA GoesOn ==
    ASSUME op \in [Thread -> Op], SInv, InSequence, NEW t \in Thread, NEW o \in Op, Becomes(t, o),
           \A u \in Thread : u # t => At(u, "idle"),
           used \subseteq used', \A s \in Sock \ used' : room'[s] = room[s] /\ auth'[s] = auth[s],
           AtWork(t)', Moving(t)',
           \A s \in Sock : (o.pc = "idle" \/ (s # o.s /\ s \notin o.moved)) => Aligned(s)'
    PROVE  SInv'
<1>1. op'[t] = o /\ \A u \in Thread : u # t => op'[u] = op[u] /\ op'[u].pc = "idle"
  BY DEF Becomes, At
<1>2. Alone'
  BY <1>1 DEF Alone, At
<1>3. Unused'
  BY DEF SInv, Unused
<1>4. ASSUME NEW u \in Thread PROVE AtWork(u)' /\ Moving(u)'
  <2>1. CASE u = t
    BY <2>1
  <2>2. CASE u # t
    <3>1. op'[u].pc = "idle" /\ op'[u].moved = {}
      BY <1>1, <2>2 DEF SInv, Moving
    <3> QED BY <3>1 DEF AtWork, Moving, BackPC, RoomPC
  <2> QED BY <2>1, <2>2
<1>5. ASSUME NEW s \in Sock, Untouched(s)' PROVE Aligned(s)'
  BY <1>1, <1>5 DEF Untouched, At
<1> QED BY <1>2, <1>3, <1>4, <1>5 DEF SInv

-----------------------------------------------------------------------------
(***************************************************************************)
(* The steps of an operation.                                              *)
(***************************************************************************)

\* t works on s: when every other session is left alone, only s is to be looked at.
LEMMA OneSession ==
    ASSUME IInv, TypeOK', SInv, InSequence, NEW t \in Thread, ~At(t, "idle"),
           NEW s \in Sock, op[t].s = s, op[t].pc \notin {"drop", "relocate"}, DirectoryStays,
           used \subseteq used', s \in used' \/ (room'[s] = room[s] /\ auth'[s] = auth[s]),
           \A x \in Sock : x # s => SameSession(x),
           \A u \in Thread \ {t} : op'[u] = op[u],
           AtWork(t)', Moving(t)', op'[t].moved = {},
           (op'[t].pc # "idle" /\ op'[t].s = s) \/ Aligned(s)'
    PROVE  SInv'
<1>1. /\ AtWork(t) /\ Moving(t) /\ Unused
      /\ \A u \in Thread : u # t => At(u, "idle")
      /\ \A x \in Sock : x # s /\ x \notin op[t].moved => Aligned(x)
  BY OnlyOne
<1>2. op[t].moved = {}
  BY <1>1 DEF Moving
<1>3. \A x \in Sock : x # s => Aligned(x)'
  BY <1>1, <1>2, AlignedKept
<1>4. op \in [Thread -> Op] /\ op' \in [Thread -> Op]
  BY DEF IInv, TypeOK
<1>5. PICK o \in Op : o = op'[t] /\ Becomes(t, o)
  BY <1>4 DEF Becomes
<1>6. \A x \in Sock \ used' : room'[x] = room[x] /\ auth'[x] = auth[x]
  BY DEF SameSession
<1>7. \A x \in Sock : (o.pc = "idle" \/ (x # o.s /\ x \notin o.moved)) => Aligned(x)'
  BY <1>3, <1>5
<1> QED BY <1>1, <1>4, <1>5, <1>6, <1>7, GoesOn

\* The session is read: AtWork of "join" and "leave" becomes that of "enter", "exit".
LEMMA ReadSessionSequenced ==
    ASSUME IInv, IInv', SInv, InSequence, NEW t \in Thread, ReadSession(t)
    PROVE  SInv'
<1>0. TypeOK /\ TypeOK' /\ Shape(op[t]) /\ op[t] \in Op /\ op[t].pc \in {"join", "leave"}
  BY DEF IInv, TypeOK, Shapes, ReadSession, At
<1>1. PICK s \in Sock : op[t].s = s /\ room[op[t].s] \in [name : Room, id : Nat] /\ auth[op[t].s] \in BOOLEAN
  BY <1>0 DEF Shape, PC, RoomPC, TypeOK
<1>2. /\ op'[t].pc = IF op[t].pc = "join" THEN "enter" ELSE "exit"
      /\ op'[t].s = op[t].s /\ op'[t].to = op[t].to /\ op'[t].then = op[t].then
      /\ op'[t].kicked = op[t].kicked /\ op'[t].moved = op[t].moved
      /\ op'[t].prev = room[op[t].s] /\ op'[t].persist = auth[op[t].s]
      /\ \A u \in Thread \ {t} : op'[u] = op[u]
  BY <1>0, <1>1 DEF ReadSession, TypeOK, Op
<1>3. UNCHANGED <<known, members, membership, open, used, auth, room, away>>
  BY DEF ReadSession, db, session
<1>4. AtWork(t) /\ Moving(t)
  BY <1>0, OnlyOne DEF At
<1>5. AtWork(t)'
  BY <1>0, <1>2, <1>3, <1>4 DEF AtWork, Located, InAtMost, OwnRows, RowsAmong, BackPC
<1>6. Moving(t)' /\ op'[t].moved = {} /\ op'[t].pc # "idle"
  BY <1>0, <1>2, <1>4 DEF Moving, RoomPC
<1>7. op[t].s \in used
  BY <1>0, <1>4, <1>1 DEF AtWork, IInv, Closing, LeavePC, TypeOK
<1>8. \A x \in Sock : SameSession(x)
  BY <1>3 DEF SameSession
<1> QED BY <1>0, <1>1, <1>2, <1>3, <1>5, <1>6, <1>7, <1>8, OneSession DEF At, DirectoryStays

\* A joinRoom in sequence finds its room.
LEMMA EnterSequenced ==
    ASSUME IInv, IInv', SInv, InSequence, NEW t \in Thread, Enter(t)
    PROVE  SInv'
<1>0. TypeOK /\ TypeOK' /\ Shape(op[t]) /\ op[t] \in Op /\ op[t].pc = "enter"
  BY DEF IInv, TypeOK, Shapes, Enter, At
<1>1. PICK s \in Sock, to \in Room, prev \in [name : Room, id : Nat], id \in Nat :
         s = op[t].s /\ to = op[t].to /\ prev = op[t].prev /\ id = known[to]
  BY <1>0 DEF Shape, PC, RoomPC, Op, TypeOK
<1>2. op[t].then \in {"idle", "rumor", "rumorIfAuth", "logout"} /\ op[t].persist \in BOOLEAN
  BY <1>0 DEF Shape, JoinPC, Op
<1>3. AtWork(t) /\ Moving(t)
  BY <1>0, OnlyOne DEF At
<1>4. /\ Located(s) /\ OwnRows(s, IF auth[s] THEN room[s].id ELSE 0) /\ s \in open /\ id # 0
      /\ op[t].then = "rumor" => auth[s]
      /\ op[t].then = "logout" => ~auth[s]
      /\ op[t].kicked # Lobby => to = Lobby
      /\ prev = room[s] /\ op[t].persist = auth[s]
      /\ op[t].moved = {}
  BY <1>0, <1>1, <1>3 DEF AtWork, Moving
<1>5. UNCHANGED <<known, dbRoom, membership, open, used, auth, away>>
  BY DEF Enter, db
<1>6. /\ members' = [r \in Room |->
                       IF r = to THEN members[r] \cup {s}
                       ELSE IF r = prev.name THEN members[r] \ {s}
                       ELSE members[r]]
      /\ room' = [room EXCEPT ![s] = [name |-> to, id |-> id]]
      /\ op' = [op EXCEPT ![t] = IF ~op[t].persist /\ op[t].then = "idle" THEN Nothing
                                 ELSE [op[t] EXCEPT !.id = id,
                                         !.pc = IF op[t].persist THEN "persist" ELSE op[t].then]]
  BY <1>1, <1>4 DEF Enter
<1>7. room'[s] = [name |-> to, id |-> id] /\ \A x \in Sock : x # s => room'[x] = room[x]
  BY <1>0, <1>1, <1>6 DEF TypeOK
<1>8. \A x \in Sock, r \in Room : x # s => (x \in members'[r] <=> x \in members[r])
  BY <1>0, <1>6 DEF TypeOK
<1>9. InOnly(s, to)'
  <2>1. \A r \in Room : s \in members[r] => r = prev.name
    BY <1>4 DEF Located, InAtMost
  <2> QED BY <1>6, <2>1 DEF InOnly
<1>10. /\ \A x \in Sock : x # s => SameSession(x)
       /\ \A u \in Thread \ {t} : op'[u] = op[u]
       /\ s \in used /\ DirectoryStays
  BY <1>0, <1>1, <1>4, <1>5, <1>6, <1>7, <1>8 DEF SameSession, TypeOK, DirectoryStays
<1>11. ASSUME ~auth[s] PROVE Aligned(s)'
  <2>1. OwnRows(s, 0)
    BY <1>4, <1>11
  <2>2. AlignedRecords(s)'
    BY <1>1, <1>4, <1>5, <1>7, <1>9, <1>11, <2>1 DEF AlignedRecords, OwnRows, RowsAmong
  <2> QED BY <1>0, <2>2, AlignedMeans
<1>12. CASE ~op[t].persist /\ op[t].then = "idle"
  <2>1. op'[t] = Nothing
    BY <1>0, <1>6, <1>12 DEF TypeOK
  <2>2. op'[t].pc = "idle" /\ op'[t].moved = {}
    BY <2>1 DEF Nothing
  <2>3. AtWork(t)' /\ Moving(t)'
    BY <2>2 DEF AtWork, Moving, BackPC, RoomPC
  <2> QED BY <1>0, <1>1, <1>4, <1>5, <1>10, <1>11, <1>12, <2>2, <2>3, OneSession DEF At
<1>13. CASE ~(~op[t].persist /\ op[t].then = "idle")
  <2>1. op'[t] = [op[t] EXCEPT !.id = id,
                               !.pc = IF op[t].persist THEN "persist" ELSE op[t].then]
    BY <1>0, <1>6, <1>13 DEF TypeOK
  <2>2. /\ op'[t].pc = IF op[t].persist THEN "persist" ELSE op[t].then
        /\ op'[t].s = s /\ op'[t].to = to /\ op'[t].id = id /\ op'[t].prev = prev
        /\ op'[t].then = op[t].then /\ op'[t].kicked = op[t].kicked /\ op'[t].moved = {}
    BY <1>0, <1>1, <1>4, <2>1 DEF Op
  <2>3. op'[t].pc \in {"persist", "rumor", "rumorIfAuth", "logout"}
    BY <1>2, <1>13, <2>2
  <2>4. Moving(t)'
    BY <2>2, <2>3 DEF Moving, RoomPC
  <2>5. AtWork(t)'
    <3>1. CASE op[t].persist
      <4>1. OwnRows(s, prev.id)'
        BY <1>4, <1>5, <3>1 DEF OwnRows, RowsAmong
      <4>2. op[t].then # "logout" /\ op'[t].pc = "persist"
        BY <1>4, <2>2, <3>1
      <4> QED BY <1>1, <1>4, <1>5, <1>7, <1>9, <2>2, <3>1, <4>1, <4>2
              DEF AtWork, BackPC, InOnly, OwnRows, RowsAmong
    <3>2. CASE ~op[t].persist
      <4>1. Aligned(s)' /\ room'[s].name = to
        BY <1>4, <1>7, <1>11, <3>2
      <4>2. op'[t].pc \in {"rumorIfAuth", "logout"}
        BY <1>2, <1>4, <1>13, <2>2, <3>2
      <4> QED BY <1>4, <1>5, <2>2, <3>2, <4>1, <4>2 DEF AtWork, BackPC
    <3> QED BY <1>2, <3>1, <3>2
  <2> QED BY <1>0, <1>1, <1>4, <1>5, <1>10, <2>2, <2>3, <2>4, <2>5, OneSession DEF At
<1> QED BY <1>12, <1>13

\* Where Goto leads, field by field.
LEMMA WentTo ==
    ASSUME op \in [Thread -> Op], NEW t \in Thread, NEW pc \in PC, Goto(t, pc)
    PROVE  /\ \A u \in Thread \ {t} : op'[u] = op[u]
           /\ pc = "idle" => op'[t] = Nothing
           /\ pc # "idle" =>
                /\ op'[t].pc = pc /\ op'[t].s = op[t].s /\ op'[t].to = op[t].to
                /\ op'[t].id = op[t].id /\ op'[t].prev = op[t].prev /\ op'[t].then = op[t].then
                /\ op'[t].orElse = op[t].orElse /\ op'[t].kicked = op[t].kicked
                /\ op'[t].moved = op[t].moved
<1>1. /\ \A u \in Thread \ {t} : op'[u] = op[u]
      /\ op'[t] = IF pc = "idle" THEN Nothing ELSE [op[t] EXCEPT !.pc = pc]
  BY DEF Goto
<1>2. op[t] \in Op
  OBVIOUS
<1> QED BY <1>1, <1>2 DEF Op

\* A thread without an operation works on nothing.
LEMMA Ended ==
    ASSUME NEW t \in Thread, op'[t] = Nothing
    PROVE  AtWork(t)' /\ Moving(t)' /\ op'[t].pc = "idle" /\ op'[t].moved = {}
<1>1. op'[t].pc = "idle" /\ op'[t].moved = {}
  BY DEF Nothing
<1> QED BY <1>1 DEF AtWork, Moving, BackPC, RoomPC

\* The row of the new room replaces that of the old one.
LEMMA PersistSequenced ==
    ASSUME IInv, IInv', SInv, InSequence, InSequence', NEW t \in Thread, Persist(t)
    PROVE  SInv'
<1>0. TypeOK /\ TypeOK' /\ Shape(op[t]) /\ op[t] \in Op /\ op[t].pc = "persist"
  BY DEF IInv, TypeOK, Shapes, Persist, At
<1>1. PICK s \in Sock, to \in Room, prev \in [name : Room, id : Nat], id \in Nat :
         s = op[t].s /\ to = op[t].to /\ prev = op[t].prev /\ id = op[t].id
  BY <1>0 DEF Shape, PC, RoomPC, Op
<1>2. op[t].then \in {"idle", "rumor", "rumorIfAuth", "logout"} /\ id # 0
  BY <1>0, <1>1 DEF Shape, JoinPC
<1>3. AtWork(t) /\ Moving(t)
  BY <1>0, OnlyOne DEF At
<1>4. /\ s \in open /\ auth[s] /\ InOnly(s, to)
      /\ room[s] = [name |-> to, id |-> id] /\ id = known[to]
      /\ OwnRows(s, prev.id)
      /\ op[t].then # "logout"
      /\ op[t].kicked # Lobby => to = Lobby
      /\ op[t].moved = {}
  BY <1>0, <1>1, <1>3 DEF AtWork, Moving
<1>5. UNCHANGED <<known, members, dbRoom, open, used, auth, room, away>>
  BY DEF Persist, session
<1>6. \E r \in Room : dbRoom[r] = op[t].id
  BY <1>1, <1>2, <1>4 DEF IInv, DirectoryBacked
<1>7. ~Fault
  BY <1>0 DEF Fault, InSequence
<1>8. /\ membership' = (membership \ IF prev.id = id THEN {} ELSE {<<s, prev.id>>}) \cup {<<s, id>>}
      /\ Goto(t, op[t].then)
  BY <1>1, <1>6, <1>7 DEF Persist
<1>9. \A x \in Sock : x # s => SameSession(x)
  BY <1>5, <1>8 DEF SameSession
<1>10. Aligned(s)'
  <2>1. <<s, id>> \in membership'
    BY <1>8
  <2>2. away[s] = "no" => \A j \in Nat : <<s, j>> \in membership' => j = id
    BY <1>1, <1>4, <1>8 DEF OwnRows, RowsAmong
  <2>3. AlignedRecords(s)'
    BY <1>4, <1>5, <2>1, <2>2 DEF AlignedRecords, InOnly, RowsAmong
  <2> QED BY <1>0, <2>3, AlignedMeans
<1>11. /\ \A u \in Thread \ {t} : op'[u] = op[u]
       /\ op[t].then = "idle" => op'[t] = Nothing
       /\ op[t].then # "idle" =>
            /\ op'[t].pc = op[t].then /\ op'[t].s = s /\ op'[t].to = to
            /\ op'[t].kicked = op[t].kicked /\ op'[t].moved = {}
  <2>1. op[t].then \in PC /\ op \in [Thread -> Op]
    BY <1>0, <1>2 DEF PC, TypeOK
  <2> QED BY <1>1, <1>4, <1>8, <2>1, WentTo
<1>12. AtWork(t)' /\ Moving(t)' /\ op'[t].moved = {}
  <2>1. CASE op[t].then = "idle"
    BY <1>11, <2>1, Ended
  <2>2. CASE op[t].then # "idle"
    <3>1. op'[t].pc \in {"rumor", "rumorIfAuth"}
      BY <1>2, <1>4, <1>11, <2>2
    <3>2. Moving(t)' /\ op'[t].moved = {}
      BY <1>11, <2>2, <3>1 DEF Moving, RoomPC
    <3>3. room'[s].name = to /\ s \in open' /\ auth'[s]
      BY <1>4, <1>5
    <3> QED BY <1>4, <1>10, <1>11, <2>2, <3>1, <3>2, <3>3 DEF AtWork, BackPC
  <2> QED BY <2>1, <2>2
<1>13. DirectoryStays /\ s \in used /\ op[t].pc # "idle"
  BY <1>0, <1>4, <1>5 DEF DirectoryStays, TypeOK
<1> QED BY <1>0, <1>1, <1>5, <1>9, <1>10, <1>11, <1>12, <1>13, OneSession DEF At

\* A thread at a pc that is not idle, with its session.
LEMMA Working ==
    ASSUME IInv, IInv', SInv, InSequence, NEW t \in Thread, op[t].pc \in PC \ (RoomPC \cup {"idle"})
    PROVE  /\ TypeOK /\ TypeOK' /\ op[t] \in Op /\ op[t].s \in Sock
           /\ ~At(t, "idle") /\ op[t].pc \notin {"drop", "relocate"}
           /\ AtWork(t) /\ Moving(t) /\ op[t].moved = {}
<1>1. TypeOK /\ TypeOK' /\ op[t] \in Op /\ Shape(op[t]) /\ ~At(t, "idle")
  BY DEF IInv, TypeOK, Shapes, At
<1>2. AtWork(t) /\ Moving(t)
  BY <1>1, OnlyOne
<1> QED BY <1>1, <1>2 DEF Shape, Moving, RoomPC, At

\* The event repeats what the table already says.
LEMMA RumorSequenced ==
    ASSUME IInv, IInv', SInv, InSequence, InSequence', NEW t \in Thread, Rumor(t)
    PROVE  SInv'
<1>1. op[t].pc \in {"rumor", "rumorIfAuth"}
  BY DEF Rumor, At
<1>2. /\ TypeOK /\ TypeOK' /\ op[t] \in Op /\ op[t].s \in Sock
      /\ ~At(t, "idle") /\ op[t].pc \notin {"drop", "relocate"}
      /\ AtWork(t) /\ Moving(t) /\ op[t].moved = {}
  BY <1>1, Working DEF PC, RoomPC
<1>3. PICK s \in Sock, to \in Room, from \in Room :
         s = op[t].s /\ to = op[t].to /\ from = op[t].prev.name
  BY <1>2 DEF Op
<1>4. /\ Aligned(s) /\ s \in open /\ room[s].name = to
      /\ op[t].kicked # Lobby => to = Lobby
  BY <1>1, <1>2, <1>3 DEF AtWork
<1>5. UNCHANGED <<known, members, dbRoom, open, used, auth, room, away>>
  BY DEF Rumor, session
<1>6. ~Fault
  BY <1>2 DEF Fault, InSequence, TypeOK
<1>7. /\ \/ membership' = membership
         \/ auth[s] /\ membership' = JoinedRows(s, from, to)
      /\ Goto(t, IF op[t].kicked = Lobby THEN "idle" ELSE "kick")
  <2>1. op[t].pc = "rumor" => auth[s]
    BY <1>2, <1>3 DEF AtWork
  <2>2. auth[s] \in BOOLEAN
    BY <1>2 DEF TypeOK
  <2> QED BY <1>1, <1>3, <1>6, <2>1, <2>2 DEF Rumor, At
<1>8. AlignedRecords(s) /\ InOnly(s, to) /\ room[s].id = known[to] /\ known[to] # 0
  <2>1. AlignedRecords(s)
    BY <1>2, <1>4, AlignedMeans
  <2> QED BY <1>4, <2>1 DEF AlignedRecords, InOnly, IInv, Listed
<1>9. \A x \in Sock : x # s => SameSession(x)
  BY <1>5, <1>7 DEF SameSession, JoinedRows
<1>10. Aligned(s)'
  <2>1. CASE membership' = membership
    BY <1>2, <1>4, <1>5, <2>1, AlignedStill DEF SameSession
  <2>2. CASE auth[s] /\ membership' = JoinedRows(s, from, to)
    <3>1. dbRoom[to] = known[to]
      BY <1>8 DEF IInv, DirectoryBacked
    <3>2. membership' = (membership \ IF from = to THEN {} ELSE {<<s, known[from]>>})
                            \cup {<<s, known[to]>>}
      BY <1>8, <2>2, <3>1 DEF JoinedRows
    <3>3. AlignedRecords(s)'
      BY <1>4, <1>5, <1>8, <2>2, <3>2 DEF AlignedRecords, InOnly, RowsAmong
    <3> QED BY <1>2, <3>3, AlignedMeans
  <2> QED BY <1>7, <2>1, <2>2
<1>11. /\ \A u \in Thread \ {t} : op'[u] = op[u]
       /\ op[t].kicked = Lobby => op'[t] = Nothing
       /\ op[t].kicked # Lobby =>
            /\ op'[t].pc = "kick" /\ op'[t].s = s
            /\ op'[t].kicked = op[t].kicked /\ op'[t].moved = {}
  <2>1. op \in [Thread -> Op] /\ "idle" \in PC /\ "kick" \in PC
    BY <1>2 DEF PC, TypeOK
  <2>2. CASE op[t].kicked = Lobby
    <3>1. Goto(t, "idle")
      BY <1>7, <2>2
    <3> QED BY <2>1, <2>2, <3>1, WentTo
  <2>3. CASE op[t].kicked # Lobby
    <3>1. Goto(t, "kick")
      BY <1>7, <2>3
    <3> QED BY <1>2, <1>3, <2>1, <2>3, <3>1, WentTo
  <2> QED BY <2>2, <2>3
<1>12. AtWork(t)' /\ Moving(t)' /\ op'[t].moved = {}
  <2>1. CASE op[t].kicked = Lobby
    BY <1>11, <2>1, Ended
  <2>2. CASE op[t].kicked # Lobby
    <3>1. Moving(t)' /\ op'[t].moved = {}
      BY <1>11, <2>2 DEF Moving, RoomPC
    <3>2. room'[s].name = Lobby
      BY <1>4, <1>5, <2>2
    <3> QED BY <1>10, <1>11, <2>2, <3>1, <3>2 DEF AtWork, BackPC
  <2> QED BY <2>1, <2>2
<1>13. DirectoryStays
  BY <1>5 DEF DirectoryStays
<1> QED BY <1>2, <1>3, <1>5, <1>9, <1>10, <1>11, <1>12, <1>13, OneSession

\* The session that was kicked is in Lobby by now.
LEMMA KickAgainSequenced ==
    ASSUME IInv, IInv', SInv, InSequence, NEW t \in Thread, KickAgain(t)
    PROVE  SInv'
<1>1. op[t].pc = "kick"
  BY DEF KickAgain, At
<1>2. /\ TypeOK /\ TypeOK' /\ op[t] \in Op /\ op[t].s \in Sock
      /\ ~At(t, "idle") /\ op[t].pc \notin {"drop", "relocate"}
      /\ AtWork(t) /\ Moving(t) /\ op[t].moved = {}
  BY <1>1, Working DEF PC, RoomPC
<1>3. PICK s \in Sock : s = op[t].s
  BY <1>2
<1>4. Aligned(s) /\ room[s].name # op[t].kicked
  BY <1>1, <1>2, <1>3 DEF AtWork
<1>5. UNCHANGED <<known, members, membership, open, used, auth, room, away>>
  BY DEF KickAgain, db, session
<1>6. op' = [op EXCEPT ![t] = Nothing]
  BY <1>3, <1>4 DEF KickAgain
<1>7. op'[t] = Nothing /\ \A u \in Thread \ {t} : op'[u] = op[u]
  BY <1>2, <1>6 DEF TypeOK
<1>8. \A x \in Sock : SameSession(x)
  BY <1>5 DEF SameSession
<1>9. DirectoryStays
  BY <1>5 DEF DirectoryStays
<1>10. Aligned(s)'
  BY <1>2, <1>4, <1>8, <1>9, AlignedKept
<1>11. AtWork(t)' /\ Moving(t)' /\ op'[t].moved = {}
  BY <1>7, Ended
<1> QED BY <1>2, <1>3, <1>5, <1>7, <1>8, <1>9, <1>10, <1>11, OneSession

\* Out of the room the session names, and so out of every room.
LEMMA ExitSequenced ==
    ASSUME IInv, IInv', SInv, InSequence, NEW t \in Thread, Exit(t)
    PROVE  SInv'
<1>1. op[t].pc = "exit"
  BY DEF Exit, At
<1>2. /\ TypeOK /\ TypeOK' /\ op[t] \in Op /\ op[t].s \in Sock
      /\ ~At(t, "idle") /\ op[t].pc \notin {"drop", "relocate"}
      /\ AtWork(t) /\ Moving(t) /\ op[t].moved = {}
  BY <1>1, Working DEF PC, RoomPC
<1>3. PICK s \in Sock, prev \in [name : Room, id : Nat] : s = op[t].s /\ prev = op[t].prev
  BY <1>2 DEF Op
<1>4. /\ Located(s) /\ OwnRows(s, IF auth[s] THEN room[s].id ELSE 0)
      /\ prev = room[s] /\ op[t].persist = auth[s]
      /\ op[t].then \in BackPC <=> s \in open
      /\ op[t].then = "rejoin" => ~auth[s]
  BY <1>1, <1>2, <1>3 DEF AtWork
<1>5. UNCHANGED <<known, membership, open, used, auth, away>>
  BY DEF Exit, db
<1>6. /\ members' = [members EXCEPT ![prev.name] = @ \ {s}]
      /\ room' = [room EXCEPT ![s] = LobbyRoom]
      /\ Goto(t, IF op[t].persist THEN "wipe" ELSE op[t].then)
  BY <1>3 DEF Exit
<1>7. room'[s] = LobbyRoom /\ \A x \in Sock : x # s => room'[x] = room[x]
  BY <1>2, <1>6 DEF TypeOK
<1>8. \A r \in Room : members'[r] = IF r = prev.name THEN members[r] \ {s} ELSE members[r]
  BY <1>2, <1>6 DEF TypeOK
<1>9. InNone(s)' /\ \A x \in Sock : x # s => SameSession(x)
  <2>1. \A r \in Room : s \in members[r] => r = prev.name
    BY <1>4 DEF Located, InAtMost
  <2> QED BY <1>5, <1>7, <1>8, <2>1 DEF InNone, SameSession
<1>10. /\ op[t].then \in BackPC \cup {"idle", "logout"} /\ s \in used
       /\ op \in [Thread -> Op] /\ "wipe" \in PC /\ op[t].then \in PC /\ auth[s] \in BOOLEAN
  BY <1>1, <1>2, <1>3 DEF IInv, Shapes, Shape, LeavePC, Closing, Op, TypeOK, PC
<1>11. CASE auth[s]
  <2>1. Goto(t, "wipe")
    BY <1>4, <1>6, <1>11
  <2>2. /\ \A u \in Thread \ {t} : op'[u] = op[u]
        /\ op'[t].pc = "wipe" /\ op'[t].s = s /\ op'[t].then = op[t].then /\ op'[t].moved = {}
    BY <1>2, <1>3, <1>10, <2>1, WentTo
  <2>3. Moving(t)'
    BY <2>2 DEF Moving, RoomPC
  <2>4. AtWork(t)'
    BY <1>4, <1>5, <1>7, <1>9, <1>11, <2>2 DEF AtWork, BackPC
  <2>5. DirectoryStays
    BY <1>5 DEF DirectoryStays
  <2> QED BY <1>2, <1>3, <1>5, <1>9, <1>10, <2>2, <2>3, <2>4, <2>5, OneSession
<1>12. CASE ~auth[s]
  <2>1. Goto(t, op[t].then)
    BY <1>4, <1>6, <1>12
  <2>2. /\ \A u \in Thread \ {t} : op'[u] = op[u]
        /\ op[t].then = "idle" => op'[t] = Nothing
        /\ op[t].then # "idle" => op'[t].pc = op[t].then /\ op'[t].s = s /\ op'[t].moved = {}
    BY <1>2, <1>3, <1>10, <2>1, WentTo
  <2>3. OwnRows(s, 0)'
    BY <1>4, <1>5, <1>12 DEF OwnRows, RowsAmong
  <2>4. s \notin open => Aligned(s)'
    <3>1. s \notin open => AlignedRecords(s)'
      BY <1>5, <1>9, <2>3 DEF AlignedRecords, OwnRows
    <3> QED BY <1>2, <3>1, AlignedMeans
  <2>5. DirectoryStays
    BY <1>5 DEF DirectoryStays
  <2>6. CASE op[t].then = "idle"
    BY <1>2, <1>3, <1>4, <1>5, <1>9, <1>10, <2>2, <2>4, <2>5, <2>6, Ended, OneSession DEF BackPC
  <2>7. CASE op[t].then # "idle"
    <3>1. Moving(t)'
      BY <1>10, <2>2, <2>7 DEF Moving, RoomPC, BackPC
    <3>2. AtWork(t)'
      BY <1>4, <1>5, <1>7, <1>9, <1>10, <1>12, <2>2, <2>3, <2>4, <2>7 DEF AtWork, BackPC, Nowhere
    <3> QED BY <1>2, <1>3, <1>5, <1>9, <1>10, <2>2, <2>5, <2>7, <3>1, <3>2, OneSession
  <2> QED BY <2>6, <2>7
<1> QED BY <1>10, <1>11, <1>12

\* clearAllMembership leaves no row.
LEMMA RowsCleared ==
    ASSUME NEW s \in Sock, membership' = membership \ Rows(s)
    PROVE  /\ RowsAmong(s, 0)'
           /\ \A x \in Sock, id \in Nat : x # s => (<<x, id>> \in membership' <=> <<x, id>> \in membership)
<1>1. \A x \in Sock, id \in Nat : <<x, id>>[1] = x
  OBVIOUS
<1>2. \A id \in Nat : <<s, id>> \notin membership'
  BY <1>1 DEF Rows
<1>3. \A x \in Sock, id \in Nat : x # s => <<x, id>> \notin Rows(s)
  BY <1>1 DEF Rows
<1> QED BY <1>2, <1>3 DEF RowsAmong

\* The rows of a session that has left its room go.
LEMMA WipeSequenced ==
    ASSUME IInv, IInv', SInv, InSequence, InSequence', NEW t \in Thread, Wipe(t)
    PROVE  SInv'
<1>1. op[t].pc = "wipe"
  BY DEF Wipe, At
<1>2. /\ TypeOK /\ TypeOK' /\ op[t] \in Op /\ op[t].s \in Sock
      /\ ~At(t, "idle") /\ op[t].pc \notin {"drop", "relocate"}
      /\ AtWork(t) /\ Moving(t) /\ op[t].moved = {}
  BY <1>1, Working DEF PC, RoomPC
<1>3. PICK s \in Sock : s = op[t].s
  BY <1>2
<1>4. InNone(s) /\ room[s] = LobbyRoom /\ op[t].then # "rejoin" /\ (op[t].then \in BackPC <=> s \in open)
  BY <1>1, <1>2, <1>3 DEF AtWork
<1>5. UNCHANGED <<known, members, open, used, auth, room, away>>
  BY DEF Wipe, session
<1>6. membership' = membership \ Rows(s) /\ Goto(t, op[t].then)
  BY <1>2, <1>3 DEF Wipe, Fault, InSequence, TypeOK
<1>7. /\ RowsAmong(s, 0)'
      /\ \A x \in Sock, id \in Nat : x # s => (<<x, id>> \in membership' <=> <<x, id>> \in membership)
  BY <1>6, RowsCleared
<1>8. DirectoryStays /\ \A x \in Sock : x # s => SameSession(x)
  BY <1>5, <1>7 DEF SameSession, DirectoryStays
<1>9. /\ op[t].then \in BackPC \cup {"idle", "logout"}
      /\ op \in [Thread -> Op] /\ op[t].then \in PC
  BY <1>1, <1>2 DEF IInv, Shapes, Shape, LeavePC, Op, TypeOK
<1>10. /\ \A u \in Thread \ {t} : op'[u] = op[u]
       /\ op[t].then = "idle" => op'[t] = Nothing
       /\ op[t].then # "idle" => op'[t].pc = op[t].then /\ op'[t].s = s /\ op'[t].moved = {}
  BY <1>2, <1>3, <1>6, <1>9, WentTo
<1>11. s \notin open => Aligned(s)'
  <2>1. s \notin open => AlignedRecords(s)'
    BY <1>4, <1>5, <1>7 DEF AlignedRecords, InNone
  <2> QED BY <1>2, <2>1, AlignedMeans
<1>12. CASE op[t].then = "idle"
  BY <1>2, <1>3, <1>4, <1>5, <1>8, <1>10, <1>11, <1>12, Ended, OneSession DEF BackPC
<1>13. CASE op[t].then # "idle"
  <2>1. Moving(t)'
    BY <1>9, <1>10, <1>13 DEF Moving, RoomPC, BackPC
  <2>2. InNone(s)' /\ OwnRows(s, 0)'
    BY <1>4, <1>5, <1>7 DEF InNone, OwnRows
  <2>3. AtWork(t)'
    BY <1>4, <1>5, <1>9, <1>10, <1>11, <1>13, <2>2 DEF AtWork, BackPC, Nowhere
  <2> QED BY <1>2, <1>3, <1>5, <1>8, <1>10, <1>13, <2>1, <2>3, OneSession
<1> QED BY <1>12, <1>13

\* The session is anonymous, in no room, and on its way to Lobby.
LEMMA RejoinSequenced ==
    ASSUME IInv, IInv', SInv, InSequence, NEW t \in Thread, Rejoin(t)
    PROVE  SInv'
<1>1. op[t].pc \in BackPC
  BY DEF Rejoin, At, BackPC
<1>2. /\ TypeOK /\ TypeOK' /\ op[t] \in Op /\ op[t].s \in Sock
      /\ ~At(t, "idle") /\ op[t].pc \notin {"drop", "relocate"}
      /\ AtWork(t) /\ Moving(t) /\ op[t].moved = {}
  BY <1>1, Working DEF PC, RoomPC, BackPC
<1>3. PICK s \in Sock, after \in {"idle", "logout"} : s = op[t].s /\ after = op[t].orElse
  BY <1>1, <1>2 DEF IInv, Shapes, Shape
<1>4. s \in open /\ Nowhere(s) /\ (op[t].pc = "rejoin" => ~auth[s])
  BY <1>1, <1>2, <1>3 DEF AtWork
<1>5. UNCHANGED <<known, members, membership, open, used, room, away>>
  BY DEF Rejoin, db
<1>6. op' = [op EXCEPT ![t] = Join(s, Lobby, after, after)]
  BY <1>3 DEF Rejoin
<1>7. ~auth'[s] /\ \A x \in Sock : x # s => auth'[x] = auth[x]
  BY <1>1, <1>2, <1>3, <1>4 DEF Rejoin, At, BackPC, TypeOK
<1>8. /\ \A u \in Thread \ {t} : op'[u] = op[u]
      /\ op'[t].pc = "join" /\ op'[t].s = s /\ op'[t].to = Lobby /\ op'[t].then = after
      /\ op'[t].kicked = Lobby /\ op'[t].moved = {}
  BY <1>2, <1>6 DEF TypeOK, Join, Nothing
<1>9. Moving(t)'
  BY <1>8 DEF Moving, RoomPC
<1>10. Located(s)' /\ OwnRows(s, 0)'
  BY <1>4, <1>5 DEF Nowhere, InNone, OwnRows, RowsAmong, Located, InAtMost, LobbyRoom, IInv, Seeded
<1>11. known'[Lobby] # 0
  BY <1>5 DEF IInv, Seeded
<1>12. AtWork(t)'
  BY <1>4, <1>5, <1>7, <1>8, <1>10, <1>11 DEF AtWork, BackPC
<1>13. DirectoryStays /\ s \in used /\ \A x \in Sock : x # s => SameSession(x)
  BY <1>2, <1>4, <1>5, <1>7 DEF SameSession, DirectoryStays, TypeOK
<1> QED BY <1>2, <1>3, <1>5, <1>8, <1>9, <1>12, <1>13, OneSession

\* The LOGOUT event finds no row any more.
LEMMA RumorLogoutSequenced ==
    ASSUME IInv, IInv', SInv, InSequence, InSequence', NEW t \in Thread, RumorLogout(t)
    PROVE  SInv'
<1>1. op[t].pc = "logout"
  BY DEF RumorLogout, At
<1>2. /\ TypeOK /\ TypeOK' /\ op[t] \in Op /\ op[t].s \in Sock
      /\ ~At(t, "idle") /\ op[t].pc \notin {"drop", "relocate"}
      /\ AtWork(t) /\ Moving(t) /\ op[t].moved = {}
  BY <1>1, Working DEF PC, RoomPC
<1>3. PICK s \in Sock : s = op[t].s
  BY <1>2
<1>4. Aligned(s) /\ (s \notin open \/ ~auth[s])
  BY <1>1, <1>2, <1>3 DEF AtWork
<1>5. UNCHANGED <<known, members, open, used, auth, room, away>>
  BY DEF RumorLogout, session
<1>6. membership' = membership \ Rows(s) /\ Finish(t)
  BY <1>2, <1>3 DEF RumorLogout, Fault, InSequence, TypeOK
<1>7. /\ RowsAmong(s, 0)'
      /\ \A x \in Sock, id \in Nat : x # s => (<<x, id>> \in membership' <=> <<x, id>> \in membership)
  BY <1>6, RowsCleared
<1>8. DirectoryStays /\ \A x \in Sock : x # s => SameSession(x)
  BY <1>5, <1>7 DEF SameSession, DirectoryStays
<1>9. op'[t] = Nothing /\ \A u \in Thread \ {t} : op'[u] = op[u]
  BY <1>2, <1>6 DEF TypeOK, Finish
<1>10. Aligned(s)'
  <2>1. AlignedRecords(s)
    BY <1>2, <1>4, AlignedMeans
  <2>2. AlignedRecords(s)'
    BY <1>4, <1>5, <1>7, <2>1 DEF AlignedRecords, InOnly, InNone
  <2> QED BY <1>2, <2>2, AlignedMeans
<1>11. AtWork(t)' /\ Moving(t)' /\ op'[t].moved = {}
  BY <1>9, Ended
<1> QED BY <1>2, <1>3, <1>5, <1>8, <1>9, <1>10, <1>11, OneSession

-----------------------------------------------------------------------------
(***************************************************************************)
(* deleteRoom.                                                             *)
(***************************************************************************)

\* deleteRoom under the mutex: the sessions it found in the room are those that name
\* it, and their rows are the room's.
LEMMA EraseSequenced ==
    ASSUME IInv, IInv', SInv, InSequence, NEW t \in Thread, NEW r \in Extra, known[r] # 0,
           NEW then \in {"idle", "deleted"}, Erase(r), Becomes(t, Erasing(r, then)),
           \A u \in Thread : u # t => At(u, "idle"), \A s \in Sock : Aligned(s),
           UNCHANGED <<dbRoom, membership, open, used, auth, room, away>>
    PROVE  SInv'
<1>0. TypeOK /\ TypeOK' /\ r \in Room /\ r # Lobby /\ Lobby \in Room
  BY RoomAssumption DEF IInv, Room
<1>1. PICK o \in Op, id \in Nat : o = Erasing(r, then) /\ id = known[r]
  BY <1>0, ErasingShaped DEF TypeOK
<1>2. o.pc = "drop" /\ o.to = r /\ o.id = id /\ o.moved = members[r] /\ o.s = Peer
  BY <1>1 DEF Erasing, Nothing
<1>3. op \in [Thread -> Op] /\ op'[t] = o
  BY <1>0, <1>1 DEF TypeOK, Becomes
<1>4. /\ known'[r] = 0 /\ \A q \in Room : q # r => known'[q] = known[q]
      /\ members'[r] = {} /\ members'[Lobby] = members[Lobby] \cup members[r]
      /\ \A q \in Room : q # r /\ q # Lobby => members'[q] = members[q]
  BY <1>0 DEF Erase, TypeOK
<1>5. ASSUME NEW s \in Sock PROVE AlignedRecords(s)
  BY <1>0, AlignedMeans
<1>6. ASSUME NEW s \in Sock, s \notin members[r] PROVE Aligned(s)'
  <2>1. SameSession(s)
    BY <1>4, <1>6, <1>0 DEF SameSession
  <2>2. s \in open => room[s].name # r /\ room[s].name \in Room
    BY <1>0, <1>5, <1>6 DEF AlignedRecords, InOnly, TypeOK
  <2> QED BY <1>0, <1>4, <2>1, <2>2, AlignedStill
<1>7. ASSUME NEW s \in members[r]
      PROVE  s \in open' /\ InOnly(s, Lobby)' /\ room'[s].name = r /\ OwnRows(s, id)'
  <2>1. s \in Sock /\ room[s].name \in Room
    BY <1>0, <1>7 DEF TypeOK
  <2>2. AlignedRecords(s)
    BY <1>5, <2>1
  <2>3. s \in open /\ room[s].name = r /\ InOnly(s, r) /\ room[s].id = id
    BY <1>0, <1>1, <1>7, <2>1, <2>2 DEF AlignedRecords, InNone, InOnly
  <2>4. InOnly(s, Lobby)'
    BY <1>0, <1>4, <1>7, <2>3 DEF InOnly
  <2>5. \A j \in Nat : <<s, j>> \in membership => j # 0
    BY <1>0 DEF TypeOK
  <2>6. OwnRows(s, id)'
    BY <2>2, <2>3, <2>5 DEF AlignedRecords, OwnRows, RowsAmong
  <2> QED BY <2>3, <2>4, <2>6
<1>8. AtWork(t)'
  BY <1>2, <1>3 DEF AtWork, BackPC
<1>9. dbRoom'[r] = id /\ id # 0
  BY <1>0, <1>1 DEF IInv, DirectoryBacked
<1>10. Moving(t)'
  <2>1. op'[t].pc = "drop" /\ op'[t].to = r /\ op'[t].id = id /\ op'[t].moved = members[r] /\ op'[t].s = Peer
    BY <1>2, <1>3
  <2> QED BY <1>4, <1>7, <1>9, <2>1 DEF Moving, RoomPC, OwnRows, RowsAmong, InOnly
<1>11. \A s \in Sock : (o.pc = "idle" \/ (s # o.s /\ s \notin o.moved)) => Aligned(s)'
  BY <1>2, <1>6
<1>12. Becomes(t, o)
  BY <1>1
<1> QED BY <1>3, <1>8, <1>10, <1>11, <1>12, GoesOn

\* A thread in deleteRoom works on no session but those it moves.
LEMMA Moves ==
    ASSUME IInv, IInv', SInv, InSequence, NEW t \in Thread, op[t].pc \in RoomPC
    PROVE  /\ TypeOK /\ TypeOK' /\ op \in [Thread -> Op] /\ op[t] \in Op /\ Shape(op[t])
           /\ Moving(t) /\ op[t].s = Peer /\ op[t].s \notin Sock
           /\ \A u \in Thread : u # t => At(u, "idle")
           /\ \A s \in Sock : s \notin op[t].moved => Aligned(s)
<1>1. TypeOK /\ TypeOK' /\ op \in [Thread -> Op] /\ op[t] \in Op /\ Shape(op[t]) /\ ~At(t, "idle")
  BY DEF IInv, TypeOK, Shapes, At, RoomPC
<1>2. /\ Moving(t)
      /\ \A u \in Thread : u # t => At(u, "idle")
      /\ \A s \in Sock : s # op[t].s /\ s \notin op[t].moved => Aligned(s)
  BY <1>1, OnlyOne
<1>3. op[t].s = Peer /\ op[t].s \notin Sock
  BY <1>2, ThreadAssumption DEF Moving
<1> QED BY <1>1, <1>2, <1>3

\* The rows that go with the room are those of the sessions that were in it.
LEMMA DropSequenced ==
    ASSUME IInv, IInv', CInv, SInv, InSequence, InSequence', NEW t \in Thread, Drop(t)
    PROVE  SInv'
<1>1. op[t].pc = "drop"
  BY DEF Drop, At
<1>2. /\ TypeOK /\ TypeOK' /\ op \in [Thread -> Op] /\ op[t] \in Op /\ Shape(op[t])
      /\ Moving(t) /\ op[t].s = Peer /\ op[t].s \notin Sock
      /\ \A u \in Thread : u # t => At(u, "idle")
      /\ \A s \in Sock : s \notin op[t].moved => Aligned(s)
  BY <1>1, Moves DEF RoomPC
<1>3. PICK to \in Room, id \in Nat, moved \in SUBSET Sock :
         to = op[t].to /\ id = op[t].id /\ moved = op[t].moved
  BY <1>2 DEF Op
<1>4. /\ dbRoom[to] = id /\ id # 0 /\ known[to] = 0
      /\ \A s \in moved : s \in open /\ InOnly(s, Lobby) /\ room[s].name = to /\ OwnRows(s, id)
  BY <1>1, <1>2, <1>3 DEF Moving
<1>5. UNCHANGED <<known, members, open, used, auth, room, away>>
  BY DEF Drop, session
<1>6. /\ membership' = membership \ {x \in membership : x[2] = id}
      /\ op' = [op EXCEPT ![t] = IF moved # {} THEN [op[t] EXCEPT !.pc = "relocate", !.moved = moved]
                                 ELSE IF op[t].then = "idle" THEN Nothing
                                 ELSE [op[t] EXCEPT !.pc = op[t].then, !.moved = {}]]
  <2>1. ~Fault
    BY <1>2 DEF Fault, InSequence, TypeOK
  <2>2. op[t].moved \cap open = moved
    BY <1>3, <1>4
  <2> QED BY <1>3, <1>4, <2>1, <2>2 DEF Drop
<1>7. \A s \in Sock, j \in Nat : <<s, j>> \in membership' <=> <<s, j>> \in membership /\ j # id
  <2>1. \A s \in Sock, j \in Nat : <<s, j>>[2] = j
    OBVIOUS
  <2> QED BY <1>6, <2>1
<1>8. ASSUME NEW s \in Sock, s \notin moved PROVE Aligned(s)'
  <2>1. Aligned(s) /\ AlignedRecords(s) /\ room[s].name \in Room
    BY <1>2, <1>3, <1>8, AlignedMeans DEF TypeOK
  <2>2. ASSUME away[s] = "no", <<s, id>> \in membership PROVE FALSE
    <3>1. s \in open /\ auth[s] /\ room[s].id = id /\ InOnly(s, room[s].name)
          /\ room[s].id = known[room[s].name]
      BY <1>4, <2>1, <2>2 DEF AlignedRecords, RowsAmong
    <3>2. known[room[s].name] # 0 /\ dbRoom[room[s].name] = id
      BY <2>1, <3>1 DEF InOnly, IInv, Listed, DirectoryBacked
    <3>3. room[s].name = to
      BY <1>4, <2>1, <3>2 DEF CInv, DistinctIds
    <3> QED BY <1>4, <3>2, <3>3
  <2>3. SameSession(s)
    BY <1>5, <1>7, <2>2 DEF SameSession
  <2> QED BY <1>2, <1>5, <2>1, <2>3, AlignedStill
<1>9. ASSUME NEW s \in moved PROVE s \in open' /\ InOnly(s, Lobby)' /\ OwnRows(s, 0)'
  <2>1. OwnRows(s, 0)'
    BY <1>3, <1>4, <1>5, <1>7 DEF OwnRows, RowsAmong
  <2> QED BY <1>4, <1>5, <2>1 DEF InOnly
<1>10. PICK o \in Op : o = op'[t] /\ Becomes(t, o)
  BY <1>2, <1>6 DEF Becomes, TypeOK
<1>11. CASE moved # {}
  <2>1. op'[t] = [op[t] EXCEPT !.pc = "relocate", !.moved = moved]
    BY <1>2, <1>6, <1>11
  <2>2. op'[t].pc = "relocate" /\ op'[t].moved = moved /\ op'[t].s = Peer
    BY <1>2, <2>1 DEF Op
  <2>3. AtWork(t)'
    BY <2>2 DEF AtWork, BackPC
  <2>4. Moving(t)'
    BY <1>9, <2>2 DEF Moving, RoomPC, OwnRows, RowsAmong, InOnly
  <2> QED BY <1>2, <1>5, <1>8, <1>10, <2>2, <2>3, <2>4, GoesOn
<1>12. CASE moved = {} /\ op[t].then = "idle"
  <2>1. op'[t] = Nothing
    BY <1>2, <1>6, <1>12
  <2>2. AtWork(t)' /\ Moving(t)'
    BY <2>1, Ended
  <2> QED BY <1>2, <1>5, <1>8, <1>10, <1>12, <2>2, GoesOn
<1>13. CASE moved = {} /\ op[t].then # "idle"
  <2>1. op'[t] = [op[t] EXCEPT !.pc = op[t].then, !.moved = {}]
    BY <1>2, <1>6, <1>13
  <2>2. op'[t].pc = "deleted" /\ op'[t].moved = {} /\ op'[t].s = Peer
    BY <1>1, <1>2, <1>13, <2>1 DEF Op, Shape
  <2>3. AtWork(t)' /\ Moving(t)'
    BY <2>2 DEF AtWork, Moving, BackPC, RoomPC
  <2> QED BY <1>2, <1>5, <1>8, <1>10, <1>13, <2>3, GoesOn
<1> QED BY <1>11, <1>12, <1>13

\* One session after the other is told that it is in Lobby.
LEMMA RelocateSequenced ==
    ASSUME IInv, IInv', SInv, InSequence, InSequence', NEW t \in Thread, NEW s \in Sock, Relocate(t, s)
    PROVE  SInv'
<1>1. op[t].pc = "relocate" /\ s \in op[t].moved
  BY DEF Relocate, At
<1>2. /\ TypeOK /\ TypeOK' /\ op \in [Thread -> Op] /\ op[t] \in Op /\ Shape(op[t])
      /\ Moving(t) /\ op[t].s = Peer /\ op[t].s \notin Sock
      /\ \A u \in Thread : u # t => At(u, "idle")
      /\ \A x \in Sock : x \notin op[t].moved => Aligned(x)
  BY <1>1, Moves DEF RoomPC
<1>3. PICK id \in Nat, moved \in SUBSET Sock, left \in SUBSET Sock :
         id = op[t].id /\ moved = op[t].moved /\ left = moved \ {s}
  BY <1>2 DEF Op
<1>4. \A x \in moved : x \in open /\ InOnly(x, Lobby) /\ OwnRows(x, 0)
  BY <1>1, <1>2, <1>3 DEF Moving
<1>5. UNCHANGED <<known, members, dbRoom, open, used, auth, away>>
  BY DEF Relocate
<1>6. /\ room' = [room EXCEPT ![s] = LobbyRoom]
      /\ membership' = IF auth[s] THEN (membership \ {<<s, id>>}) \cup {<<s, 1>>} ELSE membership
      /\ op' = [op EXCEPT ![t] = IF left # {} THEN [op[t] EXCEPT !.moved = left]
                                 ELSE IF op[t].then = "idle" THEN Nothing
                                 ELSE [op[t] EXCEPT !.pc = op[t].then, !.moved = {}]]
  <2>1. ~Fault
    BY <1>2 DEF Fault, InSequence, TypeOK
  <2> QED BY <1>3, <2>1 DEF Relocate
<1>7. room'[s] = LobbyRoom /\ \A x \in Sock : x # s => room'[x] = room[x]
  BY <1>2, <1>6 DEF TypeOK
<1>8. \A x \in Sock : x # s => SameSession(x)
  BY <1>5, <1>6, <1>7 DEF SameSession
<1>9. Aligned(s)'
  <2>1. s \in open /\ InOnly(s, Lobby) /\ OwnRows(s, 0) /\ known[Lobby] = 1
    BY <1>1, <1>3, <1>4 DEF IInv, Seeded
  <2>2. room'[s].name = Lobby /\ room'[s].id = 1
    BY <1>7 DEF LobbyRoom
  <2>3. \A j \in Nat : <<s, j>> \in membership => j # 0
    BY <1>2 DEF TypeOK
  <2>4. auth[s] => <<s, 1>> \in membership' /\ (away[s] = "no" => \A j \in Nat : <<s, j>> \in membership' => j = 1)
    BY <1>6, <2>1, <2>3 DEF OwnRows, RowsAmong
  <2>5. AlignedRecords(s)'
    BY <1>5, <1>6, <2>1, <2>2, <2>4 DEF AlignedRecords, OwnRows, RowsAmong, InOnly
  <2> QED BY <1>2, <2>5, AlignedMeans
<1>10. DirectoryStays /\ s \in used
  BY <1>1, <1>2, <1>3, <1>4, <1>5 DEF DirectoryStays, TypeOK
<1>11. \A x \in Sock : x \notin left => Aligned(x)'
  BY <1>2, <1>3, <1>8, <1>9, <1>10, AlignedKept
<1>12. PICK o \in Op : o = op'[t] /\ Becomes(t, o)
  BY <1>2, <1>6 DEF Becomes, TypeOK
<1>13. \A x \in Sock \ used' : room'[x] = room[x] /\ auth'[x] = auth[x]
  BY <1>5, <1>7, <1>10
<1>14. CASE left # {}
  <2>1. op'[t] = [op[t] EXCEPT !.moved = left]
    BY <1>2, <1>6, <1>14
  <2>2. op'[t].pc = "relocate" /\ op'[t].moved = left /\ op'[t].s = Peer
    BY <1>1, <1>2, <2>1 DEF Op
  <2>3. AtWork(t)'
    BY <2>2 DEF AtWork, BackPC
  <2>4. ASSUME NEW x \in left PROVE x \in open' /\ InOnly(x, Lobby)' /\ OwnRows(x, 0)'
    BY <1>3, <1>4, <1>5, <1>8 DEF SameSession, InOnly, OwnRows, RowsAmong
  <2>5. Moving(t)'
    BY <2>2, <2>4 DEF Moving, RoomPC, OwnRows, RowsAmong, InOnly
  <2> QED BY <1>2, <1>5, <1>11, <1>12, <1>13, <2>2, <2>3, <2>5, GoesOn
<1>15. CASE left = {} /\ op[t].then = "idle"
  <2>1. op'[t] = Nothing
    BY <1>2, <1>6, <1>15
  <2>2. AtWork(t)' /\ Moving(t)'
    BY <2>1, Ended
  <2> QED BY <1>2, <1>5, <1>11, <1>12, <1>13, <1>15, <2>2, GoesOn
<1>16. CASE left = {} /\ op[t].then # "idle"
  <2>1. op'[t] = [op[t] EXCEPT !.pc = op[t].then, !.moved = {}]
    BY <1>2, <1>6, <1>16
  <2>2. op'[t].pc = "deleted" /\ op'[t].moved = {} /\ op'[t].s = Peer
    BY <1>1, <1>2, <1>16, <2>1 DEF Op, Shape
  <2>3. AtWork(t)' /\ Moving(t)'
    BY <2>2 DEF AtWork, Moving, BackPC, RoomPC
  <2> QED BY <1>2, <1>5, <1>11, <1>12, <1>13, <1>16, <2>3, GoesOn
<1> QED BY <1>14, <1>15, <1>16

\* The event deletes the room again if somebody has made it anew.
LEMMA DeleteAgainSequenced ==
    ASSUME IInv, IInv', SInv, InSequence, NEW t \in Thread, DeleteAgain(t)
    PROVE  SInv'
<1>1. op[t].pc = "deleted"
  BY DEF DeleteAgain, At
<1>2. /\ TypeOK /\ TypeOK' /\ op \in [Thread -> Op] /\ op[t] \in Op /\ Shape(op[t])
      /\ Moving(t) /\ op[t].s = Peer /\ op[t].s \notin Sock
      /\ \A u \in Thread : u # t => At(u, "idle")
      /\ \A x \in Sock : x \notin op[t].moved => Aligned(x)
  BY <1>1, Moves DEF RoomPC
<1>3. PICK r \in Extra : r = op[t].to
  BY <1>1, <1>2 DEF Shape, RoomPC
<1>4. \A x \in Sock : Aligned(x)
  BY <1>1, <1>2 DEF Moving
<1>5. UNCHANGED <<dbRoom, membership, open, used, auth, room, away>>
  BY DEF DeleteAgain, db, session
<1>6. CASE known[r] = 0
  <2>1. Finish(t) /\ UNCHANGED <<known, members>>
    BY <1>3, <1>6 DEF DeleteAgain
  <2>2. op'[t] = Nothing /\ Becomes(t, Nothing) /\ Nothing \in Op
    BY <1>2, <2>1, NothingShaped DEF Finish, Becomes
  <2>3. AtWork(t)' /\ Moving(t)'
    BY <2>2, Ended
  <2>4. DirectoryStays /\ \A x \in Sock : SameSession(x)
    BY <1>5, <2>1 DEF SameSession, DirectoryStays
  <2>5. \A x \in Sock : Aligned(x)'
    BY <1>2, <1>4, <2>4, AlignedKept
  <2> QED BY <1>2, <1>5, <2>2, <2>3, <2>5, GoesOn
<1>7. CASE known[r] # 0
  <2>1. Erase(r) /\ Becomes(t, Erasing(r, "idle"))
    BY <1>3, <1>7 DEF DeleteAgain, Becomes
  <2> QED BY <1>2, <1>4, <1>5, <1>7, <2>1, EraseSequenced
<1> QED BY <1>6, <1>7

-----------------------------------------------------------------------------
(***************************************************************************)
(* Operations begin when no other is under way.                            *)
(***************************************************************************)

\* An operation that overlaps no other finds every session aligned.
LEMMA BeginsInSequence ==
    ASSUME IInv, SInv, InSequence, InSequence', NEW t \in Thread, NEW o, Begin(t, o)
    PROVE  /\ op \in [Thread -> Op] /\ Becomes(t, o)
           /\ \A u \in Thread : At(u, "idle")
           /\ \A s \in Sock : Aligned(s)
           /\ Unused
<1>1. \A u \in Thread : At(u, "idle")
  BY DEF Begin, InSequence
<1>2. op \in [Thread -> Op] /\ Becomes(t, o)
  BY DEF Begin, Becomes, IInv, TypeOK
<1>3. \A s \in Sock : Untouched(s)
  BY <1>1 DEF Untouched
<1> QED BY <1>1, <1>2, <1>3 DEF SInv

\* A session that joinRoom or leaveAll starts with names the room it is in.
LEMMA StartsLocated ==
    ASSUME IInv, TypeOK', NEW s \in Sock, Aligned(s),
           s \in open \/ (room[s] = LobbyRoom /\ ~auth[s]),
           UNCHANGED <<known, members, membership, room>>,
           \/ auth'[s] = auth[s] /\ away'[s] = away[s]
           \/ s \in open /\ ~auth[s] /\ away'[s] = away[s]
           \/ away'[s] # "no"
    PROVE  Located(s)' /\ OwnRows(s, IF auth[s] THEN room[s].id ELSE 0)'
<1>1. TypeOK /\ room[s].name \in Room /\ room[s].id \in Nat
  BY DEF IInv, TypeOK
<1>2. AlignedRecords(s)
  BY <1>1, AlignedMeans
<1>3. Located(s)
  <2>1. CASE s \in open
    BY <1>1, <1>2, <2>1 DEF AlignedRecords, InOnly, Located, InAtMost, IInv, Listed
  <2>2. CASE s \notin open
    BY <1>2, <2>2 DEF AlignedRecords, InNone, Located, InAtMost, LobbyRoom, IInv, Seeded
  <2> QED BY <2>1, <2>2
<1>4. Located(s)'
  BY <1>3 DEF Located, InAtMost
<1>5. \A j \in Nat : <<s, j>> \in membership => j # 0
  BY <1>1 DEF TypeOK
<1>6. OwnRows(s, IF auth[s] THEN room[s].id ELSE 0)'
  <2>1. CASE auth'[s] = auth[s] /\ away'[s] = away[s]
    BY <1>2, <1>5, <2>1 DEF AlignedRecords, OwnRows, RowsAmong
  <2>2. CASE s \in open /\ ~auth[s] /\ away'[s] = away[s]
    BY <1>2, <1>5, <2>2 DEF AlignedRecords, OwnRows, RowsAmong
  <2>3. CASE away'[s] # "no"
    BY <2>3 DEF OwnRows
  <2> QED BY <2>1, <2>2, <2>3
<1> QED BY <1>4, <1>6

\* t begins a joinRoom or leaveAll of s.
LEMMA StartsWork ==
    ASSUME IInv, TypeOK', SInv, InSequence, InSequence', NEW t \in Thread, NEW o \in Op, Begin(t, o),
           NEW s \in Sock, o.s = s, o.pc \in {"join", "leave"}, o.moved = {},
           UNCHANGED <<known, members, membership, room>>, used \subseteq used', s \in used',
           \A x \in Sock : x # s => (x \in open' <=> x \in open) /\ auth'[x] = auth[x] /\ away'[x] = away[x],
           AtWork(t)'
    PROVE  SInv'
<1>1. /\ op \in [Thread -> Op] /\ Becomes(t, o)
      /\ \A u \in Thread : At(u, "idle")
      /\ \A x \in Sock : Aligned(x)
  BY BeginsInSequence
<1>2. op'[t] = o
  BY <1>1 DEF Becomes
<1>3. DirectoryStays /\ \A x \in Sock : x # s => SameSession(x)
  BY DEF SameSession, DirectoryStays
<1>4. \A x \in Sock : x # s => Aligned(x)'
  BY <1>1, <1>3, AlignedKept
<1>5. Moving(t)'
  BY <1>2 DEF Moving, RoomPC
<1> QED BY <1>1, <1>4, <1>5, GoesOn

\* The socket's first session begins in Lobby, without a user.
LEMMA AcceptSequenced ==
    ASSUME IInv, IInv', SInv, InSequence, InSequence', NEW s \in Sock, Accept(s)
    PROVE  SInv'
<1>0. TypeOK /\ TypeOK' /\ s \in Thread /\ Lobby \in Room /\ known[Lobby] = 1
  BY DEF IInv, Thread, Room, Seeded
<1>1. PICK o \in Op : o = Join(s, Lobby, "idle", "idle")
  BY <1>0, JoinShaped
<1>2. /\ o.pc = "join" /\ o.s = s /\ o.to = Lobby /\ o.then = "idle" /\ o.kicked = Lobby /\ o.moved = {}
  BY <1>1 DEF Join, Nothing
<1>3. /\ Begin(s, o) /\ s \notin used /\ used' = used \cup {s} /\ open' = open \cup {s}
      /\ UNCHANGED <<known, members, membership, room, auth, away>>
  BY <1>1 DEF Accept, db
<1>4. op \in [Thread -> Op] /\ Becomes(s, o) /\ Aligned(s) /\ Unused
  BY <1>0, <1>3, BeginsInSequence
<1>5. op'[s] = o /\ room[s] = LobbyRoom /\ ~auth[s]
  BY <1>0, <1>3, <1>4 DEF Becomes, Unused
<1>6. Located(s)' /\ OwnRows(s, IF auth[s] THEN room[s].id ELSE 0)'
  BY <1>0, <1>3, <1>4, <1>5, StartsLocated
<1>7. AtWork(s)'
  BY <1>0, <1>2, <1>3, <1>5, <1>6 DEF AtWork, BackPC
<1> QED BY <1>0, <1>2, <1>3, <1>7, StartsWork

\* LOGIN, RECONNECT, ROOM_JOIN and a kick: joinRoom for a session that is open.
LEMMA JoinBeginsSequenced ==
    ASSUME IInv, IInv', SInv, InSequence, InSequence', NEW s \in Sock, s \in open, NEW t \in Thread,
           NEW o \in Op, Begin(t, o), o.pc = "join", o.s = s, o.moved = {}, known[o.to] # 0,
           UNCHANGED <<known, members, membership, room, open, used>>,
           \A x \in Sock : x # s => auth'[x] = auth[x] /\ away'[x] = away[x],
           \/ auth'[s] = auth[s] /\ away'[s] = away[s]
           \/ ~auth[s] /\ away'[s] = away[s]
           \/ away'[s] # "no",
           o.then = "rumor" => auth'[s], o.then # "logout", o.kicked # Lobby => o.to = Lobby
    PROVE  SInv'
<1>1. TypeOK' /\ op \in [Thread -> Op] /\ Becomes(t, o) /\ Aligned(s) /\ s \in used
  BY BeginsInSequence DEF IInv, TypeOK
<1>2. op'[t] = o
  BY <1>1 DEF Becomes
<1>3. Located(s)' /\ OwnRows(s, IF auth[s] THEN room[s].id ELSE 0)'
  BY <1>1, StartsLocated
<1>4. AtWork(t)'
  BY <1>2, <1>3 DEF AtWork, BackPC
<1> QED BY <1>1, <1>4, StartsWork

\* LOGOUT, removeSession and RECONNECT elsewhere: leaveAll.
LEMMA LeaveBeginsSequenced ==
    ASSUME IInv, IInv', SInv, InSequence, InSequence', NEW s \in Sock, s \in open, NEW t \in Thread,
           NEW o \in Op, Begin(t, o), o.pc = "leave", o.s = s, o.moved = {},
           UNCHANGED <<known, members, membership, room, used>>,
           \A x \in Sock : x # s => (x \in open' <=> x \in open) /\ auth'[x] = auth[x] /\ away'[x] = away[x],
           (auth'[s] = auth[s] /\ away'[s] = away[s]) \/ away'[s] # "no",
           o.then \in BackPC <=> s \in open', o.then = "rejoin" => ~auth'[s]
    PROVE  SInv'
<1>1. TypeOK' /\ op \in [Thread -> Op] /\ Becomes(t, o) /\ Aligned(s) /\ s \in used
  BY BeginsInSequence DEF IInv, TypeOK
<1>2. op'[t] = o
  BY <1>1 DEF Becomes
<1>3. Located(s)' /\ OwnRows(s, IF auth[s] THEN room[s].id ELSE 0)'
  BY <1>1, StartsLocated
<1>4. AtWork(t)'
  BY <1>2, <1>3 DEF AtWork, BackPC
<1> QED BY <1>1, <1>4, StartsWork

\* The requests of a client and the events about its session.
LEMMA RequestSequenced ==
    ASSUME IInv, IInv', SInv, InSequence, InSequence', NEW s \in Sock,
           \/ Login(s) \/ Logout(s) \/ RemoveSession(s) \/ Demote(s)
           \/ \E r \in Room : RoomJoin(s, r) \/ Reconnect(s, r)
           \/ \E t \in Thread : Kick(t, s)
    PROVE  SInv'
<1>0. /\ TypeOK /\ TypeOK' /\ s \in Thread /\ Peer \in Thread /\ Lobby \in Room /\ known[Lobby] = 1
      /\ auth[s] \in BOOLEAN /\ room[s].name \in Room
  BY DEF IInv, Thread, Room, Seeded, TypeOK
<1>1. CASE Login(s)
  <2>1. PICK o \in Op : o = Join(s, Lobby, "rumor", "rumor")
    BY <1>0, JoinShaped
  <2>2. o.pc = "join" /\ o.s = s /\ o.to = Lobby /\ o.then = "rumor" /\ o.kicked = Lobby /\ o.moved = {}
    BY <2>1 DEF Join, Nothing
  <2>3. /\ s \in open /\ Begin(s, o) /\ UNCHANGED <<known, members, membership, room, open, used>>
        /\ ~auth[s] /\ auth'[s] /\ away' = away /\ \A x \in Sock : x # s => auth'[x] = auth[x]
    BY <1>0, <1>1, <2>1 DEF Login, db, TypeOK
  <2> QED BY <1>0, <2>2, <2>3, JoinBeginsSequenced
<1>2. ASSUME NEW r \in Room, RoomJoin(s, r) PROVE SInv'
  <2>1. PICK o \in Op : o = Join(s, r, "rumorIfAuth", "idle")
    BY <1>0, JoinShaped
  <2>2. o.pc = "join" /\ o.s = s /\ o.to = r /\ o.then = "rumorIfAuth" /\ o.kicked = Lobby /\ o.moved = {}
    BY <2>1 DEF Join, Nothing
  <2>3. /\ s \in open /\ Begin(s, o) /\ known[r] # 0
        /\ UNCHANGED <<known, members, membership, room, open, used, auth, away>>
    BY <1>2, <2>1 DEF RoomJoin, db, session
  <2> QED BY <1>0, <2>2, <2>3, JoinBeginsSequenced
<1>3. ASSUME NEW r \in Room, Reconnect(s, r) PROVE SInv'
  <2>1. PICK o \in Op : o = Join(s, r, "rumor", "fallback")
    BY <1>0, JoinShaped
  <2>2. o.pc = "join" /\ o.s = s /\ o.to = r /\ o.then = "rumor" /\ o.kicked = Lobby /\ o.moved = {}
    BY <2>1 DEF Join, Nothing
  <2>3. /\ s \in open /\ Begin(s, o) /\ UNCHANGED <<known, members, membership, room, open, used>>
        /\ auth'[s] /\ away'[s] = "back" /\ known[r] # 0
        /\ \A x \in Sock : x # s => auth'[x] = auth[x] /\ away'[x] = away[x]
    BY <1>0, <1>3, <2>1 DEF Reconnect, db, TypeOK
  <2> QED BY <1>0, <2>2, <2>3, JoinBeginsSequenced
<1>4. ASSUME NEW t \in Thread, Kick(t, s) PROVE SInv'
  <2>1. PICK then \in {"idle", "rumor"} :
           Begin(t, [Join(s, Lobby, then, then) EXCEPT !.kicked = room[s].name])
    BY <1>4 DEF Kick
  <2>2. Join(s, Lobby, then, then) \in Op
    BY <1>0, JoinShaped
  <2>3. PICK o \in Op : o = [Join(s, Lobby, then, then) EXCEPT !.kicked = room[s].name]
    BY <1>0, <2>2 DEF Op
  <2>4. o.pc = "join" /\ o.s = s /\ o.to = Lobby /\ o.then = then /\ o.moved = {}
    BY <2>3 DEF Join, Nothing
  <2>5. /\ s \in open /\ auth[s] /\ Begin(t, o)
        /\ UNCHANGED <<known, members, membership, room, open, used, auth, away>>
    BY <1>4, <2>1, <2>3 DEF Kick, db, session
  <2> QED BY <1>0, <2>4, <2>5, JoinBeginsSequenced
<1>5. CASE Logout(s)
  <2>1. PICK after \in {"idle", "logout"} : after = IF auth[s] THEN "logout" ELSE "idle"
    OBVIOUS
  <2>2. PICK o \in Op : o = Leave(s, "anon", after)
    BY <1>0, LeaveShaped DEF BackPC
  <2>3. o.pc = "leave" /\ o.s = s /\ o.then = "anon" /\ o.moved = {}
    BY <2>2 DEF Leave, Nothing
  <2>4. /\ s \in open /\ Begin(s, o)
        /\ UNCHANGED <<known, members, membership, room, open, used, auth, away>>
    BY <1>5, <2>1, <2>2 DEF Logout, db, session
  <2> QED BY <1>0, <2>3, <2>4, LeaveBeginsSequenced DEF BackPC
<1>6. CASE RemoveSession(s)
  <2>1. PICK then \in {"idle", "logout"} : then = IF auth[s] THEN "logout" ELSE "idle"
    OBVIOUS
  <2>2. PICK o \in Op : o = Leave(s, then, "idle")
    BY <1>0, LeaveShaped DEF BackPC
  <2>3. o.pc = "leave" /\ o.s = s /\ o.then = then /\ o.moved = {}
    BY <2>2 DEF Leave, Nothing
  <2>4. /\ s \in open /\ Begin(s, o) /\ open' = open \ {s}
        /\ UNCHANGED <<known, members, membership, room, used, auth, away>>
    BY <1>6, <2>1, <2>2 DEF RemoveSession, db, session
  <2> QED BY <1>0, <2>3, <2>4, LeaveBeginsSequenced DEF BackPC
<1>7. CASE Demote(s)
  <2>1. PICK o \in Op : o = Leave(s, "rejoin", "idle")
    BY <1>0, LeaveShaped DEF BackPC
  <2>2. o.pc = "leave" /\ o.s = s /\ o.then = "rejoin" /\ o.moved = {}
    BY <2>1 DEF Leave, Nothing
  <2>3. /\ s \in open /\ Begin(Peer, o)
        /\ UNCHANGED <<known, members, membership, room, used, open>>
        /\ ~auth'[s] /\ away'[s] = "yes"
        /\ \A x \in Sock : x # s => auth'[x] = auth[x] /\ away'[x] = away[x]
    BY <1>0, <1>7, <2>1 DEF Demote, db, TypeOK
  <2> QED BY <1>0, <2>2, <2>3, LeaveBeginsSequenced DEF BackPC
<1> QED BY <1>1, <1>2, <1>3, <1>4, <1>5, <1>6, <1>7

\* deleteRoom begins.
LEMMA DeleteRoomSequenced ==
    ASSUME IInv, IInv', SInv, InSequence, InSequence', NEW t \in Thread, NEW r \in Extra, DeleteRoom(t, r)
    PROVE  SInv'
<1>1. PICK then \in {"idle", "deleted"} : then = IF t = Peer THEN "idle" ELSE "deleted"
  OBVIOUS
<1>2. /\ known[r] # 0 /\ Erase(r) /\ Begin(t, Erasing(r, then))
      /\ UNCHANGED <<dbRoom, membership, open, used, auth, room, away>>
  BY <1>1 DEF DeleteRoom, db, session
<1>3. /\ Becomes(t, Erasing(r, then))
      /\ \A u \in Thread : At(u, "idle")
      /\ \A s \in Sock : Aligned(s)
  BY <1>2, BeginsInSequence
<1> QED BY <1>2, <1>3, EraseSequenced

-----------------------------------------------------------------------------
(***************************************************************************)
(* Steps beside an operation that is under way: createRoom, and the events *)
(* of a user whose session is on another node.                             *)
(***************************************************************************)

\* No row of s appears, and none of another node is taken for one of this node.
NoNewRows(s) ==
    away'[s] = "no" => \A id \in Nat : <<s, id>> \in membership' => away[s] = "no" /\ <<s, id>> \in membership

\* Such a step leaves the operation under way what it needs.
LEMMA WorkKept ==
    ASSUME IInv, NEW t \in Thread, AtWork(t), Moving(t), op' = op,
           UNCHANGED <<members, open, auth, room>>, DirectoryStays,
           \A s \in Sock : NoNewRows(s) /\ (Aligned(s) => Aligned(s)'),
           op[t].pc = "drop" => dbRoom'[op[t].to] = op[t].id /\ known'[op[t].to] = 0
    PROVE  AtWork(t)' /\ Moving(t)'
<1>0. TypeOK /\ Shape(op[t]) /\ op[t] \in Op /\ op[t].to \in Room /\ op[t].moved \in SUBSET Sock
  BY DEF IInv, TypeOK, Shapes, Op
<1>1. ASSUME NEW s \in Sock PROVE \A id \in Nat : OwnRows(s, id) => OwnRows(s, id)'
  BY DEF NoNewRows, OwnRows, RowsAmong
<1>2. Moving(t)'
  BY <1>0, <1>1 DEF Moving, RoomPC, InOnly, OwnRows, RowsAmong, NoNewRows, Op
<1>3. CASE op[t].s \notin Sock
  <2>1. op[t].pc \in RoomPC \cup {"idle"}
    BY <1>0, <1>3 DEF Shape, Op
  <2> QED BY <1>2, <2>1 DEF AtWork, RoomPC, BackPC
<1>4. CASE op[t].s \in Sock
  <2>1. PICK s \in Sock : s = op[t].s
    BY <1>4
  <2>2. /\ room[s].name \in Room /\ room[s].id \in Nat /\ auth[s] \in BOOLEAN
        /\ op[t].prev.id \in Nat
    BY <1>0 DEF TypeOK, Op
  <2>3. Located(s) => Located(s)'
    BY <2>2 DEF Located, InAtMost, DirectoryStays
  <2>4. InNone(s) => InNone(s)'
    BY DEF InNone
  <2>5. \A id \in Nat : OwnRows(s, id) => OwnRows(s, id)'
    BY <1>1
  <2>6. OwnRows(s, IF auth[s] THEN room[s].id ELSE 0) => OwnRows(s, IF auth[s] THEN room[s].id ELSE 0)'
    BY <2>2, <2>5 DEF OwnRows, RowsAmong
  <2>7. op[t].pc \in {"join", "enter"} => known'[op[t].to] # 0
    BY <1>0 DEF AtWork, DirectoryStays
  <2>8. op[t].pc = "persist" => InOnly(s, op[t].to)' /\ op[t].id = known'[op[t].to] /\ OwnRows(s, op[t].prev.id)'
    BY <1>0, <2>1, <2>2, <2>5 DEF AtWork, Shape, DirectoryStays, InOnly, OwnRows, RowsAmong, NoNewRows
  <2>9. Nowhere(s) => Nowhere(s)'
    BY <2>4, <2>5 DEF Nowhere
  <2>10. Aligned(s) => Aligned(s)'
    OBVIOUS
  <2> QED BY <1>2, <2>1, <2>3, <2>4, <2>6, <2>7, <2>8, <2>9, <2>10 DEF AtWork
<1> QED BY <1>3, <1>4

\* A step beside every operation keeps the invariant when it keeps WorkKept's terms.
LEMMA BesideSequenced ==
    ASSUME IInv, SInv, InSequence, op' = op,
           UNCHANGED <<members, open, used, auth, room>>, DirectoryStays,
           \A s \in Sock : NoNewRows(s) /\ (Aligned(s) => Aligned(s)'),
           \A t \in Thread : op[t].pc = "drop" => dbRoom'[op[t].to] = op[t].id /\ known'[op[t].to] = 0
    PROVE  SInv'
<1>1. \A t \in Thread : AtWork(t)' /\ Moving(t)'
  BY WorkKept DEF SInv
<1>2. Alone' /\ Unused'
  BY DEF SInv, Alone, Unused, At
<1>3. \A s \in Sock : Untouched(s)' => Aligned(s)'
  BY DEF SInv, Untouched, At
<1> QED BY <1>1, <1>2, <1>3 DEF SInv

\* createRoom adds a room that nobody is in.
LEMMA CreateRoomSequenced ==
    ASSUME IInv, IInv', SInv, InSequence, InSequence', NEW t \in Thread, NEW r \in Extra, CreateRoom(t, r)
    PROVE  SInv'
<1>0. TypeOK /\ TypeOK' /\ r \in Room
  BY DEF IInv, Room
<1>1. /\ known[r] = 0 /\ dbRoom[r] = 0 /\ op' = op
      /\ UNCHANGED <<members, membership, open, used, auth, room, away>>
      /\ dbRoom' = [dbRoom EXCEPT ![r] = nextId]
  BY DEF CreateRoom, session
<1>2. known' = [known EXCEPT ![r] = nextId]
  BY <1>0 DEF CreateRoom, Fault, InSequence, TypeOK
<1>3. \A q \in Room : q # r => known'[q] = known[q] /\ dbRoom'[q] = dbRoom[q]
  BY <1>0, <1>1, <1>2 DEF TypeOK
<1>4. DirectoryStays /\ \A s \in Sock : SameSession(s) /\ NoNewRows(s)
  BY <1>1, <1>3 DEF DirectoryStays, SameSession, NoNewRows
<1>5. \A s \in Sock : Aligned(s) => Aligned(s)'
  BY <1>0, <1>4, AlignedKept
<1>6. ASSUME NEW u \in Thread, op[u].pc = "drop"
      PROVE  dbRoom'[op[u].to] = op[u].id /\ known'[op[u].to] = 0
  <2>1. dbRoom[op[u].to] = op[u].id /\ op[u].id # 0 /\ known[op[u].to] = 0 /\ op[u].to \in Room
    BY <1>0, <1>6 DEF SInv, Moving, TypeOK, Op
  <2> QED BY <1>1, <1>3, <2>1
<1> QED BY <1>1, <1>4, <1>5, <1>6, BesideSequenced

\* Events of a user whose session is elsewhere touch rows of another node only.
LEMMA RemoteSequenced ==
    ASSUME IInv, IInv', CInv, SInv, InSequence, NEW s \in Sock,
           (\E from, to \in Room : RemoteJoin(s, from, to)) \/ RemoteLogout(s)
    PROVE  SInv'
<1>0. TypeOK /\ TypeOK' /\ ~auth[s] /\ away[s] = "yes"
  BY DEF IInv, CInv, Elsewhere, RemoteJoin, RemoteLogout
<1>1. UNCHANGED <<known, dbRoom, members, open, used, auth, room, op>>
  BY DEF RemoteJoin, RemoteLogout, session
<1>2. \A x \in Sock, id \in Nat : x # s => (<<x, id>> \in membership' <=> <<x, id>> \in membership)
  <2>1. CASE RemoteLogout(s)
    BY <2>1, RowsCleared DEF RemoteLogout
  <2>2. CASE \E from, to \in Room : RemoteJoin(s, from, to)
    BY <2>2 DEF RemoteJoin, JoinedRows
  <2> QED BY <2>1, <2>2
<1>3. \A x \in Sock : x # s => away'[x] = away[x]
  BY <1>0 DEF RemoteJoin, RemoteLogout, session, TypeOK
<1>4. away'[s] = "no" => RowsAmong(s, 0)'
  <2>1. CASE RemoteLogout(s)
    BY <2>1, RowsCleared DEF RemoteLogout
  <2>2. CASE \E from, to \in Room : RemoteJoin(s, from, to)
    BY <1>0, <2>2 DEF RemoteJoin, session
  <2> QED BY <2>1, <2>2
<1>5. DirectoryStays /\ \A x \in Sock : x # s => SameSession(x) /\ NoNewRows(x)
  BY <1>1, <1>2, <1>3 DEF DirectoryStays, SameSession, NoNewRows
<1>6. NoNewRows(s)
  <2>1. \A id \in Nat : <<s, id>> \in membership' => id # 0
    BY <1>0 DEF TypeOK
  <2> QED BY <1>4, <2>1 DEF NoNewRows, RowsAmong
<1>7. ASSUME Aligned(s) PROVE Aligned(s)'
  <2>1. AlignedRecords(s)
    BY <1>0, <1>7, AlignedMeans
  <2>2. AlignedRecords(s)'
    BY <1>0, <1>1, <1>4, <2>1 DEF AlignedRecords, InOnly, InNone
  <2> QED BY <1>0, <2>2, AlignedMeans
<1>8. \A x \in Sock : NoNewRows(x) /\ (Aligned(x) => Aligned(x)')
  BY <1>0, <1>5, <1>6, <1>7, AlignedKept
<1>9. \A t \in Thread : op[t].pc = "drop" => dbRoom'[op[t].to] = op[t].id /\ known'[op[t].to] = 0
  BY <1>1 DEF SInv, Moving
<1> QED BY <1>1, <1>5, <1>8, <1>9, BesideSequenced

-----------------------------------------------------------------------------
(***************************************************************************)
(* The records agree.                                                      *)
(***************************************************************************)

\* Neither history variable falls back.
LEMMA SequenceBroken ==
    ASSUME TypeOK, [Next]_vars, InSequence' PROVE InSequence
<1>1. ASSUME NEW t \in Thread, Step(t) PROVE InSequence
  <2>1. faults' = faults \/ faults' = faults + 1
    BY <1>1 DEF Step, ReadSession, Enter, Persist, Rollback, Fallback, Rumor, Exit, Wipe, Rejoin,
       RumorLogout, Drop, Relocate, DeleteAgain, KickAgain, Fault
  <2>2. overlapped' = overlapped
    BY <1>1 DEF Step, ReadSession, Enter, Persist, Rollback, Fallback, Rumor, Exit, Wipe, Rejoin,
       RumorLogout, Drop, Relocate, DeleteAgain, KickAgain
  <2> QED BY <2>1, <2>2 DEF InSequence, TypeOK
<1>2. ASSUME NEW t \in Thread, Manage(t) PROVE InSequence
  <2>1. faults' = faults \/ faults' = faults + 1
    BY <1>2 DEF Manage, CreateRoom, DeleteRoom, Kick, Fault
  <2>2. overlapped => overlapped'
    BY <1>2 DEF Manage, CreateRoom, DeleteRoom, Kick, Begin
  <2> QED BY <2>1, <2>2 DEF InSequence, TypeOK
<1>3. ASSUME NEW s \in Sock, Request(s) \/ Demote(s) PROVE InSequence
  <2>1. faults' = faults
    BY <1>3 DEF Request, Demote, Accept, Login, Logout, RemoveSession, RoomJoin, Reconnect
  <2>2. overlapped => overlapped'
    BY <1>3 DEF Request, Demote, Accept, Login, Logout, RemoveSession, RoomJoin, Reconnect, Begin
  <2> QED BY <2>1, <2>2 DEF InSequence
<1>4. ASSUME NEW s \in Sock, RemoteLogout(s) \/ \E from, to \in Room : RemoteJoin(s, from, to)
      PROVE  InSequence
  <2>1. faults' = faults /\ overlapped' = overlapped
    BY <1>4 DEF RemoteLogout, RemoteJoin
  <2> QED BY <2>1 DEF InSequence
<1>5. CASE UNCHANGED vars
  BY <1>5 DEF vars, InSequence
<1> QED BY <1>1, <1>2, <1>3, <1>4, <1>5 DEF Next

\* Room ids stay distinct, and no user is here and elsewhere.
LEMMA CInvStep ==
    ASSUME IInv, CInv, [Next]_vars PROVE CInv'
<1>0. TypeOK
  BY DEF IInv
<1>1. ASSUME NEW t \in Thread, Step(t) PROVE CInv'
  <2>1. dbRoom' = dbRoom \/ \E r \in Room : dbRoom' = [dbRoom EXCEPT ![r] = 0]
    <3>1. CASE Drop(t)
      BY <1>0, <3>1 DEF Drop, TypeOK, Op
    <3>2. CASE ~Drop(t)
      BY <1>1, <3>2 DEF Step, ReadSession, Enter, Persist, Rollback, Fallback, Rumor, Exit, Wipe,
         Rejoin, RumorLogout, Relocate, DeleteAgain, KickAgain, db
    <3> QED BY <3>1, <3>2
  <2>2. away' = away /\ (auth' = auth \/ \E s \in Thread : auth' = [auth EXCEPT ![s] = FALSE])
    <3>1. CASE Rejoin(t)
      BY <1>0, <3>1 DEF Rejoin, TypeOK, Op
    <3>2. CASE ~Rejoin(t)
      BY <1>1, <3>2 DEF Step, ReadSession, Enter, Persist, Rollback, Fallback, Rumor, Exit, Wipe,
         Drop, RumorLogout, Relocate, DeleteAgain, KickAgain, session
    <3> QED BY <3>1, <3>2
  <2>3. DistinctIds'
    BY <1>0, <2>1 DEF CInv, DistinctIds, TypeOK
  <2>4. Elsewhere'
    BY <1>0, <2>2 DEF CInv, Elsewhere, TypeOK
  <2> QED BY <2>3, <2>4 DEF CInv
<1>2. ASSUME NEW t \in Thread, Manage(t) PROVE CInv'
  <2>1. dbRoom' = dbRoom \/ \E r \in Room : dbRoom' = [dbRoom EXCEPT ![r] = nextId]
    BY <1>2 DEF Manage, CreateRoom, DeleteRoom, Kick, db, Room
  <2>2. auth' = auth /\ away' = away
    BY <1>2 DEF Manage, CreateRoom, DeleteRoom, Kick, session
  <2>3. DistinctIds'
    BY <1>0, <2>1 DEF CInv, DistinctIds, TypeOK, IInv, IdsFresh
  <2> QED BY <2>2, <2>3 DEF CInv, Elsewhere
<1>3. ASSUME NEW s \in Sock, Request(s) \/ Demote(s) \/ RemoteLogout(s) PROVE CInv'
  <2>1. dbRoom' = dbRoom
    BY <1>3 DEF Request, Demote, RemoteLogout, Accept, Login, Logout, RemoveSession, RoomJoin,
       Reconnect, db
  <2>2. /\ \A x \in Sock : x # s => auth'[x] = auth[x] /\ away'[x] = away[x]
        /\ \/ auth'[s] = auth[s] /\ away'[s] = away[s]
           \/ away'[s] # "yes" \/ ~auth'[s]
    BY <1>0, <1>3 DEF Request, Demote, RemoteLogout, Accept, Login, Logout, RemoveSession, RoomJoin,
       Reconnect, session, TypeOK
  <2> QED BY <2>1, <2>2 DEF CInv, DistinctIds, Elsewhere
<1>4. ASSUME NEW s \in Sock, NEW from \in Room, NEW to \in Room, RemoteJoin(s, from, to) PROVE CInv'
  BY <1>4 DEF RemoteJoin, session, CInv, DistinctIds, Elsewhere
<1>5. CASE UNCHANGED vars
  BY <1>5 DEF vars, db, session, CInv, DistinctIds, Elsewhere
<1> QED BY <1>1, <1>2, <1>3, <1>4, <1>5 DEF Next

\* Every step keeps SInv; a join that is rolled back or falls back has met a fault
\* or another operation.
LEMMA SInvStep ==
    ASSUME IInv, IInv', CInv, SInv, [Next]_vars PROVE SInv'
<1> SUFFICES ASSUME InSequence' PROVE SInv'
  BY DEF SInv
<1>1. InSequence
  BY SequenceBroken DEF IInv
<1>2. ASSUME NEW t \in Thread, Step(t) PROVE SInv'
  <2>1. ~Rollback(t) /\ ~Fallback(t)
    BY <1>1 DEF SInv, AtWork, Rollback, Fallback, At
  <2> QED BY <1>1, <1>2, <2>1, ReadSessionSequenced, EnterSequenced, PersistSequenced, RumorSequenced,
             ExitSequenced, WipeSequenced, RejoinSequenced, RumorLogoutSequenced, DropSequenced,
             RelocateSequenced, DeleteAgainSequenced, KickAgainSequenced DEF Step
<1>3. ASSUME NEW t \in Thread, Manage(t) PROVE SInv'
  BY <1>1, <1>3, CreateRoomSequenced, DeleteRoomSequenced, RequestSequenced DEF Manage
<1>4. ASSUME NEW s \in Sock, Request(s) \/ Demote(s) PROVE SInv'
  BY <1>1, <1>4, AcceptSequenced, RequestSequenced DEF Request
<1>5. ASSUME NEW s \in Sock, RemoteLogout(s) \/ \E from, to \in Room : RemoteJoin(s, from, to)
      PROVE  SInv'
  BY <1>1, <1>5, RemoteSequenced
<1>6. CASE UNCHANGED vars
  <2>1. UNCHANGED <<known, members, dbRoom, membership, open, used, auth, room, away, op>>
    BY <1>6 DEF vars, db, session
  <2>2. DirectoryStays /\ \A s \in Sock : SameSession(s) /\ NoNewRows(s)
    BY <2>1 DEF DirectoryStays, SameSession, NoNewRows
  <2>3. \A s \in Sock : Aligned(s) => Aligned(s)'
    BY <2>2, AlignedKept DEF IInv
  <2>4. \A t \in Thread : op[t].pc = "drop" => dbRoom'[op[t].to] = op[t].id /\ known'[op[t].to] = 0
    BY <1>1, <2>1 DEF SInv, Moving
  <2> QED BY <1>1, <2>1, <2>2, <2>3, <2>4, BesideSequenced
<1> QED BY <1>2, <1>3, <1>4, <1>5, <1>6 DEF Next

\* Nobody is connected, and the rows there are belong to sessions of other nodes.
LEMMA InitiallySequenced == Init => CInv /\ SInv
<1> SUFFICES ASSUME Init PROVE CInv /\ SInv
  OBVIOUS
<1>1. CInv
  BY RoomAssumption DEF Init, CInv, DistinctIds, Elsewhere, Room
<1>2. \A t \in Thread : op[t] = Nothing /\ op[t].pc = "idle" /\ op[t].moved = {}
  BY DEF Init, Nothing
<1>3. Alone /\ Unused
  <2>1. Alone
    BY <1>2 DEF Alone, At
  <2> QED BY <2>1 DEF Unused, Init
<1>4. \A t \in Thread : AtWork(t) /\ Moving(t)
  BY <1>2 DEF AtWork, Moving, BackPC, RoomPC
<1>5. ASSUME NEW s \in Sock PROVE Aligned(s)
  <2>1. RoomsOf(s) = {} /\ s \notin open
    BY DEF Init, RoomsOf
  <2>2. ASSUME away[s] = "no" PROVE Rows(s) = {}
    <3>1. \A x \in membership : \E y \in Sock : x = <<y, 1>> /\ away[y] = "yes"
      BY DEF Init
    <3>2. ASSUME NEW x \in membership PROVE x[1] # s
      BY <2>2, <3>1
    <3> QED BY <3>2 DEF Rows
  <2> QED BY <2>1, <2>2 DEF Aligned
<1> QED BY <1>1, <1>3, <1>4, <1>5 DEF SInv

\* AlignedInSequence holds of every behaviour, for any number of sockets, rooms and
\* operations: as long as no two operations have overlapped and no statement has
\* failed, whenever no thread is at work the member sets, the sessions and the
\* membership rows of all users tell the same story, whatever joins, leaves, kicks,
\* deletions and events of other nodes came before.
THEOREM RecordsAligned == Spec => []AlignedInSequence
<1>1. Init => IInv /\ CInv /\ SInv
  BY InitiallyIInv, InitiallySequenced
<1>2. IInv /\ CInv /\ SInv /\ [Next]_vars => IInv' /\ CInv' /\ SInv'
  BY InductiveStep, CInvStep, SInvStep
<1>3. SInv => AlignedInSequence
  BY DEF SInv, InSequence, AlignedInSequence, Untouched
<1> QED BY <1>1, <1>2, <1>3, PTL DEF Spec
=============================================================================
