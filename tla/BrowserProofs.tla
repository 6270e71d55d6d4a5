---------------------------- MODULE BrowserProofs ---------------------------
(***************************************************************************)
(* Proofs about Browser: a page that has everything answered shows the     *)
(* user and the room of its session (PageAgrees) and misses no message of  *)
(* a room it has loaded (NothingLost), for any number of requests,         *)
(* messages and lost connections.                                          *)
(*                                                                         *)
(* Neither is inductive: both speak of a connection with nothing under     *)
(* way.  The inductive invariant IInv says what the packets under way will *)
(* make of the page: Agrees, the last of them that sets the user or the    *)
(* room sets it to what the server has by now; Complete and Loading, a     *)
(* message of the room that is not on screen is under way, kept back or in *)
(* the history that is; and the order that makes it so: Orderly, Resuming, *)
(* AtRest and Staying.                                                     *)
(***************************************************************************)
EXTENDS Browser, WellFoundedInduction, TLAPS

(***************************************************************************)
(* The state.                                                              *)
(***************************************************************************)
Users == {"none", "guest", "account"}
Packets == [type : Type, room : Room]
Frames == [kind : {"none", "reply", "welcome", "lobby", "chat"}, type : Type, ok : BOOLEAN,
           room : Room, chat : SUBSET Chat]
Waiters == [type : Type, by : {"task", "resume"}]

TypeOK ==
    /\ watched \in BOOLEAN /\ retry \in BOOLEAN /\ hold \in BOOLEAN
    /\ loaded \in BOOLEAN /\ late \in BOOLEAN /\ strayed \in BOOLEAN
    /\ sock \in {"closed", "connecting", "open"}
    /\ user \in Users /\ room \in Room
    /\ transcript \subseteq Chat /\ held \subseteq Chat
    /\ task \in [type : Type, room : Room, stage : {"none", "reply", "history"}]
    /\ waiters \in Seq(Waiters)
    /\ requests \in Nat /\ chats \in Nat /\ drops \in Nat
    /\ srv \in [user : Users, room : Room]
    /\ owed \in Seq(Frames) /\ Len(owed) <= 1 /\ up \in Seq(Packets) /\ down \in Seq(Frames)
    /\ saved \in [Room -> SUBSET Chat]

\* Nothing is under way on a socket that is not open.
Offline == sock # "open" => up = <<>> /\ down = <<>> /\ owed = <<>> /\ srv = NoSession

\* What an open connection carries: replies the handler owes, the welcome first.
Online ==
    /\ sock = "open" => srv.user # "none"
    /\ \A k \in 1..Len(owed) : owed[k].kind = "reply"
    /\ \A k \in 1..Len(down) : down[k].kind = "welcome" => k = 1

\* One waiter at most belongs to the task, and waits for what the task is at.
Busy ==
    /\ \A i \in 1..Len(waiters) : waiters[i].by = "resume" <=> waiters[i].type = "RECONNECT"
    /\ \A i, j \in 1..Len(waiters) : waiters[i].by = "task" /\ waiters[j].by = "task" => i = j
    /\ \A i \in 1..Len(waiters) : waiters[i].by = "task" =>
          waiters[i].type = IF task.stage = "history" THEN "HISTORY" ELSE task.type
    /\ task # NoTask \/ \A i \in 1..Len(waiters) : waiters[i].by = "resume"
    /\ task.type \notin {"HISTORY", "RECONNECT"}
    /\ hold <=> task.stage = "history"

(***************************************************************************)
(* What is under way on a connection without late answers.                 *)
(***************************************************************************)
IsReply(f) == f.kind = "reply"

\* Of two requests under way the first is RECONNECT, the other is the task's.
First(p, q) == p.type = "RECONNECT" /\ q.type # "RECONNECT"
Orderly ==
    /\ \A i, j \in 1..Len(up) : i < j => First(up[i], up[j])
    /\ \A i \in 1..Len(owed), j \in 1..Len(up) : First(owed[i], up[j])
    /\ \A i \in 1..Len(down), j \in 1..Len(up) : IsReply(down[i]) => First(down[i], up[j])
    /\ \A i \in 1..Len(down), j \in 1..Len(owed) : IsReply(down[i]) => First(down[i], owed[j])
    /\ \A i, j \in 1..Len(down) : i < j /\ IsReply(down[i]) /\ IsReply(down[j]) => First(down[i], down[j])

\* A request of the type, for room r, or its reply is under way.
Asked(t, r) == \E i \in 1..Len(up) : up[i].type = t /\ up[i].room = r
Owed(t, r) == \E i \in 1..Len(owed) : owed[i].type = t /\ owed[i].room = r
Replied(t, r) == \E i \in 1..Len(down) : IsReply(down[i]) /\ down[i].type = t /\ down[i].room = r
Pending(t, r) == Asked(t, r) \/ Owed(t, r) \/ Replied(t, r)

\* Whatever is under way has its waiter.
Awaited(t) == \E i \in 1..Len(waiters) : waiters[i].type = t
Awaiting == \A t \in Type, r \in Room : Pending(t, r) => Awaited(t)

\* A frame that sets the user, or the room, when the page takes it.
Sets(w, f) ==
    \/ f.kind = "welcome"
    \/ f.kind = "lobby" /\ w = "room"
    \/ /\ f.kind = "reply" /\ f.ok
       /\ \/ f.type \in {"LOGIN", "LOGOUT", "RECONNECT"}
          \/ f.type \in {"ROOM_JOIN", "ROOM_LEAVE"} /\ w = "room"
Val(w, f) ==
    IF w = "user" THEN IF f.kind = "reply" /\ f.type \in {"LOGIN", "RECONNECT"} THEN "account" ELSE "guest"
    ELSE IF f.kind = "reply" /\ f.type \in {"ROOM_JOIN", "RECONNECT"} THEN f.room ELSE Lobby

Silent(w, S) == \A k \in 1..Len(S) : ~Sets(w, S[k])

\* The page that shows one of B, and reads S, shows v.
Ends(w, S, B, v) ==
    \/ v \in B /\ Silent(w, S)
    \/ \E k \in 1..Len(S) :
          /\ Sets(w, S[k]) /\ Val(w, S[k]) = v
          /\ \A j \in 1..Len(S) : k < j => ~Sets(w, S[j])

Shown(w) == IF w = "user" THEN {user} ELSE IF strayed THEN Room ELSE {room}
Actual(w) == IF w = "user" THEN srv.user ELSE srv.room

\* The page will show what the server has.
Agrees(w) ==
    /\ \A k \in 1..Len(owed) : Sets(w, owed[k]) => Val(w, owed[k]) = Actual(w)
    /\ Silent(w, owed) => Ends(w, down, Shown(w), Actual(w))

NoMove == Silent("room", down) /\ Silent("room", owed)

\* After a reply that leads to Lobby no other move is under way.
AtRest ==
    \A k \in 1..Len(down) :
        (IsReply(down[k]) /\ down[k].type # "RECONNECT" /\ Sets("room", down[k]) /\ Val("room", down[k]) = Lobby)
            => \A j \in 1..Len(down) : k < j => ~Sets("room", down[j])

Fresh == \A k \in 1..Len(down) : down[k].kind # "welcome"

\* RECONNECT is answered before a transcript is loaded.
Resuming ==
    /\ \A r \in Room : Fresh /\ Pending("RECONNECT", r) => ~loaded
    /\ Fresh /\ loaded => ~strayed
    /\ \A q, r \in Room : Pending("HISTORY", q) => Fresh /\ ~strayed /\ ~Pending("RECONNECT", r)

\* The Lobby's history is loaded only when the session stays there.
Staying == Pending("HISTORY", Lobby) => NoMove /\ room = Lobby

Told(r, m) == \E k \in 1..Len(down) : down[k].kind = "chat" /\ down[k].room = r /\ m \in down[k].chat
InHistory(m) ==
    \/ \E k \in 1..Len(owed) : owed[k].type = "HISTORY" /\ m \in owed[k].chat
    \/ \E k \in 1..Len(down) : IsReply(down[k]) /\ down[k].type = "HISTORY" /\ m \in down[k].chat

Complete ==
    loaded /\ ~hold /\ NoMove => \A m \in saved[room] : m \in transcript \/ Told(room, m)
Loading ==
    (Owed("HISTORY", room) \/ Replied("HISTORY", room)) /\ NoMove
        => \A m \in saved[room] : m \in held \/ Told(room, m) \/ InHistory(m)

Connection ==
    /\ Orderly /\ Awaiting
    /\ Agrees("user") /\ Agrees("room")
    /\ AtRest /\ Resuming /\ Staying /\ Complete /\ Loading

IInv ==
    /\ TypeOK /\ Offline /\ Online /\ Busy
    /\ sock = "open" /\ ~late => Connection

-----------------------------------------------------------------------------
(***************************************************************************)
(* Sequences.                                                              *)
(***************************************************************************)

\* A packet is added at the end.
LEMMA SeqAppend ==
    ASSUME NEW S, NEW q \in Seq(S), NEW e \in S
    PROVE  /\ Append(q, e) \in Seq(S) /\ Len(Append(q, e)) = Len(q) + 1
           /\ Len(q) \in Nat /\ Len(q) + 1 \in 1..Len(Append(q, e))
           /\ \A i \in 1..Len(q) : Append(q, e)[i] = q[i] /\ i \in 1..Len(Append(q, e))
           /\ Append(q, e)[Len(q) + 1] = e
           /\ \A i \in 1..Len(Append(q, e)) : i \in 1..Len(q) \/ i = Len(q) + 1
OBVIOUS

\* The first packet is taken.
LEMMA SeqTail ==
    ASSUME NEW S, NEW q \in Seq(S), q # <<>>
    PROVE  /\ Tail(q) \in Seq(S) /\ Len(Tail(q)) = Len(q) - 1
           /\ Len(q) \in Nat \ {0} /\ 1 \in 1..Len(q) /\ Head(q) = q[1] /\ Head(q) \in S
           /\ \A i \in 1..Len(Tail(q)) : Tail(q)[i] = q[i + 1] /\ i + 1 \in 1..Len(q)
           /\ \A i \in 1..Len(q) : i = 1 \/ (i - 1 \in 1..Len(Tail(q)) /\ Tail(q)[i - 1] = q[i])
OBVIOUS

\* The list without its element i.
Without(q, i) == [j \in 1..(Len(q) - 1) |-> q[IF j < i THEN j ELSE j + 1]]

\* One element is taken out of the list.
LEMMA SeqWithout ==
    ASSUME NEW S, NEW q \in Seq(S), NEW i \in 1..Len(q)
    PROVE  /\ Without(q, i) \in Seq(S) /\ Len(Without(q, i)) = Len(q) - 1
           /\ \A j \in 1..Len(Without(q, i)) :
                 LET k == IF j < i THEN j ELSE j + 1
                 IN Without(q, i)[j] = q[k] /\ k \in 1..Len(q) /\ k # i
<1>1. Len(q) \in Nat /\ Len(q) - 1 \in Nat
  OBVIOUS
<1>2. ASSUME NEW j \in 1..(Len(q) - 1)
      PROVE  LET k == IF j < i THEN j ELSE j + 1 IN k \in 1..Len(q) /\ k # i /\ q[k] \in S
  BY <1>1
<1>3. Without(q, i) \in [1..(Len(q) - 1) -> S]
  BY <1>2 DEF Without
<1>4. Without(q, i) \in Seq(S) /\ Len(Without(q, i)) = Len(q) - 1
  BY <1>1, <1>3
<1>5. \A j \in 1..(Len(q) - 1) : Without(q, i)[j] = q[IF j < i THEN j ELSE j + 1]
  BY DEF Without
<1> QED BY <1>2, <1>4, <1>5

\* Every other element is still there.
LEMMA WithoutKeeps ==
    ASSUME NEW S, NEW q \in Seq(S), NEW i \in 1..Len(q), NEW k \in 1..Len(q), k # i
    PROVE  \E j \in 1..Len(Without(q, i)) : Without(q, i)[j] = q[k]
<1>1. Len(q) \in Nat /\ Len(q) - 1 \in Nat
  OBVIOUS
<1>2. Len(Without(q, i)) = Len(q) - 1
  BY SeqWithout
<1>3. \A j \in 1..(Len(q) - 1) : Without(q, i)[j] = q[IF j < i THEN j ELSE j + 1]
  BY DEF Without
<1>4. CASE k < i
  <2>1. k \in 1..(Len(q) - 1) /\ Without(q, i)[k] = q[k]
    BY <1>1, <1>3, <1>4
  <2> QED BY <1>2, <2>1
<1>5. CASE i < k
  <2>1. k - 1 \in 1..(Len(q) - 1) /\ ~(k - 1 < i) /\ (k - 1) + 1 = k
    BY <1>1, <1>5
  <2>2. Without(q, i)[k - 1] = q[k]
    BY <1>3, <2>1
  <2> QED BY <1>2, <2>1, <2>2
<1> QED BY <1>1, <1>4, <1>5

\* A waiter of the type is there, so there is a first one.
LEMMA FirstWaiter ==
    ASSUME TypeOK, NEW t, Awaited(t) PROVE WaiterFor(t) # {}
<1> DEFINE T == {i \in Nat : i \in 1..Len(waiters) /\ waiters[i].type = t}
<1>1. Len(waiters) \in Nat
  BY DEF TypeOK
<1>2. T \subseteq Nat /\ T # {}
  BY <1>1 DEF Awaited
<1>3. PICK i \in T : \A j \in T : ~(<<j, i>> \in OpToRel(<, Nat))
  BY <1>2, NatLessThanWellFounded, WFMin
<1>4. \A j \in T : ~(j < i)
  BY <1>2, <1>3 DEF OpToRel
<1>5. \A j \in 1..(i - 1) : waiters[j].type # t
  BY <1>1, <1>4
<1> QED BY <1>5 DEF WaiterFor

-----------------------------------------------------------------------------
(***************************************************************************)
(* What the frames will make of the page.                                  *)
(***************************************************************************)

\* With nothing under way the page shows it already.
LEMMA EndsEmpty ==
    ASSUME NEW w, NEW B, NEW v, Ends(w, <<>>, B, v) PROVE v \in B
BY DEF Ends

\* The page takes the first frame.
LEMMA EndsTail ==
    ASSUME NEW w, NEW S \in Seq(Frames), S # <<>>, NEW B, NEW C, NEW v, Ends(w, S, B, v),
           IF Sets(w, Head(S)) THEN Val(w, Head(S)) \in C ELSE B \subseteq C
    PROVE  Ends(w, Tail(S), C, v)
<1> DEFINE T == Tail(S)
<1>1. /\ Len(T) = Len(S) - 1 /\ Len(S) \in Nat \ {0} /\ Head(S) = S[1] /\ 1 \in 1..Len(S)
      /\ \A i \in 1..Len(T) : T[i] = S[i + 1] /\ i + 1 \in 1..Len(S)
      /\ \A i \in 1..Len(S) : i = 1 \/ (i - 1 \in 1..Len(T) /\ T[i - 1] = S[i])
  BY SeqTail
<1> HIDE DEF T
<1>2. CASE v \in B /\ Silent(w, S)
  <2>1. Silent(w, T) /\ ~Sets(w, Head(S))
    BY <1>1, <1>2 DEF Silent
  <2> QED BY <1>2, <2>1 DEF Ends, T
<1>3. ASSUME NEW k \in 1..Len(S), Sets(w, S[k]), Val(w, S[k]) = v,
             \A j \in 1..Len(S) : k < j => ~Sets(w, S[j])
      PROVE  Ends(w, T, C, v)
  <2>1. CASE k = 1
    <3>1. Silent(w, T)
      BY <1>1, <1>3, <2>1 DEF Silent
    <3> QED BY <1>1, <1>3, <2>1, <3>1 DEF Ends
  <2>2. CASE k # 1
    <3>1. k - 1 \in 1..Len(T) /\ T[k - 1] = S[k]
      BY <1>1, <2>2
    <3>2. \A j \in 1..Len(T) : k - 1 < j => ~Sets(w, T[j])
      BY <1>1, <1>3
    <3> QED BY <1>3, <3>1, <3>2 DEF Ends
  <2> QED BY <2>1, <2>2
<1> QED BY <1>2, <1>3 DEF Ends, T

\* A frame is sent after S: one that sets nothing changes nothing, one that does
\* decides.
LEMMA EndsAppend ==
    ASSUME NEW w, NEW S \in Seq(Frames), NEW f \in Frames, NEW B, NEW v,
           IF Sets(w, f) THEN Val(w, f) = v ELSE Ends(w, S, B, v)
    PROVE  Ends(w, Append(S, f), B, v)
<1> DEFINE T == Append(S, f)
<1>1. /\ Len(T) = Len(S) + 1 /\ Len(S) \in Nat /\ T[Len(S) + 1] = f /\ Len(S) + 1 \in 1..Len(T)
      /\ \A i \in 1..Len(S) : T[i] = S[i] /\ i \in 1..Len(T)
      /\ \A i \in 1..Len(T) : i \in 1..Len(S) \/ i = Len(S) + 1
  BY SeqAppend
<1> HIDE DEF T
<1>2. CASE Sets(w, f)
  <2>1. Sets(w, T[Len(S) + 1]) /\ Val(w, T[Len(S) + 1]) = v
    BY <1>1, <1>2
  <2>2. \A j \in 1..Len(T) : ~(Len(S) + 1 < j)
    BY <1>1
  <2> QED BY <1>1, <2>1, <2>2 DEF Ends, T
<1>3. CASE ~Sets(w, f) /\ v \in B /\ Silent(w, S)
  <2>1. Silent(w, T)
    BY <1>1, <1>3 DEF Silent
  <2> QED BY <1>3, <2>1 DEF Ends, T
<1>4. ASSUME ~Sets(w, f), NEW k \in 1..Len(S), Sets(w, S[k]), Val(w, S[k]) = v,
             \A j \in 1..Len(S) : k < j => ~Sets(w, S[j])
      PROVE  Ends(w, T, B, v)
  <2>1. k \in 1..Len(T) /\ Sets(w, T[k]) /\ Val(w, T[k]) = v
    BY <1>1, <1>4
  <2>2. \A j \in 1..Len(T) : k < j => ~Sets(w, T[j])
    BY <1>1, <1>4
  <2> QED BY <2>1, <2>2 DEF Ends
<1> QED BY <1>2, <1>3, <1>4 DEF Ends, T

\* The last frame that sets it says what it ends with.
LEMMA EndsLast ==
    ASSUME NEW w, NEW S \in Seq(Frames), NEW B, NEW v, Ends(w, S, B, v), NEW k \in 1..Len(S), Sets(w, S[k]),
           \A j \in 1..Len(S) : k < j => ~Sets(w, S[j])
    PROVE  Val(w, S[k]) = v
<1>1. PICK i \in 1..Len(S) :
        /\ Sets(w, S[i]) /\ Val(w, S[i]) = v
        /\ \A j \in 1..Len(S) : i < j => ~Sets(w, S[j])
  BY DEF Ends, Silent
<1>2. i = k
  BY <1>1
<1> QED BY <1>1, <1>2

\* It ends with what is shown when no frame sets it.
LEMMA EndsSilent ==
    ASSUME NEW w, NEW S, NEW B, NEW v, Ends(w, S, B, v), Silent(w, S) PROVE v \in B
BY DEF Ends, Silent

-----------------------------------------------------------------------------
(***************************************************************************)
(* Types, waiters and the task.                                            *)
(***************************************************************************)
BInv == TypeOK /\ Offline /\ Online /\ Busy

\* What a page holds.
PageOK ==
    /\ hold \in BOOLEAN /\ loaded \in BOOLEAN /\ strayed \in BOOLEAN
    /\ user \in Users /\ room \in Room /\ transcript \subseteq Chat /\ held \subseteq Chat
    /\ task \in [type : Type, room : Room, stage : {"none", "reply", "history"}]

\* A request.
LEMMA RequestTyped ==
    ASSUME NEW t \in Type, NEW r \in Room
    PROVE  Request(t, r) \in Packets /\ Request(t, r).type = t /\ Request(t, r).room = r
BY DEF Request, Packets

\* A reply.
LEMMA ReplyTyped ==
    ASSUME NEW t \in Type, NEW ok \in BOOLEAN, NEW r \in Room, NEW c \in SUBSET Chat
    PROVE  LET f == Reply(t, ok, r, c)
           IN f \in Frames /\ f.kind = "reply" /\ f.type = t /\ f.ok = ok /\ f.room = r /\ f.chat = c
BY DEF Reply, Frames

\* A frame the server pushes.
LEMMA PushTyped ==
    ASSUME NEW k \in {"welcome", "lobby", "chat"}, NEW r \in Room, NEW c \in SUBSET Chat
    PROVE  LET f == Push(k, r, c)
           IN f \in Frames /\ f.kind = k /\ f.room = r /\ f.chat = c
BY DEF Push, NoReply, Frames, Room, Type

\* A waiter.
LEMMA WaiterTyped ==
    ASSUME NEW t \in Type, NEW by \in {"task", "resume"}
    PROVE  Waiter(t, by) \in Waiters /\ Waiter(t, by).type = t /\ Waiter(t, by).by = by
BY DEF Waiter, Waiters

\* No reply, no task and no session.
LEMMA NoneTyped ==
    /\ NoReply \in Frames /\ NoReply.ok = FALSE /\ NoReply.chat = {}
    /\ NoTask \in [type : Type, room : Room, stage : {"none", "reply", "history"}]
    /\ NoTask.type = "OTHER" /\ NoTask.stage = "none"
    /\ NoSession \in [user : Users, room : Room] /\ NoSession.user = "none" /\ NoSession.room = Lobby
    /\ Lobby \in Room
<1>1. Lobby \in Room /\ "OTHER" \in Type
  BY DEF Room, Type
<1> QED BY <1>1 DEF NoReply, Frames, NoTask, NoSession, Users

\* A waiter fewer.
LEMMA OneWaiterLess ==
    ASSUME TypeOK, Busy, NEW i \in 1..Len(waiters), waiters' = Without(waiters, i),
           \/ task' = task
           \/ waiters[i].by = "task" /\ task' = NoTask,
           hold' = (task'.stage = "history")
    PROVE  waiters' \in Seq(Waiters) /\ Busy'
<1>1. waiters \in Seq(Waiters)
  BY DEF TypeOK
<1>2. /\ waiters' \in Seq(Waiters) /\ Len(waiters') = Len(waiters) - 1
      /\ \A j \in 1..Len(waiters') :
            LET k == IF j < i THEN j ELSE j + 1
            IN waiters'[j] = waiters[k] /\ k \in 1..Len(waiters) /\ k # i
  BY <1>1, SeqWithout
<1>3. \A j \in 1..Len(waiters') : waiters'[j].by = "resume" <=> waiters'[j].type = "RECONNECT"
  BY <1>2 DEF Busy
<1>4. ASSUME NEW j \in 1..Len(waiters'), NEW k \in 1..Len(waiters'),
             waiters'[j].by = "task", waiters'[k].by = "task"
      PROVE  j = k
  <2>1. (IF j < i THEN j ELSE j + 1) = (IF k < i THEN k ELSE k + 1)
    BY <1>2, <1>4 DEF Busy
  <2>2. j \in Nat /\ k \in Nat /\ i \in Nat
    OBVIOUS
  <2> QED BY <2>1, <2>2
<1>5. CASE task' = task
  <2>1. \A j \in 1..Len(waiters') : waiters'[j].by = "task" =>
            waiters'[j].type = IF task'.stage = "history" THEN "HISTORY" ELSE task'.type
    BY <1>2, <1>5 DEF Busy
  <2>2. task' # NoTask \/ \A j \in 1..Len(waiters') : waiters'[j].by = "resume"
    BY <1>2, <1>5 DEF Busy
  <2>3. task'.type \notin {"HISTORY", "RECONNECT"}
    BY <1>5 DEF Busy
  <2> QED BY <1>2, <1>3, <1>4, <2>1, <2>2, <2>3 DEF Busy
<1>6. CASE waiters[i].by = "task" /\ task' = NoTask
  <2>1. \A j \in 1..Len(waiters') : waiters'[j].by # "task" /\ waiters'[j] \in Waiters
    BY <1>2, <1>6 DEF Busy
  <2>2. \A j \in 1..Len(waiters') : waiters'[j].by = "resume"
    BY <2>1 DEF Waiters
  <2> QED BY <1>2, <1>3, <1>4, <1>6, <2>1, <2>2, NoneTyped DEF Busy
<1> QED BY <1>2, <1>5, <1>6

\* A waiter for the task, which had none.
LEMMA OneWaiterMore ==
    ASSUME NEW q \in Seq(Waiters), NEW t \in Type, NEW by \in {"task", "resume"},
           by = "resume" <=> t = "RECONNECT",
           \A i \in 1..Len(q) : q[i].by = "resume" <=> q[i].type = "RECONNECT",
           by = "task" => \A i \in 1..Len(q) : q[i].by # "task",
           \A i, j \in 1..Len(q) : q[i].by = "task" /\ q[j].by = "task" => i = j,
           \A i \in 1..Len(q) : q[i].by = "task" =>
              q[i].type = IF task'.stage = "history" THEN "HISTORY" ELSE task'.type,
           by = "task" => t = (IF task'.stage = "history" THEN "HISTORY" ELSE task'.type),
           task' # NoTask \/ (by = "resume" /\ \A i \in 1..Len(q) : q[i].by = "resume"),
           task'.type \notin {"HISTORY", "RECONNECT"},
           hold' = (task'.stage = "history"),
           waiters' = Append(q, Waiter(t, by))
    PROVE  waiters' \in Seq(Waiters) /\ Busy'
<1>1. Waiter(t, by) \in Waiters /\ Waiter(t, by).type = t /\ Waiter(t, by).by = by
  BY WaiterTyped
<1>2. /\ waiters' \in Seq(Waiters) /\ waiters'[Len(q) + 1] = Waiter(t, by)
      /\ \A i \in 1..Len(q) : waiters'[i] = q[i]
      /\ \A i \in 1..Len(waiters') : i \in 1..Len(q) \/ i = Len(q) + 1
  BY <1>1, SeqAppend
<1>3. \A i \in 1..Len(waiters') : waiters'[i].by = "resume" <=> waiters'[i].type = "RECONNECT"
  BY <1>1, <1>2
<1>4. \A i, j \in 1..Len(waiters') : waiters'[i].by = "task" /\ waiters'[j].by = "task" => i = j
  BY <1>1, <1>2
<1>5. \A i \in 1..Len(waiters') : waiters'[i].by = "task" =>
          waiters'[i].type = IF task'.stage = "history" THEN "HISTORY" ELSE task'.type
  BY <1>1, <1>2
<1>6. task' # NoTask \/ \A i \in 1..Len(waiters') : waiters'[i].by = "resume"
  BY <1>1, <1>2
<1> QED BY <1>2, <1>3, <1>4, <1>5, <1>6 DEF Busy

\* What finishing a waiter leads to, for a reply of its type or none.
LEMMA FinishBasic ==
    ASSUME TypeOK, Busy, NEW i \in 1..Len(waiters), NEW f \in Frames, Finish(i, f),
           f.ok => f.type = waiters[i].type
    PROVE  /\ PageOK' /\ waiters' \in Seq(Waiters) /\ Busy'
           /\ up' = up \/ (f.ok /\ up' = Append(up, Request("HISTORY", room')))
<1>0. /\ waiters \in Seq(Waiters) /\ waiters[i] \in Waiters
      /\ [j \in 1..(Len(waiters) - 1) |-> waiters[IF j < i THEN j ELSE j + 1]] = Without(waiters, i)
  BY DEF TypeOK, Without
<1>1. CASE waiters[i].by = "resume"
  <2>1. Resumed(f) /\ waiters' = Without(waiters, i) /\ up' = up
    BY <1>0, <1>1 DEF Finish
  <2>2. PageOK' /\ task' = task /\ hold' = (task'.stage = "history")
    BY <2>1 DEF Resumed, TypeOK, PageOK, Busy, Users, Frames
  <2> QED BY <2>1, <2>2, OneWaiterLess
<1>2. CASE waiters[i].by # "resume" /\ task.stage = "history"
  <2>1. ShowHistory(f) /\ waiters' = Without(waiters, i) /\ up' = up
    BY <1>0, <1>2 DEF Finish
  <2>2. PageOK' /\ task' = NoTask /\ hold' = (task'.stage = "history")
    BY <2>1, NoneTyped DEF ShowHistory, TypeOK, PageOK, Frames
  <2>3. waiters[i].by = "task"
    BY <1>0, <1>2 DEF Waiters
  <2> QED BY <2>1, <2>2, <2>3, OneWaiterLess
<1>3. CASE waiters[i].by # "resume" /\ task.stage # "history" /\ (~f.ok \/ task.type = "OTHER")
  <2>1. GiveUp /\ waiters' = Without(waiters, i) /\ up' = up
    BY <1>0, <1>3 DEF Finish
  <2>2. PageOK' /\ task' = NoTask /\ hold' = (task'.stage = "history")
    BY <1>3, <2>1, NoneTyped DEF GiveUp, TypeOK, PageOK, Busy
  <2>3. waiters[i].by = "task"
    BY <1>0, <1>3 DEF Waiters
  <2> QED BY <2>1, <2>2, <2>3, OneWaiterLess
<1>4. CASE waiters[i].by # "resume" /\ task.stage # "history" /\ ~(~f.ok \/ task.type = "OTHER")
  <2>1. /\ Advance(f) /\ waiters' = Append(Without(waiters, i), Waiter("HISTORY", "task"))
        /\ up' = Append(up, Request("HISTORY", room')) /\ f.ok
    BY <1>0, <1>4 DEF Finish, Frames
  <2>2. waiters[i].by = "task" /\ task \in [type : Type, room : Room, stage : {"none", "reply", "history"}]
    BY <1>0, <1>4 DEF Waiters, TypeOK
  <2>3. /\ task'.type = task.type /\ task'.stage = "history"
        /\ task' \in [type : Type, room : Room, stage : {"none", "reply", "history"}]
        /\ hold' = TRUE /\ task' # NoTask
    <3>1. task' = [task EXCEPT !.stage = "history"] /\ hold' = TRUE
      BY <2>1 DEF Advance
    <3>2. /\ task'.type = task.type /\ task'.stage = "history"
          /\ task' \in [type : Type, room : Room, stage : {"none", "reply", "history"}]
      BY <2>2, <3>1
    <3> QED BY <3>1, <3>2, NoneTyped
  <2>4. PageOK'
    <3>1. user' \in {"account", "guest", user} /\ room' \in {f.room, Lobby}
      BY <2>1 DEF Advance
    <3>2. strayed' = FALSE /\ transcript' = {} /\ held' = {} /\ loaded' = loaded
      BY <2>1 DEF Advance
    <3>3. user' \in Users /\ room' \in Room
      BY <3>1, NoneTyped DEF TypeOK, Frames, Users
    <3> QED BY <2>3, <3>2, <3>3 DEF TypeOK, PageOK
  <2>5. PICK q \in Seq(Waiters) : q = Without(waiters, i)
    BY <1>0, SeqWithout
  <2>6. \A j \in 1..Len(q) : q[j].by # "task" /\ (q[j].by = "resume" <=> q[j].type = "RECONNECT")
    <3>1. \A j \in 1..Len(q) : \E k \in 1..Len(waiters) : k # i /\ q[j] = waiters[k]
      BY <1>0, <2>5, SeqWithout
    <3> QED BY <2>2, <3>1 DEF Busy
  <2>7. waiters' \in Seq(Waiters) /\ Busy'
    BY <2>1, <2>3, <2>5, <2>6, OneWaiterMore DEF Busy, Type
  <2> QED BY <2>1, <2>4, <2>7
<1> QED BY <1>1, <1>2, <1>3, <1>4

\* A frame is sent to the page: the welcome only when nothing is under way.
LEMMA FrameSent ==
    ASSUME BInv, NEW f \in Frames, down' = Append(down, f), f.kind # "welcome"
    PROVE  /\ down' \in Seq(Frames)
           /\ \A k \in 1..Len(down') : down'[k].kind = "welcome" => k = 1
BY SeqAppend DEF BInv, TypeOK, Online

\* The socket is opened, or the page is left alone.
LEMMA SocketStep ==
    ASSUME BInv, OpenSocket, watched' \in BOOLEAN, retry' \in BOOLEAN,
           UNCHANGED <<page, waiters, limits, server, up, down, late>>
    PROVE  BInv'
<1>1. /\ sock' \in {"closed", "connecting", "open"} /\ (sock' = "open" <=> sock = "open")
      /\ UNCHANGED <<user, room, transcript, hold, held, task, loaded, strayed, waiters, requests, chats,
                     drops, srv, owed, saved, up, down, late>>
  BY DEF OpenSocket, BInv, TypeOK, page, limits, server
<1> QED BY <1>1 DEF BInv, TypeOK, Offline, Online, Busy

\* The connection is gone.
LEMMA ClosedStep ==
    ASSUME BInv, sock' = "closed", PageOK', waiters' \in Seq(Waiters), Busy',
           watched' \in BOOLEAN, retry' \in BOOLEAN, drops' = drops + 1,
           UNCHANGED <<requests, chats, saved, late>>,
           srv' = NoSession, owed' = <<>>, up' = <<>>, down' = <<>>
    PROVE  BInv'
<1>1. /\ <<>> \in Seq(Frames) /\ <<>> \in Seq(Packets) /\ Len(<<>>) = 0
      /\ NoSession \in [user : Users, room : Room]
  BY NoneTyped
<1>2. TypeOK'
  BY <1>1 DEF BInv, TypeOK, PageOK
<1>3. Offline' /\ Online'
  BY <1>1 DEF Offline, Online
<1> QED BY <1>2, <1>3 DEF BInv

\* The page goes with the last listener; its waiters stay.
LEMMA UnwatchBasic ==
    ASSUME BInv, Unwatch PROVE BInv'
<1>1. /\ sock' = "closed" /\ drops' = drops + 1 /\ watched' = FALSE
      /\ srv' = NoSession /\ owed' = <<>> /\ up' = <<>> /\ down' = <<>>
      /\ UNCHANGED <<retry, user, room, transcript, hold, held, task, loaded, strayed, waiters, requests,
                     chats, saved, late>>
  BY DEF Unwatch, page
<1>2. PageOK' /\ waiters' \in Seq(Waiters) /\ Busy' /\ retry' \in BOOLEAN
  BY <1>1 DEF BInv, TypeOK, PageOK, Busy
<1> QED BY <1>1, <1>2, ClosedStep

\* The connection is lost; the task ends.
LEMMA OnCloseBasic ==
    ASSUME BInv, OnClose PROVE BInv'
<1>1. /\ sock' = "closed" /\ drops' = drops + 1 /\ watched' = watched /\ retry' = (retry \/ watched)
      /\ srv' = NoSession /\ owed' = <<>> /\ up' = <<>> /\ down' = <<>> /\ waiters' = <<>>
      /\ UNCHANGED <<requests, chats, saved, late>>
  BY DEF OnClose
<1>2. PageOK' /\ task' = NoTask /\ hold' = FALSE
  <2>1. CASE task.stage = "history"
    <3>1. ShowHistory(NoReply)
      BY <2>1 DEF OnClose
    <3> QED BY <3>1, NoneTyped DEF ShowHistory, BInv, TypeOK, PageOK
  <2>2. CASE task.stage # "history"
    <3>1. GiveUp
      BY <2>2 DEF OnClose
    <3> QED BY <2>2, <3>1, NoneTyped DEF GiveUp, BInv, TypeOK, PageOK, Busy
  <2> QED BY <2>1, <2>2
<1>3. waiters' \in Seq(Waiters) /\ Busy'
  <2>1. <<>> \in Seq(Waiters) /\ Len(<<>>) = 0
    OBVIOUS
  <2> QED BY <1>1, <1>2, <2>1, NoneTyped DEF Busy
<1>4. watched' \in BOOLEAN /\ retry' \in BOOLEAN
  BY <1>1 DEF BInv, TypeOK
<1> QED BY <1>1, <1>2, <1>3, <1>4, ClosedStep

\* A waiter of resumeSignedIn is added.
LEMMA ResumeAsked ==
    ASSUME BInv, NEW r \in Room, Ask("RECONNECT", r, "resume"), task' = task, hold' = hold
    PROVE  waiters' \in Seq(Waiters) /\ Busy'
<1>1. waiters' = Append(waiters, Waiter("RECONNECT", "resume")) /\ "RECONNECT" \in Type
  BY DEF Ask, Type
<1>2. waiters \in Seq(Waiters) /\ hold \in BOOLEAN
  BY DEF BInv, TypeOK
<1>3. /\ \A i \in 1..Len(waiters) : waiters[i].by = "resume" <=> waiters[i].type = "RECONNECT"
      /\ \A i, j \in 1..Len(waiters) : waiters[i].by = "task" /\ waiters[j].by = "task" => i = j
      /\ \A i \in 1..Len(waiters) : waiters[i].by = "task" =>
            waiters[i].type = IF task'.stage = "history" THEN "HISTORY" ELSE task'.type
      /\ task' # NoTask \/ \A i \in 1..Len(waiters) : waiters[i].by = "resume"
      /\ task'.type \notin {"HISTORY", "RECONNECT"}
  BY DEF BInv, Busy
<1>4. hold' = (task'.stage = "history")
  BY <1>2 DEF BInv, Busy
<1> QED BY <1>1, <1>2, <1>3, <1>4, OneWaiterMore

\* A connection begins with the welcome.
LEMMA OnOpenBasic ==
    ASSUME BInv, OnOpen PROVE BInv'
<1>1. /\ sock = "connecting" /\ sock' = "open" /\ owed' = <<>> /\ late' = FALSE
      /\ srv' = [user |-> "guest", room |-> Lobby] /\ down' = <<Push("welcome", Lobby, {})>>
      /\ UNCHANGED <<watched, retry, user, room, transcript, hold, held, task, loaded, strayed, requests,
                     chats, drops, saved>>
  BY DEF OnOpen, page, limits
<1>2. up = <<>>
  BY <1>1 DEF BInv, Offline
<1>3. Push("welcome", Lobby, {}) \in Frames
  BY NoneTyped, PushTyped
<1>4. /\ down' \in Seq(Frames) /\ Len(down') = 1 /\ owed' \in Seq(Frames) /\ Len(owed') = 0
      /\ srv' \in [user : Users, room : Room] /\ srv'.user = "guest"
  BY <1>1, <1>3, NoneTyped DEF Users
<1>5. waiters' \in Seq(Waiters) /\ up' \in Seq(Packets) /\ Busy'
  <2>1. CASE user = "account"
    <3>1. Ask("RECONNECT", room, "resume") /\ room \in Room /\ "RECONNECT" \in Type
      BY <2>1 DEF OnOpen, BInv, TypeOK, Type
    <3>2. Request("RECONNECT", room) \in Packets
      BY <3>1, RequestTyped
    <3>3. up' \in Seq(Packets)
      BY <1>2, <3>1, <3>2, SeqAppend DEF Ask, BInv, TypeOK
    <3> QED BY <1>1, <3>1, <3>3, ResumeAsked
  <2>2. CASE user # "account"
    <3>1. UNCHANGED <<waiters, up>>
      BY <2>2 DEF OnOpen
    <3> QED BY <1>1, <3>1 DEF BInv, TypeOK, Busy
  <2> QED BY <2>1, <2>2
<1>6. TypeOK'
  <2>1. /\ late' \in BOOLEAN /\ sock' \in {"closed", "connecting", "open"}
        /\ UNCHANGED <<watched, retry, user, room, transcript, hold, held, task, loaded, strayed, requests,
                       chats, drops, saved>>
    BY <1>1
  <2>3. Len(owed') <= 1
    BY <1>4
  <2>2. owed' \in Seq(Frames) /\ down' \in Seq(Frames) /\ srv' \in [user : Users, room : Room]
    BY <1>4
  <2> QED BY <1>5, <2>1, <2>2, <2>3 DEF BInv, TypeOK
<1>7. Offline' /\ Online'
  BY <1>1, <1>4 DEF Offline, Online
<1> QED BY <1>5, <1>6, <1>7 DEF BInv

\* A click begins the task and its first waiter.
LEMMA ClickBasic ==
    ASSUME BInv, NEW t \in {"LOGIN", "LOGOUT", "ROOM_JOIN", "ROOM_LEAVE", "OTHER"}, NEW r \in Room,
           Click(t, r)
    PROVE  BInv'
<1>1. /\ task = NoTask /\ sock = "open" /\ task' = [type |-> t, room |-> r, stage |-> "reply"]
      /\ waiters' = Append(waiters, Waiter(t, "task")) /\ up' = Append(up, Request(t, r))
      /\ requests' = requests + 1 /\ t \in Type
      /\ UNCHANGED <<watched, sock, retry, user, room, transcript, hold, held, loaded, strayed,
                     chats, drops, srv, owed, saved, down, late>>
  BY DEF Click, Ask, server, Type
<1>2. /\ task' \in [type : Type, room : Room, stage : {"none", "reply", "history"}]
      /\ task'.type = t /\ task'.stage = "reply" /\ task' # NoTask
  BY <1>1, NoneTyped
<1>3. waiters \in Seq(Waiters) /\ \A i \in 1..Len(waiters) : waiters[i].by = "resume" /\ waiters[i].by # "task"
  BY <1>1 DEF BInv, TypeOK, Busy
<1>4. \A i \in 1..Len(waiters) : waiters[i].by = "resume" <=> waiters[i].type = "RECONNECT"
  BY DEF BInv, Busy
<1>5. hold' = (task'.stage = "history")
  BY <1>1, <1>2, NoneTyped DEF BInv, Busy, TypeOK
<1>6. waiters' \in Seq(Waiters) /\ Busy'
  BY <1>1, <1>2, <1>3, <1>4, <1>5, OneWaiterMore
<1>7. up' \in Seq(Packets)
  BY <1>1, RequestTyped, SeqAppend DEF BInv, TypeOK
<1>8. TypeOK'
  BY <1>1, <1>2, <1>6, <1>7 DEF BInv, TypeOK
<1>9. Offline' /\ Online'
  BY <1>1 DEF BInv, Offline, Online
<1> QED BY <1>6, <1>8, <1>9 DEF BInv

\* A timer runs out.
LEMMA TimeoutBasic ==
    ASSUME BInv, NEW i \in 1..Len(waiters), Timeout(i) PROVE BInv'
<1>1. /\ Finish(i, NoReply) /\ late' = TRUE
      /\ UNCHANGED <<watched, sock, retry, requests, chats, drops, srv, owed, saved, down>>
  BY DEF Timeout, limits, server
<1>2. PageOK' /\ waiters' \in Seq(Waiters) /\ Busy' /\ up' = up
  BY <1>1, NoneTyped, FinishBasic DEF BInv
<1>3. TypeOK'
  BY <1>1, <1>2 DEF BInv, TypeOK, PageOK
<1>4. Offline' /\ Online'
  BY <1>1, <1>2 DEF BInv, Offline, Online
<1> QED BY <1>2, <1>3, <1>4 DEF BInv

\* The page takes a frame.
LEMMA OnFrameBasic ==
    ASSUME BInv, OnFrame PROVE BInv'
<1>1. /\ sock = "open" /\ down # <<>> /\ down' = Tail(down)
      /\ UNCHANGED <<watched, sock, retry, requests, chats, drops, srv, owed, saved, late>>
  BY DEF OnFrame, limits, server
<1>2. PICK f \in Frames : f = Head(down)
  BY <1>1, SeqTail DEF BInv, TypeOK
<1>3. down' \in Seq(Frames) /\ \A k \in 1..Len(down') : down'[k].kind # "welcome"
  BY <1>1, SeqTail DEF BInv, TypeOK, Online
<1>4. PageOK' /\ waiters' \in Seq(Waiters) /\ Busy' /\ up' \in Seq(Packets)
  <2>1. CASE f.kind = "welcome" /\ Welcome /\ UNCHANGED <<waiters, up>>
    BY <2>1, NoneTyped DEF Welcome, BInv, TypeOK, PageOK, Busy, Users
  <2>2. CASE f.kind = "lobby" /\ ToLobby /\ UNCHANGED <<waiters, up>>
    BY <2>2, NoneTyped DEF ToLobby, BInv, TypeOK, PageOK, Busy
  <2>3. CASE f.kind = "chat" /\ EnqueueChat(f) /\ UNCHANGED <<waiters, up>>
    BY <2>3 DEF EnqueueChat, BInv, TypeOK, PageOK, Busy, Frames
  <2>4. ASSUME NEW i \in WaiterFor(f.type), Finish(i, f)
        PROVE  PageOK' /\ waiters' \in Seq(Waiters) /\ Busy' /\ up' \in Seq(Packets)
    <3>1. i \in 1..Len(waiters) /\ waiters[i].type = f.type
      BY <2>4 DEF WaiterFor
    <3>2. /\ PageOK' /\ waiters' \in Seq(Waiters) /\ Busy'
          /\ up' = up \/ (f.ok /\ up' = Append(up, Request("HISTORY", room')))
      BY <2>4, <3>1, FinishBasic DEF BInv
    <3>3. PICK h \in Packets : h = Request("HISTORY", room')
      BY <3>2, RequestTyped DEF PageOK, Type
    <3>4. up \in Seq(Packets) /\ Append(up, h) \in Seq(Packets)
      BY <3>3, SeqAppend DEF BInv, TypeOK
    <3> QED BY <3>2, <3>3, <3>4
  <2>5. CASE UNCHANGED <<page, waiters, up>>
    BY <2>5 DEF page, BInv, TypeOK, PageOK, Busy
  <2> QED BY <1>2, <2>1, <2>2, <2>3, <2>4, <2>5 DEF OnFrame
<1>5. TypeOK'
  BY <1>1, <1>3, <1>4 DEF BInv, TypeOK, PageOK
<1>6. Offline' /\ Online'
  BY <1>1, <1>3 DEF BInv, Offline, Online
<1> QED BY <1>4, <1>5, <1>6 DEF BInv

\* The server takes a request.
LEMMA HandleBasic ==
    ASSUME BInv, NEW ok \in BOOLEAN, Handle(ok) PROVE BInv'
<1>1. /\ sock = "open" /\ owed = <<>> /\ up # <<>> /\ up' = Tail(up)
      /\ UNCHANGED <<watched, sock, retry, user, room, transcript, hold, held, task, loaded, strayed,
                     waiters, requests, chats, drops, saved, down, late>>
  BY DEF Handle, page, limits
<1>2. PICK q \in Packets : q = Head(up)
  BY <1>1, SeqTail DEF BInv, TypeOK
<1>3. up' \in Seq(Packets)
  BY <1>1, SeqTail DEF BInv, TypeOK
<1>4. PICK done \in BOOLEAN, c \in SUBSET Chat : owed' = <<Reply(q.type, done, q.room, c)>>
  <2>1. saved[q.room] \in SUBSET Chat
    BY DEF BInv, TypeOK, Packets
  <2> QED BY <1>2, <2>1 DEF Handle
<1>5. owed' \in Seq(Frames) /\ Len(owed') = 1 /\ owed'[1].kind = "reply"
  <2>1. PICK f \in Frames : f = Reply(q.type, done, q.room, c) /\ f.kind = "reply"
    BY ReplyTyped DEF Packets
  <2> QED BY <1>4, <2>1
<1>6. srv' \in [user : Users, room : Room] /\ srv'.user # "none"
  <2>1. srv \in [user : Users, room : Room] /\ srv.user # "none" /\ q.room \in Room /\ Lobby \in Room
    BY <1>1, NoneTyped DEF BInv, TypeOK, Online, Packets
  <2>2. \/ srv' = srv
        \/ \E u \in {"account", "guest", srv.user}, r \in {q.room, Lobby} : srv' = [user |-> u, room |-> r]
    BY <1>2 DEF Handle
  <2> QED BY <2>1, <2>2 DEF Users
<1>7. TypeOK'
  BY <1>1, <1>3, <1>5, <1>6 DEF BInv, TypeOK
<1>8. Offline' /\ Online' /\ Busy'
  BY <1>1, <1>5, <1>6 DEF BInv, Offline, Online, Busy
<1> QED BY <1>7, <1>8 DEF BInv

\* The server answers, writes or kicks.
LEMMA PushBasic ==
    ASSUME BInv, Answer \/ Kick \/ \E r \in Room : ChatIn(r) PROVE BInv'
<1>1. /\ UNCHANGED <<watched, sock, retry, user, room, transcript, hold, held, task, loaded, strayed,
                     waiters, requests, up>>
      /\ owed' = owed \/ owed' = <<>>
  BY DEF Answer, Kick, ChatIn, page, limits
<1>2. /\ \A k \in {"lobby", "chat"}, r \in Room, c \in SUBSET Chat :
            Push(k, r, c) \in Frames /\ Push(k, r, c).kind # "welcome"
      /\ Lobby \in Room
  BY PushTyped, NoneTyped
<1>3. /\ down' \in Seq(Frames) /\ (\A k \in 1..Len(down') : down'[k].kind = "welcome" => k = 1)
      /\ (sock # "open" => down' = down)
  <2>1. CASE Answer
    <3>1. PICK f \in Frames : f = owed[1] /\ f.kind = "reply" /\ down' = Append(down, f) /\ sock = "open"
      BY <2>1 DEF Answer, BInv, TypeOK, Online
    <3> QED BY <3>1, FrameSent
  <2>2. CASE Kick
    <3>1. PICK f \in Frames : f.kind # "welcome" /\ down' = Append(down, f)
      BY <1>2, <2>2 DEF Kick
    <3>2. sock = "open"
      BY <2>2, NoneTyped DEF Kick, BInv, Offline
    <3> QED BY <3>1, <3>2, FrameSent
  <2>3. ASSUME NEW r \in Room, ChatIn(r)
        PROVE  /\ down' \in Seq(Frames) /\ (\A k \in 1..Len(down') : down'[k].kind = "welcome" => k = 1)
               /\ (sock # "open" => down' = down)
    <3>1. {chats + 1} \in SUBSET Chat
      BY <2>3, BoundAssumption DEF ChatIn, BInv, TypeOK, Chat
    <3>2. down' = down \/ (srv # NoSession /\ \E f \in Frames : f.kind # "welcome" /\ down' = Append(down, f))
      BY <1>2, <2>3, <3>1 DEF ChatIn
    <3>3. srv # NoSession => sock = "open"
      BY DEF BInv, Offline
    <3> QED BY <3>2, <3>3, FrameSent DEF BInv, TypeOK, Online
  <2> QED BY <2>1, <2>2, <2>3
<1>4. /\ srv' \in [user : Users, room : Room] /\ srv'.user = srv.user /\ (sock # "open" => srv' = srv)
      /\ saved' \in [Room -> SUBSET Chat] /\ chats' \in Nat /\ drops' \in Nat /\ late' \in BOOLEAN
  <2>1. CASE Answer
    BY <2>1 DEF Answer, limits, BInv, TypeOK
  <2>2. CASE Kick
    <3>1. srv # NoSession
      BY <2>2, NoneTyped DEF Kick
    <3>2. sock = "open"
      BY <3>1 DEF BInv, Offline
    <3>3. srv' \in [user : Users, room : Room] /\ srv'.user = srv.user
      BY <1>2, <2>2 DEF Kick, BInv, TypeOK
    <3>4. saved' = saved /\ chats' = chats /\ drops' = drops + 1 /\ late' \in BOOLEAN
      BY <2>2 DEF Kick
    <3> QED BY <3>2, <3>3, <3>4 DEF BInv, TypeOK
  <2>3. ASSUME NEW r \in Room, ChatIn(r)
        PROVE  /\ srv' = srv
               /\ saved' \in [Room -> SUBSET Chat] /\ chats' \in Nat /\ drops' \in Nat /\ late' \in BOOLEAN
    <3>1. chats + 1 \in Chat
      BY <2>3, BoundAssumption DEF ChatIn, BInv, TypeOK, Chat
    <3> QED BY <2>3, <3>1 DEF ChatIn, BInv, TypeOK
  <2> QED BY <2>1, <2>2, <2>3 DEF BInv, TypeOK
<1>5. owed' \in Seq(Frames) /\ Len(owed') <= 1 /\ \A k \in 1..Len(owed') : owed'[k].kind = "reply"
  <2>1. <<>> \in Seq(Frames) /\ Len(<<>>) = 0
    OBVIOUS
  <2>2. owed \in Seq(Frames) /\ Len(owed) <= 1 /\ \A k \in 1..Len(owed) : owed[k].kind = "reply"
    BY DEF BInv, TypeOK, Online
  <2>3. CASE owed' = owed
    BY <2>2, <2>3
  <2>4. CASE owed' = <<>>
    BY <2>1, <2>4
  <2> QED BY <1>1, <2>3, <2>4
<1>6. TypeOK'
  BY <1>1, <1>3, <1>4, <1>5 DEF BInv, TypeOK
<1>7. Offline' /\ Online' /\ Busy'
  BY <1>1, <1>3, <1>4, <1>5 DEF BInv, Offline, Online, Busy
<1> QED BY <1>6, <1>7 DEF BInv

\* Every step keeps the types, and the order between socket, waiters and task.
LEMMA BasicStep ==
    ASSUME BInv, [Next]_vars PROVE BInv'
<1>1. CASE Watch \/ Retry
  <2>1. OpenSocket /\ UNCHANGED <<page, waiters, limits, server, up, down, late>>
    BY <1>1 DEF Watch, Retry
  <2>2. watched' \in BOOLEAN /\ retry' \in BOOLEAN
    BY <1>1 DEF Watch, Retry, BInv, TypeOK
  <2> QED BY <2>1, <2>2, SocketStep
<1>2. CASE Unwatch
  BY <1>2, UnwatchBasic
<1>3. CASE OnOpen
  BY <1>3, OnOpenBasic
<1>4. CASE OnClose
  BY <1>4, OnCloseBasic
<1>5. CASE OnFrame
  BY <1>5, OnFrameBasic
<1>6. ASSUME NEW t \in {"LOGIN", "LOGOUT", "ROOM_JOIN", "ROOM_LEAVE", "OTHER"}, NEW r \in Room,
             Click(t, r)
      PROVE  BInv'
  BY <1>6, ClickBasic
<1>7. ASSUME NEW i \in 1..Len(waiters), Timeout(i) PROVE BInv'
  BY <1>7, TimeoutBasic
<1>8. ASSUME NEW ok \in BOOLEAN, Handle(ok) PROVE BInv'
  BY <1>8, HandleBasic
<1>9. CASE Answer \/ Kick \/ \E r \in Room : ChatIn(r)
  BY <1>9, PushBasic
<1>10. CASE UNCHANGED vars
  <2>1. UNCHANGED <<watched, sock, retry, user, room, transcript, hold, held, task, loaded, strayed, waiters,
                    requests, chats, drops, srv, owed, saved, up, down, late>>
    BY <1>10 DEF vars, page, limits, server
  <2> QED BY <2>1 DEF BInv, TypeOK, Offline, Online, Busy
<1> QED BY <1>1, <1>2, <1>3, <1>4, <1>5, <1>6, <1>7, <1>8, <1>9, <1>10 DEF Next

\* A page that was just loaded.
LEMMA BasicInit ==
    ASSUME Init PROVE BInv
<1>1. /\ <<>> \in Seq(Waiters) /\ <<>> \in Seq(Frames) /\ <<>> \in Seq(Packets) /\ Len(<<>>) = 0
  OBVIOUS
<1>2. TypeOK
  <2>1. [r \in Room |-> {}] \in [Room -> SUBSET Chat]
    OBVIOUS
  <2>2. /\ sock = "closed" /\ user = "none" /\ room = Lobby /\ transcript = {} /\ held = {}
        /\ task = NoTask /\ waiters = <<>> /\ srv = NoSession /\ owed = <<>> /\ up = <<>> /\ down = <<>>
        /\ saved \in [Room -> SUBSET Chat]
        /\ watched \in BOOLEAN /\ retry \in BOOLEAN /\ hold \in BOOLEAN
        /\ loaded \in BOOLEAN /\ late \in BOOLEAN /\ strayed \in BOOLEAN
        /\ requests \in Nat /\ chats \in Nat /\ drops \in Nat
    BY <2>1 DEF Init
  <2>3. waiters \in Seq(Waiters) /\ owed \in Seq(Frames) /\ up \in Seq(Packets) /\ down \in Seq(Frames)
        /\ Len(owed) <= 1
    BY <1>1, <2>2
  <2>4. user \in Users /\ room \in Room /\ transcript \subseteq Chat /\ held \subseteq Chat
    BY <2>2, NoneTyped DEF Users
  <2>5. task \in [type : Type, room : Room, stage : {"none", "reply", "history"}] /\ srv \in [user : Users, room : Room]
    BY <2>2, NoneTyped
  <2> QED BY <2>2, <2>3, <2>4, <2>5 DEF TypeOK
<1> QED BY <1>1, <1>2, NoneTyped DEF Init, BInv, Offline, Online, Busy

-----------------------------------------------------------------------------
(***************************************************************************)
(* What is under way.                                                      *)
(***************************************************************************)

\* Of two requests of different types under way one is RECONNECT.
LEMMA OneTask ==
    ASSUME Orderly, BInv, NEW t, NEW q, NEW u, NEW r, Pending(t, q), Pending(u, r), t # u
    PROVE  t = "RECONNECT" \/ u = "RECONNECT"
<1>1. Len(up) \in Nat /\ Len(owed) \in Nat /\ Len(owed) <= 1 /\ Len(down) \in Nat
  BY DEF BInv, TypeOK
<1>2. CASE Asked(t, q) /\ Asked(u, r)
  <2>1. PICK i \in 1..Len(up), j \in 1..Len(up) : up[i].type = t /\ up[j].type = u
    BY <1>2 DEF Asked
  <2>2. i < j \/ j < i
    BY <1>1, <2>1
  <2> QED BY <2>1, <2>2 DEF Orderly, First
<1>3. CASE Owed(t, q) /\ Owed(u, r)
  BY <1>1, <1>3 DEF Owed
<1>4. CASE Replied(t, q) /\ Replied(u, r)
  <2>1. PICK i \in 1..Len(down), j \in 1..Len(down) :
          down[i].type = t /\ down[j].type = u /\ IsReply(down[i]) /\ IsReply(down[j])
    BY <1>4 DEF Replied
  <2>2. i < j \/ j < i
    BY <1>1, <2>1
  <2> QED BY <2>1, <2>2 DEF Orderly, First
<1>5. CASE (Asked(t, q) /\ Owed(u, r)) \/ (Asked(u, r) /\ Owed(t, q))
  BY <1>5 DEF Orderly, First, Asked, Owed
<1>6. CASE (Asked(t, q) /\ Replied(u, r)) \/ (Asked(u, r) /\ Replied(t, q))
  BY <1>6 DEF Orderly, First, Asked, Replied
<1>7. CASE (Owed(t, q) /\ Replied(u, r)) \/ (Owed(u, r) /\ Replied(t, q))
  BY <1>7 DEF Orderly, First, Owed, Replied
<1> QED BY <1>2, <1>3, <1>4, <1>5, <1>6, <1>7 DEF Pending

\* With a HISTORY under way, nothing else is.
LEMMA OnlyHistory ==
    ASSUME Orderly, BInv, Resuming, NEW q \in Room, Pending("HISTORY", q), NEW t, NEW r \in Room, Pending(t, r)
    PROVE  t = "HISTORY"
BY OneTask DEF Resuming

\* The page is holding messages back while a HISTORY is under way.
LEMMA HistoryHeld ==
    ASSUME BInv, Awaited("HISTORY") PROVE hold
<1>1. PICK i \in 1..Len(waiters) : waiters[i].type = "HISTORY"
  BY DEF Awaited
<1>2. waiters[i].by # "resume" /\ waiters[i] \in Waiters
  BY <1>1 DEF BInv, TypeOK, Busy
<1>3. waiters[i].by = "task"
  BY <1>2 DEF Waiters
<1> QED BY <1>1, <1>3 DEF BInv, Busy

\* The page takes the first frame.
LEMMA TakenFrame ==
    ASSUME BInv, NEW f \in Frames, down # <<>>, f = Head(down), down' = Tail(down), owed' = owed
    PROVE  /\ Orderly /\ up' = up => Orderly'
           /\ \A t \in Type, r \in Room : Replied(t, r)' => Replied(t, r)
           /\ AtRest => AtRest'
           /\ NoMove' /\ ~Sets("room", f) => NoMove
           /\ Fresh' /\ (f.kind # "welcome" => Fresh)
           /\ \A r, m : Told(r, m) => Told(r, m)' \/ (f.kind = "chat" /\ f.room = r /\ m \in f.chat)
           /\ \A m : InHistory(m) => InHistory(m)' \/ (IsReply(f) /\ f.type = "HISTORY" /\ m \in f.chat)
           /\ IsReply(f) => Replied(f.type, f.room)
           /\ f.type \in Type /\ f.room \in Room
<1>0. down \in Seq(Frames)
  BY DEF BInv, TypeOK
<1>1. /\ Len(down) \in Nat \ {0} /\ f = down[1] /\ 1 \in 1..Len(down)
      /\ \A i \in 1..Len(down') : down'[i] = down[i + 1] /\ i + 1 \in 1..Len(down)
      /\ \A i \in 1..Len(down) : i = 1 \/ (i - 1 \in 1..Len(down') /\ down'[i - 1] = down[i])
  BY <1>0, SeqTail
<1>2. ASSUME Orderly, up' = up PROVE Orderly'
  <2>1. \A i, j \in 1..Len(down') : i < j /\ IsReply(down'[i]) /\ IsReply(down'[j]) => First(down'[i], down'[j])
    BY <1>1, <1>2 DEF Orderly
  <2>2. \A i \in 1..Len(down'), j \in 1..Len(up') : IsReply(down'[i]) => First(down'[i], up'[j])
    BY <1>1, <1>2 DEF Orderly
  <2>3. \A i \in 1..Len(down'), j \in 1..Len(owed') : IsReply(down'[i]) => First(down'[i], owed'[j])
    BY <1>1, <1>2 DEF Orderly
  <2>4. \A i, j \in 1..Len(up') : i < j => First(up'[i], up'[j])
    BY <1>2 DEF Orderly
  <2>5. \A i \in 1..Len(owed'), j \in 1..Len(up') : First(owed'[i], up'[j])
    BY <1>2 DEF Orderly
  <2> QED BY <2>1, <2>2, <2>3, <2>4, <2>5 DEF Orderly, IsReply, First
<1>3. \A t \in Type, r \in Room : Replied(t, r)' => Replied(t, r)
  BY <1>1 DEF Replied, IsReply
<1>4. ASSUME AtRest PROVE AtRest'
  BY <1>1, <1>4 DEF AtRest, IsReply, Sets, Val
<1>5. ASSUME NoMove', ~Sets("room", f) PROVE NoMove
  <2>1. \A i \in 1..Len(down') : ~Sets("room", down'[i])
    BY <1>5 DEF NoMove, Silent, Sets
  <2>2. \A i \in 1..Len(owed) : ~Sets("room", owed[i])
    BY <1>5 DEF NoMove, Silent, Sets
  <2>3. \A i \in 1..Len(down) : ~Sets("room", down[i])
    BY <1>1, <1>5, <2>1
  <2> QED BY <2>2, <2>3 DEF NoMove, Silent
<1>6. Fresh' /\ (f.kind # "welcome" => Fresh)
  <2>1. \A k \in 1..Len(down) : down[k].kind = "welcome" => k = 1
    BY DEF BInv, Online
  <2> QED BY <1>1, <2>1 DEF Fresh
<1>7. \A r, m : Told(r, m) => Told(r, m)' \/ (f.kind = "chat" /\ f.room = r /\ m \in f.chat)
  BY <1>1 DEF Told
<1>8. ASSUME NEW m, InHistory(m), ~(IsReply(f) /\ f.type = "HISTORY" /\ m \in f.chat) PROVE InHistory(m)'
  <2>1. ASSUME NEW k \in 1..Len(down), IsReply(down[k]), down[k].type = "HISTORY", m \in down[k].chat
        PROVE  InHistory(m)'
    <3>1. k - 1 \in 1..Len(down') /\ down'[k - 1] = down[k]
      BY <1>1, <1>8, <2>1
    <3> QED BY <2>1, <3>1 DEF InHistory, IsReply
  <2>2. ASSUME NEW k \in 1..Len(owed), owed[k].type = "HISTORY", m \in owed[k].chat
        PROVE  InHistory(m)'
    BY <2>2 DEF InHistory
  <2> QED BY <1>8, <2>1, <2>2 DEF InHistory
<1>9. IsReply(f) => Replied(f.type, f.room)
  BY <1>1 DEF Replied
<1>10. f.type \in Type /\ f.room \in Room
  BY DEF Frames
<1> QED BY <1>2, <1>3, <1>4, <1>5, <1>6, <1>7, <1>8, <1>9, <1>10

\* A frame is sent after the others.
LEMMA SentFrame ==
    ASSUME BInv, NEW f \in Frames, down' = Append(down, f), f.kind # "welcome"
    PROVE  /\ \A t \in Type, r \in Room : Replied(t, r)' => Replied(t, r) \/ (IsReply(f) /\ f.type = t /\ f.room = r)
           /\ Silent("room", down)' => Silent("room", down) /\ ~Sets("room", f)
           /\ Silent("room", down) /\ ~Sets("room", f) => Silent("room", down)'
           /\ Fresh' => Fresh
           /\ Fresh => Fresh'
           /\ \A r, m : Told(r, m) => Told(r, m)'
           /\ \A r, m : f.kind = "chat" /\ f.room = r /\ m \in f.chat => Told(r, m)'
           /\ AtRest /\ ~Sets("room", f) => AtRest'
<1>0. down \in Seq(Frames)
  BY DEF BInv, TypeOK
<1>1. /\ Len(down) \in Nat /\ Len(down) + 1 \in 1..Len(down') /\ down'[Len(down) + 1] = f
      /\ \A i \in 1..Len(down) : down'[i] = down[i] /\ i \in 1..Len(down')
      /\ \A i \in 1..Len(down') : i \in 1..Len(down) \/ i = Len(down) + 1
  BY <1>0, SeqAppend
<1>2. \A t \in Type, r \in Room : Replied(t, r)' => Replied(t, r) \/ (IsReply(f) /\ f.type = t /\ f.room = r)
  BY <1>1 DEF Replied, IsReply
<1>3. /\ Silent("room", down)' => Silent("room", down) /\ ~Sets("room", f)
      /\ Silent("room", down) /\ ~Sets("room", f) => Silent("room", down)'
  BY <1>1 DEF Silent, Sets
<1>4. (Fresh' => Fresh) /\ (Fresh => Fresh')
  BY <1>1 DEF Fresh
<1>5. \A r, m : Told(r, m) => Told(r, m)'
  BY <1>1 DEF Told
<1>6. \A r, m : f.kind = "chat" /\ f.room = r /\ m \in f.chat => Told(r, m)'
  BY <1>1 DEF Told
<1>7. ASSUME AtRest, ~Sets("room", f) PROVE AtRest'
  BY <1>1, <1>7 DEF AtRest, IsReply, Sets, Val
<1> QED BY <1>2, <1>3, <1>4, <1>5, <1>6, <1>7

-----------------------------------------------------------------------------
(***************************************************************************)
(* The connection, step by step.                                           *)
(***************************************************************************)

\* The packets under way name a type and a room.
LEMMA FramesTyped ==
    ASSUME BInv
    PROVE  /\ \A i \in 1..Len(up) : up[i] \in Packets /\ up[i].type \in Type /\ up[i].room \in Room
           /\ \A i \in 1..Len(owed) : owed[i] \in Frames /\ owed[i].type \in Type /\ owed[i].room \in Room
           /\ \A i \in 1..Len(down) : down[i] \in Frames /\ down[i].type \in Type /\ down[i].room \in Room
<1>1. up \in Seq(Packets) /\ owed \in Seq(Frames) /\ down \in Seq(Frames)
  BY DEF BInv, TypeOK
<1>2. /\ \A i \in 1..Len(up) : up[i] \in Packets
      /\ \A i \in 1..Len(owed) : owed[i] \in Frames
      /\ \A i \in 1..Len(down) : down[i] \in Frames
  BY <1>1
<1>3. /\ \A p \in Packets : p.type \in Type /\ p.room \in Room
      /\ \A f \in Frames : f.type \in Type /\ f.room \in Room
  BY DEF Packets, Frames
<1> QED BY <1>2, <1>3

\* A step that touches neither the packets nor the page.
LEMMA ConnectionKept ==
    ASSUME Connection,
           UNCHANGED <<user, room, transcript, hold, held, loaded, strayed, waiters, srv, owed, saved, up, down>>
    PROVE  Connection'
<1>1. Orderly' /\ AtRest'
  BY DEF Connection, Orderly, First, IsReply, AtRest, Sets, Val
<1>2. /\ \A t, r : Pending(t, r)' => Pending(t, r)
      /\ \A t : Awaited(t) => Awaited(t)'
      /\ (NoMove' => NoMove) /\ (NoMove => NoMove')
      /\ (Fresh' => Fresh) /\ (Fresh => Fresh')
  BY DEF Pending, Asked, Owed, Replied, IsReply, Awaited, NoMove, Silent, Sets, Fresh
<1>3. Awaiting' /\ Resuming' /\ Staying'
  BY <1>2 DEF Connection, Awaiting, Resuming, Staying
<1>4. Agrees("user")' /\ Agrees("room")'
  BY DEF Connection, Agrees, Ends, Silent, Sets, Val, Shown, Actual
<1>5. /\ \A r, m : Told(r, m) => Told(r, m)'
      /\ \A m : InHistory(m) => InHistory(m)'
      /\ (Owed("HISTORY", room)' \/ Replied("HISTORY", room)') => (Owed("HISTORY", room) \/ Replied("HISTORY", room))
  BY DEF Told, InHistory, Owed, Replied, IsReply
<1>6. Complete' /\ Loading'
  BY <1>2, <1>5 DEF Connection, Complete, Loading
<1> QED BY <1>1, <1>3, <1>4, <1>6 DEF Connection

\* A connection begins with the welcome, and RECONNECT for a page with an account.
LEMMA OnOpenKept ==
    ASSUME BInv, BInv', OnOpen PROVE Connection'
<1>1. PICK w \in Frames : w = Push("welcome", Lobby, {}) /\ w.kind = "welcome"
  BY NoneTyped, PushTyped
<1>2. /\ owed' = <<>> /\ srv' = [user |-> "guest", room |-> Lobby] /\ down' = <<w>>
      /\ UNCHANGED <<user, room, transcript, hold, held, loaded, strayed>>
  BY <1>1 DEF OnOpen, page
<1>3. up = <<>>
  BY DEF OnOpen, BInv, Offline
<1>4. /\ Len(up') \in {0, 1}
      /\ \A i \in 1..Len(up') : up'[i].type = "RECONNECT" /\ Awaited("RECONNECT")'
  <2>1. CASE user = "account"
    <3>1. PICK p \in Packets : p = Request("RECONNECT", room) /\ p.type = "RECONNECT"
      BY RequestTyped DEF BInv, TypeOK, Type
    <3>2. PICK a \in Waiters : a = Waiter("RECONNECT", "resume") /\ a.type = "RECONNECT"
      BY WaiterTyped DEF Type
    <3>3. up' = Append(up, p) /\ waiters' = Append(waiters, a)
      BY <2>1, <3>1, <3>2 DEF OnOpen, Ask
    <3>4. Len(waiters) + 1 \in 1..Len(waiters') /\ waiters'[Len(waiters) + 1] = a
      BY <3>3, SeqAppend DEF BInv, TypeOK
    <3>5. Awaited("RECONNECT")'
      BY <3>2, <3>4 DEF Awaited
    <3> QED BY <1>3, <3>1, <3>3, <3>5
  <2>2. CASE user # "account"
    BY <1>3, <2>2 DEF OnOpen
  <2> QED BY <2>1, <2>2
<1>5. Len(owed') = 0 /\ Len(down') = 1 /\ down'[1] = w /\ ~IsReply(w)
  BY <1>1, <1>2 DEF IsReply
<1>6. Orderly' /\ AtRest'
  BY <1>4, <1>5 DEF Orderly, AtRest, IsReply
<1>7. /\ \A t, r : Pending(t, r)' => t = "RECONNECT" /\ Awaited("RECONNECT")'
      /\ \A r : ~Owed("HISTORY", r)' /\ ~Replied("HISTORY", r)'
  BY <1>1, <1>4, <1>5 DEF Pending, Asked, Owed, Replied, IsReply
<1>8. ~Fresh' /\ ~NoMove'
  BY <1>1, <1>5 DEF Fresh, NoMove, Silent, Sets
<1>9. Awaiting' /\ Resuming' /\ Staying'
  BY <1>7, <1>8 DEF Awaiting, Resuming, Staying
<1>10. Complete' /\ Loading'
  BY <1>8 DEF Complete, Loading
<1>11. ASSUME NEW u \in {"user", "room"} PROVE Agrees(u)'
  <2>1. Sets(u, w) /\ Val(u, w) = Actual(u)'
    BY <1>1, <1>2 DEF Sets, Val, Actual
  <2>2. Ends(u, down, Shown(u), Actual(u))'
    BY <1>5, <2>1 DEF Ends, Sets, Val
  <2> QED BY <1>5, <2>2 DEF Agrees
<1> QED BY <1>6, <1>9, <1>10, <1>11 DEF Connection

\* A click: nothing but RECONNECT was under way.
LEMMA ClickKept ==
    ASSUME BInv, Connection, NEW t \in {"LOGIN", "LOGOUT", "ROOM_JOIN", "ROOM_LEAVE", "OTHER"}, NEW r \in Room,
           Click(t, r)
    PROVE  Connection'
<1>0. t \in Type /\ t # "RECONNECT" /\ t # "HISTORY"
  BY DEF Type
<1>1. PICK p \in Packets : p = Request(t, r) /\ p.type = t /\ p.room = r
  BY <1>0, RequestTyped
<1>2. PICK a \in Waiters : a = Waiter(t, "task") /\ a.type = t
  BY <1>0, WaiterTyped
<1>3. /\ task = NoTask /\ waiters' = Append(waiters, a) /\ up' = Append(up, p)
      /\ UNCHANGED <<user, room, transcript, hold, held, loaded, strayed, srv, owed, saved, down>>
  BY <1>1, <1>2 DEF Click, Ask, server
<1>4. /\ Len(up) \in Nat /\ Len(up) + 1 \in 1..Len(up') /\ up'[Len(up) + 1] = p
      /\ \A i \in 1..Len(up) : up'[i] = up[i] /\ i \in 1..Len(up')
      /\ \A i \in 1..Len(up') : i \in 1..Len(up) \/ i = Len(up) + 1
  BY <1>3, SeqAppend DEF BInv, TypeOK
<1>5. /\ Len(waiters) + 1 \in 1..Len(waiters') /\ waiters'[Len(waiters) + 1] = a
      /\ \A i \in 1..Len(waiters) : waiters'[i] = waiters[i] /\ i \in 1..Len(waiters')
  BY <1>3, SeqAppend DEF BInv, TypeOK
<1>6. ASSUME NEW u \in Type, NEW q \in Room, Pending(u, q) PROVE u = "RECONNECT"
  <2>1. PICK i \in 1..Len(waiters) : waiters[i].type = u
    BY <1>6 DEF Connection, Awaiting, Awaited
  <2> QED BY <1>3, <2>1 DEF BInv, Busy
<1>7. /\ \A i \in 1..Len(up) : up[i].type = "RECONNECT"
      /\ \A i \in 1..Len(owed) : owed[i].type = "RECONNECT"
      /\ \A i \in 1..Len(down) : IsReply(down[i]) => down[i].type = "RECONNECT"
  <2>1. /\ \A i \in 1..Len(up) : up[i].type \in Type /\ up[i].room \in Room
        /\ \A i \in 1..Len(owed) : owed[i].type \in Type /\ owed[i].room \in Room
        /\ \A i \in 1..Len(down) : down[i].type \in Type /\ down[i].room \in Room
    BY FramesTyped
  <2> QED BY <1>6, <2>1 DEF Pending, Asked, Owed, Replied
<1>8. Orderly'
  <2>1. \A i, j \in 1..Len(up') : i < j => First(up'[i], up'[j])
    BY <1>0, <1>1, <1>4, <1>7 DEF Connection, Orderly, First
  <2>2. \A i \in 1..Len(owed), j \in 1..Len(up') : First(owed[i], up'[j])
    BY <1>0, <1>1, <1>4, <1>7 DEF Connection, Orderly, First
  <2>3. \A i \in 1..Len(down), j \in 1..Len(up') : IsReply(down[i]) => First(down[i], up'[j])
    BY <1>0, <1>1, <1>4, <1>7 DEF Connection, Orderly, First
  <2> QED BY <1>3, <2>1, <2>2, <2>3 DEF Connection, Orderly, First, IsReply
<1>9. \A u \in Type, q \in Room : Pending(u, q)' => Pending(u, q) \/ u = t
  BY <1>1, <1>3, <1>4 DEF Pending, Asked, Owed, Replied, IsReply
<1>10. \A u : (Awaited(u) \/ u = t) => Awaited(u)'
  BY <1>2, <1>5 DEF Awaited
<1>11. /\ (NoMove' => NoMove) /\ (NoMove => NoMove')
       /\ (Fresh' => Fresh) /\ (Fresh => Fresh')
  BY <1>3 DEF NoMove, Silent, Sets, Fresh
<1>12. Awaiting' /\ Resuming' /\ Staying'
  BY <1>0, <1>3, <1>9, <1>10, <1>11, NoneTyped DEF Connection, Awaiting, Resuming, Staying, Type
<1>13. AtRest' /\ Agrees("user")' /\ Agrees("room")'
  BY <1>3 DEF Connection, AtRest, IsReply, Agrees, Ends, Silent, Sets, Val, Shown, Actual
<1>14. /\ \A q, m : Told(q, m) => Told(q, m)'
       /\ \A m : InHistory(m) => InHistory(m)'
       /\ (Owed("HISTORY", room)' \/ Replied("HISTORY", room)') => (Owed("HISTORY", room) \/ Replied("HISTORY", room))
  BY <1>3 DEF Told, InHistory, Owed, Replied, IsReply
<1>15. Complete' /\ Loading'
  BY <1>3, <1>11, <1>14 DEF Connection, Complete, Loading
<1> QED BY <1>8, <1>12, <1>13, <1>15 DEF Connection

\* What the reply to a request says is what carrying it out has made of the session.
LEMMA Handled ==
    ASSUME BInv, NEW ok \in BOOLEAN, Handle(ok), NEW g, owed'[1] = g, NEW w \in {"user", "room"}
    PROVE  IF Sets(w, g) THEN Val(w, g) = Actual(w)' ELSE Actual(w)' = Actual(w)
<1> DEFINE q == Head(up)
           known == srv.user = "account"
           done == \/ ok /\ q.type \in {"LOGIN", "RECONNECT"} /\ ~known
                   \/ ok /\ q.type = "ROOM_JOIN"
                   \/ ok /\ q.type = "OTHER"
                   \/ q.type = "LOGOUT" /\ known
                   \/ q.type \in {"ROOM_LEAVE", "HISTORY"}
           c == IF q.type = "HISTORY" THEN saved[q.room] ELSE {}
<1>1. /\ srv' = IF ~done \/ q.type \in {"HISTORY", "OTHER"} THEN srv
                ELSE [user |-> CASE q.type \in {"LOGIN", "RECONNECT"} -> "account"
                                 [] q.type = "LOGOUT" -> "guest"
                                 [] OTHER -> srv.user,
                      room |-> IF q.type \in {"ROOM_JOIN", "RECONNECT"} THEN q.room ELSE Lobby]
      /\ owed' = <<Reply(q.type, done, q.room, c)>>
  BY DEF Handle
<1>2. g.kind = "reply" /\ g.type = q.type /\ g.ok = done /\ g.room = q.room
  BY <1>1 DEF Reply
<1>3. q.type \in Type /\ done \in BOOLEAN
  <2>1. up \in Seq(Packets) /\ up # <<>>
    BY DEF Handle, BInv, TypeOK
  <2>2. q \in Packets
    BY <2>1, SeqTail
  <2> QED BY <2>2 DEF Packets
<1> HIDE DEF q, known, done, c
<1>4. CASE ~done \/ q.type \in {"HISTORY", "OTHER"}
  BY <1>1, <1>2, <1>4 DEF Sets, Actual
<1>5. CASE done /\ q.type \notin {"HISTORY", "OTHER"}
  <2>1. /\ srv'.user = CASE q.type \in {"LOGIN", "RECONNECT"} -> "account"
                         [] q.type = "LOGOUT" -> "guest"
                         [] OTHER -> srv.user
        /\ srv'.room = IF q.type \in {"ROOM_JOIN", "RECONNECT"} THEN q.room ELSE Lobby
    BY <1>1, <1>5
  <2>2. CASE w = "user"
    BY <1>2, <1>3, <1>5, <2>1, <2>2 DEF Sets, Val, Actual, Type
  <2>3. CASE w = "room"
    BY <1>2, <1>3, <1>5, <2>1, <2>3 DEF Sets, Val, Actual, Type
  <2> QED BY <2>2, <2>3
<1> QED BY <1>4, <1>5

\* The server carries a request out.
LEMMA HandleKept ==
    ASSUME BInv, Connection, NEW ok \in BOOLEAN, Handle(ok)
    PROVE  Connection'
<1>1. /\ owed = <<>> /\ up # <<>> /\ up' = Tail(up)
      /\ UNCHANGED <<user, room, transcript, hold, held, loaded, strayed, waiters, saved, down>>
  BY DEF Handle, page
<1>2. PICK q \in Packets : q = Head(up)
  BY <1>1, SeqTail DEF BInv, TypeOK
<1>3. q.type \in Type /\ q.room \in Room /\ saved[q.room] \in SUBSET Chat
  BY DEF Packets, BInv, TypeOK
<1>4. PICK g \in Frames :
        /\ owed' = <<g>> /\ g.kind = "reply" /\ g.type = q.type /\ g.room = q.room
        /\ q.type = "HISTORY" => g.chat = saved[q.room]
  <2>1. PICK d \in BOOLEAN, c \in SUBSET Chat :
          /\ owed' = <<Reply(q.type, d, q.room, c)>>
          /\ q.type = "HISTORY" => c = saved[q.room]
    <3> DEFINE d0 == \/ ok /\ q.type \in {"LOGIN", "RECONNECT"} /\ ~(srv.user = "account")
                     \/ ok /\ q.type = "ROOM_JOIN"
                     \/ ok /\ q.type = "OTHER"
                     \/ q.type = "LOGOUT" /\ srv.user = "account"
                     \/ q.type \in {"ROOM_LEAVE", "HISTORY"}
               c0 == IF q.type = "HISTORY" THEN saved[q.room] ELSE {}
    <3>1. owed' = <<Reply(q.type, d0, q.room, c0)>>
      BY <1>2 DEF Handle
    <3>2. d0 \in BOOLEAN /\ c0 \in SUBSET Chat /\ (q.type = "HISTORY" => c0 = saved[q.room])
      BY <1>3
    <3> QED BY <3>1, <3>2
  <2>2. PICK g \in Frames :
          g = Reply(q.type, d, q.room, c) /\ g.kind = "reply" /\ g.type = q.type /\ g.room = q.room /\ g.chat = c
    BY <1>3, ReplyTyped
  <2> QED BY <2>1, <2>2
<1>5. Len(owed) = 0 /\ Len(owed') = 1 /\ owed'[1] = g /\ IsReply(g)
  BY <1>1, <1>4 DEF IsReply
<1>6. /\ Len(up) \in Nat \ {0} /\ 1 \in 1..Len(up) /\ q = up[1]
      /\ \A i \in 1..Len(up') : up'[i] = up[i + 1] /\ i + 1 \in 1..Len(up)
      /\ \A i \in 1..Len(up) : i = 1 \/ (i - 1 \in 1..Len(up') /\ up'[i - 1] = up[i])
  BY <1>1, <1>2, SeqTail DEF BInv, TypeOK
<1>7. Orderly'
  <2>1. \A i, j \in 1..Len(up') : i < j => First(up'[i], up'[j])
    BY <1>6 DEF Connection, Orderly
  <2>2. \A j \in 1..Len(up') : First(q, up'[j])
    <3>1. \A j \in 1..Len(up') : 1 < j + 1
      BY <1>6
    <3> QED BY <1>6, <3>1 DEF Connection, Orderly
  <2>3. \A i \in 1..Len(owed'), j \in 1..Len(up') : First(owed'[i], up'[j])
    BY <1>4, <1>5, <2>2 DEF First
  <2>4. \A i \in 1..Len(down), j \in 1..Len(up') : IsReply(down[i]) => First(down[i], up'[j])
    BY <1>6 DEF Connection, Orderly
  <2>5. \A i \in 1..Len(down), j \in 1..Len(owed') : IsReply(down[i]) => First(down[i], owed'[j])
    BY <1>4, <1>5, <1>6 DEF Connection, Orderly, First
  <2> QED BY <1>1, <2>1, <2>3, <2>4, <2>5 DEF Connection, Orderly, First, IsReply
<1>8. Asked(q.type, q.room) /\ Pending(q.type, q.room)
  BY <1>6 DEF Asked, Pending
<1>9. \A t, r : (Asked(t, r)' => Asked(t, r)) /\ (Replied(t, r)' => Replied(t, r))
                /\ (Owed(t, r)' => t = q.type /\ r = q.room)
  BY <1>1, <1>4, <1>5, <1>6 DEF Asked, Owed, Replied, IsReply
<1>10. \A t, r : Pending(t, r)' => Pending(t, r)
  BY <1>8, <1>9 DEF Pending
<1>11. /\ \A t : Awaited(t) => Awaited(t)'
       /\ (Fresh' => Fresh) /\ (Fresh => Fresh')
       /\ (NoMove' => NoMove)
       /\ (NoMove /\ ~Sets("room", g) => NoMove')
  <2>1. (\A t : Awaited(t) => Awaited(t)') /\ (Fresh' => Fresh) /\ (Fresh => Fresh')
    BY <1>1 DEF Awaited, Fresh
  <2>2. (NoMove' => NoMove) /\ (NoMove /\ ~Sets("room", g) => NoMove')
    BY <1>1, <1>5 DEF NoMove, Silent, Sets
  <2> QED BY <2>1, <2>2
<1>12. Awaiting' /\ Resuming'
  BY <1>1, <1>10, <1>11 DEF Connection, Awaiting, Resuming
<1>13. ASSUME NEW r \in Room, Pending("HISTORY", r)' PROVE q.type = "HISTORY"
  BY <1>3, <1>8, <1>10, <1>13, OnlyHistory DEF Connection
<1>14. Staying'
  <2>1. q.type = "HISTORY" => ~Sets("room", g)
    BY <1>4 DEF Sets
  <2> QED BY <1>1, <1>10, <1>11, <1>13, <2>1, NoneTyped DEF Connection, Staying
<1>15. AtRest'
  BY <1>1 DEF Connection, AtRest, IsReply, Sets, Val
<1>16. ASSUME NEW w \in {"user", "room"} PROVE Agrees(w)'
  <2>1. Ends(w, down, Shown(w), Actual(w)) /\ Shown(w)' = Shown(w)
    BY <1>1, <1>5 DEF Connection, Agrees, Silent, Shown
  <2>2. IF Sets(w, g) THEN Val(w, g) = Actual(w)' ELSE Actual(w)' = Actual(w)
    BY <1>5, Handled
  <2>3. CASE Sets(w, g)
    BY <1>5, <2>2, <2>3 DEF Agrees, Silent, Sets, Val
  <2>4. CASE ~Sets(w, g)
    <3>1. down' = down /\ Actual(w)' = Actual(w)
      BY <1>1, <2>2, <2>4
    <3>2. Ends(w, down, Shown(w), Actual(w))'
      BY <2>1, <3>1 DEF Ends, Silent, Sets, Val
    <3> QED BY <1>5, <2>4, <3>2 DEF Agrees, Sets
  <2> QED BY <2>3, <2>4
<1>17. \A r, m : Told(r, m) => Told(r, m)'
  BY <1>1 DEF Told
<1>18. Complete'
  BY <1>1, <1>11, <1>17 DEF Connection, Complete
<1>19. Loading'
  <2> SUFFICES ASSUME (Owed("HISTORY", room) \/ Replied("HISTORY", room))' PROVE \A m \in saved[room] : InHistory(m)'
    BY <1>1 DEF Loading
  <2>1. room \in Room /\ room' = room
    BY <1>1 DEF BInv, TypeOK
  <2>2. Owed("HISTORY", room)' \/ Replied("HISTORY", room)
    BY <1>1 DEF Replied, IsReply
  <2>3. Pending("HISTORY", room)'
    BY DEF Pending
  <2>4. q.type = "HISTORY"
    BY <1>13, <2>1, <2>3 DEF Pending, Asked, Owed, Replied
  <2>5. ~Replied("HISTORY", room)
    BY <1>6, <2>4 DEF Connection, Orderly, First, Replied
  <2>6. q.room = room
    BY <1>4, <1>5, <2>1, <2>2, <2>5 DEF Owed
  <2> QED BY <1>4, <1>5, <2>4, <2>6 DEF InHistory
<1> QED BY <1>7, <1>12, <1>14, <1>15, <1>16, <1>18, <1>19 DEF Connection

\* The answer goes after everything that was sent before.
LEMMA AnswerKept ==
    ASSUME BInv, Connection, Answer
    PROVE  Connection'
<1>1. /\ owed # <<>> /\ owed' = <<>> /\ down' = Append(down, owed[1])
      /\ UNCHANGED <<user, room, transcript, hold, held, loaded, strayed, waiters, srv, saved, up>>
  BY DEF Answer, page
<1>2. owed \in Seq(Frames) /\ Len(owed) = 1 /\ 1 \in 1..Len(owed)
  <2>1. owed \in Seq(Frames) /\ Len(owed) <= 1
    BY DEF BInv, TypeOK
  <2>2. Len(owed) \in Nat
    BY <2>1
  <2>3. Len(owed) # 0
    BY <1>1, <2>1
  <2>4. Len(owed) = 1
    BY <2>1, <2>2, <2>3
  <2> QED BY <2>1, <2>4
<1>3. PICK g \in Frames : g = owed[1] /\ g.kind = "reply"
  BY <1>2 DEF BInv, Online
<1>4. down' = Append(down, g) /\ Len(owed') = 0 /\ IsReply(g) /\ g.type \in Type /\ g.room \in Room
  BY <1>1, <1>3 DEF IsReply, Frames
<1>5. /\ Len(down) \in Nat /\ Len(down) + 1 \in 1..Len(down') /\ down'[Len(down) + 1] = g
      /\ \A i \in 1..Len(down) : down'[i] = down[i] /\ i \in 1..Len(down')
      /\ \A i \in 1..Len(down') : i \in 1..Len(down) \/ i = Len(down) + 1
  BY <1>4, SeqAppend DEF BInv, TypeOK
<1>6. Orderly'
  <2>1. \A j \in 1..Len(up) : First(g, up[j])
    BY <1>2, <1>3 DEF Connection, Orderly
  <2>2. \A i \in 1..Len(down), j \in 1..Len(up) : IsReply(down[i]) => First(down[i], up[j])
    BY DEF Connection, Orderly
  <2>4. \A i \in 1..Len(down), j \in 1..Len(down) : i < j /\ IsReply(down[i]) /\ IsReply(down[j]) => First(down[i], down[j])
    BY DEF Connection, Orderly
  <2>5. \A i \in 1..Len(down) : IsReply(down[i]) => First(down[i], g)
    BY <1>2, <1>3 DEF Connection, Orderly
  <2>6. \A i \in 1..Len(down'), j \in 1..Len(up) : IsReply(down'[i]) => First(down'[i], up[j])
    BY <1>5, <2>1, <2>2
  <2>7. \A i, j \in 1..Len(down') : i < j /\ IsReply(down'[i]) /\ IsReply(down'[j]) => First(down'[i], down'[j])
    BY <1>5, <2>4, <2>5
  <2>8. \A i, j \in 1..Len(up) : i < j => First(up[i], up[j])
    BY DEF Connection, Orderly
  <2> QED BY <1>1, <1>4, <2>6, <2>7, <2>8 DEF Orderly, First, IsReply
<1>7. /\ \A t \in Type, r \in Room : Replied(t, r)' => Replied(t, r) \/ (IsReply(g) /\ g.type = t /\ g.room = r)
      /\ Silent("room", down)' => Silent("room", down) /\ ~Sets("room", g)
      /\ Silent("room", down) /\ ~Sets("room", g) => Silent("room", down)'
      /\ Fresh' => Fresh
      /\ Fresh => Fresh'
      /\ \A r, m : Told(r, m) => Told(r, m)'
      /\ AtRest /\ ~Sets("room", g) => AtRest'
  BY <1>3, <1>4, SentFrame
<1>8. Owed(g.type, g.room) /\ \A r : ~Owed("HISTORY", r)'
  BY <1>2, <1>3, <1>4 DEF Owed
<1>9. \A t \in Type, r \in Room : Pending(t, r)' => Pending(t, r)
  BY <1>1, <1>4, <1>7, <1>8 DEF Pending, Asked, Owed
<1>10. (NoMove' => NoMove) /\ (NoMove => NoMove')
  <2>1. Silent("room", owed) <=> ~Sets("room", g)
    BY <1>2, <1>3 DEF Silent
  <2>2. Silent("room", owed)'
    BY <1>4 DEF Silent
  <2> QED BY <1>7, <2>1, <2>2 DEF NoMove
<1>11. \A t : Awaited(t) => Awaited(t)'
  BY <1>1 DEF Awaited
<1>12. Awaiting' /\ Resuming' /\ Staying'
  <2>1. "HISTORY" \in Type /\ "RECONNECT" \in Type /\ Lobby \in Room
    BY NoneTyped DEF Type
  <2> QED BY <1>1, <1>7, <1>9, <1>10, <1>11, <2>1 DEF Connection, Awaiting, Resuming, Staying
<1>13. AtRest'
  <2>1. CASE ~Sets("room", g)
    BY <1>7, <2>1 DEF Connection
  <2>2. \A k \in 1..Len(down) : IsReply(down[k]) => down[k].type = "RECONNECT"
    BY <1>2, <1>3 DEF Connection, Orderly, First
  <2>3. \A k \in 1..Len(down') : (IsReply(down'[k]) /\ down'[k].type # "RECONNECT") => k = Len(down) + 1
    BY <1>5, <2>2
  <2>4. \A j \in 1..Len(down') : ~(Len(down) + 1 < j)
    BY <1>5
  <2> QED BY <2>3, <2>4 DEF AtRest, IsReply
<1>14. ASSUME NEW w \in {"user", "room"} PROVE Agrees(w)'
  <2>1. Shown(w)' = Shown(w) /\ Actual(w)' = Actual(w)
    BY <1>1 DEF Shown, Actual
  <2>2. IF Sets(w, g) THEN Val(w, g) = Actual(w) ELSE Ends(w, down, Shown(w), Actual(w))
    <3>1. Silent(w, owed) <=> ~Sets(w, g)
      BY <1>2, <1>3 DEF Silent
    <3>2. Agrees(w)
      BY DEF Connection
    <3> QED BY <1>2, <1>3, <3>1, <3>2 DEF Agrees
  <2>3. Ends(w, Append(down, g), Shown(w), Actual(w))
    BY <2>2, EndsAppend DEF BInv, TypeOK
  <2>4. Ends(w, down, Shown(w), Actual(w))'
    BY <1>4, <2>1, <2>3 DEF Ends, Silent, Sets, Val
  <2> QED BY <1>4, <2>4 DEF Agrees
<1>15. Complete'
  BY <1>1, <1>7, <1>10 DEF Connection, Complete
<1>16. \A m : InHistory(m) => InHistory(m)'
  <2>1. ASSUME NEW m, NEW k \in 1..Len(owed), owed[k].type = "HISTORY", m \in owed[k].chat PROVE InHistory(m)'
    <3>1. g.type = "HISTORY" /\ m \in g.chat
      BY <1>2, <1>3, <2>1
    <3> QED BY <1>4, <1>5, <3>1 DEF InHistory, IsReply
  <2>2. ASSUME NEW m, NEW k \in 1..Len(down), IsReply(down[k]), down[k].type = "HISTORY", m \in down[k].chat
        PROVE  InHistory(m)'
    BY <1>5, <2>2 DEF InHistory, IsReply
  <2> QED BY <2>1, <2>2 DEF InHistory
<1>17. Loading'
  <2>1. room \in Room /\ "HISTORY" \in Type /\ room' = room /\ saved' = saved /\ held' = held
    BY <1>1 DEF BInv, TypeOK, Type
  <2>2. (Owed("HISTORY", room) \/ Replied("HISTORY", room))' => Owed("HISTORY", room) \/ Replied("HISTORY", room)
    <3>1. ASSUME Replied("HISTORY", room)' PROVE Owed("HISTORY", room) \/ Replied("HISTORY", room)
      <4>1. \E i \in 1..Len(down') : IsReply(down'[i]) /\ down'[i].type = "HISTORY" /\ down'[i].room = room
        BY <2>1, <3>1 DEF Replied, IsReply
      <4> QED BY <1>2, <1>3, <1>5, <4>1 DEF Replied, Owed
    <3> QED BY <1>8, <2>1, <3>1 DEF Owed
  <2> QED BY <1>7, <1>10, <1>16, <2>1, <2>2 DEF Connection, Loading
<1> QED BY <1>6, <1>12, <1>13, <1>14, <1>15, <1>17 DEF Connection

\* The page shows the session's room when no move is under way and it did not stray.
LEMMA Followed ==
    ASSUME Agrees("room"), NoMove, ~strayed PROVE srv.room = room
<1>1. Ends("room", down, Shown("room"), Actual("room")) /\ Silent("room", down)
  BY DEF Agrees, NoMove
<1>2. Actual("room") \in Shown("room")
  BY <1>1, EndsSilent
<1> QED BY <1>2 DEF Actual, Shown

\* No move is under way only after the welcome.
LEMMA FreshWhenStill ==
    ASSUME NoMove PROVE Fresh
BY DEF NoMove, Silent, Sets, Fresh

\* The page loads or has loaded the room the session is in.
LEMMA InRoom ==
    ASSUME BInv, Connection, NoMove,
           loaded \/ Owed("HISTORY", room) \/ Replied("HISTORY", room)
    PROVE  srv.room = room
<1>1. room \in Room
  BY DEF BInv, TypeOK
<1>2. ~strayed
  BY <1>1, FreshWhenStill DEF Connection, Resuming, Pending
<1> QED BY <1>2, Followed DEF Connection

\* A push that sets neither user nor room changes only what was told.
LEMMA ChatKept ==
    ASSUME BInv, Connection, sock = "open", NEW r \in Room, ChatIn(r)
    PROVE  Connection'
<1>1. /\ saved' = [saved EXCEPT ![r] = @ \cup {chats + 1}]
      /\ UNCHANGED <<user, room, transcript, hold, held, loaded, strayed, waiters, srv, owed, up>>
  BY DEF ChatIn, page
<1>2. PICK n \in Chat : n = chats + 1
  BY BoundAssumption DEF ChatIn, BInv, TypeOK, Chat
<1>3. PICK c \in Frames : c = Push("chat", r, {n}) /\ c.kind = "chat" /\ c.room = r /\ c.chat = {n}
  BY <1>2, PushTyped
<1>4. srv # NoSession
  BY NoneTyped DEF BInv, Online
<1>5. CASE srv.room # r
  <2>1. down' = down
    BY <1>5 DEF ChatIn
  <2>2. Orderly' /\ AtRest'
    BY <1>1, <2>1 DEF Connection, Orderly, First, IsReply, AtRest, Sets, Val
  <2>3. /\ \A t, q : Pending(t, q)' => Pending(t, q)
        /\ \A t : Awaited(t) => Awaited(t)'
        /\ (NoMove' => NoMove) /\ (NoMove => NoMove')
        /\ (Fresh' => Fresh) /\ (Fresh => Fresh')
    BY <1>1, <2>1 DEF Pending, Asked, Owed, Replied, IsReply, Awaited, NoMove, Silent, Sets, Fresh
  <2>4. Awaiting' /\ Resuming' /\ Staying'
    BY <1>1, <2>3 DEF Connection, Awaiting, Resuming, Staying
  <2>5. Agrees("user")' /\ Agrees("room")'
    BY <1>1, <2>1 DEF Connection, Agrees, Ends, Silent, Sets, Val, Shown, Actual
  <2>6. /\ \A q, m : Told(q, m) => Told(q, m)'
        /\ \A m : InHistory(m) => InHistory(m)'
        /\ (Owed("HISTORY", room)' \/ Replied("HISTORY", room)') => (Owed("HISTORY", room) \/ Replied("HISTORY", room))
    BY <1>1, <2>1 DEF Told, InHistory, Owed, Replied, IsReply
  <2>7. srv.room = room => saved'[room] = saved[room]
    BY <1>1, <1>5 DEF BInv, TypeOK
  <2>8. Complete'
    BY <1>1, <2>3, <2>6, <2>7, InRoom DEF Connection, Complete
  <2>9. Loading'
    BY <1>1, <2>3, <2>6, <2>7, InRoom DEF Connection, Loading
  <2> QED BY <2>2, <2>4, <2>5, <2>8, <2>9 DEF Connection
<1>6. CASE srv.room = r
  <2>1. down' = Append(down, c) /\ ~IsReply(c) /\ \A w : ~Sets(w, c)
    BY <1>2, <1>3, <1>4, <1>6 DEF ChatIn, IsReply, Sets
  <2>2. /\ Len(down) \in Nat
        /\ \A i \in 1..Len(down) : down'[i] = down[i] /\ i \in 1..Len(down')
        /\ \A i \in 1..Len(down') : i \in 1..Len(down) \/ down'[i] = c
    BY <2>1, SeqAppend DEF BInv, TypeOK
  <2>3. Orderly'
    <3>1. \A i, j \in 1..Len(down') : i < j /\ IsReply(down'[i]) /\ IsReply(down'[j]) => First(down'[i], down'[j])
      BY <2>1, <2>2 DEF Connection, Orderly
    <3>2. \A i \in 1..Len(down'), j \in 1..Len(up) : IsReply(down'[i]) => First(down'[i], up[j])
      BY <2>1, <2>2 DEF Connection, Orderly
    <3>3. \A i \in 1..Len(down'), j \in 1..Len(owed) : IsReply(down'[i]) => First(down'[i], owed[j])
      BY <2>1, <2>2 DEF Connection, Orderly
    <3> QED BY <1>1, <3>1, <3>2, <3>3 DEF Connection, Orderly, First, IsReply
  <2>4. /\ \A t \in Type, q \in Room : Replied(t, q)' => Replied(t, q)
        /\ (Silent("room", down)' => Silent("room", down)) /\ (Silent("room", down) => Silent("room", down)')
        /\ (Fresh' => Fresh) /\ (Fresh => Fresh')
        /\ \A q, m : Told(q, m) => Told(q, m)'
        /\ Told(r, n)'
        /\ AtRest => AtRest'
    BY <1>3, <2>1, SentFrame
  <2>5. /\ \A t \in Type, q \in Room : Pending(t, q)' => Pending(t, q)
        /\ \A t : Awaited(t) => Awaited(t)'
    BY <1>1, <2>4 DEF Pending, Asked, Owed, Awaited
  <2>6. (NoMove' => NoMove) /\ (NoMove => NoMove')
    <3>1. (Silent("room", owed)' => Silent("room", owed)) /\ (Silent("room", owed) => Silent("room", owed)')
      BY <1>1 DEF Silent, Sets
    <3> QED BY <2>4, <3>1 DEF NoMove
  <2>7. Awaiting' /\ Resuming' /\ Staying'
    <3>1. "HISTORY" \in Type /\ "RECONNECT" \in Type /\ Lobby \in Room
      BY NoneTyped DEF Type
    <3> QED BY <1>1, <2>4, <2>5, <2>6, <3>1 DEF Connection, Awaiting, Resuming, Staying
  <2>8. ASSUME NEW w \in {"user", "room"} PROVE Agrees(w)'
    <3>1. Shown(w)' = Shown(w) /\ Actual(w)' = Actual(w) /\ owed' = owed
      BY <1>1 DEF Shown, Actual
    <3>2. Agrees(w)
      BY DEF Connection
    <3>3. ASSUME Silent(w, owed) PROVE Ends(w, down, Shown(w), Actual(w))'
      <4>1. Ends(w, Append(down, c), Shown(w), Actual(w))
        BY <2>1, <3>2, <3>3, EndsAppend DEF BInv, TypeOK, Agrees
      <4> QED BY <2>1, <3>1, <4>1 DEF Ends, Silent, Sets, Val
    <3> QED BY <3>1, <3>2, <3>3 DEF Agrees, Silent, Sets, Val
  <2>9. \A m : InHistory(m) => InHistory(m)'
    BY <1>1, <2>2 DEF InHistory, IsReply
  <2>10. (Owed("HISTORY", room)' \/ Replied("HISTORY", room)') => (Owed("HISTORY", room) \/ Replied("HISTORY", room))
    BY <1>1, <2>1, <2>2 DEF Owed, Replied, IsReply
  <2>11. srv.room = room => \A m \in saved'[room] : m \in saved[room] \/ Told(room, m)'
    <3>1. ASSUME srv.room = room, NEW m \in saved'[room], m \notin saved[room] PROVE m = n /\ room = r
      BY <1>1, <1>2, <1>6, <3>1 DEF BInv, TypeOK
    <3>2. room = r => Told(room, n)'
      BY <1>1, <2>4 DEF Told
    <3>3. ASSUME srv.room = room, NEW m \in saved'[room], m \notin saved[room] PROVE Told(room, m)'
      <4>1. m = n /\ room = r
        BY <3>1, <3>3
      <4>2. Told(room, n)'
        BY <3>2, <4>1
      <4> QED BY <4>1, <4>2 DEF Told
    <3> QED BY <3>3
  <2>12. Complete'
    BY <1>1, <2>4, <2>6, <2>11, InRoom DEF Connection, Complete
  <2>13. Loading'
    BY <1>1, <2>4, <2>6, <2>9, <2>10, <2>11, InRoom DEF Connection, Loading
  <2> QED BY <2>3, <2>4, <2>7, <2>8, <2>12, <2>13 DEF Connection
<1> QED BY <1>5, <1>6

\* A kick with nothing owed: the page will follow, and no history of the Lobby is under way.
LEMMA KickKept ==
    ASSUME BInv, Connection, Kick, ~late'
    PROVE  Connection'
<1>1. /\ srv.room # Lobby /\ srv' = [srv EXCEPT !.room = Lobby] /\ owed = <<>>
      /\ UNCHANGED <<user, room, transcript, hold, held, loaded, strayed, waiters, owed, saved, up>>
  BY DEF Kick, page
<1>2. PICK c \in Frames : c = Push("lobby", Lobby, {}) /\ c.kind = "lobby"
  BY NoneTyped, PushTyped
<1>3. /\ down' = Append(down, c) /\ ~IsReply(c) /\ Sets("room", c) /\ Val("room", c) = Lobby /\ ~Sets("user", c)
      /\ Len(owed) = 0
  BY <1>1, <1>2 DEF Kick, IsReply, Sets, Val
<1>4. /\ Len(down) \in Nat
      /\ \A i \in 1..Len(down) : down'[i] = down[i] /\ i \in 1..Len(down')
      /\ \A i \in 1..Len(down') : i \in 1..Len(down) \/ down'[i] = c
  BY <1>3, SeqAppend DEF BInv, TypeOK
<1>5. Orderly'
  <2>1. \A i, j \in 1..Len(down') : i < j /\ IsReply(down'[i]) /\ IsReply(down'[j]) => First(down'[i], down'[j])
    BY <1>3, <1>4 DEF Connection, Orderly
  <2>2. \A i \in 1..Len(down'), j \in 1..Len(up) : IsReply(down'[i]) => First(down'[i], up[j])
    BY <1>3, <1>4 DEF Connection, Orderly
  <2> QED BY <1>1, <1>3, <2>1, <2>2 DEF Connection, Orderly, First, IsReply
<1>6. /\ \A t \in Type, q \in Room : Replied(t, q)' => Replied(t, q)
      /\ ~Silent("room", down)'
      /\ (Fresh' => Fresh) /\ (Fresh => Fresh')
  BY <1>2, <1>3, SentFrame
<1>7. /\ \A t \in Type, q \in Room : Pending(t, q)' => Pending(t, q)
      /\ \A t : Awaited(t) => Awaited(t)'
  BY <1>1, <1>6 DEF Pending, Asked, Owed, Awaited
<1>8. ~NoMove'
  BY <1>6 DEF NoMove
<1>9. ~Pending("HISTORY", Lobby)
  <2>1. SUFFICES ASSUME Pending("HISTORY", Lobby) PROVE FALSE
    OBVIOUS
  <2>2. NoMove /\ room = Lobby /\ ~strayed
    BY <2>1, NoneTyped DEF Connection, Staying, Resuming
  <2> QED BY <1>1, <2>2, Followed DEF Connection
<1>10. Awaiting' /\ Resuming' /\ Staying'
  <2>1. "HISTORY" \in Type /\ "RECONNECT" \in Type /\ Lobby \in Room
    BY NoneTyped DEF Type
  <2> QED BY <1>1, <1>6, <1>7, <1>9, <2>1 DEF Connection, Awaiting, Resuming, Staying
<1>11. Agrees("user")'
  <2>1. Shown("user")' = Shown("user") /\ Actual("user")' = Actual("user") /\ owed' = owed
    BY <1>1 DEF Shown, Actual, BInv, TypeOK
  <2>2. Ends("user", down, Shown("user"), Actual("user"))
    BY <1>3 DEF Connection, Agrees, Silent
  <2>3. Ends("user", Append(down, c), Shown("user"), Actual("user"))
    BY <1>3, <2>2, EndsAppend DEF BInv, TypeOK
  <2>4. Ends("user", down, Shown("user"), Actual("user"))'
    BY <1>3, <2>1, <2>3 DEF Ends, Silent, Sets, Val
  <2> QED BY <1>3, <2>1, <2>4 DEF Agrees
<1>12. Agrees("room")'
  <2>1. Shown("room")' = Shown("room") /\ Actual("room")' = Lobby /\ owed' = owed
    BY <1>1 DEF Shown, Actual, BInv, TypeOK
  <2>2. Ends("room", Append(down, c), Shown("room"), Lobby)
    BY <1>3, EndsAppend DEF BInv, TypeOK
  <2>3. Ends("room", down, Shown("room"), Actual("room"))'
    BY <1>3, <2>1, <2>2 DEF Ends, Silent, Sets, Val
  <2> QED BY <1>3, <2>1, <2>3 DEF Agrees
<1>13. AtRest'
  <2>1. SUFFICES ASSUME NEW k \in 1..Len(down'), IsReply(down'[k]), down'[k].type # "RECONNECT",
                        Sets("room", down'[k]), Val("room", down'[k]) = Lobby
                 PROVE  FALSE
    BY DEF AtRest, IsReply, Sets, Val
  <2>2. k \in 1..Len(down) /\ down'[k] = down[k]
    BY <1>3, <1>4, <2>1
  <2>3. \A j \in 1..Len(down) : k < j => ~Sets("room", down[j])
    BY <2>1, <2>2 DEF Connection, AtRest
  <2>4. Ends("room", down, Shown("room"), Actual("room"))
    BY <1>3 DEF Connection, Agrees, Silent
  <2>5. Val("room", down[k]) = srv.room
    BY <2>1, <2>2, <2>3, <2>4, EndsLast DEF BInv, TypeOK, Actual
  <2> QED BY <1>1, <2>1, <2>2, <2>5
<1>14. Complete' /\ Loading'
  BY <1>8 DEF Complete, Loading
<1> QED BY <1>5, <1>10, <1>11, <1>12, <1>13, <1>14 DEF Connection

\* The page takes a frame that sets what it shows as the frame says, or leaves it.
LEMMA AgreesTaken ==
    ASSUME BInv, NEW f \in Frames, down # <<>>, f = Head(down), down' = Tail(down), UNCHANGED <<owed, srv>>,
           NEW w \in {"user", "room"}, Agrees(w),
           IF Sets(w, f) THEN Val(w, f) \in Shown(w)' ELSE Shown(w) \subseteq Shown(w)'
    PROVE  Agrees(w)'
<1>1. Actual(w)' = Actual(w)
  BY DEF Actual
<1>2. ASSUME Silent(w, owed) PROVE Ends(w, down, Shown(w), Actual(w))'
  <2>1. Ends(w, down, Shown(w), Actual(w)) /\ down \in Seq(Frames)
    BY <1>2 DEF Agrees, BInv, TypeOK
  <2>2. PICK C : C = Shown(w)'
    OBVIOUS
  <2>3. Ends(w, Tail(down), C, Actual(w))
    BY <2>1, <2>2, EndsTail
  <2> QED BY <1>1, <2>2, <2>3 DEF Ends, Silent, Sets, Val
<1> QED BY <1>1, <1>2 DEF Agrees, Silent, Sets, Val

\* What the page's taking a frame leaves of the packets under way, when it asks nothing.
LEMMA PendingTaken ==
    ASSUME BInv, NEW f \in Frames, down # <<>>, f = Head(down), down' = Tail(down), UNCHANGED <<owed, up>>
    PROVE  /\ \A t \in Type, r \in Room : Pending(t, r)' => Pending(t, r)
           /\ (Owed("HISTORY", room)' \/ Replied("HISTORY", room)') /\ room' \in Room
                 => Owed("HISTORY", room') \/ Replied("HISTORY", room')
<1>1. \A t \in Type, r \in Room : Replied(t, r)' => Replied(t, r)
  BY TakenFrame
<1>2. \A t \in Type, r \in Room : Pending(t, r)' => Pending(t, r)
  BY <1>1 DEF Pending, Asked, Owed
<1>3. ASSUME Owed("HISTORY", room)' \/ Replied("HISTORY", room)', room' \in Room
      PROVE  Owed("HISTORY", room') \/ Replied("HISTORY", room')
  <2>1. PICK r \in Room : r = room'
    BY <1>3
  <2>2. Owed("HISTORY", r)' \/ Replied("HISTORY", r)'
    BY <1>3, <2>1 DEF Owed, Replied, IsReply
  <2>3. Owed("HISTORY", r) \/ Replied("HISTORY", r)
    BY <1>1, <2>2 DEF Owed, Type
  <2> QED BY <2>1, <2>3
<1> QED BY <1>2, <1>3

\* The welcome: everything starts again as a guest in the Lobby.
LEMMA WelcomeKept ==
    ASSUME BInv, BInv', Connection, NEW f \in Frames, down # <<>>, f = Head(down), down' = Tail(down),
           UNCHANGED <<srv, owed, saved>>, f.kind = "welcome", Welcome, UNCHANGED <<waiters, up>>
    PROVE  Connection'
<1>1. /\ user' = "guest" /\ room' = Lobby /\ loaded' = FALSE /\ strayed' = FALSE
  BY DEF Welcome
<1>2. Orderly' /\ AtRest' /\ Fresh'
  BY TakenFrame DEF Connection
<1>3. \A t \in Type, r \in Room : Pending(t, r)' => Pending(t, r)
  BY PendingTaken
<1>4. ~Fresh
  BY SeqTail DEF Fresh, BInv, TypeOK
<1>5. \A r \in Room : ~Pending("HISTORY", r)'
  BY <1>3, <1>4 DEF Connection, Resuming, Type
<1>6. Awaiting' /\ Resuming' /\ Staying'
  <2>1. \A t : Awaited(t) => Awaited(t)'
    BY DEF Awaited
  <2> QED BY <1>1, <1>3, <1>5, <2>1, NoneTyped DEF Connection, Awaiting, Resuming, Staying
<1>7. Sets("user", f) /\ Val("user", f) \in Shown("user")' /\ Sets("room", f) /\ Val("room", f) \in Shown("room")'
  BY <1>1 DEF Sets, Val, Shown
<1>8. Agrees("user")' /\ Agrees("room")'
  BY <1>7, AgreesTaken DEF Connection
<1>9. Complete'
  BY <1>1 DEF Complete
<1>10. Loading'
  BY <1>1, <1>5, NoneTyped DEF Loading, Pending, Owed, Replied
<1> QED BY <1>2, <1>6, <1>8, <1>9, <1>10 DEF Connection

\* The move after a kick: the page shows the Lobby, not loaded.
LEMMA LobbyKept ==
    ASSUME BInv, BInv', Connection, NEW f \in Frames, down # <<>>, f = Head(down), down' = Tail(down),
           UNCHANGED <<srv, owed, saved>>, f.kind = "lobby", ToLobby, UNCHANGED <<waiters, up>>
    PROVE  Connection'
<1>1. /\ user' = user /\ room' = Lobby /\ loaded' = FALSE /\ strayed' = FALSE
  BY DEF ToLobby
<1>2. Orderly' /\ AtRest' /\ Fresh' /\ Fresh
  BY TakenFrame DEF Connection
<1>3. \A t \in Type, r \in Room : Pending(t, r)' => Pending(t, r)
  BY PendingTaken
<1>4. ~NoMove
  <2>1. Sets("room", f)
    BY DEF Sets
  <2> QED BY <2>1, SeqTail DEF NoMove, Silent, BInv, TypeOK
<1>5. ~Pending("HISTORY", Lobby)'
  BY <1>3, <1>4, NoneTyped DEF Connection, Staying, Type
<1>6. Awaiting' /\ Resuming' /\ Staying'
  <2>1. \A t : Awaited(t) => Awaited(t)'
    BY DEF Awaited
  <2>2. "HISTORY" \in Type /\ "RECONNECT" \in Type
    BY DEF Type
  <2> QED BY <1>1, <1>2, <1>3, <1>5, <2>1, <2>2, NoneTyped DEF Connection, Awaiting, Resuming, Staying
<1>7. /\ ~Sets("user", f) /\ Shown("user") \subseteq Shown("user")'
      /\ Sets("room", f) /\ Val("room", f) \in Shown("room")'
  BY <1>1 DEF Sets, Val, Shown
<1>8. Agrees("user")' /\ Agrees("room")'
  BY <1>7, AgreesTaken DEF Connection
<1>9. Complete'
  BY <1>1 DEF Complete
<1>10. Loading'
  BY <1>1, <1>5 DEF Loading, Pending, Owed, Replied
<1> QED BY <1>2, <1>6, <1>8, <1>9, <1>10 DEF Connection

\* A message is shown, kept back, or of another room.
LEMMA MessageKept ==
    ASSUME BInv, BInv', Connection, NEW f \in Frames, down # <<>>, f = Head(down), down' = Tail(down),
           UNCHANGED <<srv, owed, saved>>, f.kind = "chat", EnqueueChat(f), UNCHANGED <<waiters, up>>
    PROVE  Connection'
<1>1. /\ transcript' = IF f.room = room /\ ~hold THEN transcript \cup f.chat ELSE transcript
      /\ held' = IF f.room = room /\ hold THEN held \cup f.chat ELSE held
      /\ UNCHANGED <<user, room, hold, loaded, strayed>>
  BY DEF EnqueueChat
<1>2. ~IsReply(f) /\ \A w : ~Sets(w, f)
  BY DEF IsReply, Sets
<1>3. Orderly' /\ AtRest' /\ Fresh' /\ Fresh /\ (NoMove' => NoMove)
  BY <1>2, TakenFrame DEF Connection
<1>4. \A t \in Type, r \in Room : Pending(t, r)' => Pending(t, r)
  BY PendingTaken
<1>5. NoMove => NoMove'
  <2>1. down \in Seq(Frames) /\ \A i \in 1..Len(down') : down'[i] = down[i + 1] /\ i + 1 \in 1..Len(down)
    BY SeqTail DEF BInv, TypeOK
  <2> QED BY <2>1 DEF NoMove, Silent, Sets
<1>6. Awaiting' /\ Resuming' /\ Staying'
  <2>1. \A t : Awaited(t) => Awaited(t)'
    BY DEF Awaited
  <2>2. "HISTORY" \in Type /\ "RECONNECT" \in Type
    BY DEF Type
  <2> QED BY <1>1, <1>3, <1>4, <1>5, <2>1, <2>2, NoneTyped DEF Connection, Awaiting, Resuming, Staying
<1>7. Shown("user") \subseteq Shown("user")' /\ Shown("room") \subseteq Shown("room")'
  BY <1>1 DEF Shown
<1>8. Agrees("user")' /\ Agrees("room")'
  BY <1>2, <1>7, AgreesTaken DEF Connection
<1>9. /\ \A r, m : Told(r, m) => Told(r, m)' \/ (f.room = r /\ m \in f.chat)
      /\ \A m : InHistory(m) => InHistory(m)'
  BY <1>2, TakenFrame
<1>10. Complete'
  <2>1. SUFFICES ASSUME loaded, ~hold, NoMove, NEW m \in saved[room]
                 PROVE  m \in transcript' \/ Told(room, m)'
    BY <1>1, <1>3 DEF Complete
  <2>2. m \in transcript \/ Told(room, m)
    BY <2>1 DEF Connection, Complete
  <2>3. PICK r : r = room
    OBVIOUS
  <2>4. m \in transcript' \/ Told(r, m)'
    BY <1>1, <1>9, <2>1, <2>2, <2>3
  <2> QED BY <1>1, <2>3, <2>4 DEF Told
<1>11. Loading'
  <2>1. SUFFICES ASSUME (Owed("HISTORY", room) \/ Replied("HISTORY", room))', NoMove, NEW m \in saved[room]
                 PROVE  m \in held' \/ Told(room, m)' \/ InHistory(m)'
    BY <1>1, <1>3 DEF Loading
  <2>2. room \in Room /\ room' = room
    BY <1>1 DEF BInv, TypeOK
  <2>3. Owed("HISTORY", room) \/ Replied("HISTORY", room)
    BY <2>1, <2>2, PendingTaken
  <2>4. hold
    <3>1. Awaited("HISTORY")
      BY <2>2, <2>3 DEF Connection, Awaiting, Pending, Type
    <3> QED BY <3>1, HistoryHeld
  <2>5. m \in held \/ Told(room, m) \/ InHistory(m)
    BY <2>1, <2>3 DEF Connection, Loading
  <2>6. PICK r : r = room
    OBVIOUS
  <2>7. m \in held' \/ Told(r, m)' \/ InHistory(m)'
    BY <1>1, <1>9, <2>4, <2>5, <2>6
  <2> QED BY <1>1, <2>6, <2>7 DEF Told
<1> QED BY <1>3, <1>6, <1>8, <1>10, <1>11 DEF Connection

\* Behind the reply to RECONNECT no other RECONNECT is under way.
LEMMA OneReconnect ==
    ASSUME BInv, Orderly, NEW f \in Frames, down # <<>>, f = Head(down), down' = Tail(down), UNCHANGED <<owed, up>>,
           IsReply(f), f.type = "RECONNECT", NEW r
    PROVE  ~Pending("RECONNECT", r)'
<1>1. /\ 1 \in 1..Len(down) /\ f = down[1] /\ Len(down) \in Nat
      /\ \A i \in 1..Len(down') : down'[i] = down[i + 1] /\ i + 1 \in 1..Len(down)
  BY SeqTail DEF BInv, TypeOK
<1>2. /\ \A j \in 1..Len(up) : up[j].type # "RECONNECT"
      /\ \A j \in 1..Len(owed) : owed[j].type # "RECONNECT"
  BY <1>1 DEF Orderly, First
<1>3. \A j \in 1..Len(down') : IsReply(down'[j]) => down'[j].type # "RECONNECT"
  <2>1. \A j \in 1..Len(down') : 1 < j + 1
    BY <1>1
  <2> QED BY <1>1, <2>1 DEF Orderly, First
<1> QED BY <1>2, <1>3 DEF Pending, Asked, Owed, Replied, IsReply

\* Behind the reply to the task's request nothing else is under way.
LEMMA LastReply ==
    ASSUME BInv, Orderly, NEW f \in Frames, down # <<>>, f = Head(down), down' = Tail(down),
           IsReply(f), f.type # "RECONNECT"
    PROVE  /\ Len(up) = 0 /\ up = <<>> /\ Len(owed) = 0
           /\ \A k \in 1..Len(down') : ~IsReply(down'[k])
<1>1. /\ 1 \in 1..Len(down) /\ f = down[1] /\ Len(down) \in Nat
      /\ \A i \in 1..Len(down') : down'[i] = down[i + 1] /\ i + 1 \in 1..Len(down)
  BY SeqTail DEF BInv, TypeOK
<1>2. up \in Seq(Packets) /\ owed \in Seq(Frames)
  BY DEF BInv, TypeOK
<1>3. Len(up) = 0 /\ Len(owed) = 0
  <2>1. 1 \notin 1..Len(up) /\ 1 \notin 1..Len(owed)
    BY <1>1 DEF Orderly, First
  <2> QED BY <1>2, <2>1
<1>4. up = <<>>
  BY <1>2, <1>3
<1>5. \A k \in 1..Len(down') : ~IsReply(down'[k])
  <2>1. \A j \in 1..Len(down') : 1 < j + 1
    BY <1>1
  <2> QED BY <1>1, <2>1 DEF Orderly, First
<1> QED BY <1>3, <1>4, <1>5

\* The session is resumed, or it is not: nothing was loaded yet.
LEMMA ResumedKept ==
    ASSUME BInv, BInv', Connection, NEW f \in Frames, down # <<>>, f = Head(down), down' = Tail(down),
           UNCHANGED <<srv, owed, saved>>, f.kind = "reply", NEW i \in 1..Len(waiters), waiters[i].type = f.type,
           waiters[i].by = "resume", Resumed(f), waiters' = Without(waiters, i), up' = up
    PROVE  Connection'
<1>1. /\ user' = IF f.ok THEN "account" ELSE user
      /\ strayed' = (strayed \/ (f.ok /\ f.room # room))
      /\ UNCHANGED <<room, loaded>>
  BY DEF Resumed
<1>2. f.type = "RECONNECT" /\ IsReply(f)
  BY DEF BInv, Busy, IsReply
<1>3. Orderly' /\ AtRest' /\ Fresh' /\ Fresh /\ Replied("RECONNECT", f.room) /\ f.room \in Room
  BY <1>2, TakenFrame DEF Connection
<1>4. \A t \in Type, r \in Room : Pending(t, r)' => Pending(t, r)
  BY PendingTaken
<1>5. \A r : ~Pending("RECONNECT", r)'
  BY <1>2, OneReconnect DEF Connection
<1>6. Pending("RECONNECT", f.room)
  BY <1>3 DEF Pending
<1>7. ~loaded /\ \A r \in Room : ~Pending("HISTORY", r)
  BY <1>3, <1>6 DEF Connection, Resuming
<1>8. \A r \in Room : ~Pending("HISTORY", r)'
  BY <1>4, <1>7 DEF Type
<1>9. \A t : t # "RECONNECT" /\ Awaited(t) => Awaited(t)'
  <2>1. ASSUME NEW t, t # "RECONNECT", NEW k \in 1..Len(waiters), waiters[k].type = t PROVE Awaited(t)'
    <3>1. k # i
      BY <1>2, <2>1
    <3>2. waiters \in Seq(Waiters)
      BY DEF BInv, TypeOK
    <3>3. \E j \in 1..Len(Without(waiters, i)) : Without(waiters, i)[j] = waiters[k]
      BY <3>1, <3>2, WithoutKeeps
    <3> QED BY <2>1, <3>3 DEF Awaited
  <2> QED BY <2>1 DEF Awaited
<1>10. Awaiting' /\ Resuming' /\ Staying'
  BY <1>1, <1>4, <1>5, <1>7, <1>8, <1>9, NoneTyped DEF Connection, Awaiting, Resuming, Staying
<1>11. IF Sets("user", f) THEN Val("user", f) \in Shown("user")' ELSE Shown("user") \subseteq Shown("user")'
  BY <1>1, <1>2 DEF Sets, Val, Shown
<1>12. IF Sets("room", f) THEN Val("room", f) \in Shown("room")' ELSE Shown("room") \subseteq Shown("room")'
  <2>1. strayed \in BOOLEAN /\ f.ok \in BOOLEAN
    BY DEF BInv, TypeOK, Frames
  <2>2. CASE f.ok
    <3>1. Sets("room", f) /\ Val("room", f) = f.room
      BY <1>2, <2>2 DEF Sets, Val
    <3>2. f.room \in Shown("room")'
      BY <1>1, <1>3, <2>1, <2>2 DEF Shown
    <3> QED BY <3>1, <3>2
  <2>3. CASE ~f.ok
    <3>1. ~Sets("room", f) /\ strayed' = strayed /\ room' = room
      BY <1>1, <2>1, <2>3 DEF Sets
    <3> QED BY <3>1 DEF Shown
  <2> QED BY <2>2, <2>3
<1>13. Agrees("user")' /\ Agrees("room")'
  BY <1>11, <1>12, AgreesTaken DEF Connection
<1>14. Complete'
  BY <1>1, <1>7 DEF Complete
<1>15. Loading'
  <2>1. room \in Room /\ room' = room
    BY <1>1 DEF BInv, TypeOK
  <2>2. ~Owed("HISTORY", room) /\ ~Replied("HISTORY", room)
    BY <1>7, <2>1 DEF Pending
  <2> QED BY <2>1, <2>2, PendingTaken DEF Loading
<1> QED BY <1>3, <1>10, <1>13, <1>14, <1>15 DEF Connection

\* What is left when the task's reply was taken and nothing asked.
LEMMA Idle ==
    ASSUME BInv, BInv', Connection, NEW f \in Frames, down # <<>>, f = Head(down), down' = Tail(down),
           UNCHANGED <<srv, owed, saved, user, room, strayed>>, f.kind = "reply", f.type # "RECONNECT", up' = up,
           \A w : ~Sets(w, f), loaded' => ~strayed
    PROVE  /\ Orderly' /\ AtRest' /\ Awaiting' /\ Resuming' /\ Staying' /\ Loading'
           /\ Agrees("user")' /\ Agrees("room")' /\ (NoMove' => NoMove)
<1>1. /\ Len(up') = 0 /\ Len(owed') = 0 /\ \A k \in 1..Len(down') : ~IsReply(down'[k])
  BY LastReply DEF Connection, IsReply
<1>2. Orderly' /\ AtRest' /\ Fresh' /\ (NoMove' => NoMove)
  BY TakenFrame DEF Connection
<1>3. \A t, r : ~Pending(t, r)' /\ ~Owed(t, r)' /\ ~Replied(t, r)'
  BY <1>1 DEF Pending, Asked, Owed, Replied, IsReply
<1>4. Awaiting' /\ Resuming' /\ Staying'
  BY <1>3 DEF Awaiting, Resuming, Staying
<1>5. Loading'
  BY <1>1 DEF Loading, Owed, Replied, IsReply
<1>6. Shown("user") \subseteq Shown("user")' /\ Shown("room") \subseteq Shown("room")'
  BY DEF Shown
<1>7. Agrees("user")' /\ Agrees("room")'
  BY <1>6, AgreesTaken DEF Connection
<1> QED BY <1>2, <1>4, <1>5, <1>7

\* The history is shown with what was kept back meanwhile: nothing is missing.
LEMMA ShowHistoryKept ==
    ASSUME BInv, BInv', Connection, NEW f \in Frames, down # <<>>, f = Head(down), down' = Tail(down),
           UNCHANGED <<srv, owed, saved>>, f.kind = "reply", f.type = "HISTORY", ShowHistory(f), up' = up
    PROVE  Connection'
<1>1. /\ transcript' = f.chat \cup held /\ loaded' = (f.ok /\ f.room = room)
      /\ UNCHANGED <<user, room, strayed>>
  BY DEF ShowHistory
<1>2. IsReply(f) /\ \A w : ~Sets(w, f)
  BY DEF IsReply, Sets
<1>3. Replied("HISTORY", f.room) /\ f.room \in Room
  BY <1>2, TakenFrame
<1>4. ~strayed
  BY <1>3 DEF Connection, Resuming, Pending
<1>5. /\ Orderly' /\ AtRest' /\ Awaiting' /\ Resuming' /\ Staying' /\ Loading'
      /\ Agrees("user")' /\ Agrees("room")' /\ (NoMove' => NoMove)
  BY <1>1, <1>2, <1>4, Idle
<1>6. Complete'
  <2>1. SUFFICES ASSUME loaded', NoMove', NEW m \in saved[room]
                 PROVE  m \in transcript' \/ Told(room, m)'
    BY <1>1 DEF Complete
  <2>2. f.room = room /\ NoMove
    BY <1>1, <1>5, <2>1
  <2>3. m \in held \/ Told(room, m) \/ InHistory(m)
    BY <1>3, <2>1, <2>2 DEF Connection, Loading
  <2>4. /\ Len(owed) = 0 /\ \A k \in 1..Len(down') : ~IsReply(down'[k])
    BY <1>2, LastReply DEF Connection
  <2>5. ~InHistory(m)'
    BY <2>4 DEF InHistory, IsReply
  <2>6. PICK r : r = room
    OBVIOUS
  <2>7. (Told(r, m) => Told(r, m)') /\ (InHistory(m) => m \in f.chat)
    BY <1>2, <2>5, TakenFrame DEF IsReply
  <2>8. m \in transcript' \/ Told(r, m)'
    BY <1>1, <2>3, <2>6, <2>7
  <2> QED BY <1>1, <2>6, <2>8 DEF Told
<1> QED BY <1>5, <1>6 DEF Connection

\* The task's request was refused, or its reply needs nothing more.
LEMMA GiveUpKept ==
    ASSUME BInv, BInv', Connection, NEW f \in Frames, down # <<>>, f = Head(down), down' = Tail(down),
           UNCHANGED <<srv, owed, saved>>, f.kind = "reply", f.type # "RECONNECT", ~f.ok \/ f.type = "OTHER",
           GiveUp, up' = up
    PROVE  Connection'
<1>1. UNCHANGED <<user, room, transcript, hold, held, loaded, strayed>>
  BY DEF GiveUp
<1>2. ~(f.kind = "chat") /\ \A w : ~Sets(w, f)
  BY DEF Sets
<1>3. Fresh
  BY TakenFrame
<1>4. loaded' => ~strayed
  BY <1>1, <1>3 DEF Connection, Resuming
<1>5. /\ Orderly' /\ AtRest' /\ Awaiting' /\ Resuming' /\ Staying' /\ Loading'
      /\ Agrees("user")' /\ Agrees("room")' /\ (NoMove' => NoMove)
  BY <1>1, <1>2, <1>4, Idle
<1>6. \A r, m : Told(r, m) => Told(r, m)'
  BY <1>2, TakenFrame
<1>7. Complete'
  BY <1>1, <1>5, <1>6 DEF Connection, Complete
<1> QED BY <1>5, <1>7 DEF Connection

\* The page follows the reply and asks for the history of the room it shows now.
LEMMA AdvanceKept ==
    ASSUME BInv, BInv', Connection, NEW f \in Frames, down # <<>>, f = Head(down), down' = Tail(down),
           UNCHANGED <<srv, owed, saved>>, f.kind = "reply", f.ok,
           f.type \in {"LOGIN", "LOGOUT", "ROOM_JOIN", "ROOM_LEAVE"}, Advance(f),
           NEW q \in Seq(Waiters), waiters' = Append(q, Waiter("HISTORY", "task")),
           up' = Append(up, Request("HISTORY", room'))
    PROVE  Connection'
<1>1. /\ user' = CASE f.type = "LOGIN" -> "account" [] f.type = "LOGOUT" -> "guest" [] OTHER -> user
      /\ room' = IF f.type = "ROOM_JOIN" THEN f.room ELSE Lobby
      /\ strayed' = FALSE /\ hold' = TRUE
  BY DEF Advance
<1>2. IsReply(f) /\ f.type # "RECONNECT"
  BY DEF IsReply
<1>3. /\ up = <<>> /\ Len(owed) = 0 /\ \A k \in 1..Len(down') : ~IsReply(down'[k])
  BY <1>2, LastReply DEF Connection
<1>4. PICK h \in Packets : h = Request("HISTORY", room') /\ h.type = "HISTORY" /\ h.room = room'
  BY RequestTyped DEF BInv, TypeOK, Type
<1>5. Len(up') = 1 /\ up'[1] = h
  BY <1>3, <1>4
<1>6. Orderly'
  BY <1>3, <1>5 DEF Orderly, IsReply
<1>7. AtRest' /\ Fresh'
  BY TakenFrame DEF Connection
<1>8. Awaited("HISTORY")'
  <2>1. PICK a \in Waiters : a = Waiter("HISTORY", "task") /\ a.type = "HISTORY"
    BY WaiterTyped DEF Type
  <2>2. Len(q) + 1 \in 1..Len(waiters') /\ waiters'[Len(q) + 1] = a
    BY <2>1, SeqAppend
  <2> QED BY <2>1, <2>2 DEF Awaited
<1>9. \A t, r : /\ Pending(t, r)' => t = "HISTORY" /\ r = room'
                /\ ~Owed(t, r)' /\ ~Replied(t, r)'
  BY <1>3, <1>4, <1>5 DEF Pending, Asked, Owed, Replied, IsReply
<1>10. Awaiting' /\ Resuming'
  BY <1>1, <1>7, <1>8, <1>9 DEF Awaiting, Resuming
<1>11. Sets("room", f) /\ Val("room", f) = room'
  BY <1>1 DEF Sets, Val
<1>12. Staying'
  <2>1. SUFFICES ASSUME room' = Lobby PROVE NoMove'
    BY <1>9 DEF Staying
  <2>2. /\ 1 \in 1..Len(down) /\ f = down[1] /\ Len(down) \in Nat
        /\ \A i \in 1..Len(down') : down'[i] = down[i + 1] /\ i + 1 \in 1..Len(down) /\ 1 < i + 1
    BY SeqTail DEF BInv, TypeOK
  <2>3. \A j \in 1..Len(down) : 1 < j => ~Sets("room", down[j])
    BY <1>2, <1>11, <2>1, <2>2 DEF Connection, AtRest
  <2>4. Silent("room", down)'
    BY <2>2, <2>3 DEF Silent, Sets
  <2>5. Silent("room", owed)'
    BY <1>3 DEF Silent
  <2> QED BY <2>4, <2>5 DEF NoMove
<1>13. Val("room", f) \in Shown("room")'
  BY <1>1, <1>11 DEF Shown
<1>14. IF Sets("user", f) THEN Val("user", f) \in Shown("user")' ELSE Shown("user") \subseteq Shown("user")'
  BY <1>1 DEF Shown, Sets, Val
<1>15. Agrees("user")' /\ Agrees("room")'
  BY <1>11, <1>13, <1>14, AgreesTaken DEF Connection
<1>16. Complete'
  BY <1>1 DEF Complete
<1>17. Loading'
  BY <1>9 DEF Loading, Owed, Replied
<1> QED BY <1>6, <1>7, <1>10, <1>12, <1>15, <1>16, <1>17 DEF Connection

\* The page takes a reply: the first waiter of its type has it.
LEMMA ReplyKept ==
    ASSUME BInv, BInv', Connection, NEW f \in Frames, down # <<>>, f = Head(down), down' = Tail(down),
           UNCHANGED <<srv, owed, saved>>, f.kind = "reply", NEW i \in WaiterFor(f.type), Finish(i, f)
    PROVE  Connection'
<1>1. i \in 1..Len(waiters) /\ waiters[i].type = f.type
  BY DEF WaiterFor
<1>2. waiters \in Seq(Waiters) /\ waiters[i] \in Waiters
  BY <1>1 DEF BInv, TypeOK
<1>3. /\ [j \in 1..(Len(waiters) - 1) |-> waiters[IF j < i THEN j ELSE j + 1]] = Without(waiters, i)
      /\ Without(waiters, i) \in Seq(Waiters)
  BY <1>1, <1>2, SeqWithout DEF Without
<1>4. CASE waiters[i].by = "resume"
  <2>1. Resumed(f) /\ waiters' = Without(waiters, i) /\ up' = up
    BY <1>3, <1>4 DEF Finish
  <2> QED BY <1>1, <1>4, <2>1, ResumedKept
<1>5. CASE waiters[i].by # "resume"
  <2>1. f.type # "RECONNECT" /\ waiters[i].by = "task"
    BY <1>1, <1>2, <1>5 DEF BInv, Busy, Waiters
  <2>2. f.type = IF task.stage = "history" THEN "HISTORY" ELSE task.type
    BY <1>1, <2>1 DEF BInv, Busy
  <2>3. CASE task.stage = "history"
    <3>1. ShowHistory(f) /\ up' = up
      BY <1>5, <2>3 DEF Finish
    <3> QED BY <2>2, <2>3, <3>1, ShowHistoryKept
  <2>4. CASE task.stage # "history" /\ (~f.ok \/ task.type = "OTHER")
    <3>1. GiveUp /\ up' = up
      BY <1>5, <2>4 DEF Finish
    <3>2. ~f.ok \/ f.type = "OTHER"
      BY <2>2, <2>4
    <3> QED BY <2>1, <3>1, <3>2, GiveUpKept
  <2>5. CASE task.stage # "history" /\ ~(~f.ok \/ task.type = "OTHER")
    <3>1. /\ Advance(f) /\ waiters' = Append(Without(waiters, i), Waiter("HISTORY", "task"))
          /\ up' = Append(up, Request("HISTORY", room'))
      BY <1>3, <1>5, <2>5 DEF Finish
    <3>2. f.ok /\ f.type = task.type /\ f.type # "OTHER"
      BY <2>2, <2>5
    <3>3. f.type \in {"LOGIN", "LOGOUT", "ROOM_JOIN", "ROOM_LEAVE"}
      <4>1. f.type \in Type /\ f.type \notin {"HISTORY", "RECONNECT", "OTHER"}
        BY <3>2 DEF Frames, BInv, Busy
      <4> QED BY <4>1 DEF Type
    <3> QED BY <1>3, <3>1, <3>2, <3>3, AdvanceKept
  <2> QED BY <2>3, <2>4, <2>5
<1> QED BY <1>4, <1>5

\* The page takes a frame.
LEMMA OnFrameKept ==
    ASSUME BInv, BInv', Connection, OnFrame
    PROVE  Connection'
<1>1. down # <<>> /\ down' = Tail(down) /\ UNCHANGED <<srv, owed, saved>>
  BY DEF OnFrame, server
<1>2. PICK f \in Frames : f = Head(down)
  BY <1>1, SeqTail DEF BInv, TypeOK
<1>3. CASE f.kind = "welcome" /\ Welcome /\ UNCHANGED <<waiters, up>>
  BY <1>1, <1>2, <1>3, WelcomeKept
<1>4. CASE f.kind = "lobby" /\ ToLobby /\ UNCHANGED <<waiters, up>>
  BY <1>1, <1>2, <1>4, LobbyKept
<1>5. CASE f.kind = "chat" /\ EnqueueChat(f) /\ UNCHANGED <<waiters, up>>
  BY <1>1, <1>2, <1>5, MessageKept
<1>6. ASSUME f.kind = "reply", NEW i \in WaiterFor(f.type), Finish(i, f) PROVE Connection'
  BY <1>1, <1>2, <1>6, ReplyKept
<1>7. ASSUME f.kind = "reply" PROVE WaiterFor(f.type) # {}
  <2>1. IsReply(f)
    BY <1>7 DEF IsReply
  <2>2. Replied(f.type, f.room) /\ f.type \in Type /\ f.room \in Room
    BY <1>1, <1>2, <2>1, TakenFrame
  <2>3. Awaited(f.type)
    BY <2>2 DEF Connection, Awaiting, Pending
  <2> QED BY <2>3, FirstWaiter DEF BInv
<1> QED BY <1>2, <1>3, <1>4, <1>5, <1>6, <1>7 DEF OnFrame

\* Every step keeps what is known of a connection without late answers.
LEMMA ConnectionStep ==
    ASSUME IInv, BInv', [Next]_vars, sock' = "open", ~late'
    PROVE  Connection'
<1>1. BInv /\ (sock = "open" /\ ~late => Connection)
  BY DEF IInv, BInv
<1>2. CASE Watch \/ Retry \/ UNCHANGED vars
  <2>1. sock = "open" /\ late' = late
    BY <1>2 DEF Watch, Retry, OpenSocket, vars
  <2>2. UNCHANGED <<user, room, transcript, hold, held, loaded, strayed, waiters, srv, owed, saved, up, down>>
    BY <1>2 DEF Watch, Retry, vars, page, server
  <2> QED BY <1>1, <2>1, <2>2, ConnectionKept
<1>3. CASE Unwatch \/ OnClose \/ \E i \in 1..Len(waiters) : Timeout(i)
  BY <1>3 DEF Unwatch, OnClose, Timeout
<1>4. CASE OnOpen
  BY <1>1, <1>4, OnOpenKept
<1>5. CASE OnFrame
  <2>1. sock = "open" /\ late' = late
    BY <1>5 DEF OnFrame
  <2> QED BY <1>1, <1>5, <2>1, OnFrameKept
<1>6. ASSUME NEW t \in {"LOGIN", "LOGOUT", "ROOM_JOIN", "ROOM_LEAVE", "OTHER"}, NEW r \in Room,
             Click(t, r)
      PROVE  Connection'
  <2>1. sock = "open" /\ late' = late
    BY <1>6 DEF Click
  <2> QED BY <1>1, <1>6, <2>1, ClickKept
<1>7. ASSUME NEW ok \in BOOLEAN, Handle(ok) PROVE Connection'
  <2>1. sock = "open" /\ late' = late
    BY <1>7 DEF Handle
  <2> QED BY <1>1, <1>7, <2>1, HandleKept
<1>8. CASE Answer
  <2>1. sock = "open" /\ late' = late
    BY <1>8 DEF Answer
  <2> QED BY <1>1, <1>8, <2>1, AnswerKept
<1>9. CASE Kick
  <2>1. sock = "open" /\ ~late
    BY <1>9 DEF Kick
  <2> QED BY <1>1, <1>9, <2>1, KickKept
<1>10. ASSUME NEW r \in Room, ChatIn(r) PROVE Connection'
  <2>1. sock = "open" /\ late' = late
    BY <1>10 DEF ChatIn
  <2> QED BY <1>1, <1>10, <2>1, ChatKept
<1> QED BY <1>2, <1>3, <1>4, <1>5, <1>6, <1>7, <1>8, <1>9, <1>10 DEF Next

\* The invariant holds of every behaviour of the page.
LEMMA PageInvariant == Spec => []IInv
<1>1. Init => IInv
  <2>1. Init => sock # "open"
    BY DEF Init
  <2> QED BY <2>1, BasicInit DEF IInv, BInv
<1>2. IInv /\ [Next]_vars => IInv'
  <2>1. SUFFICES ASSUME IInv, [Next]_vars PROVE IInv'
    OBVIOUS
  <2>2. BInv'
    BY <2>1, BasicStep DEF IInv, BInv
  <2>3. (sock' = "open" /\ ~late') => Connection'
    BY <2>1, <2>2, ConnectionStep
  <2> QED BY <2>2, <2>3 DEF IInv, BInv
<1> QED BY <1>1, <1>2, PTL DEF Spec

-----------------------------------------------------------------------------
(***************************************************************************)
(* What must hold.                                                         *)
(***************************************************************************)

\* Waiters, task and held messages of the page fit together: at most one waiter
\* belongs to the task withBusy runs, for the request it is at, and HOLD_CHAT is
\* set exactly while the history is awaited; and nothing is under way on a socket
\* that is not open (chatService.js, request, withBusy, resetTranscript, onclose).
THEOREM PageOrderly == Spec => [](TypeOK /\ Offline /\ Online /\ Busy)
<1>1. IInv => TypeOK /\ Offline /\ Online /\ Busy
  BY DEF IInv
<1> QED BY <1>1, PageInvariant, PTL

\* Once everything has been answered in time, the page shows the user and, unless
\* it was resumed elsewhere, the room of the server's session: across any number
\* of requests, lost connections, resumed sessions and kicks (chatService.js,
\* applyRoomList, resumeSignedIn, login, logout, joinRoom, leaveRoom).
THEOREM PageFollowsServer == Spec => []PageAgrees
<1>1. IInv => PageAgrees
  <2>1. SUFFICES ASSUME IInv, Settled, ~late PROVE user = srv.user /\ (strayed \/ room = srv.room)
    BY DEF PageAgrees
  <2>2. Connection /\ down = <<>> /\ owed = <<>> /\ Len(owed) = 0
    BY <2>1 DEF IInv, Settled
  <2>3. /\ Ends("user", <<>>, Shown("user"), Actual("user"))
        /\ Ends("room", <<>>, Shown("room"), Actual("room"))
    BY <2>2 DEF Connection, Agrees, Silent
  <2>4. Actual("user") \in Shown("user") /\ Actual("room") \in Shown("room")
    BY <2>3, EndsEmpty
  <2> QED BY <2>4 DEF Actual, Shown
<1> QED BY <1>1, PageInvariant, PTL

\* A loaded transcript misses no stored message of its room, however the message,
\* the HISTORY request, its reply and the push of the message were interleaved, for
\* any number of messages (chatService.js, resetTranscript, enqueueChat, HOLD_CHAT).
THEOREM TranscriptComplete == Spec => []NothingLost
<1>1. IInv => NothingLost
  <2>1. SUFFICES ASSUME IInv, Settled, ~late, loaded PROVE saved[srv.room] \subseteq transcript
    BY DEF NothingLost
  <2>2. /\ Connection /\ BInv /\ down = <<>> /\ owed = <<>> /\ Len(owed) = 0 /\ Len(down) = 0
        /\ task = NoTask
    BY <2>1 DEF IInv, BInv, Settled
  <2>3. NoMove
    BY <2>2 DEF NoMove, Silent
  <2>4. srv.room = room
    BY <2>1, <2>2, <2>3, InRoom
  <2>5. ~hold
    BY <2>2, NoneTyped DEF BInv, Busy
  <2>6. \A m : ~Told(room, m)
    BY <2>2 DEF Told
  <2> QED BY <2>1, <2>2, <2>3, <2>4, <2>5, <2>6 DEF Connection, Complete
<1> QED BY <1>1, PageInvariant, PTL
=============================================================================
