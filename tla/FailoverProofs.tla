--------------------------- MODULE FailoverProofs ---------------------------
(***************************************************************************)
(* Proofs about Failover: the type invariant, the supervisor's safety      *)
(* invariants and what may happen to a logged-in user, for any number of   *)
(* endpoints, any seed and directories and any number of laps, attempts    *)
(* and faults.                                                             *)
(*                                                                         *)
(* The inductive invariant IInv says what the supervisor may rely on at    *)
(* each stage: that there is no socket, reader or queued reply while it    *)
(* dials (Unlinked), that connectedTo is only set for the live link        *)
(* (Named), that the session of a user who was logged in at the drop is    *)
(* still to be resumed (Resuming), and which entries of the ring it has    *)
(* dialled in vain (Covered).                                              *)
(***************************************************************************)
EXTENDS Failover, WellFoundedInduction, TLAPS

Dialling == {"off", "dial", "fail", "sleep"}
OnLink == {"resumeSend", "resumeWait", "resumeSleep", "watch"}
Dropped == {"drop", "join"}

\* Before the client starts there is nothing to stop.
Idle ==
    /\ ui.at = "off" <=> sup = "off"
    /\ ui.at \in {"off", "starting"} => ~stopRequested

\* Nothing of the last connection is left while the supervisor looks for the next.
Unlinked ==
    /\ sup \in Dialling => incoming = <<>> /\ reader = "none"
    /\ sup \in Dialling \cup {"join"} => sock = None
    /\ (sup = "done" /\ ~stopRequested) => reader = "none"

\* connectedTo is the endpoint of the live link or none.
Named ==
    /\ sup \in Dialling \cup Dropped \cup {"linked"} => connectedTo = None
    /\ reconnecting => connectedTo = None
    /\ sup \in OnLink => ~reconnecting

\* The ring.
RingKept ==
    /\ IsInjective(points)
    /\ sup # "off" => ToSet(Seed) \subseteq ToSet(points)
    /\ sock # None => Current = sock
    /\ (sock # None /\ connectedTo # None) => connectedTo = sock

\* A user who was logged in when the link dropped has a session to resume.
Resuming ==
    /\ owed => loggedIn
    /\ (owed /\ sup \in Dialling \cup Dropped \cup {"linked"}) => resumePending
    /\ (owed /\ sup \in OnLink) => resumed

\* The entries the cursor has passed in its last d moves.
Passed(d) ==
    {p \in 1..Len(points) : \/ p < index /\ index - p <= d
                            \/ p >= index /\ index + Len(points) - p <= d}

\* Every entry passed since the last link was dialled, except the one of that link.
Covered ==
    /\ sup \in OnLink \cup Dropped \cup {"off"} => attempt = 0
    /\ sup \in {"dial", "sleep", "fail"} => \A p \in Passed(attempt - 1) : points[p] \in tried
    /\ (sup = "fail" /\ attempt # 0) => Current \in tried
    /\ sup = "sleep" => attempt # 0
    /\ (Laps >= 2 /\ sup = "done" /\ ~stopRequested) => ToSet(points) \subseteq tried

IInv == TypeOK /\ Idle /\ Unlinked /\ Named /\ RingKept /\ Resuming /\ Covered

-----------------------------------------------------------------------------
(***************************************************************************)
(* What the loop of mergeFailoverList computes, by least counterexample.   *)
(***************************************************************************)

\* A set of natural numbers has a least element.
LEMMA LeastNatural ==
    ASSUME NEW T \in SUBSET Nat, T # {}
    PROVE  \E n \in T : \A m \in T : n <= m
<1>1. PICK n \in T : \A m \in T : ~(<<m, n>> \in OpToRel(<, Nat))
  BY NatLessThanWellFounded, WFMin
<1>2. \A m \in T : ~(m < n)
  BY <1>1 DEF OpToRel
<1> QED BY <1>2

Entries == Endpoint \cup {None}

\* m is what appendAll computes for the first n entries of all.
IsLoop(m, all, n) ==
    m = [i \in 0..n |-> IF i = 0 THEN <<>> ELSE appendUnique(m[i - 1], all[i])]

\* The loop can be run to its end.
LEMMA LoopExists ==
    ASSUME NEW all \in Seq(Entries)
    PROVE  \E m : IsLoop(m, all, Len(all))
<1> DEFINE Ran(n) == \E m : IsLoop(m, all, n)
           T == {n \in Nat : n <= Len(all) /\ ~Ran(n)}
<1>1. SUFFICES ASSUME T # {} PROVE FALSE
  <2>1. Len(all) \in Nat
    OBVIOUS
  <2>2. Ran(Len(all)) \/ Len(all) \in T
    BY <2>1
  <2> QED BY <2>2
<1>2. PICK k \in T : \A j \in T : k <= j
  <2>1. T \in SUBSET Nat
    OBVIOUS
  <2> HIDE DEF T
  <2> QED BY <1>1, <2>1, LeastNatural
<1>3. CASE k = 0
  <2>1. IsLoop([i \in 0..0 |-> <<>>], all, 0)
    BY DEF IsLoop
  <2> QED BY <1>3, <2>1
<1>4. CASE k > 0
  <2>1. k - 1 \in Nat /\ k - 1 < k /\ k - 1 <= Len(all) /\ k - 1 \notin T
    BY <1>2, <1>4
  <2>2. PICK m : IsLoop(m, all, k - 1)
    BY <2>1
  <2> DEFINE last == appendUnique(m[k - 1], all[k])
             g == [i \in 0..k |-> IF i = k THEN last ELSE m[i]]
  <2>3. ASSUME NEW i \in 0..k
        PROVE  g[i] = IF i = 0 THEN <<>> ELSE appendUnique(g[i - 1], all[i])
    <3>1. CASE i = k
      BY <1>4, <3>1
    <3>2. CASE i # k
      <4>1. i \in 0..(k - 1) /\ g[i] = m[i] /\ (i # 0 => g[i - 1] = m[i - 1])
        BY <1>4, <3>2
      <4>2. m[i] = IF i = 0 THEN <<>> ELSE appendUnique(m[i - 1], all[i])
        BY <2>2, <4>1 DEF IsLoop
      <4> QED BY <4>1, <4>2
    <3> QED BY <3>1, <3>2
  <2>4. IsLoop(g, all, k)
    <3>1. DOMAIN g = 0..k /\ g = [i \in 0..k |-> g[i]]
      OBVIOUS
    <3> HIDE DEF g
    <3> QED BY <2>3, <3>1 DEF IsLoop
  <2> QED BY <2>4
<1> QED BY <1>2, <1>3, <1>4

\* appendAll is that loop.
LEMMA AppendAllLoops ==
    ASSUME NEW all \in Seq(Entries)
    PROVE  IsLoop(appendAll(all), all, Len(all))
<1>1. appendAll(all) = CHOOSE m : IsLoop(m, all, Len(all))
  BY DEF appendAll, IsLoop
<1> HIDE DEF IsLoop
<1> QED BY <1>1, LoopExists, Zenon

\* A list without duplicates of the usable entries among the first n of all.
IsMerge(q, all, n) ==
    /\ q \in Seq(Endpoint) /\ IsInjective(q)
    /\ ToSet(q) = {all[i] : i \in 1..n} \ {None}

\* One turn of the loop adds its entry.
LEMMA AppendUniqueMerges ==
    ASSUME NEW all \in Seq(Entries), NEW k \in 1..Len(all), NEW q, IsMerge(q, all, k - 1)
    PROVE  IsMerge(appendUnique(q, all[k]), all, k)
<1> DEFINE e == all[k]
           S == {all[i] : i \in 1..(k - 1)}
<1>1. {all[i] : i \in 1..k} = S \cup {e}
  <2>1. 1..k = 1..(k - 1) \cup {k}
    OBVIOUS
  <2> QED BY <2>1
<1>2. q \in Seq(Endpoint) /\ IsInjective(q) /\ ToSet(q) = S \ {None} /\ e \in Entries
  BY DEF IsMerge
<1> HIDE DEF e, S
<1>3. CASE e = None \/ e \in ToSet(q)
  BY <1>1, <1>2, <1>3 DEF IsMerge, appendUnique, e
<1>4. CASE ~(e = None \/ e \in ToSet(q))
  <2> DEFINE r == Append(q, e)
  <2>1. /\ r \in Seq(Endpoint) /\ Len(r) = Len(q) + 1 /\ r[Len(q) + 1] = e
        /\ \A i \in 1..Len(q) : r[i] = q[i]
    BY <1>2, <1>4 DEF Entries
  <2> HIDE DEF r
  <2>2. \A i \in 1..Len(q) : q[i] # e
    BY <1>2, <1>4 DEF ToSet
  <2>3. IsInjective(r)
    BY <1>2, <2>1, <2>2 DEF IsInjective
  <2>4. ToSet(r) = ToSet(q) \cup {e}
    <3>1. DOMAIN q = 1..Len(q) /\ DOMAIN r = 1..Len(q) \cup {Len(q) + 1}
      <4>1. Len(q) \in Nat /\ DOMAIN q = 1..Len(q) /\ DOMAIN r = 1..(Len(q) + 1)
        BY <1>2, <2>1
      <4> QED BY <4>1
    <3>2. ToSet(r) = {r[i] : i \in 1..Len(q)} \cup {r[Len(q) + 1]}
      BY <3>1 DEF ToSet
    <3>3. {r[i] : i \in 1..Len(q)} = {q[i] : i \in 1..Len(q)}
      BY <2>1
    <3> QED BY <2>1, <3>1, <3>2, <3>3 DEF ToSet
  <2>5. appendUnique(q, e) = r
    BY <1>4 DEF appendUnique, r
  <2> QED BY <1>1, <1>2, <1>4, <2>1, <2>3, <2>4, <2>5 DEF IsMerge, e
<1> QED BY <1>3, <1>4

\* What mergeFailoverList returns: a list without duplicates, of the usable ones
\* among the current endpoint, the directory's and the seed's.
LEMMA MergeComputes ==
    ASSUME NEW current \in Entries, NEW directory \in Seq(Endpoint)
    PROVE  LET q == mergeFailoverList(current, Seed, directory)
           IN /\ q \in Seq(Endpoint) /\ IsInjective(q)
              /\ ToSet(Seed) \subseteq ToSet(q)
              /\ current # None => current \in ToSet(q)
<1> DEFINE all == <<current>> \o directory \o Seed
           m == appendAll(all)
           T == {n \in Nat : n <= Len(all) /\ ~IsMerge(m[n], all, n)}
<1>0. Seed \in Seq(Endpoint) /\ None \notin Endpoint
  BY FailoverAssumption
<1>1. /\ all \in Seq(Entries) /\ all[1] = current /\ Len(all) \in Nat
      /\ Len(all) = 1 + Len(directory) + Len(Seed)
      /\ \A i \in 1..Len(Seed) : all[1 + Len(directory) + i] = Seed[i]
  <2>1. /\ <<current>> \in Seq(Entries) /\ directory \in Seq(Entries)
        /\ Seed \in Seq(Entries)
    BY <1>0 DEF Entries
  <2> QED BY <2>1
<1> HIDE DEF all
<1>2. IsLoop(m, all, Len(all))
  BY <1>1, AppendAllLoops
<1> HIDE DEF m
<1>3. T = {}
  <2>1. SUFFICES ASSUME T # {} PROVE FALSE
    OBVIOUS
  <2>2. PICK k \in T : \A j \in T : k <= j
    <3>1. T \in SUBSET Nat
      OBVIOUS
    <3> HIDE DEF T
    <3> QED BY <2>1, <3>1, LeastNatural
  <2>3. CASE k = 0
    <3>1. m[0] = <<>>
      BY <1>1, <1>2 DEF IsLoop
    <3>2. IsMerge(<<>>, all, 0)
      BY DEF IsMerge, IsInjective, ToSet
    <3> QED BY <2>3, <3>1, <3>2
  <2>4. CASE k > 0
    <3>1. /\ k \in 1..Len(all) /\ k - 1 \in Nat /\ k - 1 <= Len(all) /\ k - 1 < k
          /\ k - 1 \notin T
      BY <1>1, <2>2, <2>4
    <3>2. IsMerge(m[k - 1], all, k - 1)
      BY <3>1
    <3>3. m[k] = appendUnique(m[k - 1], all[k])
      BY <1>1, <1>2, <3>1, <2>4 DEF IsLoop
    <3>4. IsMerge(m[k], all, k)
      BY <1>1, <3>1, <3>2, <3>3, AppendUniqueMerges
    <3> QED BY <3>4
  <2> QED BY <2>2, <2>3, <2>4
<1> DEFINE q == m[Len(all)]
<1>4. IsMerge(q, all, Len(all))
  BY <1>1, <1>3
<1> HIDE DEF q
<1>5. \A i \in 1..Len(all) : all[i] # None => all[i] \in ToSet(q)
  BY <1>4 DEF IsMerge
<1>6. current # None => current \in ToSet(q)
  BY <1>1, <1>5
<1>7. ToSet(Seed) \subseteq ToSet(q)
  <2>1. ASSUME NEW i \in 1..Len(Seed) PROVE Seed[i] \in ToSet(q)
    <3>1. 1 + Len(directory) + i \in 1..Len(all) /\ Seed[i] # None
      BY <1>0, <1>1
    <3> QED BY <1>1, <1>5, <3>1
  <2> QED BY <1>0, <2>1 DEF ToSet
<1>8. mergeFailoverList(current, Seed, directory) = q
  BY DEF mergeFailoverList, q, m, all
<1> QED BY <1>4, <1>6, <1>7, <1>8 DEF IsMerge

-----------------------------------------------------------------------------
(***************************************************************************)
(* The ring.                                                               *)
(***************************************************************************)

\* advance goes to the next entry, and from the last to the first.
LEMMA WrapsAround ==
    ASSUME NEW n \in Nat, NEW i \in 1..n
    PROVE  (i % n) + 1 = IF i = n THEN 1 ELSE i + 1
OBVIOUS

\* replace keeps the cursor on its endpoint when the new list has it.
LEMMA ReplaceKeeps ==
    ASSUME TypeOK, NEW q \in Seq(Endpoint), Replace(q),
           Current # None => Current \in ToSet(q)
    PROVE  /\ points' = q /\ (q # <<>> => index' \in 1..Len(q))
           /\ Current # None => Current' = Current
<1>0. points' = q /\ DOMAIN q = 1..Len(q) /\ Len(q) \in Nat
  BY DEF Replace
<1>1. CASE Current = None \/ Current \notin ToSet(q)
  <2>1. index' = 1 /\ Current = None
    BY <1>1 DEF Replace
  <2>2. q # <<>> => 1 \in 1..Len(q)
    OBVIOUS
  <2> QED BY <1>0, <2>1, <2>2
<1>2. CASE ~(Current = None \/ Current \notin ToSet(q))
  <2>1. \E i \in 1..Len(q) : q[i] = Current
    BY <1>0, <1>2 DEF ToSet
  <2>2. index' = CHOOSE i \in 1..Len(q) : q[i] = Current
    BY <1>2 DEF Replace
  <2> HIDE DEF Current
  <2>3. index' \in 1..Len(q) /\ q[index'] = Current
    BY <2>1, <2>2
  <2>4. q # <<>>
    BY <2>3
  <2> QED BY <1>0, <2>3, <2>4 DEF Current
<1> QED BY <1>1, <1>2

\* The cursor's endpoint is one of the list.
LEMMA CurrentTyped ==
    ASSUME TypeOK
    PROVE  Current \in Entries /\ (Current = None <=> points = <<>>)
BY FailoverAssumption DEF Current, TypeOK, Entries

\* A step that leaves list and cursor alone and opens no socket keeps the ring.
LEMMA RingQuiet ==
    ASSUME RingKept, UNCHANGED <<points, index>>, sock' \in {sock, None},
           connectedTo' \in {connectedTo, None}, sup = "off" => sup' = "off"
    PROVE  RingKept'
BY DEF RingKept, Current

\* A step that leaves list, cursor and the supervisor's counters alone, and leads it
\* to no stage that says more.
LEMMA CoveredQuiet ==
    ASSUME Covered, UNCHANGED <<points, index, attempt, tried>>,
           \/ sup' = sup /\ (stopRequested => stopRequested')
           \/ sup \in OnLink \cup Dropped /\ sup' \in OnLink \cup Dropped
           \/ stopRequested' /\ sup' = "done"
           \/ sup' \notin OnLink \cup Dropped \cup {"off", "dial", "sleep", "fail", "done"}
    PROVE  Covered'
<1>1. Passed(attempt - 1)' = Passed(attempt - 1) /\ Current' = Current
  BY DEF Passed, Current
<1> QED BY <1>1 DEF Covered, OnLink, Dropped

-----------------------------------------------------------------------------
(***************************************************************************)
(* One step for each action, by thread.                                    *)
(***************************************************************************)
Stages == Idle /\ Unlinked /\ Named /\ Resuming

\* Servers and links come and go.
LEMMA WorldStep ==
    ASSUME IInv, World
    PROVE  IInv'
<1>1. UNCHANGED <<authed, sent, connected, sock, reader, incoming, points, index, supVars,
                  flagVars, loggedIn, ui, stopRequested>>
  BY DEF World, LinkFails, ServerStops, ServerStarts, netVars, ringVars
<1>2. /\ link' \in {"none", "up", "silent", "down"} /\ faults' \in Nat
      /\ up' \in [Endpoint -> BOOLEAN]
  <2>0. /\ link \in {"none", "up", "silent", "down"} /\ faults \in Nat
        /\ up \in [Endpoint -> BOOLEAN]
    BY DEF IInv, TypeOK
  <2>1. CASE LinkFails
    BY <2>0, <2>1 DEF LinkFails
  <2>2. ASSUME NEW e \in Endpoint, ServerStops(e)
        PROVE  /\ link' \in {"none", "up", "silent", "down"} /\ faults' \in Nat
               /\ up' \in [Endpoint -> BOOLEAN]
    <3>1. up' = [up EXCEPT ![e] = FALSE] /\ faults' = faults + 1 /\ link' \in {link, "down"}
      BY <2>2 DEF ServerStops
    <3> QED BY <2>0, <3>1
  <2>3. ASSUME NEW e \in Endpoint, ServerStarts(e)
        PROVE  /\ link' \in {"none", "up", "silent", "down"} /\ faults' \in Nat
               /\ up' \in [Endpoint -> BOOLEAN]
    <3>1. up' = [up EXCEPT ![e] = TRUE] /\ faults' = faults /\ link' = link
      BY <2>3 DEF ServerStarts, netVars
    <3> QED BY <2>0, <3>1
  <2> QED BY <2>1, <2>2, <2>3 DEF World
<1>3. TypeOK'
  BY <1>1, <1>2 DEF IInv, TypeOK, supVars, flagVars
<1>4. Stages'
  BY <1>1 DEF IInv, Stages, Idle, Unlinked, Named, Resuming, supVars, flagVars
<1>5. RingKept' /\ Covered'
  BY <1>1, RingQuiet, CoveredQuiet DEF IInv, supVars, flagVars
<1> QED BY <1>3, <1>4, <1>5 DEF IInv, Stages

\* A directory is merged into the ring: only while a reader runs.
LEMMA DirectoryStep ==
    ASSUME IInv, ReadDirectory
    PROVE  IInv'
<1>0. TypeOK /\ reader = "run" /\ RingKept /\ Covered
  BY DEF IInv, ReadDirectory
<1>1. PICK d \in Directories : Replace(mergeFailoverList(Current, Seed, d))
  BY DEF ReadDirectory
<1> DEFINE q == mergeFailoverList(Current, Seed, d)
<1>2. /\ q \in Seq(Endpoint) /\ IsInjective(q) /\ ToSet(Seed) \subseteq ToSet(q)
      /\ Current # None => Current \in ToSet(q)
  <2>1. Current \in Entries /\ d \in Seq(Endpoint)
    BY <1>0, CurrentTyped, FailoverAssumption
  <2> HIDE DEF Current
  <2> QED BY <2>1, MergeComputes
<1> HIDE DEF q
<1>3. /\ points' = q /\ (q # <<>> => index' \in 1..Len(q))
      /\ Current # None => Current' = Current
  BY <1>0, <1>1, <1>2, ReplaceKeeps DEF q
<1>4. UNCHANGED <<up, netVars, supVars, flagVars, loggedIn, ui, stopRequested, faults>>
  BY DEF ReadDirectory
<1>5. TypeOK'
  BY <1>0, <1>2, <1>3, <1>4 DEF TypeOK, netVars, supVars, flagVars
<1>6. Stages'
  BY <1>4 DEF IInv, Stages, Idle, Unlinked, Named, Resuming, netVars, supVars, flagVars
<1>7. RingKept'
  <2>1. sock' = sock /\ connectedTo' = connectedTo /\ sup' = sup
    BY <1>4 DEF netVars, supVars, flagVars
  <2>2. sock # None => Current' = sock
    BY <1>0, <1>3 DEF RingKept
  <2> QED BY <1>0, <1>2, <1>3, <2>1, <2>2 DEF RingKept
<1>8. Covered'
  <2>1. sup' = sup /\ attempt' = attempt /\ stopRequested' = stopRequested
    BY <1>4 DEF supVars
  <2>2. sup \notin Dialling /\ ~(sup = "done" /\ ~stopRequested)
    BY <1>0 DEF IInv, Unlinked
  <2> QED BY <1>0, <2>1, <2>2 DEF Covered, Dialling
<1> QED BY <1>5, <1>6, <1>7, <1>8 DEF IInv, Stages

\* The other steps of the reader.
LEMMA ReaderStep ==
    ASSUME IInv, ReadWelcome \/ ReadReply \/ ReaderExits
    PROVE  IInv'
<1>0. TypeOK /\ reader \in {"welcome", "run"}
  BY DEF IInv, ReadWelcome, ReadReply, ReaderExits
<1>1. /\ UNCHANGED <<up, link, sock, points, index, supVars, flagVars, loggedIn, ui,
                     stopRequested, faults>>
      /\ reader' \in {"run", "exit"}
      /\ connected' \in {connected, FALSE}
  BY DEF ReadWelcome, ReadReply, ReaderExits, ringVars
<1>2. sent' \in Seq(Request \cup {"RECONNECT"})
  <2> DEFINE R == Request \cup {"RECONNECT"}
  <2>1. sent' = sent \/ (sent # <<>> /\ sent' = Tail(sent))
    BY DEF ReadWelcome, ReadReply, ReaderExits
  <2>2. sent \in Seq(R)
    BY <1>0 DEF TypeOK
  <2> HIDE DEF R
  <2>3. sent' \in Seq(R)
    BY <2>1, <2>2
  <2> QED BY <2>3 DEF R
<1>3. authed' \in BOOLEAN
  BY <1>0 DEF ReadWelcome, ReadReply, ReaderExits, TypeOK
<1>4. incoming' \in Seq(Reply)
  <2>1. CASE ReadReply
    <3>1. PICK ok \in BOOLEAN : incoming' = Append(incoming, [type |-> Head(sent), ok |-> ok])
      BY <2>1 DEF ReadReply
    <3>2. Head(sent) \in Request \cup {"RECONNECT"}
      BY <1>0, <2>1 DEF ReadReply, TypeOK
    <3>3. [type |-> Head(sent), ok |-> ok] \in Reply
      BY <3>2 DEF Reply
    <3> QED BY <1>0, <3>1, <3>3 DEF TypeOK
  <2>2. CASE ReadWelcome \/ ReaderExits
    BY <1>0, <2>2 DEF ReadWelcome, ReaderExits, TypeOK
  <2> QED BY <2>1, <2>2
<1>5. TypeOK'
  BY <1>0, <1>1, <1>2, <1>3, <1>4 DEF TypeOK, supVars, flagVars
<1>6. sup \notin Dialling /\ ~(sup = "done" /\ ~stopRequested)
  BY <1>0 DEF IInv, Unlinked
<1>7. Stages'
  <2>1. Idle' /\ Named' /\ Resuming'
    BY <1>1 DEF IInv, Idle, Named, Resuming, supVars, flagVars
  <2>2. Unlinked'
    BY <1>1, <1>6 DEF IInv, Unlinked, supVars
  <2> QED BY <2>1, <2>2 DEF Stages
<1>8. RingKept' /\ Covered'
  BY <1>1, RingQuiet, CoveredQuiet DEF IInv, supVars, flagVars
<1> QED BY <1>5, <1>7, <1>8 DEF IInv, Stages

\* markReconnecting sets its flags together.
LEMMA MarkReconnectingFacts ==
    ASSUME IInv, MarkReconnecting
    PROVE  /\ reconnecting' \in BOOLEAN /\ resumePending' \in BOOLEAN
           /\ connectedTo' \in {connectedTo, None}
           /\ reconnecting' => connectedTo' = None
           /\ resumePending => resumePending'
           /\ ~reconnecting => (connectedTo' = None /\ (loggedIn => resumePending'))
BY DEF IInv, TypeOK, Named, MarkReconnecting, flagVars

\* A dial that succeeds opens the socket the cursor is on.
LEMMA ConnectStep ==
    ASSUME IInv, Connect
    PROVE  IInv'
<1>0. TypeOK /\ sup = "dial" /\ connectedTo = None
  BY DEF IInv, Connect, Named, Dialling
<1>1. /\ UNCHANGED <<up, incoming, points, index, attempt, hadLink, resumes, tried, owed,
                     reconnecting, resumePending, connectedTo, loggedIn, ui, stopRequested,
                     faults>>
      /\ link' = "up" /\ authed' = FALSE /\ sent' = <<>> /\ connected' = TRUE
      /\ sock' = Current /\ reader' = "welcome" /\ sup' = "linked" /\ resumed' = FALSE
      /\ sent' \in Seq(Request \cup {"RECONNECT"})
  BY DEF Connect, ringVars, flagVars
<1>2. Current \in Entries
  BY <1>0, CurrentTyped
<1>3. TypeOK'
  BY <1>0, <1>1, <1>2 DEF TypeOK, SupStage, Entries
<1>4. Stages'
  BY <1>0, <1>1 DEF IInv, Stages, Idle, Unlinked, Named, Resuming, Dialling, Dropped, OnLink
<1>5. RingKept'
  BY <1>0, <1>1 DEF IInv, RingKept, Current
<1>6. Covered'
  BY <1>1, CoveredQuiet DEF IInv, OnLink, Dropped
<1> QED BY <1>3, <1>4, <1>5, <1>6 DEF IInv, Stages

\* A dial that fails adds the endpoint to those tried.
LEMMA DialFailsStep ==
    ASSUME IInv, DialFails
    PROVE  IInv'
<1>0. TypeOK /\ sup = "dial" /\ Current # None
  BY DEF IInv, DialFails
<1>1. /\ UNCHANGED <<up, netVars, points, index, attempt, hadLink, resumes, owed, resumed,
                     loggedIn, ui, stopRequested, faults>>
      /\ sup' = "fail" /\ tried' = tried \cup {Current}
      /\ MarkReconnecting \/ UNCHANGED flagVars
  BY DEF DialFails, ringVars
<1>2. Current \in Endpoint
  BY <1>0, CurrentTyped DEF Entries
<1>3. /\ reconnecting' \in BOOLEAN /\ resumePending' \in BOOLEAN /\ connectedTo' = None
      /\ resumePending => resumePending'
  BY <1>0, <1>1, MarkReconnectingFacts DEF IInv, TypeOK, Named, Dialling, flagVars
<1>4. TypeOK'
  BY <1>0, <1>1, <1>2, <1>3 DEF TypeOK, SupStage, netVars
<1>5. Stages'
  BY <1>0, <1>1, <1>3 DEF IInv, Stages, Idle, Unlinked, Named, Resuming, Dialling, Dropped,
     OnLink, netVars
<1>6. RingKept'
  BY <1>0, <1>1, <1>3, RingQuiet DEF IInv, netVars
<1>7. Covered'
  <2>1. Passed(attempt - 1)' = Passed(attempt - 1) /\ Current' = Current
    BY <1>1 DEF Passed, Current
  <2> QED BY <1>0, <1>1, <2>1 DEF IInv, Covered, OnLink, Dropped
<1> QED BY <1>4, <1>5, <1>6, <1>7 DEF IInv, Stages

\* The supervisor's loop ends: told to stop, or without an endpoint.
LEMMA LoopEndsStep ==
    ASSUME IInv, LoopEnds
    PROVE  IInv'
<1>0. TypeOK /\ (sup = "dial" \/ (sup = "watch" /\ stopRequested))
  BY DEF IInv, LoopEnds
<1>1. /\ UNCHANGED <<up, netVars, points, index, attempt, hadLink, resumes, tried, owed, resumed,
                     resumePending, loggedIn, ui, stopRequested, faults>>
      /\ sup' = "done" /\ reconnecting' = FALSE /\ connectedTo' = None
      /\ stopRequested \/ Current = None
  BY DEF LoopEnds, ringVars
<1>2. TypeOK'
  BY <1>0, <1>1 DEF TypeOK, SupStage, netVars
<1>3. Stages'
  BY <1>0, <1>1 DEF IInv, Stages, Idle, Unlinked, Named, Resuming, Dialling, Dropped, OnLink,
     netVars
<1>4. RingKept'
  BY <1>0, <1>1, RingQuiet DEF IInv, netVars
<1>5. Covered'
  <2>1. Current = None => ToSet(points) = {}
    BY <1>0, CurrentTyped DEF ToSet
  <2> QED BY <1>1, <2>1 DEF Covered, OnLink, Dropped
<1> QED BY <1>2, <1>3, <1>4, <1>5 DEF IInv, Stages

\* The new link is noted under the endpoint of its socket.
LEMMA LinkedStep ==
    ASSUME IInv, Linked
    PROVE  IInv'
<1>0. TypeOK /\ sup = "linked" /\ Current \in Entries
  BY CurrentTyped DEF IInv, Linked
<1>1. /\ UNCHANGED <<up, netVars, points, index, owed, loggedIn, ui, stopRequested, faults>>
      /\ hadLink' = TRUE /\ attempt' = 0 /\ tried' = {} /\ connectedTo' = Current
      /\ reconnecting' = FALSE /\ sup' \in {"resumeSend", "watch"} /\ resumes' = 0
      /\ resumePending' = FALSE /\ resumed' = resumePending
  BY DEF Linked, ringVars
<1>2. TypeOK'
  <2>0. resumePending \in BOOLEAN
    BY <1>0 DEF TypeOK
  <2>1. resumed' \in BOOLEAN
    BY <1>1, <2>0
  <2>2. resumes' \in 0..MaxResumes
    BY <1>1, FailoverAssumption
  <2>3. sup' \in SupStage /\ connectedTo' \in Endpoint \cup {None}
    BY <1>0, <1>1 DEF SupStage, Entries
  <2> QED BY <1>0, <1>1, <2>1, <2>2, <2>3 DEF TypeOK, netVars
<1>3. Stages'
  BY <1>0, <1>1 DEF IInv, Stages, Idle, Unlinked, Named, Resuming, Dialling, Dropped, OnLink,
     netVars
<1>4. RingKept'
  <2>1. sock' = sock /\ Current' = Current
    BY <1>1 DEF netVars, Current
  <2> QED BY <1>0, <1>1, <2>1 DEF IInv, RingKept
<1>5. Covered'
  BY <1>1 DEF Covered, OnLink, Dropped
<1> QED BY <1>2, <1>3, <1>4, <1>5 DEF IInv, Stages

\* What sendPacket may do to the connection.
LEMMA SendFacts ==
    ASSUME TypeOK, NEW type \in Request \cup {"RECONNECT"},
           sent' = sent \/ sent' = Append(sent, type),
           connected' = connected \/ connected' = FALSE
    PROVE  sent' \in Seq(Request \cup {"RECONNECT"}) /\ connected' \in BOOLEAN
<1> DEFINE R == Request \cup {"RECONNECT"}
<1>1. sent \in Seq(R) /\ connected \in BOOLEAN /\ type \in R
  BY DEF TypeOK
<1> HIDE DEF R
<1>2. sent' \in Seq(R)
  BY <1>1
<1>3. connected' \in BOOLEAN
  BY <1>1
<1> QED BY <1>2, <1>3 DEF R

\* resumeSession.
LEMMA ResumeStep ==
    ASSUME IInv, ResumeSend \/ ResumeTakes \/ ResumeTimesOut \/ ResumeSleeps
    PROVE  IInv'
<1>0. TypeOK /\ sup \in {"resumeSend", "resumeWait", "resumeSleep"}
  BY DEF IInv, ResumeSend, ResumeTakes, ResumeTimesOut, ResumeSleeps
<1>1. /\ UNCHANGED <<up, link, authed, reader, points, index, attempt, hadLink, tried, owed,
                     resumed, flagVars, loggedIn, ui, stopRequested, faults>>
      /\ sup' \in OnLink
  BY DEF ResumeSend, Send, ResumeTakes, ResumeTimesOut, ResumeSleeps, netVars, ringVars, OnLink
<1>2. /\ sent' \in Seq(Request \cup {"RECONNECT"}) /\ connected' \in BOOLEAN
      /\ sock' \in {sock, None} /\ resumes' \in 0..MaxResumes
  <2>1. CASE ResumeSend
    <3>1. CASE ~stopRequested /\ resumes < MaxResumes /\ resumes' = resumes + 1
               /\ Send("RECONNECT", sup' = "resumeWait", sup' = "watch")
      <4>1. /\ sent' = sent \/ sent' = Append(sent, "RECONNECT")
            /\ connected' = connected \/ connected' = FALSE
            /\ sock' \in {sock, None}
        BY <3>1 DEF Send
      <4>2. resumes' \in 0..MaxResumes
        BY <1>0, <3>1, FailoverAssumption DEF TypeOK
      <4> QED BY <1>0, <4>1, <4>2, SendFacts
    <3>2. CASE UNCHANGED <<resumes, sent, connected, sock>>
      BY <1>0, <3>2 DEF TypeOK
    <3> QED BY <2>1, <3>1, <3>2 DEF ResumeSend
  <2>2. CASE ResumeTakes \/ ResumeTimesOut \/ ResumeSleeps
    <3>1. UNCHANGED <<sent, connected, sock, resumes>>
      BY <2>2 DEF ResumeTakes, ResumeTimesOut, ResumeSleeps, netVars
    <3> QED BY <1>0, <3>1 DEF TypeOK
  <2> QED BY <2>1, <2>2
<1>3. incoming' \in Seq(Reply)
  <2>1. incoming \in Seq(Reply)
    BY <1>0 DEF TypeOK
  <2>2. incoming' = incoming \/ (incoming # <<>> /\ incoming' = Tail(incoming))
    BY DEF ResumeSend, ResumeTakes, ResumeTimesOut, ResumeSleeps, netVars
  <2> QED BY <2>1, <2>2
<1>4. TypeOK'
  <2>1. sup' \in SupStage /\ sock' \in Endpoint \cup {None}
    BY <1>0, <1>1, <1>2 DEF TypeOK, OnLink, SupStage
  <2> QED BY <1>0, <1>1, <1>2, <1>3, <2>1 DEF TypeOK, flagVars
<1>5. Stages'
  BY <1>0, <1>1 DEF IInv, Stages, Idle, Unlinked, Named, Resuming, Dialling, Dropped, OnLink,
     flagVars
<1>6. RingKept'
  BY <1>0, <1>1, <1>2, RingQuiet DEF IInv, flagVars
<1>7. Covered'
  BY <1>0, <1>1, CoveredQuiet DEF IInv, OnLink
<1> QED BY <1>4, <1>5, <1>6, <1>7 DEF IInv, Stages

\* The link is found dead: the flags are set and the session is owed.
LEMMA UnhealthyStep ==
    ASSUME IInv, Unhealthy
    PROVE  IInv'
<1>0. TypeOK /\ sup = "watch" /\ ~reconnecting
  BY DEF IInv, Unhealthy, Named, OnLink
<1>1. /\ UNCHANGED <<up, netVars, points, index, attempt, hadLink, resumes, tried, resumed,
                     loggedIn, ui, stopRequested, faults>>
      /\ MarkReconnecting /\ owed' = loggedIn /\ sup' = "drop"
  BY DEF Unhealthy, ringVars
<1>2. /\ reconnecting' \in BOOLEAN /\ resumePending' \in BOOLEAN /\ connectedTo' = None
      /\ loggedIn => resumePending'
  BY <1>0, <1>1, MarkReconnectingFacts
<1>3. TypeOK'
  BY <1>0, <1>1, <1>2 DEF TypeOK, SupStage, netVars
<1>4. Stages'
  BY <1>0, <1>1, <1>2 DEF IInv, Stages, Idle, Unlinked, Named, Resuming, Dialling, Dropped,
     OnLink, netVars
<1>5. RingKept'
  BY <1>0, <1>1, <1>2, RingQuiet DEF IInv, netVars
<1>6. Covered'
  BY <1>0, <1>1, CoveredQuiet DEF IInv, OnLink, Dropped
<1> QED BY <1>3, <1>4, <1>5, <1>6 DEF IInv, Stages

\* The socket is closed, then the reader joined and the queue cleared.
LEMMA DropStep ==
    ASSUME IInv, DropLink \/ JoinReader
    PROVE  IInv'
<1>0. TypeOK /\ \/ sup = "drop" /\ sup' = "join"
                \/ sup = "join" /\ sup' = "fail"
  BY DEF IInv, DropLink, JoinReader
<1>1. /\ UNCHANGED <<up, authed, points, index, attempt, hadLink, resumes, tried, owed, resumed,
                     flagVars, loggedIn, ui, stopRequested, faults>>
      /\ sock' \in {sock, None} /\ (sup' = "join" => sock' = None)
      /\ link' \in {"none", "down"} /\ reader' \in {reader, "none"}
      /\ connected' \in {connected, FALSE}
      /\ incoming' = incoming \/ incoming' = <<>>
      /\ sent' = sent \/ sent' = <<>>
      /\ sup' = "fail" => incoming' = <<>> /\ reader' = "none" /\ sock' = sock
  BY <1>0 DEF DropLink, CloseLink, JoinReader, ringVars
<1>2. incoming' \in Seq(Reply) /\ sent' \in Seq(Request \cup {"RECONNECT"})
  <2>1. incoming \in Seq(Reply) /\ sent \in Seq(Request \cup {"RECONNECT"})
    BY <1>0 DEF TypeOK
  <2>2. <<>> \in Seq(Reply) /\ <<>> \in Seq(Request \cup {"RECONNECT"})
    OBVIOUS
  <2>3. incoming' = incoming \/ incoming' = <<>>
    BY <1>1
  <2>4. sent' = sent \/ sent' = <<>>
    BY <1>1
  <2> QED BY <2>1, <2>2, <2>3, <2>4
<1>3. TypeOK'
  BY <1>0, <1>1, <1>2 DEF TypeOK, SupStage, flagVars
<1>4. Stages'
  BY <1>0, <1>1 DEF IInv, Stages, Idle, Unlinked, Named, Resuming, Dialling, Dropped, OnLink,
     flagVars
<1>5. RingKept'
  BY <1>0, <1>1, RingQuiet DEF IInv, flagVars
<1>6. Covered'
  <2>1. attempt = 0 /\ attempt' = 0
    BY <1>0, <1>1 DEF IInv, Covered, Dropped
  <2>2. points' = points /\ index' = index /\ points \in Seq(Endpoint)
        /\ (points # <<>> => index \in 1..Len(points))
    BY <1>0, <1>1 DEF TypeOK
  <2>3. Passed(attempt - 1)' = {}
    BY <2>1, <2>2 DEF Passed
  <2> QED BY <1>0, <2>1, <2>3 DEF Covered, OnLink, Dropped
<1> QED BY <1>3, <1>4, <1>5, <1>6 DEF IInv, Stages

\* One more entry is passed; after two laps every entry has been dialled.
LEMMA FailAndWaitStep ==
    ASSUME IInv, FailAndWait
    PROVE  IInv'
<1>0. TypeOK /\ sup = "fail" /\ attempt \in Nat /\ points \in Seq(Endpoint)
      /\ (points # <<>> => index \in 1..Len(points)) /\ sock = None /\ connectedTo = None
  BY DEF IInv, TypeOK, FailAndWait, Unlinked, Named, Dialling
<1>1. /\ UNCHANGED <<up, netVars, points, hadLink, resumes, tried, owed, resumed, resumePending,
                     loggedIn, ui, stopRequested, faults>>
      /\ Advance /\ attempt' = attempt + 1
      /\ reconnecting' \in {reconnecting, FALSE} /\ connectedTo' \in {connectedTo, None}
      /\ \/ sup' = "sleep"
         \/ sup' = "done" /\ (attempt + 1 >= Limit \/ stopRequested)
  BY DEF FailAndWait
<1>2. /\ points # <<>> => index' = IF index = Len(points) THEN 1 ELSE index + 1
      /\ points # <<>> => index' \in 1..Len(points)
  <2>1. CASE points # <<>>
    <3>1. Len(points) \in Nat /\ index \in 1..Len(points)
      BY <1>0, <2>1
    <3>2. index' = (index % Len(points)) + 1
      BY <1>1, <2>1 DEF Advance
    <3>3. index' = IF index = Len(points) THEN 1 ELSE index + 1
      BY <3>1, <3>2, WrapsAround
    <3> QED BY <3>1, <3>3
  <2> QED BY <2>1
<1>3. TypeOK'
  <2>0. reconnecting \in BOOLEAN
    BY <1>0 DEF TypeOK
  <2>1. reconnecting' \in BOOLEAN
    BY <1>1, <2>0
  <2>2. sup' \in SupStage /\ attempt' \in Nat /\ connectedTo' \in Endpoint \cup {None}
    BY <1>0, <1>1 DEF SupStage
  <2> QED BY <1>0, <1>1, <1>2, <2>1, <2>2 DEF TypeOK, netVars
<1>4. Stages'
  BY <1>0, <1>1 DEF IInv, Stages, Idle, Unlinked, Named, Resuming, Dialling, Dropped, OnLink,
     netVars
<1>5. RingKept'
  <2>1. sock' = None /\ points' = points /\ sup' # "off" /\ sup # "off"
    BY <1>0, <1>1 DEF netVars
  <2> QED BY <2>1 DEF IInv, RingKept
<1>6. ASSUME NEW p \in 1..Len(points),
             \/ p < index' /\ index' - p <= attempt
             \/ p >= index' /\ index' + Len(points) - p <= attempt
      PROVE  points[p] \in tried
  <2>1. Len(points) \in Nat /\ points # <<>> /\ index \in 1..Len(points)
    BY <1>0
  <2>2. CASE p = index
    <3>1. attempt # 0
      BY <1>0, <1>2, <1>6, <2>1, <2>2
    <3> QED BY <1>0, <2>1, <2>2, <3>1 DEF IInv, Covered, Current
  <2>3. CASE p # index
    <3>1. p \in Passed(attempt - 1)
      BY <1>0, <1>2, <1>6, <2>1, <2>3 DEF Passed
    <3> QED BY <1>0, <3>1 DEF IInv, Covered
  <2> QED BY <2>2, <2>3
<1>7. \A p \in Passed(attempt - 1)' : points[p] \in tried
  <2>1. attempt' - 1 = attempt /\ points' = points
    BY <1>0, <1>1
  <2> QED BY <1>6, <2>1 DEF Passed
<1>8. ASSUME Laps >= 2, sup' = "done", ~stopRequested
      PROVE  ToSet(points) \subseteq tried
  <2>1. CASE points = <<>>
    BY <2>1 DEF ToSet
  <2>2. CASE points # <<>>
    <3>1. /\ Len(points) \in Nat \ {0} /\ Laps \in Nat /\ index' \in 1..Len(points)
          /\ attempt + 1 >= Laps * Len(points)
      BY <1>0, <1>1, <1>2, <1>8, <2>2, FailoverAssumption DEF Limit
    <3>2. Laps * Len(points) >= 2 * Len(points)
      BY <1>8, <3>1
    <3>3. attempt >= Len(points)
      BY <1>0, <3>1, <3>2
    <3>4. ASSUME NEW p \in 1..Len(points) PROVE points[p] \in tried
      <4> DEFINE n == Len(points)
                 i == index'
      <4>0. n \in Nat /\ i \in 1..n /\ p \in 1..n /\ attempt \in Nat /\ attempt >= n
        BY <1>0, <3>1, <3>3
      <4> HIDE DEF n, i
      <4>1. \/ p < i /\ i - p <= attempt
            \/ p >= i /\ i + n - p <= attempt
        BY <4>0
      <4> QED BY <1>6, <4>1 DEF n, i
    <3> QED BY <1>0, <3>4 DEF ToSet
  <2> QED BY <2>1, <2>2
<1>9. Covered'
  BY <1>0, <1>1, <1>7, <1>8 DEF Covered, OnLink, Dropped
<1> QED BY <1>3, <1>4, <1>5, <1>9 DEF IInv, Stages

\* The delay has passed.
LEMMA BackoffStep ==
    ASSUME IInv, Backoff
    PROVE  IInv'
<1>1. /\ UNCHANGED <<up, netVars, points, index, attempt, hadLink, resumes, tried, owed, resumed,
                     flagVars, loggedIn, ui, stopRequested, faults>>
      /\ sup = "sleep" /\ sup' = "dial" /\ TypeOK
  BY DEF IInv, Backoff, ringVars
<1>2. TypeOK'
  BY <1>1 DEF TypeOK, SupStage, netVars, flagVars
<1>3. Stages'
  BY <1>1 DEF IInv, Stages, Idle, Unlinked, Named, Resuming, Dialling, Dropped, OnLink,
     netVars, flagVars
<1>4. RingKept'
  BY <1>1, RingQuiet DEF IInv, netVars, flagVars
<1>5. Covered'
  <2>1. Passed(attempt - 1)' = Passed(attempt - 1)
    BY <1>1 DEF Passed
  <2> QED BY <1>1, <2>1 DEF IInv, Covered, OnLink, Dropped
<1> QED BY <1>2, <1>3, <1>4, <1>5 DEF IInv, Stages

\* The client starts: the ring is the seed.
LEMMA StartStep ==
    ASSUME IInv, StartClient
    PROVE  IInv'
<1>0. TypeOK /\ ui.at = "off" /\ sup = "off"
  BY DEF IInv, StartClient, Idle
<1> DEFINE q == mergeFailoverList(Current, Seed, <<>>)
<1>1. /\ Replace(q) /\ sup' = "dial" /\ ui' = [ui EXCEPT !.at = "starting"]
      /\ UNCHANGED <<up, netVars, attempt, hadLink, resumes, tried, owed, resumed, flagVars,
                     loggedIn, stopRequested, faults>>
  BY DEF StartClient
<1>2. /\ q \in Seq(Endpoint) /\ IsInjective(q) /\ ToSet(Seed) \subseteq ToSet(q)
      /\ Current # None => Current \in ToSet(q)
  <2>1. Current \in Entries /\ <<>> \in Seq(Endpoint)
    BY <1>0, CurrentTyped
  <2> HIDE DEF Current
  <2> QED BY <2>1, MergeComputes
<1> HIDE DEF q
<1>3. points' = q /\ (q # <<>> => index' \in 1..Len(q))
  BY <1>0, <1>1, <1>2, ReplaceKeeps
<1>4. ui' \in [at : UiStage, want : Request \cup {"none"}] /\ ui'.at = "starting"
  BY <1>0, <1>1 DEF TypeOK, UiStage
<1>5. TypeOK'
  BY <1>0, <1>1, <1>2, <1>3, <1>4 DEF TypeOK, SupStage, netVars, flagVars
<1>6. Stages'
  BY <1>0, <1>1, <1>4 DEF IInv, Stages, Idle, Unlinked, Named, Resuming, Dialling, Dropped,
     OnLink, netVars, flagVars
<1>7. RingKept'
  <2>1. sock' = None
    BY <1>0, <1>1 DEF IInv, Unlinked, Dialling, netVars
  <2> QED BY <1>1, <1>2, <1>3, <2>1 DEF RingKept
<1>8. Covered'
  <2>1. attempt' = 0
    BY <1>0, <1>1 DEF IInv, Covered
  <2>2. Passed(attempt - 1)' = {}
    BY <1>2, <1>3, <2>1 DEF Passed
  <2> QED BY <1>1, <2>1, <2>2 DEF Covered, OnLink, Dropped
<1> QED BY <1>5, <1>6, <1>7, <1>8 DEF IInv, Stages

\* The user's thread moves on, and the ring, the supervisor and its flags do not.
LEMMA UiStep ==
    ASSUME IInv, Started \/ RequestLost \/ RequestStop \/ (\E type \in Request : SendRequest(type))
    PROVE  IInv'
<1>0. TypeOK /\ ui.at \notin {"off"}
  BY DEF IInv, Started, RequestLost, RequestStop, SendRequest
<1>1. /\ UNCHANGED <<up, link, authed, reader, incoming, points, index, supVars, flagVars,
                     loggedIn, faults>>
      /\ sock' \in {sock, None}
  BY DEF Started, RequestLost, RequestStop, SendRequest, Send, netVars, ringVars
<1>2. /\ sent' \in Seq(Request \cup {"RECONNECT"}) /\ connected' \in BOOLEAN
  <2>1. CASE \E type \in Request : SendRequest(type)
    <3>1. PICK type \in Request : /\ sent' = sent \/ sent' = Append(sent, type)
                                  /\ connected' = connected \/ connected' = FALSE
      BY <2>1 DEF SendRequest, Send
    <3> QED BY <1>0, <3>1, SendFacts
  <2>2. CASE Started \/ RequestLost \/ RequestStop
    <3>1. UNCHANGED <<sent, connected>>
      BY <2>2 DEF Started, RequestLost, RequestStop, netVars
    <3> QED BY <1>0, <3>1 DEF TypeOK
  <2> QED BY <2>1, <2>2
<1>3. ui' \in [at : UiStage, want : Request \cup {"none"}] /\ ui'.at \notin {"off", "starting"}
  <2>1. ui \in [at : UiStage, want : Request \cup {"none"}]
    BY <1>0 DEF TypeOK
  <2>2. CASE Started \/ RequestStop
    <3>1. ui' = [ui EXCEPT !.at = "idle"] \/ ui' = [ui EXCEPT !.at = "stopping"]
      BY <2>2 DEF Started, RequestStop
    <3> QED BY <2>1, <3>1 DEF UiStage
  <2>3. CASE RequestLost
    BY <2>3 DEF RequestLost, UiStage
  <2>4. CASE \E type \in Request : SendRequest(type)
    <3>1. PICK type \in Request : ui' = [at |-> "waiting", want |-> type] \/ ui' = ui
      BY <2>4 DEF SendRequest, Send
    <3>2. ui.at = "idle"
      BY <2>4 DEF SendRequest
    <3> QED BY <2>1, <3>1, <3>2 DEF UiStage
  <2> QED BY <2>2, <2>3, <2>4
<1>4. stopRequested' \in BOOLEAN /\ (stopRequested => stopRequested')
  <2>1. CASE Started
    <3>1. ~stopRequested
      BY <2>1 DEF IInv, Idle, Started
    <3>2. stopRequested' = ~connected /\ connected \in BOOLEAN
      BY <1>0, <2>1 DEF Started, TypeOK
    <3> QED BY <3>1, <3>2
  <2>2. CASE RequestStop
    BY <2>2 DEF RequestStop
  <2>3. CASE RequestLost \/ (\E type \in Request : SendRequest(type))
    BY <1>0, <2>3 DEF RequestLost, SendRequest, TypeOK
  <2> QED BY <2>1, <2>2, <2>3
<1>5. TypeOK'
  <2>1. sock' \in Endpoint \cup {None}
    BY <1>0, <1>1 DEF TypeOK
  <2> QED BY <1>0, <1>1, <1>2, <1>3, <1>4, <2>1 DEF TypeOK, supVars, flagVars
<1>6. Stages'
  <2>1. Idle'
    BY <1>0, <1>1, <1>3 DEF IInv, Idle, supVars
  <2>2. Unlinked'
    BY <1>1, <1>4 DEF IInv, Unlinked, supVars
  <2>3. Named' /\ Resuming'
    BY <1>1 DEF IInv, Named, Resuming, supVars, flagVars
  <2> QED BY <2>1, <2>2, <2>3 DEF Stages
<1>7. RingKept'
  BY <1>1, RingQuiet DEF IInv, supVars, flagVars
<1>8. Covered'
  BY <1>1, <1>4, CoveredQuiet DEF IInv, supVars
<1> QED BY <1>5, <1>6, <1>7, <1>8 DEF IInv, Stages

\* A reply is taken: what a LOGOUT ends is neither owed nor pending any more.
LEMMA TakeReplyStep ==
    ASSUME IInv, TakeReply
    PROVE  IInv'
<1>0. TypeOK /\ ui.at = "waiting" /\ incoming # <<>>
  BY DEF IInv, TakeReply
<1> DEFINE r == Head(incoming)
           mine == r.type = ui.want
           out == mine /\ r.ok /\ r.type = "LOGOUT"
<1>1. /\ UNCHANGED <<up, link, authed, sent, connected, sock, reader, points, index, sup, attempt,
                     hadLink, resumes, tried, resumed, reconnecting, connectedTo, stopRequested,
                     faults>>
      /\ incoming' = Tail(incoming)
      /\ ui' = IF mine THEN [at |-> "idle", want |-> "none"] ELSE ui
      /\ resumePending' = (resumePending /\ ~out) /\ owed' = (owed /\ ~out)
  BY DEF TakeReply, ringVars
<1>2. loggedIn' \in BOOLEAN /\ (loggedIn /\ ~out => loggedIn')
  BY <1>0 DEF TakeReply, TypeOK
<1> HIDE DEF out, mine, r
<1>3. resumePending' \in BOOLEAN /\ owed' \in BOOLEAN
  BY <1>1
<1>4. incoming' \in Seq(Reply)
  <2>1. incoming \in Seq(Reply)
    BY <1>0 DEF TypeOK
  <2> QED BY <1>0, <1>1, <2>1
<1>5. ui' \in [at : UiStage, want : Request \cup {"none"}] /\ ui'.at \in {"idle", "waiting"}
  BY <1>0, <1>1 DEF TypeOK, UiStage
<1>6. TypeOK'
  BY <1>0, <1>1, <1>2, <1>3, <1>4, <1>5 DEF TypeOK
<1>7. Idle' /\ Unlinked' /\ Named'
  BY <1>0, <1>1, <1>5 DEF IInv, Idle, Unlinked, Named, Dialling
<1>8. Resuming'
  BY <1>1, <1>2 DEF IInv, Resuming
<1>9. RingKept' /\ Covered'
  BY <1>1, RingQuiet, CoveredQuiet DEF IInv
<1> QED BY <1>6, <1>7, <1>8, <1>9 DEF IInv

\* stop() closes the network after the supervisor has been joined.
LEMMA StopStep ==
    ASSUME IInv, StopDisconnects \/ Stopped
    PROVE  IInv'
<1>0. TypeOK /\ ui.at \in {"stopping", "closing"}
  BY DEF IInv, StopDisconnects, Stopped
<1>1. /\ UNCHANGED <<up, authed, points, index, supVars, flagVars, loggedIn, stopRequested,
                     faults>>
      /\ sock' \in {sock, None} /\ link' \in {"none", "down"} /\ reader' \in {reader, "none"}
      /\ connected' = connected \/ connected' = FALSE
      /\ incoming' = incoming \/ incoming' = <<>>
      /\ sent' = sent \/ sent' = <<>>
      /\ ui' = [ui EXCEPT !.at = "closing"] \/ ui' = [ui EXCEPT !.at = "stopped"]
  BY DEF StopDisconnects, CloseLink, Stopped, ringVars
<1>2. incoming' \in Seq(Reply) /\ sent' \in Seq(Request \cup {"RECONNECT"})
  <2>1. incoming \in Seq(Reply) /\ sent \in Seq(Request \cup {"RECONNECT"})
    BY <1>0 DEF TypeOK
  <2>2. <<>> \in Seq(Reply) /\ <<>> \in Seq(Request \cup {"RECONNECT"})
    OBVIOUS
  <2>3. incoming' = incoming \/ incoming' = <<>>
    BY <1>1
  <2>4. sent' = sent \/ sent' = <<>>
    BY <1>1
  <2> QED BY <2>1, <2>2, <2>3, <2>4
<1>3. ui' \in [at : UiStage, want : Request \cup {"none"}] /\ ui'.at \notin {"off", "starting"}
  BY <1>0, <1>1 DEF TypeOK, UiStage
<1>4. connected' \in BOOLEAN
  <2>1. connected \in BOOLEAN
    BY <1>0 DEF TypeOK
  <2> QED BY <1>1, <2>1
<1>5. TypeOK'
  <2>1. sock' \in Endpoint \cup {None} /\ reader' \in {"none", "welcome", "run", "exit"}
    BY <1>0, <1>1 DEF TypeOK
  <2> QED BY <1>0, <1>1, <1>2, <1>3, <1>4, <2>1 DEF TypeOK, supVars, flagVars
<1>6. Stages'
  <2>1. Idle'
    BY <1>0, <1>1, <1>3 DEF IInv, Idle, supVars
  <2>2. Unlinked'
    BY <1>1 DEF IInv, Unlinked, supVars
  <2>3. Named' /\ Resuming'
    BY <1>1 DEF IInv, Named, Resuming, supVars, flagVars
  <2> QED BY <2>1, <2>2, <2>3 DEF Stages
<1>7. RingKept'
  BY <1>1, RingQuiet DEF IInv, supVars, flagVars
<1>8. Covered'
  BY <1>1, CoveredQuiet DEF IInv, supVars
<1> QED BY <1>5, <1>6, <1>7, <1>8 DEF IInv, Stages

-----------------------------------------------------------------------------
(***************************************************************************)
(* The backoff ceiling.                                                    *)
(***************************************************************************)
IsCeiling(c) ==
    c = [i \in Nat |-> IF i = 0 THEN 200
                       ELSE IF c[i - 1] >= 8000 \div 2 THEN 8000 ELSE 2 * c[i - 1]]

\* backoffCeilingMs doubles until it is at the cap.
LEMMA CeilingValues ==
    /\ backoffCeilingMs(0) = 200 /\ backoffCeilingMs(1) = 400 /\ backoffCeilingMs(2) = 800
    /\ backoffCeilingMs(3) = 1600 /\ backoffCeilingMs(4) = 3200 /\ backoffCeilingMs(5) = 6400
    /\ backoffCeilingMs(6) = 8000 /\ backoffCeilingMs(7) = 8000 /\ backoffCeilingMs(8) = 8000
<1> DEFINE f == [i \in Nat |-> IF i = 0 THEN 200 ELSE IF i = 1 THEN 400
                               ELSE IF i = 2 THEN 800 ELSE IF i = 3 THEN 1600
                               ELSE IF i = 4 THEN 3200 ELSE IF i = 5 THEN 6400 ELSE 8000]
           c == CHOOSE g : IsCeiling(g)
<1>0. 8000 \div 2 = 4000
  OBVIOUS
<1>1. IsCeiling(f)
  <2>1. ASSUME NEW i \in Nat
        PROVE  f[i] = IF i = 0 THEN 200
                      ELSE IF f[i - 1] >= 8000 \div 2 THEN 8000 ELSE 2 * f[i - 1]
    <3>1. CASE i = 0
      BY <3>1
    <3>2. CASE i # 0
      <4>1. i - 1 \in Nat
        BY <3>2
      <4> QED BY <1>0, <3>2, <4>1
    <3> QED BY <3>1, <3>2
  <2>2. f = [i \in Nat |-> f[i]]
    OBVIOUS
  <2> HIDE DEF f
  <2> DEFINE g == [i \in Nat |-> IF i = 0 THEN 200
                                 ELSE IF f[i - 1] >= 8000 \div 2 THEN 8000 ELSE 2 * f[i - 1]]
  <2>3. \A i \in Nat : f[i] = g[i]
    BY <2>1
  <2>4. g = [i \in Nat |-> g[i]]
    OBVIOUS
  <2>5. f = g
    <3> HIDE DEF g
    <3> QED BY <2>2, <2>3, <2>4
  <2> QED BY <2>5 DEF IsCeiling
<1>2. IsCeiling(c)
  <2> HIDE DEF f, IsCeiling
  <2> QED BY <1>1, Zenon
<1>3. \A n : backoffCeilingMs(n) = c[n]
  BY DEF backoffCeilingMs, IsCeiling
<1> HIDE DEF c
<1>4. \A i \in Nat : c[i] = IF i = 0 THEN 200
                            ELSE IF c[i - 1] >= 4000 THEN 8000 ELSE 2 * c[i - 1]
  BY <1>0, <1>2 DEF IsCeiling
<1>5. /\ c[0] = 200 /\ c[1] = 400 /\ c[2] = 800
  BY <1>4
<1>6. c[3] = 1600 /\ c[4] = 3200 /\ c[5] = 6400
  BY <1>4, <1>5
<1>7. c[6] = 8000 /\ c[7] = 8000 /\ c[8] = 8000
  BY <1>4, <1>6
<1> QED BY <1>3, <1>5, <1>6, <1>7

-----------------------------------------------------------------------------
(***************************************************************************)
(* The invariant and the theorems.                                         *)
(***************************************************************************)

\* A client that has not started satisfies the invariant.
LEMMA InitiallyIInv == Init => IInv
<1> SUFFICES ASSUME Init PROVE IInv
  OBVIOUS
<1>1. TypeOK
  <2>1. 0 \in 0..MaxResumes
    BY FailoverAssumption
  <2>2. up \in [Endpoint -> BOOLEAN] /\ sent \in Seq(Request \cup {"RECONNECT"})
        /\ incoming \in Seq(Reply) /\ points \in Seq(Endpoint)
    BY DEF Init
  <2>3. ui \in [at : UiStage, want : Request \cup {"none"}] /\ sup \in SupStage
    BY DEF Init, UiStage, SupStage
  <2> QED BY <2>1, <2>2, <2>3 DEF Init, TypeOK
<1>2. Stages
  BY DEF Init, Stages, Idle, Unlinked, Named, Resuming, Dialling, Dropped, OnLink
<1>3. RingKept
  BY DEF Init, RingKept, IsInjective
<1>4. Covered
  BY DEF Init, Covered, OnLink, Dropped
<1> QED BY <1>1, <1>2, <1>3, <1>4 DEF IInv, Stages

\* Every step keeps the invariant.
LEMMA InductiveStep == IInv /\ [Next]_vars => IInv'
<1> SUFFICES ASSUME IInv, [Next]_vars PROVE IInv'
  OBVIOUS
<1>1. CASE World
  BY <1>1, WorldStep
<1>2. CASE Reader
  BY <1>2, DirectoryStep, ReaderStep DEF Reader
<1>3. CASE Supervisor
  BY <1>3, ConnectStep, DialFailsStep, LoopEndsStep, LinkedStep, ResumeStep, UnhealthyStep,
     DropStep, FailAndWaitStep, BackoffStep DEF Supervisor
<1>4. CASE Ui
  BY <1>4, StartStep, UiStep, TakeReplyStep, StopStep DEF Ui, UiWaits, UiStops
<1>5. CASE UNCHANGED vars
  <2>1. UNCHANGED <<up, netVars, points, index, supVars, flagVars, loggedIn, ui, stopRequested,
                    faults>>
    BY <1>5 DEF vars, ringVars
  <2>2. TypeOK' /\ Stages'
    BY <2>1 DEF IInv, TypeOK, Stages, Idle, Unlinked, Named, Resuming, netVars, supVars, flagVars
  <2>3. RingKept' /\ Covered'
    BY <2>1, RingQuiet, CoveredQuiet DEF IInv, netVars, supVars, flagVars
  <2> QED BY <2>2, <2>3 DEF IInv, Stages
<1> QED BY <1>1, <1>2, <1>3, <1>4, <1>5 DEF Next

\* The inductive invariant holds of every behaviour of the client.
THEOREM FailoverInvariant == Spec => []IInv
BY InitiallyIInv, InductiveStep, PTL DEF Spec

\* TypeOK holds of every behaviour: the cursor is on an entry whatever directories
\* the reader merges in between the supervisor's moves.
THEOREM FailoverTyped == Spec => []TypeOK
<1>1. IInv => TypeOK
  BY DEF IInv
<1> QED BY <1>1, FailoverInvariant, PTL

\* FreshQueue holds of every behaviour: network.disconnect leaves neither a reply
\* nor a reader of the old connection to the next dial.
THEOREM QueueFresh == Spec => []FreshQueue
<1>1. IInv => FreshQueue
  BY DEF IInv, Unlinked, FreshQueue, Dialling
<1> QED BY <1>1, FailoverInvariant, PTL

\* RingFollowsLink holds of every behaviour, for any seed and any directories.
THEOREM RingInStep == Spec => []RingFollowsLink
<1>1. IInv => RingFollowsLink
  BY DEF IInv, RingKept, RingFollowsLink
<1> QED BY <1>1, FailoverInvariant, PTL

\* SessionResumed holds of every behaviour: no order of drops, failed dials, logins
\* and logouts loses a session that is to be resumed.
THEOREM SessionsResumed == Spec => []SessionResumed
<1>1. IInv => SessionResumed
  BY DEF IInv, Resuming, SessionResumed, OnLink
<1> QED BY <1>1, FailoverInvariant, PTL

\* GivesUpLast holds of every behaviour when failAndWait allows two laps or more, as
\* it does outside of --test; with one lap the endpoint of the lost link is not
\* dialled again, because the drop itself counts as its attempt.
THEOREM GivesUpAfterAll == Laps >= 2 => (Spec => []GivesUpLast)
<1> SUFFICES ASSUME Laps >= 2 PROVE Spec => []GivesUpLast
  OBVIOUS
<1>1. IInv => GivesUpLast
  BY DEF IInv, Covered, GivesUpLast
<1> QED BY <1>1, FailoverInvariant, PTL

\* CeilingExact holds of every behaviour: the supervisor sleeps only after a failure
\* has been counted, and the loop agrees with the power of two it replaces.
THEOREM CeilingsExact == Spec => []CeilingExact
<1>1. IInv => CeilingExact
  <2> SUFFICES ASSUME IInv, sup = "sleep", NEW n \in (attempt - 1)..8
               PROVE  backoffCeilingMs(n) = IF 200 * 2^n < 8000 THEN 200 * 2^n ELSE 8000
    BY DEF CeilingExact
  <2>1. n \in {0, 1, 2, 3, 4, 5, 6, 7, 8}
    BY DEF IInv, Covered, TypeOK
  <2>2. CASE n = 0
    <3>1. 2^0 = 1
      OBVIOUS
    <3>2. 2^n = 1
      BY <2>2, <3>1, Zenon
    <3>3. backoffCeilingMs(n) = 200
      BY <2>2, CeilingValues
    <3> QED BY <3>2, <3>3
  <2>3. CASE n = 1
    <3>1. 2^1 = 2
      OBVIOUS
    <3>2. 2^n = 2
      BY <2>3, <3>1, Zenon
    <3>3. backoffCeilingMs(n) = 400
      BY <2>3, CeilingValues
    <3> QED BY <3>2, <3>3
  <2>4. CASE n = 2
    <3>1. 2^2 = 4
      OBVIOUS
    <3>2. 2^n = 4
      BY <2>4, <3>1, Zenon
    <3>3. backoffCeilingMs(n) = 800
      BY <2>4, CeilingValues
    <3> QED BY <3>2, <3>3
  <2>5. CASE n = 3
    <3>1. 2^3 = 8
      OBVIOUS
    <3>2. 2^n = 8
      BY <2>5, <3>1, Zenon
    <3>3. backoffCeilingMs(n) = 1600
      BY <2>5, CeilingValues
    <3> QED BY <3>2, <3>3
  <2>6. CASE n = 4
    <3>1. 2^4 = 16
      OBVIOUS
    <3>2. 2^n = 16
      BY <2>6, <3>1, Zenon
    <3>3. backoffCeilingMs(n) = 3200
      BY <2>6, CeilingValues
    <3> QED BY <3>2, <3>3
  <2>7. CASE n = 5
    <3>1. 2^5 = 32
      OBVIOUS
    <3>2. 2^n = 32
      BY <2>7, <3>1, Zenon
    <3>3. backoffCeilingMs(n) = 6400
      BY <2>7, CeilingValues
    <3> QED BY <3>2, <3>3
  <2>8. CASE n = 6
    <3>1. 2^6 = 64
      OBVIOUS
    <3>2. 2^n = 64
      BY <2>8, <3>1, Zenon
    <3>3. backoffCeilingMs(n) = 8000
      BY <2>8, CeilingValues
    <3> QED BY <3>2, <3>3
  <2>9. CASE n = 7
    <3>1. 2^7 = 128
      OBVIOUS
    <3>2. 2^n = 128
      BY <2>9, <3>1, Zenon
    <3>3. backoffCeilingMs(n) = 8000
      BY <2>9, CeilingValues
    <3> QED BY <3>2, <3>3
  <2>10. CASE n = 8
    <3>1. 2^8 = 256
      OBVIOUS
    <3>2. 2^n = 256
      BY <2>10, <3>1, Zenon
    <3>3. backoffCeilingMs(n) = 8000
      BY <2>10, CeilingValues
    <3> QED BY <3>2, <3>3
  <2> QED BY <2>1, <2>2, <2>3, <2>4, <2>5, <2>6, <2>7, <2>8, <2>9, <2>10
<1> QED BY <1>1, FailoverInvariant, PTL

\* StaysLoggedIn holds of every behaviour: only waitFor's LOGOUT reply makes the
\* user a guest.
THEOREM UserStaysLoggedIn == Spec => StaysLoggedIn
<1> DEFINE A == loggedIn /\ ~loggedIn' => ui.want = "LOGOUT" /\ ui.at = "waiting"
<1>1. ASSUME [Next]_vars PROVE [A]_vars
  <2>1. CASE TakeReply
    BY <2>1 DEF TakeReply
  <2>2. loggedIn' = loggedIn \/ TakeReply
    <3>1. CASE World \/ Reader
      BY <3>1 DEF World, LinkFails, ServerStops, ServerStarts, Reader, ReadWelcome,
         ReadDirectory, ReadReply, ReaderExits
    <3>2. CASE Supervisor
      BY <3>2 DEF Supervisor, Connect, DialFails, LoopEnds, Linked, ResumeSend, ResumeTakes,
         ResumeTimesOut, ResumeSleeps, Unhealthy, DropLink, JoinReader, FailAndWait, Backoff
    <3>3. CASE Ui
      BY <3>3 DEF Ui, StartClient, Started, UiWaits, UiStops, RequestStop, SendRequest,
         RequestLost, StopDisconnects, Stopped
    <3>4. CASE UNCHANGED vars
      BY <3>4 DEF vars
    <3> QED BY <1>1, <3>1, <3>2, <3>3, <3>4 DEF Next
  <2> QED BY <2>1, <2>2
<1> QED BY <1>1, PTL DEF Spec, StaysLoggedIn
=============================================================================
