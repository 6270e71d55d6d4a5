------------------------------ MODULE Failover ------------------------------
(***************************************************************************)
(* The desktop client (src/client): the supervisor thread that dials the   *)
(* endpoint ring and resumes the session, the reader thread of the current *)
(* connection, and the UI thread, which sends one request at a time and    *)
(* waits for its reply.  The three share Network: the connected flag, the  *)
(* socket and one queue of replies.                                        *)
(*                                                                         *)
(* A server answers the requests of a connection in order; the reader      *)
(* queues each answer.  Packets carry their type and whether they succeed. *)
(***************************************************************************)
EXTENDS Naturals, Sequences, SequencesExt, FiniteSets

CONSTANTS
    Endpoint,       \* host:port pairs
    None,           \* no endpoint
    Seed,           \* --host/--port, then --servers
    Directories,    \* the SERVER_DIRECTORY bodies a server may push: live
                    \* endpoints, in order
    Laps,           \* failAndWait: 4, and 1 with --test
    MaxResumes,     \* resumeSession: kAttempts, 5
    Prompt,         \* a waiting request sees that the link is lost before the
                    \* supervisor dials again
    MaxFaults       \* bound: links lost or silent, and servers stopped

ASSUME FailoverAssumption ==
    /\ None \notin Endpoint /\ IsFiniteSet(Endpoint)
    /\ Seed \in Seq(Endpoint) /\ Directories \subseteq Seq(Endpoint)
    /\ Laps \in Nat \ {0} /\ MaxResumes \in Nat \ {0} /\ MaxFaults \in Nat
    /\ Prompt \in BOOLEAN

VARIABLES
    up,             \* up[e]: a server listens at e
    link,           \* the current connection: "none", "up", "silent" (nothing
                    \* has arrived for HEARTBEAT_TIMEOUT), "down" (lost)
    authed,         \* the server's session of this connection has our user
    sent,           \* types of the requests the server has yet to answer
    connected,      \* Network::connected
    sock,           \* Network::clientSocket: the endpoint it leads to, or None
    reader,         \* the reader thread: "none", "welcome" (nothing read yet),
                    \* "run", "exit" (returned, not joined)
    incoming,       \* Network::incoming
    points, index,  \* EndpointRing
    sup,            \* where the supervisor stands
    attempt,        \* its dials since the last live link
    hadLink,        \* it has had a link
    resumes,        \* RECONNECTs sent in this resumeSession
    tried,          \* history: endpoints dialled in vain since the last link
    owed,           \* history: the user was logged in when the link was dropped
                    \* and has not logged out since
    resumed,        \* history: resumeSession ran on this connection
    reconnecting, resumePending,
    connectedTo,    \* connectedHost:connectedPort
    loggedIn,       \* state.user is an account, not a guest
    ui,             \* the UI thread: its stage and the type it waits for
    stopRequested,
    faults

netVars == <<link, authed, sent, connected, sock, reader, incoming>>
ringVars == <<points, index>>
supVars == <<sup, attempt, hadLink, resumes, tried, owed, resumed>>
flagVars == <<reconnecting, resumePending, connectedTo>>
vars == <<up, netVars, ringVars, supVars, flagVars, loggedIn, ui,
          stopRequested, faults>>

Request == {"LOGIN", "LOGOUT", "ROOM_JOIN"}
Reply == [type : Request \cup {"RECONNECT"}, ok : BOOLEAN]
SupStage == {"off", "dial", "linked", "resumeSend", "resumeWait", "resumeSleep",
             "watch", "drop", "join", "fail", "sleep", "done"}
UiStage == {"off", "starting", "idle", "waiting", "stopping", "closing", "stopped"}

\* Besides the types: the ring's cursor is on an entry.
TypeOK ==
    /\ up \in [Endpoint -> BOOLEAN]
    /\ link \in {"none", "up", "silent", "down"}
    /\ authed \in BOOLEAN /\ connected \in BOOLEAN
    /\ sent \in Seq(Request \cup {"RECONNECT"})
    /\ sock \in Endpoint \cup {None}
    /\ reader \in {"none", "welcome", "run", "exit"}
    /\ incoming \in Seq(Reply)
    /\ points \in Seq(Endpoint)
    /\ points # <<>> => index \in 1..Len(points)
    /\ sup \in SupStage /\ attempt \in Nat /\ resumes \in 0..MaxResumes
    /\ tried \subseteq Endpoint
    /\ {hadLink, owed, resumed, reconnecting, resumePending, loggedIn,
        stopRequested} \subseteq BOOLEAN
    /\ connectedTo \in Endpoint \cup {None}
    /\ ui \in [at : UiStage, want : Request \cup {"none"}]
    /\ faults \in Nat

Init ==
    /\ up = [e \in Endpoint |-> TRUE]
    /\ link = "none" /\ authed = FALSE /\ sent = <<>>
    /\ connected = FALSE /\ sock = None /\ reader = "none" /\ incoming = <<>>
    /\ points = <<>> /\ index = 1
    /\ sup = "off" /\ attempt = 0 /\ hadLink = FALSE /\ resumes = 0
    /\ tried = {} /\ owed = FALSE /\ resumed = FALSE
    /\ reconnecting = FALSE /\ resumePending = FALSE /\ connectedTo = None
    /\ loggedIn = FALSE
    /\ ui = [at |-> "off", want |-> "none"]
    /\ stopRequested = FALSE /\ faults = 0

-----------------------------------------------------------------------------
(***************************************************************************)
(* EndpointRing and the backoff (endpoint_ring.cpp).                       *)
(***************************************************************************)
appendUnique(out, e) ==
    IF e = None \/ e \in ToSet(out) THEN out ELSE Append(out, e)

\* The list after each appendUnique of a loop over all.
appendAll(all) ==
    LET merged[i \in 0..Len(all)] ==
            IF i = 0 THEN <<>> ELSE appendUnique(merged[i - 1], all[i])
    IN merged

\* Mutant: the current endpoint is not kept at the front.
MutForgetCurrent(current, seed, directory) ==
    appendAll(directory \o seed)[Len(directory \o seed)]

\* The connected endpoint, then the directory's, then the seed's.
mergeFailoverList(current, seed, directory) ==
    LET all == <<current>> \o directory \o seed
    IN appendAll(all)[Len(all)]

Current == IF points = <<>> THEN None ELSE points[index]

\* replace: the cursor stays on the same endpoint when that is still listed.
Replace(next) ==
    /\ points' = next
    /\ index' = IF Current = None \/ Current \notin ToSet(next) THEN 1
                ELSE CHOOSE i \in 1..Len(next) : next[i] = Current

\* Mutant: no wrap at the end of the list.
MutNoWrap == index' = index + 1

\* advance: the next entry, the first one after the last.
Advance == index' = IF points = <<>> THEN index ELSE (index % Len(points)) + 1

\* Mutant: the ceiling is doubled until it has reached the cap.
MutOverCap(n) ==
    LET ceiling[i \in Nat] ==
            IF i = 0 THEN 200
            ELSE IF ceiling[i - 1] >= 8000 THEN 8000
            ELSE 2 * ceiling[i - 1]
    IN ceiling[n]

\* The ceiling after each turn of backoffCeilingMs's loop.
backoffCeilingMs(n) ==
    LET ceiling[i \in Nat] ==
            IF i = 0 THEN 200
            ELSE IF ceiling[i - 1] >= 8000 \div 2 THEN 8000
            ELSE 2 * ceiling[i - 1]
    IN ceiling[n]

\* Attempts the supervisor may spend before it gives up.
Limit == Laps * (IF points = <<>> THEN 1 ELSE Len(points))

-----------------------------------------------------------------------------
(***************************************************************************)
(* Servers and connections.                                                *)
(***************************************************************************)

\* A server stops; a link to it is lost.
ServerStops(e) ==
    /\ up[e] /\ faults < MaxFaults
    /\ faults' = faults + 1
    /\ up' = [up EXCEPT ![e] = FALSE]
    /\ link' = IF sock = e /\ link # "none" THEN "down" ELSE link
    /\ UNCHANGED <<authed, sent, connected, sock, reader, incoming, ringVars,
                   supVars, flagVars, loggedIn, ui, stopRequested>>

ServerStarts(e) ==
    /\ ~up[e]
    /\ up' = [up EXCEPT ![e] = TRUE]
    /\ UNCHANGED <<netVars, ringVars, supVars, flagVars, loggedIn, ui,
                   stopRequested, faults>>

\* The connection is lost, or goes silent for HEARTBEAT_TIMEOUT.
LinkFails ==
    /\ link = "up" /\ faults < MaxFaults
    /\ faults' = faults + 1
    /\ link' \in {"down", "silent"}
    /\ UNCHANGED <<up, authed, sent, connected, sock, reader, incoming, ringVars,
                   supVars, flagVars, loggedIn, ui, stopRequested>>

\* Client::isAlive, which is also the verdict of HealthMonitor::check through
\* ClientHealthAdapter.
Alive == connected /\ link # "silent"

-----------------------------------------------------------------------------
(***************************************************************************)
(* Reader thread.                                                          *)
(***************************************************************************)

\* Mutant: the anonymous welcome of a new socket replaces the user.
MutWelcomeClears ==
    /\ reader = "welcome" /\ connected /\ link = "up"
    /\ reader' = "run"
    /\ loggedIn' = FALSE
    /\ UNCHANGED <<up, link, authed, sent, connected, sock, incoming, ringVars,
                   supVars, flagVars, ui, stopRequested, faults>>

\* The welcome ROOM_LIST, first on every connection (applyRoomListPush): its
\* guest does not replace a user who is logged in, and leaves a guest a guest.
ReadWelcome ==
    /\ reader = "welcome" /\ connected /\ link = "up"
    /\ reader' = "run"
    /\ UNCHANGED <<up, link, authed, sent, connected, sock, incoming, ringVars,
                   supVars, flagVars, loggedIn, ui, stopRequested, faults>>

\* A SERVER_DIRECTORY push: rebuildEndpoints.
ReadDirectory ==
    /\ reader = "run" /\ connected /\ link = "up"
    /\ \E d \in Directories : Replace(mergeFailoverList(Current, Seed, d))
    /\ UNCHANGED <<up, netVars, supVars, flagVars, loggedIn, ui, stopRequested,
                   faults>>

\* The server answers the oldest request and the reader queues the reply.  A
\* RECONNECT is refused while the server still sees the old session, a request
\* of a guest for what needs an account is refused.
ReadReply ==
    /\ reader = "run" /\ connected /\ link = "up" /\ sent # <<>>
    /\ \E ok \in BOOLEAN :
          /\ incoming' = Append(incoming, [type |-> Head(sent), ok |-> ok])
          /\ authed' = CASE Head(sent) \in {"LOGIN", "RECONNECT"} -> authed \/ ok
                         [] Head(sent) = "LOGOUT" -> authed /\ ~ok
                         [] OTHER -> authed
    /\ sent' = Tail(sent)
    /\ UNCHANGED <<up, link, connected, sock, reader, ringVars, supVars, flagVars,
                   loggedIn, ui, stopRequested, faults>>

\* The read fails, because the link is lost or the socket was closed here:
\* markLinkDown.
ReaderExits ==
    /\ reader \in {"welcome", "run"} /\ link = "down"
    /\ reader' = "exit"
    /\ connected' = FALSE
    /\ UNCHANGED <<up, link, authed, sent, sock, incoming, ringVars, supVars,
                   flagVars, loggedIn, ui, stopRequested, faults>>

-----------------------------------------------------------------------------
(***************************************************************************)
(* Network::sendPacket and the reply queue.                                *)
(***************************************************************************)
CanSend == connected /\ sock # None

\* Writing on a lost link may fail: the socket is closed and the link marked
\* down; or the write still succeeds and nothing will come of it.
Send(type, okStep, failStep) ==
    \/ /\ CanSend
       /\ sent' = IF link = "up" THEN Append(sent, type) ELSE sent
       /\ okStep
       /\ UNCHANGED <<connected, sock>>
    \/ /\ CanSend /\ link = "down"
       /\ connected' = FALSE /\ sock' = None
       /\ failStep
       /\ UNCHANGED sent
    \/ /\ ~CanSend
       /\ failStep
       /\ UNCHANGED <<sent, connected, sock>>

-----------------------------------------------------------------------------
(***************************************************************************)
(* Supervisor thread.                                                      *)
(***************************************************************************)

\* markReconnecting: the flags change once per drop.
MarkReconnecting ==
    IF reconnecting THEN UNCHANGED flagVars
    ELSE /\ reconnecting' = TRUE
         /\ resumePending' = (resumePending \/ loggedIn)
         /\ connectedTo' = None

\* network.connect succeeds: a fresh socket and a reader for it.
Connect ==
    /\ sup = "dial" /\ ~stopRequested /\ Current # None
    /\ up[Current] /\ (Prompt => ui.at # "waiting")
    /\ link' = "up" /\ authed' = FALSE /\ sent' = <<>>
    /\ connected' = TRUE /\ sock' = Current /\ reader' = "welcome"
    /\ sup' = "linked" /\ resumed' = FALSE
    /\ UNCHANGED <<up, incoming, ringVars, attempt, hadLink, resumes, tried, owed,
                   flagVars, loggedIn, ui, stopRequested, faults>>

\* network.connect fails.
DialFails ==
    /\ sup = "dial" /\ ~stopRequested /\ Current # None
    /\ ~up[Current]
    /\ tried' = tried \cup {Current}
    /\ sup' = "fail"
    /\ IF hadLink THEN MarkReconnecting ELSE UNCHANGED flagVars
    /\ UNCHANGED <<up, netVars, ringVars, attempt, hadLink, resumes, owed, resumed,
                   loggedIn, ui, stopRequested, faults>>

\* No endpoint, or stop was requested.
LoopEnds ==
    /\ \/ sup = "dial" /\ (stopRequested \/ Current = None)
       \/ sup = "watch" /\ stopRequested
    /\ sup' = "done"
    /\ reconnecting' = FALSE /\ connectedTo' = None
    /\ UNCHANGED <<up, netVars, ringVars, attempt, hadLink, resumes, tried, owed,
                   resumed, resumePending, loggedIn, ui, stopRequested, faults>>

\* Mutant: reconnecting stays set after the first drop.
MutStaysReconnecting ==
    /\ sup = "linked"
    /\ hadLink' = TRUE /\ attempt' = 0 /\ tried' = {}
    /\ connectedTo' = Current
    /\ sup' = IF resumePending /\ loggedIn THEN "resumeSend" ELSE "watch"
    /\ resumes' = 0
    /\ resumePending' = FALSE /\ resumed' = resumePending
    /\ UNCHANGED <<up, netVars, ringVars, owed, reconnecting, loggedIn, ui,
                   stopRequested, faults>>

\* The new link is noted and a logged-in user's session is resumed.
Linked ==
    /\ sup = "linked"
    /\ hadLink' = TRUE /\ attempt' = 0 /\ tried' = {}
    /\ connectedTo' = Current /\ reconnecting' = FALSE
    /\ sup' = IF resumePending /\ loggedIn THEN "resumeSend" ELSE "watch"
    /\ resumes' = 0
    /\ resumePending' = FALSE /\ resumed' = resumePending
    /\ UNCHANGED <<up, netVars, ringVars, owed, loggedIn, ui, stopRequested, faults>>

\* One RECONNECT of resumeSession.
ResumeSend ==
    /\ sup = "resumeSend"
    /\ \/ /\ ~stopRequested /\ resumes < MaxResumes
          /\ Send("RECONNECT", sup' = "resumeWait", sup' = "watch")
          /\ resumes' = resumes + 1
       \/ /\ stopRequested \/ resumes = MaxResumes
          /\ sup' = "watch"
          /\ UNCHANGED <<resumes, sent, connected, sock>>
    /\ UNCHANGED <<up, link, authed, reader, incoming, ringVars, attempt, hadLink,
                   tried, owed, resumed, flagVars, loggedIn, ui, stopRequested,
                   faults>>

\* waitFor(RECONNECT, 3 s) takes the oldest reply; another type is thrown away.
ResumeTakes ==
    /\ sup = "resumeWait" /\ incoming # <<>>
    /\ incoming' = Tail(incoming)
    /\ sup' = CASE Head(incoming).type # "RECONNECT" -> "resumeWait"
                [] Head(incoming).ok -> "watch"
                [] OTHER -> "resumeSleep"
    /\ UNCHANGED <<up, link, authed, sent, connected, sock, reader, ringVars,
                   attempt, hadLink, resumes, tried, owed, resumed, flagVars,
                   loggedIn, ui, stopRequested, faults>>

\* It times out, or finds the link down and nothing queued.
ResumeTimesOut ==
    /\ sup = "resumeWait" /\ incoming = <<>>
    /\ sup' = "resumeSleep"
    /\ UNCHANGED <<up, netVars, ringVars, attempt, hadLink, resumes, tried, owed,
                   resumed, flagVars, loggedIn, ui, stopRequested, faults>>

\* The pause before the next attempt of resumeSession.
ResumeSleeps ==
    /\ sup = "resumeSleep"
    /\ sup' = IF stopRequested \/ ~loggedIn \/ ~connected THEN "watch"
              ELSE "resumeSend"
    /\ UNCHANGED <<up, netVars, ringVars, attempt, hadLink, resumes, tried, owed,
                   resumed, flagVars, loggedIn, ui, stopRequested, faults>>

\* linkHealthy is false.
Unhealthy ==
    /\ sup = "watch" /\ ~stopRequested /\ ~Alive
    /\ MarkReconnecting
    /\ owed' = loggedIn
    /\ sup' = "drop"
    /\ UNCHANGED <<up, netVars, ringVars, attempt, hadLink, resumes, tried,
                   resumed, loggedIn, ui, stopRequested, faults>>

\* Mutant: the socket is forgotten, not closed.
MutNotClosed ==
    /\ connected' = FALSE /\ sock' = None
    /\ UNCHANGED link

\* network.disconnect, up to joining the reader.
CloseLink ==
    /\ connected' = FALSE /\ sock' = None
    /\ link' = IF link = "none" THEN "none" ELSE "down"

DropLink ==
    /\ sup = "drop"
    /\ CloseLink
    /\ sup' = "join"
    /\ UNCHANGED <<up, authed, sent, reader, incoming, ringVars, attempt, hadLink,
                   resumes, tried, owed, resumed, flagVars, loggedIn, ui,
                   stopRequested, faults>>

ReaderJoined == reader \in {"none", "exit"}

\* Mutant: the queue is cleared without waiting for the reader.
MutClearFirst ==
    /\ sup = "join"
    /\ incoming' = <<>>
    /\ sup' = "fail"
    /\ UNCHANGED <<up, link, authed, sent, connected, sock, reader, ringVars,
                   attempt, hadLink, resumes, tried, owed, resumed, flagVars,
                   loggedIn, ui, stopRequested, faults>>

\* The reader is joined, then the queue is cleared.
JoinReader ==
    /\ sup = "join" /\ ReaderJoined
    /\ reader' = "none" /\ incoming' = <<>> /\ link' = "none" /\ sent' = <<>>
    /\ sup' = "fail"
    /\ UNCHANGED <<up, authed, connected, sock, ringVars, attempt, hadLink,
                   resumes, tried, owed, resumed, flagVars, loggedIn, ui,
                   stopRequested, faults>>

\* Mutant: the same endpoint is tried again.
MutNoAdvance ==
    /\ sup = "fail"
    /\ UNCHANGED ringVars
    /\ attempt' = attempt + 1
    /\ \/ /\ attempt + 1 >= Limit \/ stopRequested
          /\ sup' = "done"
          /\ reconnecting' = FALSE /\ connectedTo' = None
       \/ /\ attempt + 1 < Limit /\ ~stopRequested
          /\ sup' = "sleep"
          /\ UNCHANGED <<reconnecting, connectedTo>>
    /\ UNCHANGED <<up, netVars, hadLink, resumes, tried, owed, resumed,
                   resumePending, loggedIn, ui, stopRequested, faults>>

\* failAndWait: the next endpoint, unless the attempts are spent.
FailAndWait ==
    /\ sup = "fail"
    /\ Advance /\ UNCHANGED points
    /\ attempt' = attempt + 1
    /\ \/ /\ attempt + 1 >= Limit \/ stopRequested
          /\ sup' = "done"
          /\ reconnecting' = FALSE /\ connectedTo' = None
       \/ /\ attempt + 1 < Limit /\ ~stopRequested
          /\ sup' = "sleep"
          /\ UNCHANGED <<reconnecting, connectedTo>>
    /\ UNCHANGED <<up, netVars, hadLink, resumes, tried, owed, resumed,
                   resumePending, loggedIn, ui, stopRequested, faults>>

\* The delay has passed, or stop cut it short.
Backoff ==
    /\ sup = "sleep"
    /\ sup' = "dial"
    /\ UNCHANGED <<up, netVars, ringVars, attempt, hadLink, resumes, tried, owed,
                   resumed, flagVars, loggedIn, ui, stopRequested, faults>>

-----------------------------------------------------------------------------
(***************************************************************************)
(* UI thread: start, the requests and stop.                                *)
(***************************************************************************)
StartClient ==
    /\ ui.at = "off"
    /\ Replace(mergeFailoverList(Current, Seed, <<>>))
    /\ sup' = "dial"
    /\ ui' = [ui EXCEPT !.at = "starting"]
    /\ UNCHANGED <<up, netVars, attempt, hadLink, resumes, tried, owed, resumed,
                   flagVars, loggedIn, stopRequested, faults>>

\* start() returns: connected, or given up and stopped.
Started ==
    /\ ui.at = "starting" /\ (connected \/ sup = "done")
    /\ ui' = [ui EXCEPT !.at = IF connected THEN "idle" ELSE "stopping"]
    /\ stopRequested' = ~connected
    /\ UNCHANGED <<up, netVars, ringVars, supVars, flagVars, loggedIn, faults>>

\* login, logout, or one of the other requests, which differ in their packet
\* types only.
SendRequest(type) ==
    /\ ui.at = "idle" /\ Alive
    /\ type = "LOGIN" => ~loggedIn
    /\ type = "LOGOUT" => loggedIn
    /\ Send(type, ui' = [at |-> "waiting", want |-> type], UNCHANGED ui)
    /\ UNCHANGED <<up, link, authed, reader, incoming, ringVars, supVars, flagVars,
                   loggedIn, stopRequested, faults>>

\* waitFor(type) takes the oldest reply; another type is thrown away.
TakeReply ==
    /\ ui.at = "waiting" /\ incoming # <<>>
    /\ incoming' = Tail(incoming)
    /\ LET r == Head(incoming)
           mine == r.type = ui.want
       IN /\ ui' = IF mine THEN [at |-> "idle", want |-> "none"] ELSE ui
          /\ loggedIn' = CASE mine /\ r.ok /\ r.type = "LOGIN" -> TRUE
                           [] mine /\ r.ok /\ r.type = "LOGOUT" -> FALSE
                           [] OTHER -> loggedIn
          /\ LET out == mine /\ r.ok /\ r.type = "LOGOUT"
             IN resumePending' = (resumePending /\ ~out) /\ owed' = (owed /\ ~out)
    /\ UNCHANGED <<up, link, authed, sent, connected, sock, reader, ringVars,
                   sup, attempt, hadLink, resumes, tried, resumed, reconnecting,
                   connectedTo, stopRequested, faults>>

\* "Connection lost while waiting for response".
RequestLost ==
    /\ ui.at = "waiting" /\ incoming = <<>> /\ ~connected
    /\ ui' = [at |-> "idle", want |-> "none"]
    /\ UNCHANGED <<up, netVars, ringVars, supVars, flagVars, loggedIn,
                   stopRequested, faults>>

\* stop(): the supervisor is told, joined, and the network closed.
RequestStop ==
    /\ ui.at = "idle"
    /\ stopRequested' = TRUE
    /\ ui' = [ui EXCEPT !.at = "stopping"]
    /\ UNCHANGED <<up, netVars, ringVars, supVars, flagVars, loggedIn, faults>>

StopDisconnects ==
    /\ ui.at = "stopping" /\ sup = "done"
    /\ CloseLink
    /\ ui' = [ui EXCEPT !.at = "closing"]
    /\ UNCHANGED <<up, authed, sent, reader, incoming, ringVars, supVars, flagVars,
                   loggedIn, stopRequested, faults>>

Stopped ==
    /\ ui.at = "closing" /\ ReaderJoined
    /\ reader' = "none" /\ incoming' = <<>> /\ link' = "none" /\ sent' = <<>>
    /\ ui' = [ui EXCEPT !.at = "stopped"]
    /\ UNCHANGED <<up, authed, connected, sock, ringVars, supVars, flagVars,
                   loggedIn, stopRequested, faults>>

-----------------------------------------------------------------------------
World ==
    \/ LinkFails
    \/ \E e \in Endpoint : ServerStops(e) \/ ServerStarts(e)

Reader == ReadWelcome \/ ReadDirectory \/ ReadReply \/ ReaderExits

Supervisor ==
    \/ Connect \/ DialFails \/ LoopEnds \/ Linked
    \/ ResumeSend \/ ResumeTakes \/ ResumeTimesOut \/ ResumeSleeps
    \/ Unhealthy \/ DropLink \/ JoinReader \/ FailAndWait \/ Backoff

UiWaits == TakeReply \/ RequestLost
UiStops == StopDisconnects \/ Stopped
Ui ==
    \/ StartClient \/ Started \/ UiWaits \/ UiStops \/ RequestStop
    \/ \E type \in Request : SendRequest(type)

Next == World \/ Reader \/ Supervisor \/ Ui

Spec == Init /\ [][Next]_vars

(***************************************************************************)
(* The client's own threads keep running and a server that is reached      *)
(* answers.  Nobody has to send a request or call stop, no server has to   *)
(* be started again and no link has to fail.                               *)
(***************************************************************************)
Fairness ==
    /\ WF_vars(ReadWelcome) /\ WF_vars(ReadReply) /\ WF_vars(ReaderExits)
    /\ WF_vars(Supervisor)
    /\ WF_vars(UiWaits) /\ WF_vars(UiStops) /\ WF_vars(Started)

FairSpec == Spec /\ Fairness

-----------------------------------------------------------------------------
(***************************************************************************)
(* Properties.                                                             *)
(***************************************************************************)

\* The supervisor gives up ("Cap reconnect storms", failAndWait) only after a
\* dial to every endpoint it knows has failed since the last live link.
GivesUpLast ==
    (sup = "done" /\ ~stopRequested) => ToSet(points) \subseteq tried

\* The ring has every endpoint once and never loses a seed; while a link is up
\* the cursor is on its endpoint, whatever directories the reader merges in, so
\* that the next hop leads elsewhere and connectedEndpoint names the live socket.
RingFollowsLink ==
    /\ IsInjective(points)
    /\ sup # "off" => ToSet(Seed) \subseteq ToSet(points)
    /\ sock # None => Current = sock
    /\ (sock # None /\ connectedTo # None) => connectedTo = sock

\* No reply of an earlier connection is left for a later one, and no reader of it
\* still runs, when the next endpoint is dialled.
FreshQueue ==
    sup \in {"fail", "sleep", "dial"} => incoming = <<>> /\ reader = "none"

\* A user who was logged in when the link dropped, and still is, has had the
\* session resumed on every later connection: FUTURE_WORK.md section 2.
SessionResumed ==
    (sup = "watch" /\ Alive /\ owed /\ loggedIn /\ hadLink) => resumed

\* Only the answer to a LOGOUT turns a logged-in user into a guest: no welcome,
\* drop or refused RECONNECT does.
StaysLoggedIn ==
    [][loggedIn /\ ~loggedIn' => ui.want = "LOGOUT" /\ ui.at = "waiting"]_vars

\* This and every later delay before a dial is at most min(8000 ms, 200 ms * 2^n)
\* after n failures: the loop of backoffCeilingMs neither stops short of the cap
\* nor passes it.
CeilingExact ==
    sup = "sleep" =>
        \A n \in (attempt - 1)..8 :
            backoffCeilingMs(n) = IF 200 * 2^n < 8000 THEN 200 * 2^n ELSE 8000

\* stop() returns, whatever the supervisor is doing: dialling, sleeping, resuming
\* or taking the link down.
StopReturns == ui.at = "stopping" ~> ui.at = "stopped"

\* Every request of the UI returns: "Empty = success; otherwise error text."
RequestReturns == ui.at = "waiting" ~> ui.at # "waiting"
=============================================================================
