----------------------------- MODULE ServerSession -----------------------------
(***************************************************************************)
(* The server as its clients see it: Server with its connections, look-up  *)
(* tables and job ids, the local socket transport, JsonRpc in between, and *)
(* Client with JsonRpcClient at the other end.  What the queues do to a    *)
(* job is cut down to the state changes they report.  A slot of either     *)
(* event loop is atomic; the two processes, the sockets between them, the  *)
(* users, crashes and restarts interleave.                                 *)
(***************************************************************************)
EXTENDS JobStates, Naturals, SequencesExt

CONSTANTS
    Clients,       \* programs that link the client library
    Connections,   \* addresses at which Connection objects are allocated
    Null,          \* no connection, no client, no method, no job
    MaxJobs,       \* bound on the jobs the server accepts
    MaxRequests,   \* bound on the requests of each client
    MaxTotal,      \* bound on the requests of all clients
    MaxRestarts,   \* bound on the starts after the first
    Methods,       \* what the clients ask for
    GivenStates,   \* what requests carry as params.jobState
    QueueSteps,    \* the state changes the queues report of the jobs they hold
    Events         \* the user actions and faults a run admits

AllEvents == {"close", "remove", "crash", "quit", "split"}

ASSUME SessionAssumption ==
    /\ MaxJobs \in Nat /\ MaxRequests \in Nat /\ MaxTotal \in Nat
    /\ MaxRestarts \in Nat
    /\ Null \notin Clients \cup Connections \cup Nat \cup Methods \cup JobState
    /\ Methods \subseteq {"listQueues", "submitJob", "lookupJob", "cancelJob"}
    /\ GivenStates \subseteq JobState /\ GivenStates # {}
    /\ QueueSteps \subseteq JobState \X JobState
    /\ Events \subseteq AllEvents

VARIABLES
    running,              \* the server process is alive
    listening,            \* its QLocalServer accepts connections
    socketFile,           \* the name of the socket is taken
    end,                  \* Server's side of each connection
    m_connectionLUT,      \* the connection to notify about a job
    m_moleQueueIdCounter,
    jobState,             \* JobData::m_jobState, or NotCreated / Removed
    savedCounter,         \* moleQueueIdCounter in the settings file
    savedState,           \* jobState in mqjobinfo.json; NotCreated, none;
                          \* Removed, archived
    starts,               \* starts after the first so far
    peer,                 \* the client that opened a connection
    open,                 \* the client's socket is still open
    whole,                \* no packet on it was read before all of it was there
    toServer, toClient,   \* bytes under way, as packets
    m_packetCounter,
    m_requests,           \* Client::m_requests: the method of each request
    outcome,              \* what has become of each request
    told,                 \* the state of a job its submitter last heard of
    submitter             \* the client that was given a job's id

serverVars == <<running, listening, socketFile, end, m_connectionLUT,
                m_moleQueueIdCounter, jobState>>
fileVars   == <<savedCounter, savedState, starts>>
wireVars   == <<peer, open, whole, toServer, toClient>>
clientVars == <<m_packetCounter, m_requests, outcome, told, submitter>>
vars == <<serverVars, fileVars, wireVars, clientVars>>

Ids        == 1 .. MaxJobs
RequestIds == 0 .. MaxRequests - 1

\* What a submitter knows of its job before the first notification: nothing,
\* not even the id; the id.
NoId   == "no id"
Untold == "untold"

\* The JSON that the packets below stand for.
Messages == INSTANCE JsonRpcMessages

\* A request as the server reads it; "ok" says whether its params pass the
\* handler's checks (an object, the members it needs, a queue and a program
\* that exist).  What is left of a packet that was read in part is Garbage.
Request == [method : Methods, id : RequestIds, job : Ids \cup {Null},
            ok : BOOLEAN, given : GivenStates]
Garbage == [method |-> "garbage"]

\* A reply or a notification.  A reply to a packet that cannot be parsed has
\* the id Null; the state in a reply to lookupJob is in old and new.
Packet == [type : {"result", "error", "notification"},
           id : RequestIds \cup {Null}, job : Ids \cup {Null},
           old : JobState \cup {Null}, new : JobState \cup {Null}]

TypeOK ==
    /\ running \in BOOLEAN /\ listening \in BOOLEAN /\ socketFile \in BOOLEAN
    /\ end \in [Connections -> {"none", "backlog", "open"}]
    /\ m_connectionLUT \in [Ids -> Connections \cup {Null}]
    /\ m_moleQueueIdCounter \in 0 .. MaxJobs
    /\ jobState \in [Ids -> JobState \cup {NotCreated, Removed}]
    /\ savedCounter \in 0 .. MaxJobs
    /\ savedState \in [Ids -> JobState \cup {NotCreated, Removed}]
    /\ starts \in 0 .. MaxRestarts
    /\ peer \in [Connections -> Clients \cup {Null}]
    /\ open \in [Connections -> BOOLEAN]
    /\ whole \in [Connections -> BOOLEAN]
    /\ toServer \in [Connections -> Seq(Request \cup {Garbage})]
    /\ toClient \in [Connections -> Seq(Packet)]
    /\ m_packetCounter \in [Clients -> 0 .. MaxRequests]
    /\ m_requests \in [Clients -> [RequestIds -> Methods \cup {Null}]]
    /\ outcome \in [Clients ->
         [RequestIds -> {"none", "waiting", "lost", "answered"}]]
    /\ told \in [Ids -> JobState \cup {NoId, Untold}]
    /\ submitter \in [Ids -> Clients \cup {Null}]

Init ==
    /\ running = TRUE /\ listening = TRUE /\ socketFile = TRUE
    /\ end = [a \in Connections |-> "none"]
    /\ m_connectionLUT = [j \in Ids |-> Null]
    /\ m_moleQueueIdCounter = 0
    /\ jobState = [j \in Ids |-> NotCreated]
    /\ savedCounter = 0
    /\ savedState = [j \in Ids |-> NotCreated]
    /\ starts = 0
    /\ peer = [a \in Connections |-> Null]
    /\ open = [a \in Connections |-> FALSE]
    /\ whole = [a \in Connections |-> TRUE]
    /\ toServer = [a \in Connections |-> <<>>]
    /\ toClient = [a \in Connections |-> <<>>]
    /\ m_packetCounter = [c \in Clients |-> 0]
    /\ m_requests = [c \in Clients |-> [r \in RequestIds |-> Null]]
    /\ outcome = [c \in Clients |-> [r \in RequestIds |-> "none"]]
    /\ told = [j \in Ids |-> NoId]
    /\ submitter = [j \in Ids |-> Null]

-----------------------------------------------------------------------------
(* The wire.                                                               *)

Result(r, j, s)   == [type |-> "result", id |-> r, job |-> j,
                      old |-> s, new |-> s]
ErrorReply(r)     == [type |-> "error", id |-> r, job |-> Null,
                      old |-> Null, new |-> Null]
Notice(j, s, t)   == [type |-> "notification", id |-> Null, job |-> j,
                      old |-> s, new |-> t]

\* Message::send of the packets in out.  The server learns of a closed socket
\* only from clientDisconnected; what it writes until then is lost.
Send(out) ==
    toClient' = [a \in Connections |->
                    IF open[a] THEN toClient[a] \o out[a] ELSE toClient[a]]

To(a, packets) == [b \in Connections |-> IF b = a THEN packets ELSE <<>>]

\* Requests that nobody will answer once the connections in A are gone: what
\* the server has written can still be read, what it has not read is dropped.
ReplyOnTheWay(a, r) ==
    \E i \in DOMAIN toClient'[a] :
        toClient'[a][i].type # "notification" /\ toClient'[a][i].id = r
Lose(A) ==
    outcome' = [c \in Clients |-> [r \in RequestIds |->
        IF /\ outcome[c][r] = "waiting"
           /\ \E a \in A : peer[a] = c /\ open[a] /\ ~ReplyOnTheWay(a, r)
        THEN "lost" ELSE outcome[c][r]]]

\* An address can be used again when neither side holds the connection.
Freed(a) == end'[a] = "none" /\ ~open'[a]
Release ==
    /\ peer' = [a \in Connections |-> IF Freed(a) THEN Null ELSE peer[a]]
    /\ toServer' = [a \in Connections |->
                       IF end'[a] = "none" THEN <<>> ELSE toServer[a]]

-----------------------------------------------------------------------------
(* Job states.                                                             *)

\* JobManager::setJobState and Server::dispatchJobStateChange: a change is
\* notified to the connection the job was submitted on, if it is still known.
NoticesSwapped(lut, j, s, t) ==
    IF s = t \/ lut[j] = Null THEN To(Null, <<>>)
    ELSE To(lut[j], <<Notice(j, t, s)>>)
NoticesButLast(lut, j, s, t) ==
    IF s = t \/ lut[j] = Null \/ t \in {"Finished", "Canceled"} THEN To(Null, <<>>)
    ELSE To(lut[j], <<Notice(j, s, t)>>)
Notices(lut, j, s, t) ==
    IF s = t \/ lut[j] = Null THEN To(Null, <<>>)
    ELSE To(lut[j], <<Notice(j, s, t)>>)

\* A queue moves a job on.
QueueProgress(j) ==
    /\ running
    /\ \E step \in QueueSteps :
         /\ jobState[j] = step[1]
         /\ jobState' = [jobState EXCEPT ![j] = step[2]]
         /\ Send(Notices(m_connectionLUT, j, step[1], step[2]))
    /\ UNCHANGED <<running, listening, socketFile, end, m_connectionLUT,
                   m_moleQueueIdCounter, fileVars, peer, open, whole, toServer,
                   clientVars>>

\* JobManager::syncJobState writes the jobs that have changed; the server
\* calls it every 20 seconds.
Saved == [j \in Ids |-> IF jobState[j] = NotCreated THEN savedState[j]
                        ELSE jobState[j]]
SyncJobState ==
    /\ running
    /\ savedState # Saved
    /\ savedState' = Saved
    /\ UNCHANGED <<serverVars, savedCounter, starts, wireVars,
                   clientVars>>

\* JobManager::removeJob, which archives the state file, and jobRemoved.
RemoveJob(j) ==
    /\ "remove" \in Events /\ running
    /\ jobState[j] \notin {NotCreated, Removed}
    /\ jobState' = [jobState EXCEPT ![j] = Removed]
    /\ savedState' = [savedState EXCEPT ![j] = Removed]
    /\ m_connectionLUT' = [m_connectionLUT EXCEPT ![j] = Null]
    /\ UNCHANGED <<running, listening, socketFile, end, m_moleQueueIdCounter,
                   savedCounter, starts, wireVars, clientVars>>

-----------------------------------------------------------------------------
(* Connections.                                                            *)

\* JsonRpcClient::connectToServer: a socket whose server is gone is replaced;
\* one that is connected is kept and the call refused.
ConnectToServer(c) ==
    LET old == {a \in Connections : peer[a] = c /\ open[a]} IN
    /\ listening
    /\ \A a \in old : end[a] = "none"
    /\ \E b \in Connections :
         /\ end[b] = "none"
         /\ ~open[b] \/ b \in old
         /\ end' = [end EXCEPT ![b] = "backlog"]
         /\ open' = [a \in Connections |-> a = b \/ (open[a] /\ a \notin old)]
         /\ peer' = [a \in Connections |->
                        IF a = b THEN c ELSE IF a \in old THEN Null ELSE peer[a]]
         /\ toClient' = [a \in Connections |->
                            IF a \in old \cup {b} THEN <<>> ELSE toClient[a]]
         /\ whole' = [whole EXCEPT ![b] = TRUE]
         /\ Lose(old)
    /\ UNCHANGED <<running, listening, socketFile, m_connectionLUT,
                   m_moleQueueIdCounter, jobState, fileVars, toServer,
                   m_packetCounter, m_requests, told, submitter>>

\* LocalSocketConnectionListener::newConnectionAvailable, whose signal reaches
\* Server::newConnectionAvailable and then JsonRpc::addConnection, which
\* starts the connection: from now on its packets are read.
NewConnection(a) ==
    /\ running /\ end[a] = "backlog"
    /\ end' = [end EXCEPT ![a] = "open"]
    /\ UNCHANGED <<running, listening, socketFile, m_connectionLUT,
                   m_moleQueueIdCounter, jobState, fileVars, wireVars,
                   clientVars>>

\* The client ends, or closes its socket to connect to another server.
CloseSocket(a) ==
    /\ "close" \in Events /\ open[a]
    /\ open' = [open EXCEPT ![a] = FALSE]
    /\ toClient' = [toClient EXCEPT ![a] = <<>>]
    /\ end' = end
    /\ Release
    /\ Lose({a})
    /\ UNCHANGED <<whole, running, listening, socketFile, m_connectionLUT,
                   m_moleQueueIdCounter, jobState, fileVars, m_packetCounter,
                   m_requests, told, submitter>>

\* Server::clientDisconnected for the connections in A, followed by the
\* deletion of the Connection objects and JsonRpc::removeConnection.
StillRouted(lut, A) == lut
Disconnected(lut, A) == [j \in Ids |-> IF lut[j] \in A THEN Null ELSE lut[j]]

ClientDisconnected(a) ==
    /\ running /\ end[a] = "open" /\ ~open[a]
    /\ end' = [end EXCEPT ![a] = "none"]
    /\ m_connectionLUT' = Disconnected(m_connectionLUT, {a})
    /\ open' = open
    /\ Release
    /\ UNCHANGED <<running, listening, socketFile, m_moleQueueIdCounter,
                   jobState, fileVars, whole, toClient, clientVars>>

-----------------------------------------------------------------------------
(* The client library.                                                     *)

AnyState == CHOOSE s \in GivenStates : TRUE

Requests(r) ==
    {q \in [method : {"listQueues"}, id : {r}, job : {Null}, ok : {TRUE},
            given : {AnyState}]
        \cup [method : {"submitJob"}, id : {r}, job : {Null}, ok : BOOLEAN,
              given : GivenStates]
        \cup [method : {"lookupJob", "cancelJob"}, id : {r}, job : Ids,
              ok : {TRUE}, given : {AnyState}] : q.method \in Methods}

\* Client::requestQueueList, submitJob, lookupJob and cancelJob, once
\* connectToServer has been called.  sendRequest succeeds also when the
\* socket is not connected; the request is registered and never sent.
SendRequest(c) ==
    LET r == m_packetCounter[c]
        A == {a \in Connections : peer[a] = c /\ open[a] /\ end[a] # "none"}
    IN
    /\ r < MaxRequests
    /\ MapThenSumSet(LAMBDA d : m_packetCounter[d], Clients) < MaxTotal
    /\ \E a \in Connections : peer[a] = c /\ open[a]
    /\ m_packetCounter' = [m_packetCounter EXCEPT ![c] = r + 1]
    /\ \E q \in Requests(r) :
         /\ m_requests' = [m_requests EXCEPT ![c][r] = q.method]
         /\ toServer' = [a \in Connections |->
                            IF a \in A THEN Append(toServer[a], q) ELSE toServer[a]]
    /\ outcome' = [outcome EXCEPT ![c][r] = IF A = {} THEN "lost" ELSE "waiting"]
    /\ UNCHANGED <<serverVars, fileVars, peer, open, whole, toClient, told,
                   submitter>>

\* JsonRpcClient::readSocket and readPacket for the next packet, up to the
\* signal the application sees.
Reading(a) == open[a] /\ toClient[a] # <<>>
Read(a) == /\ toClient' = [toClient EXCEPT ![a] = Tail(@)]
           /\ UNCHANGED <<serverVars, fileVars, peer, open, whole, toServer,
                          m_packetCounter, m_requests, submitter>>

Hears(c, j, s) ==
    told' = IF j # Null /\ submitter[j] = c THEN [told EXCEPT ![j] = s] ELSE told

\* Client::processNotification: jobStateChanged.
ProcessNotification(a) ==
    LET p == Head(toClient[a]) IN
    /\ Reading(a) /\ p.type = "notification"
    /\ Hears(peer[a], p.job, p.new)
    /\ UNCHANGED outcome
    /\ Read(a)

\* Client::processResult, for a request in m_requests.
ProcessResult(a) ==
    LET p == Head(toClient[a])
        c == peer[a]
    IN
    /\ Reading(a) /\ p.type = "result"
    /\ m_requests[c][p.id] # Null
    /\ outcome' = [outcome EXCEPT ![c][p.id] = "answered"]
    /\ CASE m_requests[c][p.id] = "submitJob" -> Hears(c, p.job, Untold)
         [] m_requests[c][p.id] = "lookupJob" -> Hears(c, p.job, p.new)
         [] OTHER -> UNCHANGED told
    /\ Read(a)

\* Client::processError: a null id is taken for request 0.
ProcessError(a) ==
    LET p == Head(toClient[a])
        r == IF p.id = Null THEN 0 ELSE p.id
    IN
    /\ Reading(a) /\ p.type = "error"
    /\ outcome' = [outcome EXCEPT ![peer[a]][r] = "answered"]
    /\ UNCHANGED told
    /\ Read(a)

-----------------------------------------------------------------------------
(* The server's request handlers.                                          *)

\* LocalSocketConnection::readSocket has the whole next packet and JsonRpc
\* has found a request in it.
Request0(a, method) ==
    /\ running /\ end[a] = "open" /\ toServer[a] # <<>>
    /\ Head(toServer[a]).method = method
    /\ toServer' = [toServer EXCEPT ![a] = Tail(@)]
    /\ UNCHANGED <<running, listening, socketFile, end, starts,
                   peer, open, whole, m_packetCounter, m_requests, outcome,
                   told>>

\* handleListQueuesRequest.
HandleListQueuesRequest(a) ==
    /\ Request0(a, "listQueues")
    /\ Send(To(a, <<Result(Head(toServer[a]).id, Null, Null)>>))
    /\ UNCHANGED <<m_connectionLUT, m_moleQueueIdCounter, jobState,
                   savedCounter, savedState, submitter>>

\* handleInvalidParams, and the other errors a handler ends with.
Unanswered(q) == <<>>
Refusal(q) == <<ErrorReply(q.id)>>

\* handleSubmitJobRequest with params that handleInvalidParams answers, or
\* that name no queue or no program of the queue.
RejectSubmitJobRequest(a) ==
    /\ Request0(a, "submitJob")
    /\ ~Head(toServer[a]).ok
    /\ Send(To(a, Refusal(Head(toServer[a]))))
    /\ UNCHANGED <<m_connectionLUT, m_moleQueueIdCounter, jobState,
                   savedCounter, savedState, submitter>>

\* jobAboutToBeAdded: the counter that is stored with the settings when job j
\* has its id; then what syncJobState leaves on disk when newJob has given it
\* the state s.
CounterNotStored(j) == savedCounter
CounterStored(j) == j
NotSynced(j, s) == savedState
Synced(j, s) == [Saved EXCEPT ![j] = s]

\* The order in which the response and what submitJob reports are sent.
NoticesFirst(response, notices) == notices \o response
ResponseFirst(response, notices) == response \o notices

\* handleSubmitJobRequest: JobManager::newJob, in which jobAboutToBeAdded
\* takes and stores the next id and syncJobState writes the state files; the
\* response; the look-up table; and Queue::submitJob, which accepts the job.
HandleSubmitJobRequest(a) ==
    LET q   == Head(toServer[a])
        j   == m_moleQueueIdCounter + 1
        lut == [m_connectionLUT EXCEPT ![j] = a]
    IN
    /\ Request0(a, "submitJob") /\ q.ok
    /\ j \in Ids
    /\ m_moleQueueIdCounter' = j
    /\ savedCounter' = CounterStored(j)
    /\ savedState' = Synced(j, q.given)
    /\ jobState' = [jobState EXCEPT ![j] = "Accepted"]
    /\ m_connectionLUT' = lut
    /\ submitter' = [submitter EXCEPT ![j] = peer[a]]
    /\ Send(To(a, ResponseFirst(<<Result(q.id, j, Null)>>,
                                Notices(lut, j, q.given, "Accepted")[a])))

\* JobManager::lookupJobByMoleQueueId finds the jobs of the list.
Known(j) == jobState[j] \notin {NotCreated, Removed}

\* handleLookupJobRequest.
HandleLookupJobRequest(a) ==
    LET q == Head(toServer[a]) IN
    /\ Request0(a, "lookupJob")
    /\ Send(To(a, IF Known(q.job)
                  THEN <<Result(q.id, q.job, jobState[q.job])>> ELSE Refusal(q)))
    /\ UNCHANGED <<m_connectionLUT, m_moleQueueIdCounter, jobState,
                   savedCounter, savedState, submitter>>

\* handleCancelJobRequest for a job that is unknown or not in a state that
\* can be cancelled.
RejectCancelJobRequest(a) ==
    LET q == Head(toServer[a]) IN
    /\ Request0(a, "cancelJob")
    /\ jobState[q.job] \notin RpcCancelable
    /\ Send(To(a, Refusal(q)))
    /\ UNCHANGED <<m_connectionLUT, m_moleQueueIdCounter, jobState,
                   savedCounter, savedState, submitter>>

\* handleCancelJobRequest: Queue::killJob, which may cancel the job at once
\* and so notify its submitter, and then the response.
HandleCancelJobRequest(a) ==
    LET q == Head(toServer[a]) IN
    /\ Request0(a, "cancelJob")
    /\ jobState[q.job] \in RpcCancelable
    /\ \E t \in {jobState[q.job], "Canceled"} :
         LET notices == Notices(m_connectionLUT, q.job, jobState[q.job], t) IN
         /\ jobState' = [jobState EXCEPT ![q.job] = t]
         /\ Send([b \in Connections |->
                     notices[b] \o To(a, <<Result(q.id, q.job, Null)>>)[b]])
    /\ UNCHANGED <<m_connectionLUT, m_moleQueueIdCounter, savedCounter,
                   savedState, submitter>>

\* readSocket while only a part of a packet has arrived: the stream returns an
\* empty packet and has consumed what was there; JsonRpc::newPacket answers
\* with a parse error and a null id.
ReadPartOfPacket(a) ==
    /\ "split" \in Events
    /\ running /\ end[a] = "open" /\ toServer[a] # <<>>
    /\ toServer' = [toServer EXCEPT ![a] = <<Garbage>> \o Tail(@)]
    /\ Head(toServer[a]) # Garbage
    /\ whole' = [whole EXCEPT ![a] = FALSE]
    /\ Send(To(a, <<ErrorReply(Null)>>))
    /\ UNCHANGED <<serverVars, fileVars, peer, open, clientVars>>

\* readSocket at the rest of such a packet, whose first bytes are taken for a
\* length that exceeds all that has arrived.
ReadGarbage(a) ==
    /\ running /\ end[a] = "open" /\ toServer[a] # <<>>
    /\ Head(toServer[a]) = Garbage
    /\ \E n \in 1 .. Len(toServer[a]) :
         toServer' = [toServer EXCEPT ![a] = SubSeq(@, n + 1, Len(@))]
    /\ Send(To(a, <<ErrorReply(Null)>>))
    /\ UNCHANGED <<serverVars, fileVars, peer, open, whole, clientVars>>

-----------------------------------------------------------------------------
(* The server process.                                                     *)

\* Every connection goes away on the server's side.
DropConnections ==
    /\ end' = [a \in Connections |-> "none"]
    /\ m_connectionLUT' = [j \in Ids |-> Null]
    /\ open' = open
    /\ Release
    /\ Lose(Connections)

\* The process dies: packets it had not yet written to the sockets are lost,
\* the socket's name stays taken, files are as they were.
Crash ==
    /\ "crash" \in Events /\ running
    /\ running' = FALSE /\ listening' = FALSE
    /\ \E cut \in [Connections -> UNION {Prefixes(toClient[a]) : a \in Connections}] :
         /\ \A a \in Connections : cut[a] \in Prefixes(toClient[a])
         /\ toClient' = cut
    /\ DropConnections
    /\ UNCHANGED <<whole, socketFile, m_moleQueueIdCounter, jobState, fileVars,
                   m_packetCounter, m_requests, told, submitter>>

\* The user quits: MainWindow's destructor calls Server::writeSettings, which
\* stores the counter and the jobs, and deletes the server, which stops.
Quit ==
    /\ "quit" \in Events /\ running
    /\ running' = FALSE /\ listening' = FALSE
    /\ socketFile' = (socketFile /\ ~listening)
    /\ savedCounter' = m_moleQueueIdCounter
    /\ savedState' = Saved
    /\ toClient' = toClient
    /\ DropConnections
    /\ UNCHANGED <<whole, m_moleQueueIdCounter, jobState, starts,
                   m_packetCounter, m_requests, told, submitter>>

\* main: Server::readSettings with JobManager::loadJobState, and Server::start,
\* which fails when the name of the socket is taken.
StartServer ==
    /\ ~running /\ starts < MaxRestarts
    /\ starts' = starts + 1
    /\ running' = TRUE
    /\ m_moleQueueIdCounter' = savedCounter
    /\ jobState' = savedState
    /\ listening' = ~socketFile
    /\ socketFile' = TRUE
    /\ UNCHANGED <<end, m_connectionLUT, savedCounter, savedState,
                   wireVars, clientVars>>

\* MainWindow::handleServerConnectionError when the user answers that no
\* other server runs: Server::forceStart removes the name and starts again.
ForceStart ==
    /\ running /\ ~listening
    /\ listening' = TRUE
    /\ UNCHANGED <<running, socketFile, end, m_connectionLUT,
                   m_moleQueueIdCounter, jobState, fileVars, wireVars,
                   clientVars>>

ServerReads(a) ==
    \/ HandleListQueuesRequest(a)
    \/ RejectSubmitJobRequest(a) \/ HandleSubmitJobRequest(a)
    \/ HandleLookupJobRequest(a)
    \/ RejectCancelJobRequest(a) \/ HandleCancelJobRequest(a)
    \/ ReadGarbage(a)

\* A whole packet each time.  JsonRpcClient::readSocket too would read one that
\* has arrived in part, as the server does in ReadPartOfPacket; this is left out,
\* so what is said of clients supposes that packets reach them whole.
ClientReads(a) ==
    ProcessNotification(a) \/ ProcessResult(a) \/ ProcessError(a)

Next ==
    \/ \E c \in Clients : ConnectToServer(c) \/ SendRequest(c)
    \/ \E a \in Connections :
         \/ NewConnection(a) \/ CloseSocket(a) \/ ClientDisconnected(a)
         \/ ServerReads(a) \/ ReadPartOfPacket(a) \/ ClientReads(a)
    \/ \E j \in Ids : QueueProgress(j) \/ RemoveJob(j)
    \/ SyncJobState
    \/ Crash \/ Quit \/ StartServer \/ ForceStart

Spec == Init /\ [][Next]_vars

\* Both event loops go on serving their sockets; what the server's does when
\* a client has gone is left out, as nothing waits for it.
Fairness ==
    \A a \in Connections :
        /\ WF_vars(NewConnection(a))
        /\ WF_vars(ServerReads(a))
        /\ WF_vars(ClientReads(a))

LiveSpec == Spec /\ Fairness

-----------------------------------------------------------------------------
(* Properties.                                                             *)

\* The places where request r of client c or a reply to it can be found.
Copies(c, r) ==
    LET mine == {a \in Connections : peer[a] = c /\ open[a]} IN
    Cardinality(UNION {{<<a, i>> : i \in {k \in DOMAIN toServer[a] :
            toServer[a][k] # Garbage /\ toServer[a][k].id = r}} : a \in mine})
    + Cardinality(UNION {{<<a, i>> : i \in {k \in DOMAIN toClient[a] :
            /\ toClient[a][k].type # "notification"
            /\ r = IF toClient[a][k].id = Null THEN 0 ELSE toClient[a][k].id}}
            : a \in mine})

AllWhole(c) == \A a \in Connections : peer[a] = c => whole[a]

\* As long as its connection lasts and its packets arrive whole, a request is
\* either still to be read by the server or has exactly one reply under way,
\* and nothing that names it follows the reply (handleRequest and the handlers it calls, Message's
\* generateResponse, Client::processResult and processError).
OneAnswer ==
    \A c \in Clients, r \in RequestIds :
        AllWhole(c) => Copies(c, r) = IF outcome[c][r] = "waiting" THEN 1 ELSE 0

\* The look-up table names live connections, and for each job the one of the
\* client that submitted it, although addresses of closed connections are
\* used again (clientDisconnected, jobRemoved).
RoutesLive ==
    TypeOK /\ \A j \in Ids :
        LET a == m_connectionLUT[j] IN
        a # Null => end[a] = "open" /\ peer[a] = submitter[j]

\* The packets of s that tell the state of job j, by their positions.
About(s, j) == {i \in DOMAIN s : s[i].job = j /\ s[i].new # Null}

\* Each of them starts from the state the one before it ended with, the first
\* from the state that is known, if one is; they end with the state `last`.
Chained(s, j, known, last) ==
    LET at == About(s, j) IN
    /\ \A i, k \in at :
         i < k /\ (\A m \in at : m =< i \/ k =< m) => s[i].new = s[k].old
    /\ \A i \in at : (\A m \in at : m =< i) => s[i].new = last
    /\ known \in JobState =>
         IF at = {} THEN known = last
         ELSE \A i \in at : (\A m \in at : i =< m) => s[i].old = known

\* A client that stays connected can follow its job: each notification
\* starts from the state the one before it, or a lookup in between, ended
\* with, and the last one ends with the state the job is in
\* (dispatchJobStateChange, handleLookupJobRequest).
ChainUnbroken ==
    \A j \in Ids :
        LET a == m_connectionLUT[j] IN
        a # Null /\ open[a] => Chained(toClient[a], j, told[j], jobState[j])

\* A client is never notified about a job whose id it has not been given
\* ("Submit the job after sending the response", handleSubmitJobRequest).
IdBeforeNotice ==
    \A a \in Connections : \A i \in DOMAIN toClient[a] :
        LET p == toClient[a][i] IN
        (open[a] /\ p.type = "notification" /\ told[p.job] = NoId) =>
            \E k \in 1 .. i - 1 :
                toClient[a][k].type = "result" /\ toClient[a][k].job = p.job

\* A job whose id a client was given survives the end of the server, however
\* it ends: it is on disk or in memory until somebody removes it (newJob
\* calls syncJobState before the response is sent).
AcknowledgedIsKept ==
    \A j \in Ids : submitter[j] # Null =>
        (IF running THEN jobState[j] ELSE savedState[j]) # NotCreated

\* An id is given out once, also across crashes (jobAboutToBeAdded stores the
\* counter before the id is used).
IdsAreFresh ==
    [][m_moleQueueIdCounter' # m_moleQueueIdCounter /\ running =>
         submitter[m_moleQueueIdCounter'] = Null]_vars

\* Whatever JSON object a packet holds, both sides make the same of it: what
\* Message::toJsonObject writes Message::parse reads back, nothing answers an
\* answer, and the answer to a request has its id and is one
\* JsonRpcClient::readPacket takes for a result or an error.
MessagesAreUnderstood ==
    (\E a \in Connections : toServer[a] # <<>> \/ toClient[a] # <<>>) =>
        /\ Messages!SurvivesTheWire
        /\ Messages!AnswersEndIt
        /\ Messages!AnswerIsUnderstood

\* A request sent on a connection is answered, unless the connection ends.
EventuallyAnswered ==
    \A c \in Clients, r \in RequestIds :
        outcome[c][r] = "waiting" ~> outcome[c][r] # "waiting" \/ ~AllWhole(c)

\* A client that stays connected is told of the state its job has reached.
EventuallyTold ==
    \A j \in Ids :
        m_connectionLUT[j] # Null ~>
            (m_connectionLUT[j] = Null \/ told[j] = jobState[j]
             \/ ~open[m_connectionLUT[j]])
==============================================================================
