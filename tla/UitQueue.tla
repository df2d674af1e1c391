------------------------------ MODULE UitQueue ------------------------------
(***************************************************************************)
(* A queue of the ezHPC UIT web service: QueueUit with the parts of        *)
(* QueueRemote and Queue it drives, and its file operations                *)
(* DirectoryCreate, DirectoryUpload and DirectoryDownload, over the        *)
(* requests and the session of UitSession.                                 *)
(***************************************************************************)
EXTENDS UitSession, JobStates, Sequences

CONSTANTS
    Jobs,        \* MoleQueue ids
    HostIds,     \* ids the batch scheduler of the host hands out
    Unparsed,    \* the -1 of JobSubmissionInfo when it finds no number
    InvalidId,   \* MoleQueue::InvalidId
    NoJob,       \* "no such key" in m_jobs
    Entries,     \* the entries of a job's directory
    Root,        \* the directory itself
    Dirs,        \* those that are directories
    Parent,      \* the directory each entry but Root is in
    NoEntry,     \* "no entry"
    MaxRetries,  \* the furthest count addJobFailure lets through: 3
    BaseDepth    \* directories of m_workingDirectoryBase/<job>

QueueIds == HostIds \cup {Unparsed}

ASSUME UitQueueAssumption ==
    /\ Unparsed \notin HostIds /\ InvalidId \notin QueueIds
    /\ NoJob \notin Jobs
    /\ Root \in Dirs /\ Dirs \subseteq Entries /\ NoEntry \notin Entries
    /\ Parent \in [Entries \ {Root} -> Dirs]
    /\ \A S \in SUBSET Entries :    \* a tree: every entry is below the root
         /\ Root \in S
         /\ \A e \in Entries \ {Root} : Parent[e] \in S => e \in S
         => S = Entries
    /\ {".", ".."} \cap Entries = {}
    /\ BaseDepth \in Nat \ {0} /\ MaxRetries \in Nat \ {0}
    /\ Requests = (Jobs \X {"op", "kill"}) \cup
                  {TestConnection, <<NoJob, "update">>}
    /\ TestConnection \notin (Jobs \X {"op", "kill"}) \cup
                             {<<NoJob, "update">>}

Files == Entries \ Dirs
Children(d) == {e \in Entries \ {Root} : Parent[e] = d}

VARIABLES
    jobState,             \* JobData::m_jobState, or NotCreated / Removed
    queueId,              \* JobData::m_queueId
    m_pendingSubmission,  \* jobs in the pending list
    m_failureTracker,     \* failures recorded for each job, 0 for no entry
    m_jobs,               \* scheduler id -> job
    m_isCheckingQueue,    \* an update of the queue is under way
    op,                   \* the operation under way for each job
    forgotten             \* jobs that an error left with nobody to go on

queueVars == <<m_pendingSubmission, m_failureTracker, m_jobs,
               m_isCheckingQueue>>
jobVars   == <<jobState, queueId>>
vars      == <<sessionVars, jobVars, queueVars, op, forgotten>>

Op(j)   == <<j, "op">>
Kill(j) == <<j, "kill">>
Update  == <<NoJob, "update">>

\* What a job's operation waits for: the StatFileRequest on the base, the
\* stat and mkdir of DirectoryCreate; URL, mkdir and post of DirectoryUpload;
\* the submission; URL, listing and file of DirectoryDownload.
Making      == {"stat", "partStat", "partMkdir"}
Uploading   == {"uploadUrl", "mkdir", "post"}
Downloading == {"downloadUrl", "list", "get"}
Idle == [at |-> "idle", todo |-> {}, dirs |-> {}, done |-> {},
         cur |-> NoEntry, parts |-> 0]

TypeOK ==
    /\ SessionTypeOK
    /\ jobState \in [Jobs -> JobState \cup {NotCreated, Removed}]
    /\ queueId \in [Jobs -> QueueIds \cup {InvalidId}]
    /\ m_pendingSubmission \subseteq Jobs
    /\ m_failureTracker \in [Jobs -> 0 .. MaxRetries]
    /\ m_jobs \in [QueueIds -> Jobs \cup {NoJob}]
    /\ m_isCheckingQueue \in BOOLEAN
    /\ op \in [Jobs -> [at : Making \cup Uploading \cup Downloading \cup
                             {"submit", "idle"},
                        todo : SUBSET Entries, dirs : SUBSET Dirs,
                        done : SUBSET Entries, cur : Entries \cup {NoEntry},
                        parts : 0 .. BaseDepth]]
    /\ forgotten \subseteq Jobs

Init ==
    /\ SessionInit
    /\ jobState = [j \in Jobs |-> NotCreated]
    /\ queueId = [j \in Jobs |-> InvalidId]
    /\ m_pendingSubmission = {}
    /\ m_failureTracker = [j \in Jobs |-> 0]
    /\ m_jobs = [q \in QueueIds |-> NoJob]
    /\ m_isCheckingQueue = FALSE
    /\ op = [j \in Jobs |-> Idle]
    /\ forgotten = {}

-----------------------------------------------------------------------------
(* Jobs and failures.                                                      *)

\* JobReferenceBase::isValid.
Valid(j) == jobState[j] \notin {NotCreated, Removed}

\* Job::setJobState through references, of which the invalid do nothing.
SetStates(js, s) ==
    jobState' = [j \in Jobs |-> IF j \in js /\ Valid(j) THEN s ELSE jobState[j]]

\* Queue::addJobFailure for the jobs of js, and the submissions it allows.
MayRetry(j) == m_failureTracker[j] < MaxRetries
RetryAll(js) ==
    LET failed == {j \in js : Valid(j)} IN
    /\ m_failureTracker' =
         [j \in Jobs |-> IF j \notin failed THEN m_failureTracker[j]
                         ELSE IF MayRetry(j) THEN m_failureTracker[j] + 1
                         ELSE 0]
    /\ m_pendingSubmission' =
         m_pendingSubmission \cup {j \in failed : MayRetry(j)}

\* The error slots of the requests in W.  A submission that failed before or
\* after the upload is tried again.  copyInputFilesToHostError takes its
\* sender for a StatFileRequest: a DirectoryUpload that failed is dropped
\* there.  killJobError only writes to the log.
Retried == Making \cup {"submit"}
FlagKept(W) == m_isCheckingQueue                                 \* variant
FlagDown(W) == m_isCheckingQueue /\ Update \notin W
ErrorSlots(W) ==
    LET ops     == {j \in Jobs : Op(j) \in W}
        retried == {j \in ops : op[j].at \in Retried}
        loaded  == {j \in ops : op[j].at \in Downloading}
        killed  == {j \in Jobs : Kill(j) \in W} IN
    /\ RetryAll(retried)
    /\ SetStates(retried \cup loaded, "Error")
    /\ forgotten' = forgotten \cup
         {j \in (ops \ (retried \cup loaded)) \cup killed : Valid(j)}
    /\ op' = [j \in Jobs |-> IF j \in ops THEN Idle ELSE op[j]]
    /\ m_isCheckingQueue' = FlagDown(W)
    /\ UNCHANGED <<queueId, m_jobs>>

Gone(W) == [r \in Requests |-> IF r \in W THEN Absent ELSE req[r]]

\* A request or a file transfer fails, alone.
Fails(r) ==
    /\ req' = Gone({r})
    /\ ErrorSlots({r})
    /\ UNCHANGED <<auth, prompts, token, accepted, box, program>>

RequestFails(r) == Answered(r) /\ Fails(r)

\* The login is given up, or the rest of its failure is told.
LoginGivenUp ==
    /\ LoginFails \/ LoginCanceled
    /\ \E W \in Heard :
         /\ req' = Gone(Told(W))
         /\ ErrorSlots(Told(W))
         /\ AuthenticationError(W)
CloseErrorBox ==
    /\ Runs /\ box = "error"
    /\ req' = Gone(Waiters)
    /\ ErrorSlots(Waiters)
    /\ box' = "none"
    /\ UNCHANGED <<auth, prompts, token, accepted, program>>

-----------------------------------------------------------------------------
(* Operations.  Each is the rest of a slot that goes on with the operation *)
(* of j: its new record, and the request that is sent for it, if any.      *)

Others == <<auth, prompts, token, accepted, box, program, forgotten>>
Unmoved == UNCHANGED <<jobVars, queueVars>>

Asks(j, stage) == op' = [op EXCEPT ![j] = stage] /\ Submitted(Op(j))

\* QueueUit::uploadInputFilesToHost.  The reference to a removed job has no
\* local directory, and the upload nothing to open.
UploadInputFilesToHost(j) ==
    Asks(j, [Idle EXCEPT !.at = "uploadUrl",
                         !.todo = IF Valid(j) THEN {Root} ELSE {}])

\* DirectoryCreate::createNext.
CreateNext(j, parts) ==
    IF parts = 0 THEN UploadInputFilesToHost(j)
    ELSE Asks(j, [Idle EXCEPT !.at = "partStat", !.parts = parts - 1])

\* QueueUit::submitJobToRemoteQueue.  The program of a removed job is NULL.
SubmitJobToRemoteQueue(j, done) ==
    IF Valid(j)
    THEN /\ Asks(j, [Idle EXCEPT !.at = "submit", !.done = done])
         /\ UNCHANGED program
    ELSE /\ program' = "crashed"
         /\ UNCHANGED <<op, req>>

\* DirectoryUpload::uploadNext over the entries in todo.
EntriesLost(todo, e)  == Children(e)                             \* variant
EntriesAdded(todo, e) == (todo \ {e}) \cup Children(e)
UploadNext(j, todo, done) ==
    \/ /\ todo = {}
       /\ SubmitJobToRemoteQueue(j, done)
    \/ \E e \in todo :
         LET next == [Idle EXCEPT !.at = IF e \in Dirs THEN "mkdir" ELSE "post",
                                  !.todo = EntriesAdded(todo, e),
                                  !.done = done, !.cur = e] IN
         /\ IF e \in Dirs THEN Asks(j, next)
                          ELSE op' = [op EXCEPT ![j] = next] /\ Ended(Op(j))
         /\ UNCHANGED program

\* QueueUit::finalizeJobCopyToCustomDestination and finalizeJobCleanup.  The
\* DirectoryDelete of cleanRemoteDirectory is never started.
FinalStates == {"Error", "Finished"}
Finalized(j, s) ==
    /\ op' = [op EXCEPT ![j] = Idle]
    /\ SetStates({j}, s)
    /\ Ended(Op(j))

\* DirectoryDownload::downloadNext.  Files come before directories; the local
\* directory of a file may not be made.
DownloadNext(j, files, dirs, done) ==
    \/ \E f \in files :
         /\ op' = [op EXCEPT ![j] = [Idle EXCEPT
                       !.at = "get", !.todo = files \ {f}, !.dirs = dirs,
                       !.done = done, !.cur = f]]
         /\ Ended(Op(j))
         /\ UNCHANGED jobState
    \/ /\ files # {}
       /\ Finalized(j, "Error")
    \/ /\ files = {}
       /\ \E d \in dirs :
            Asks(j, [Idle EXCEPT !.at = "list", !.dirs = dirs \ {d},
                                 !.done = done, !.cur = d])
       /\ UNCHANGED jobState
    \/ /\ files = {} /\ dirs = {}
       /\ \E s \in FinalStates : Finalized(j, s)

-----------------------------------------------------------------------------
(* Submission.                                                             *)

\* Server::handleSubmitJobRequest and QueueRemote::submitJob.
SubmitJob(j) ==
    /\ Runs /\ jobState[j] = NotCreated
    /\ jobState' = [jobState EXCEPT ![j] = "Accepted"]
    /\ m_pendingSubmission' = m_pendingSubmission \cup {j}
    /\ UNCHANGED <<sessionVars, queueId, m_failureTracker, m_jobs,
                   m_isCheckingQueue, op, forgotten>>

\* QueueRemote::submitPendingJobs and copyInputFilesToHost; the input files
\* of some cannot be written.
PendingKept    == m_pendingSubmission                            \* variant
PendingCleared == {}
SubmitPendingJobs ==
    /\ Runs /\ m_pendingSubmission # {}
    /\ \E written \in SUBSET m_pendingSubmission :
         /\ op' = [j \in Jobs |-> IF j \in written
                                  THEN [Idle EXCEPT !.at = "stat"] ELSE op[j]]
         /\ req' = [r \in Requests |->
                      IF \E j \in written : r = Op(j) THEN Sent ELSE req[r]]
         /\ SetStates(m_pendingSubmission \ written, "Error")
    /\ m_pendingSubmission' = PendingCleared
    /\ UNCHANGED <<Others, queueId, m_failureTracker, m_jobs,
                   m_isCheckingQueue>>

\* QueueUit::processStatFileRequest, and copyInputFilesToHostError for "No
\* such file", answered by making the directory.
ProcessStatFileRequest(j) ==
    /\ op[j].at = "stat" /\ Taken(Op(j))
    /\ UploadInputFilesToHost(j) \/ CreateNext(j, BaseDepth)
    /\ Unmoved /\ UNCHANGED Others

\* DirectoryCreate::processStatResponse, and statError for "No such file".
ProcessStatResponse(j) ==
    /\ op[j].at = "partStat" /\ Taken(Op(j))
    /\ \/ CreateNext(j, op[j].parts)
       \/ Asks(j, [op[j] EXCEPT !.at = "partMkdir"])
    /\ Unmoved /\ UNCHANGED Others
CreateDirectoryComplete(j) ==
    /\ op[j].at = "partMkdir" /\ Taken(Op(j))
    /\ CreateNext(j, op[j].parts)
    /\ Unmoved /\ UNCHANGED Others

UploadOthers == <<auth, prompts, token, accepted, box, forgotten>>

\* DirectoryUpload::uploadInternal, createDirectoryComplete and finished, which
\* takes a file for uploaded when the transport reports no error: an answer
\* without "DONE" is logged and counts as well.
UploadInternal(j) ==
    /\ op[j].at = "uploadUrl" /\ Taken(Op(j)) /\ op[j].todo # {}
    /\ UploadNext(j, op[j].todo, {})
    /\ Unmoved /\ UNCHANGED UploadOthers
EntryUploaded(j) ==
    /\ \/ op[j].at = "mkdir" /\ Taken(Op(j))
       \/ op[j].at = "post" /\ Runs
    /\ UploadNext(j, op[j].todo, op[j].done \cup {op[j].cur})
    /\ Unmoved /\ UNCHANGED UploadOthers

\* A post fails, or the file to post, or the local directory of a job that
\* was removed, cannot be opened.
UploadFails(j) ==
    /\ op[j].at = "post" \/ (op[j].at = "uploadUrl" /\ Taken(Op(j)))
    /\ Runs
    /\ Fails(Op(j))

\* m_jobs.insert(queueId, job.moleQueueId()); InvalidId for a removed job.
NotEntered(j, q) == m_jobs                                       \* variant
InsertedAt(j, q) ==
    [m_jobs EXCEPT ![q] = IF Valid(j) THEN j ELSE NoJob]
Entered(j, q) == InsertedAt(j, q)

\* What the service may answer to a submission.
Submissions ==
    {JobSubmissionInfo(xml, Unparsed) : xml \in {NotXml} \cup
        [jobNumber : [number : HostIds, hasHost : BOOLEAN], stderr : {"", "text"}]}

\* QueueUit::jobSubmittedToRemoteQueue: an answer with text in stderr is
\* retried as RequestFails has it, any other counts, with or without a job
\* number in it.
JobSubmittedToRemoteQueue(j) ==
    /\ op[j].at = "submit" /\ Taken(Op(j))
    /\ \E q \in {i.jobNumber : i \in {k \in Submissions : k.stderr = ""}} :
         /\ q = Unparsed \/ \A i \in Jobs : queueId[i] # q
         /\ SetStates({j}, "Submitted")
         /\ m_failureTracker' = [m_failureTracker EXCEPT ![j] = 0]
         /\ queueId' = IF Valid(j) THEN [queueId EXCEPT ![j] = q] ELSE queueId
         /\ m_jobs' = Entered(j, q)
         /\ forgotten' = forgotten \cup ({m_jobs[q]} \ {NoJob})
    /\ op' = [op EXCEPT ![j] = Idle]
    /\ Ended(Op(j))
    /\ UNCHANGED <<auth, prompts, token, accepted, box, program,
                   m_pendingSubmission, m_isCheckingQueue>>

-----------------------------------------------------------------------------
(* Following the queue.                                                    *)

KeysOf(map) == {q \in QueueIds : map[q] # NoJob}

\* QueueUit::requestQueueUpdate over the references in map.
RequestQueueUpdate(map) ==
    IF m_isCheckingQueue \/ KeysOf(map) = {}
    THEN UNCHANGED <<m_isCheckingQueue, req>>
    ELSE m_isCheckingQueue' = TRUE /\ Submitted(Update)

\* QueueRemote::timerEvent: removeStaleJobs, then the request.
UpdateTimer ==
    LET kept == [q \in QueueIds |-> IF m_jobs[q] # NoJob /\ Valid(m_jobs[q])
                                    THEN m_jobs[q] ELSE NoJob] IN
    /\ Runs
    /\ m_jobs' = kept
    /\ RequestQueueUpdate(kept)
    /\ UNCHANGED <<Others, jobVars, m_pendingSubmission, m_failureTracker, op>>

\* What the service may list: up to two events of jobs of the host.
Events == [jobID : [number : HostIds, hasHost : BOOLEAN],
           jobStatusText : {"r", "q", "text", "x"}]
EventLists == {<<>>} \cup {<<e>> : e \in Events} \cup (Events \X Events)

\* The state of the last event of job q, in the order of the list; "none"
\* when it has none for it, always so for a job without a number.
StateOf(events, q) ==
    LET its == SelectSeq(events, LAMBDA e : e.jobId = q)
    IN  IF its = <<>> THEN "none" ELSE JobEventToJobState(its[Len(its)])
StatesOf(ids, list) == [q \in ids |-> StateOf(JobEventList(list, ids), q)]

\* What an update for the jobs of ids may read, from every list there is.
Readings == {[ids |-> ids, states |-> {StatesOf(ids, l) : l \in EventLists}] :
               ids \in SUBSET QueueIds}
StatesRead(ids) == (CHOOSE r \in Readings : r.ids = ids).states

\* The end of finalizeJobCopyFromServer for a job that left the queue: fetch
\* its output, or go on with the custom destination.
Fates == {"fetch"} \cup FinalStates

\* QueueUit::handleQueueUpdate: the jobs of m_jobs that have an event take its
\* state, the others are finalized (beginFinalizeJob).
HandleQueueUpdate ==
    /\ Taken(Update)
    /\ \E event \in StatesRead(KeysOf(m_jobs)) :
       \E fate \in [{q \in KeysOf(m_jobs) : event[q] = "none"} -> Fates] :
         LET seen  == {q \in KeysOf(m_jobs) : Valid(m_jobs[q])}
             left  == {q \in seen : event[q] = "none"}
             fetch == {m_jobs[q] : q \in {k \in left : fate[k] = "fetch"}} IN
         /\ m_jobs' = [q \in QueueIds |-> IF q \in left THEN NoJob
                                          ELSE m_jobs[q]]
         /\ jobState' = [j \in Jobs |->
              IF \E q \in seen : m_jobs[q] = j
              THEN LET q == CHOOSE k \in seen : m_jobs[k] = j IN
                   IF q \notin left THEN event[q]
                   ELSE IF fate[q] = "fetch" THEN jobState[j] ELSE fate[q]
              ELSE jobState[j]]
         /\ op' = [j \in Jobs |-> IF j \in fetch
                                  THEN [Idle EXCEPT !.at = "downloadUrl"]
                                  ELSE op[j]]
         /\ req' = [r \in Requests |->
                      IF r = Update THEN Absent
                      ELSE IF \E j \in fetch : r = Op(j) THEN Sent ELSE req[r]]
    /\ m_isCheckingQueue' = FALSE
    /\ UNCHANGED <<Others, queueId, m_pendingSubmission, m_failureTracker>>

\* DirectoryDownload::downloadInternal.
DownloadOthers == <<Others, queueId, queueVars>>
DownloadInternal(j) ==
    /\ op[j].at = "downloadUrl" /\ Taken(Op(j))
    /\ DownloadNext(j, {}, {Root}, {})
    /\ UNCHANGED DownloadOthers

\* What the service lists of directory d, with the directory itself and the
\* one above it.
Dots == {".", ".."}
Listing(d) == [directories |-> (Children(d) \cap Dirs) \cup Dots,
               files       |-> Children(d) \cap Files]

\* DirectoryDownload::processDirectoryListing.  An invalid listing ends it.
ProcessDirectoryListing(j) ==
    /\ op[j].at = "list" /\ Taken(Op(j))
    /\ \E xml \in {Listing(op[j].cur), NotXml} :
         LET info == DirListingInfo(xml) IN
         \/ /\ info.valid
            /\ DownloadNext(j, op[j].todo \cup info.files,
                            op[j].dirs \cup (info.directories \ Dots),
                            op[j].done \cup {op[j].cur})
         \/ ~info.valid /\ Finalized(j, "Error")
    /\ UNCHANGED DownloadOthers

\* DirectoryDownload::finished: the transfer, or writing it down, may fail.
FileDownloaded(j) ==
    /\ op[j].at = "get" /\ Runs
    /\ \/ DownloadNext(j, op[j].todo, op[j].dirs, op[j].done \cup {op[j].cur})
       \/ Finalized(j, "Error")
    /\ UNCHANGED DownloadOthers

-----------------------------------------------------------------------------
(* Killing and removing.                                                   *)

\* m_jobs.value(job.queueId()) and m_jobs.remove(job.queueId()).
EntryOf(j) == IF queueId[j] \in QueueIds THEN m_jobs[queueId[j]] ELSE NoJob
EntryRemoved(j) ==
    [q \in QueueIds |-> IF q = queueId[j] THEN NoJob ELSE m_jobs[q]]

\* QueueRemote::killJob, asked for by a client or by the user.
KillJob(j) ==
    /\ Runs /\ jobState[j] \in GuiKillable
    /\ IF j \in m_pendingSubmission
       THEN /\ m_pendingSubmission' = m_pendingSubmission \ {j}
            /\ SetStates({j}, "Canceled")
            /\ UNCHANGED <<m_jobs, req>>
       ELSE IF EntryOf(j) = j
       THEN /\ m_jobs' = EntryRemoved(j)
            /\ Submitted(Kill(j))
            /\ UNCHANGED <<jobState, m_pendingSubmission>>
       ELSE /\ SetStates({j}, "Canceled")
            /\ UNCHANGED <<m_jobs, m_pendingSubmission, req>>
    /\ UNCHANGED <<Others, queueId, m_failureTracker, m_isCheckingQueue, op>>

\* QueueUit::endKillJob.
EndKillJob(j) ==
    /\ Taken(Kill(j))
    /\ Ended(Kill(j))
    /\ SetStates({j}, "Canceled")
    /\ UNCHANGED <<Others, queueId, queueVars, op>>

\* The user removes a job: QueueRemote::jobAboutToBeRemoved.
RemoveJob(j) ==
    /\ Runs /\ Valid(j)
    /\ jobState' = [jobState EXCEPT ![j] = Removed]
    /\ m_pendingSubmission' = m_pendingSubmission \ {j}
    /\ m_failureTracker' = [m_failureTracker EXCEPT ![j] = 0]
    /\ m_jobs' = EntryRemoved(j)
    /\ forgotten' = forgotten \cup ({EntryOf(j)} \ {NoJob, j})
    /\ UNCHANGED <<sessionVars, queueId, m_isCheckingQueue, op>>

-----------------------------------------------------------------------------
SessionMoves == SessionStep /\ UNCHANGED <<jobVars, queueVars, op, forgotten>>

JobStep(j) ==
    \/ SubmitJob(j)
    \/ ProcessStatFileRequest(j)
    \/ ProcessStatResponse(j)
    \/ CreateDirectoryComplete(j)
    \/ UploadInternal(j)
    \/ EntryUploaded(j)
    \/ UploadFails(j)
    \/ JobSubmittedToRemoteQueue(j)
    \/ DownloadInternal(j)
    \/ ProcessDirectoryListing(j)
    \/ FileDownloaded(j)
    \/ KillJob(j)
    \/ EndKillJob(j)
    \/ RemoveJob(j)

Next ==
    \/ SessionMoves
    \/ \E r \in Requests : RequestFails(r)
    \/ LoginGivenUp
    \/ CloseErrorBox
    \/ SubmitPendingJobs
    \/ UpdateTimer
    \/ HandleQueueUpdate
    \/ \E j \in Jobs : JobStep(j)

\* The event loop runs slots, so a call that was answered is handled, the
\* user leaves no dialog and no box alone for ever, and the service does not
\* answer every login with another question.
LoginEnds == LoginGivenUp \/ (AuthenticationComplete /\
               auth \in {"kerberos", "cont"} /\ Runs /\
               UNCHANGED <<jobVars, queueVars, op, forgotten>>)
UpdateAnswered ==
    \/ HandleQueueUpdate
    \/ RequestFails(Update)
    \/ TokenRefused(Update) /\ UNCHANGED <<jobVars, queueVars, op, forgotten>>
Fairness ==
    /\ WF_vars(UpdateAnswered)
    /\ WF_vars(Enter /\ UNCHANGED <<jobVars, queueVars, op, forgotten>>)
    /\ WF_vars(CloseErrorBox)
    /\ WF_vars(CloseCompleteBox /\
               UNCHANGED <<jobVars, queueVars, op, forgotten>>)
    /\ SF_vars(LoginEnds)

Spec == Init /\ [][Next]_vars /\ Fairness

-----------------------------------------------------------------------------
(* Properties.                                                             *)

\* A request that waits for credentials is connected to a login that is
\* under way, or to one whose outcome is still being told: no outcome of the
\* login, and no message box in the middle of telling it, leaves a request
\* behind (Session, Authenticator).
NobodyWaitsForNothing ==
    Waiters # {} => auth # "none" \/ box # "none" \/ program = "deadlocked"

\* A job is at one place of its way to the host at a time: it is not
\* submitted while it waits for submission, and neither once the scheduler
\* has it (the retries of QueueUit against its operations in flight).
OnePlaceAtATime ==
    TypeOK /\ \A j \in Jobs : Valid(j) =>
        /\ j \in m_pendingSubmission => op[j] = Idle
        /\ (\E q \in QueueIds : m_jobs[q] = j) =>
             op[j] = Idle /\ j \notin m_pendingSubmission
        /\ \A p, q \in QueueIds : m_jobs[p] = j /\ m_jobs[q] = j => p = q

\* A job the program counts as on its way is where some later step of the
\* queue finds it, unless one of the known errors left it: its upload or its
\* kill failed, or the id it has is also that of another job (QueueUit).
OthersAreFollowed ==
    \A j \in Jobs \ forgotten :
        jobState[j] \in {"Accepted", "Submitted", "QueuedRemote",
                         "RunningRemote", "Unknown"} =>
            \/ j \in m_pendingSubmission
            \/ op[j] # Idle
            \/ req[Kill(j)] # Absent
            \/ \E q \in QueueIds : m_jobs[q] = j

\* A job is submitted with all of its directory uploaded, and is Finished
\* after a download only with all of its output there, in whatever order the
\* directories come and whichever transfer failed (DirectoryUpload,
\* DirectoryDownload).  Uploaded is what was posted with no error reported,
\* whatever the service answered.
TransfersAreComplete ==
    [][\A j \in Jobs :
         /\ op[j].at \in Uploading /\ op'[j].at = "submit" =>
              op'[j].done = Entries
         /\ op[j].at \in Downloading /\ op'[j].at = "idle"
              /\ jobState'[j] = "Finished" /\ jobState[j] # "Finished" =>
              op[j].done \cup {op[j].cur} = Entries]_vars

\* The flag that keeps a second update of the queue from starting is taken
\* down again, unless the login is lost or the program has stopped
\* (QueueUit::requestQueueUpdate and its two slots).
UpdateEnds ==
    m_isCheckingQueue ~> (~m_isCheckingQueue \/ auth = "lost" \/ ~Runs)
==============================================================================
