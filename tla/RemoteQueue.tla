----------------------------- MODULE RemoteQueue -----------------------------
(***************************************************************************)
(* One remote queue of the MoleQueue server: QueueRemote and               *)
(* QueueRemoteSsh with the parts of Queue, JobManager and SshCommand they  *)
(* drive.  The application is one Qt event loop, so a slot is one atomic   *)
(* step; what is concurrent is the set of ssh and scp processes in flight, *)
(* whose completions arrive in any order, the users, the timers and the    *)
(* batch scheduler on the remote host.                                     *)
(***************************************************************************)
EXTENDS JobStates, Naturals, FiniteSets

CONSTANTS
    Jobs,           \* MoleQueue ids
    SchedulerIds,   \* ids the remote batch scheduler hands out
    InvalidId,      \* MoleQueue::InvalidId
    NoJob,          \* "no such key" in m_jobs; "no dialog"
    LineStates,     \* the states parseQueueLine can report
    ClientIds,      \* the queueId a client may put in its submitJob request
    Events          \* the faults and user actions a run admits

AllEvents == {"remove", "cancel", "dialog", "reconfigure",
              "writeFails", "sshFails", "filesMissing", "ackLost",
              "unparsable", "unreadable", "qstatFails", "killFails",
              "copyOutFails"}

\* parseQueueId leaves the 0 its caller initialised when it cannot parse.
QueueIds == SchedulerIds \cup {0}

ASSUME RemoteQueueAssumption ==
    /\ SchedulerIds \subseteq Nat \ {0}
    /\ InvalidId \notin QueueIds
    /\ NoJob \notin Jobs
    /\ LineStates \subseteq JobState
    /\ ClientIds \subseteq QueueIds \cup {InvalidId}
    /\ Events \subseteq AllEvents

\* What an ssh or scp process in flight is for, named by the slot that its
\* requestComplete signal is connected to.
Ops == {"mkdir", "copyIn", "submit", "fetch", "clean", "kill"}

\* The furthest count addJobFailure lets through.
MaxRetries == 3

VARIABLES
    jobState,             \* JobData::m_jobState, or NotCreated / Removed
    queueId,              \* JobData::m_queueId
    m_pendingSubmission,  \* how often each job occurs in the pending list
    m_failureTracker,     \* failures recorded for each job, 0 for no entry
    m_jobs,               \* scheduler id -> job
    m_isCheckingQueue,    \* an update of the queue is thought to be running
    conns,                \* ssh processes in flight, by purpose and job
    asked,                \* ids named by the queue request in flight, or {}
    hostNameSet,          \* SshConnection::isValid of a new connection
    dialog,               \* the job of the open "Really cancel?" dialog
    remoteDir,            \* m_workingDirectoryBase exists on the host
    cluster               \* the scheduler's record of each id

queueVars == <<m_pendingSubmission, m_failureTracker, m_jobs,
               m_isCheckingQueue>>
jobVars   == <<jobState, queueId>>
sshVars   == <<conns, asked>>
envVars   == <<hostNameSet, dialog, remoteDir, cluster>>
vars      == <<jobVars, queueVars, sshVars, envVars>>

FreeSlot == [job |-> NoJob, st |-> "free"]

TypeOK ==
    /\ jobState \in [Jobs -> JobState \cup {NotCreated, Removed}]
    /\ queueId \in [Jobs -> QueueIds \cup {InvalidId}]
    /\ m_pendingSubmission \in [Jobs -> Nat]
    /\ m_failureTracker \in [Jobs -> 0 .. MaxRetries]
    /\ m_jobs \in [QueueIds -> Jobs \cup {NoJob}]
    /\ m_isCheckingQueue \in BOOLEAN
    /\ conns \in [Ops -> [Jobs -> Nat]]
    /\ asked \in SUBSET QueueIds
    /\ hostNameSet \in BOOLEAN
    /\ dialog \in Jobs \cup {NoJob}
    /\ remoteDir \in BOOLEAN
    /\ cluster \in [SchedulerIds ->
                      [job : Jobs \cup {NoJob},
                       st  : {"free", "queued", "running", "gone"}]]

Init ==
    /\ jobState = [j \in Jobs |-> NotCreated]
    /\ queueId = [j \in Jobs |-> InvalidId]
    /\ m_pendingSubmission = [j \in Jobs |-> 0]
    /\ m_failureTracker = [j \in Jobs |-> 0]
    /\ m_jobs = [q \in QueueIds |-> NoJob]
    /\ m_isCheckingQueue = FALSE
    /\ conns = [op \in Ops |-> [j \in Jobs |-> 0]]
    /\ asked = {}
    /\ hostNameSet = TRUE
    /\ dialog = NoJob
    /\ remoteDir \in BOOLEAN
    /\ cluster = [q \in SchedulerIds |-> FreeSlot]

-----------------------------------------------------------------------------
(* Job references and connections.                                         *)

\* JobReferenceBase::isValid.
Valid(j) == jobState[j] \notin {NotCreated, Removed}

\* Job::setJobState: nothing happens through an invalid reference.
SetState(j, s) ==
    jobState' = IF Valid(j) THEN [jobState EXCEPT ![j] = s] ELSE jobState

\* The table of connections once the one that ran op for j is finished.
Finish(op, j) == [conns EXCEPT ![op][j] = @ - 1]

\* The handler of the finished connection `from` starts a connection for
\* `op`.  Without a host name execute() and copyDirTo() return false and the
\* job is marked Error at once.
Continue(from, op, j) ==
    IF hostNameSet
    THEN /\ conns' = [Finish(from, j) EXCEPT ![op][j] = @ + 1]
         /\ UNCHANGED jobState
    ELSE /\ conns' = Finish(from, j)
         /\ SetState(j, "Error")

\* Every handler returns at once when its job has been removed meanwhile.
IgnoreCompletion(op, j) ==
    /\ ~Valid(j)
    /\ conns' = Finish(op, j)
    /\ UNCHANGED <<jobVars, queueVars>>

-----------------------------------------------------------------------------
(* Failure counting.                                                       *)

\* The result of Queue::addJobFailure, and its effect on m_failureTracker.
MayRetryForever(j) == TRUE                                       \* variant
MayRetryOnceMore(j) == m_failureTracker[j] =< MaxRetries         \* variant
MayRetry(j) == m_failureTracker[j] + 1 =< MaxRetries
AddJobFailure(j) ==
    m_failureTracker' = [m_failureTracker EXCEPT
                            ![j] = IF MayRetry(j) THEN @ + 1 ELSE 0]

\* "Retry submission": the shared error path of the three submission slots.
RetrySubmission(op, j) ==
    /\ "sshFails" \in Events
    /\ Valid(j)
    /\ conns' = Finish(op, j)
    /\ AddJobFailure(j)
    /\ m_pendingSubmission' =
         [m_pendingSubmission EXCEPT ![j] = IF MayRetry(j) THEN @ + 1 ELSE @]
    /\ SetState(j, "Error")
    /\ UNCHANGED <<queueId, m_jobs, m_isCheckingQueue>>

-----------------------------------------------------------------------------
(* Submission.                                                             *)

\* JobManager::newJob.  The job takes its queueId from the client's request;
\* the state it takes from there is overwritten at once.
NewJob(j) ==
    /\ jobState[j] = NotCreated
    /\ \E id \in ClientIds : queueId' = [queueId EXCEPT ![j] = id]

\* Server::handleSubmitJobRequest for a known queue and program, which calls
\* JobManager::newJob and QueueRemote::submitJob in one go.
SubmitJob(j) ==
    /\ NewJob(j)
    /\ jobState' = [jobState EXCEPT ![j] = "Accepted"]
    /\ m_pendingSubmission' = [m_pendingSubmission EXCEPT ![j] = @ + 1]
    /\ UNCHANGED <<m_failureTracker, m_jobs, m_isCheckingQueue, sshVars,
                   envVars>>

\* m_pendingSubmission.clear().
PendingKept    == m_pendingSubmission                            \* variant
PendingCleared == [j \in Jobs |-> 0]

\* The 5 s timer: every pending job goes through beginJobSubmission, which
\* writes the input files and starts scp, and the pending list is cleared.
SubmitPendingJobs ==
    LET waiting == {j \in Jobs : m_pendingSubmission[j] > 0} IN
    /\ waiting # {}
    /\ \E written \in SUBSET {j \in waiting : Valid(j)} :
         LET sent == IF hostNameSet THEN written ELSE {} IN
         /\ "writeFails" \in Events \/ written = {j \in waiting : Valid(j)}
         /\ conns' = [conns EXCEPT !["copyIn"] =
                        [j \in Jobs |->
                            @[j] + IF j \in sent
                                   THEN m_pendingSubmission[j] ELSE 0]]
         /\ jobState' = [j \in Jobs |->
                            IF j \in waiting \ sent /\ Valid(j)
                            THEN "Error" ELSE jobState[j]]
    /\ m_pendingSubmission' = PendingCleared
    /\ UNCHANGED <<queueId, m_failureTracker, m_jobs, m_isCheckingQueue,
                   asked, envVars>>

\* The connections that the submission slots start one after the other.
CopyInputFilesToHost(j)   == Continue("mkdir", "copyIn", j)
CreateRemoteDirectory(j)  == Continue("copyIn", "mkdir", j)
SubmitJobToRemoteQueue(j) == Continue("copyIn", "submit", j)

\* QueueRemoteSsh::remoteDirectoryCreated.
RemoteDirectoryCreated(j) ==
    /\ conns["mkdir"][j] > 0
    /\ \/ /\ RetrySubmission("mkdir", j)
          /\ UNCHANGED remoteDir
       \/ /\ Valid(j)
          /\ CopyInputFilesToHost(j)
          /\ remoteDir' = TRUE
          /\ UNCHANGED <<queueId, queueVars>>
       \/ /\ IgnoreCompletion("mkdir", j)
          /\ remoteDir' \in {remoteDir, TRUE}
    /\ UNCHANGED <<asked, hostNameSet, dialog, cluster>>

\* QueueRemoteSsh::inputFilesCopied.  "No such file or directory" is answered
\* by making the base directory and copying again; a file missing on the
\* local side reads the same ("filesMissing").
InputFilesCopied(j) ==
    /\ conns["copyIn"][j] > 0
    /\ \/ RetrySubmission("copyIn", j)
       \/ /\ ~remoteDir \/ "filesMissing" \in Events
          /\ Valid(j)
          /\ CreateRemoteDirectory(j)
          /\ UNCHANGED <<queueId, queueVars>>
       \/ /\ remoteDir
          /\ Valid(j)
          /\ SubmitJobToRemoteQueue(j)
          /\ UNCHANGED <<queueId, queueVars>>
       \/ IgnoreCompletion("copyIn", j)
    /\ UNCHANGED <<asked, envVars>>

\* The scheduler takes the job and assigns it a fresh id.
Launch(j, q) ==
    /\ cluster[q].st = "free"
    /\ cluster' = [cluster EXCEPT ![q] = [job |-> j, st |-> "queued"]]

\* The end of jobSubmittedToRemoteQueue: the job is now known by its id.
Register(j, q) ==
    /\ Valid(j)
    /\ conns' = Finish("submit", j)
    /\ SetState(j, "Submitted")
    /\ m_failureTracker' = [m_failureTracker EXCEPT ![j] = 0]
    /\ queueId' = [queueId EXCEPT ![j] = q]
    /\ m_jobs' = [m_jobs EXCEPT ![q] = j]
    /\ UNCHANGED <<m_pendingSubmission, m_isCheckingQueue>>

\* QueueRemoteSsh::jobSubmittedToRemoteQueue.  The submission command may
\* have reached the scheduler although ssh reports a failure ("ackLost"), and
\* its output may defeat parseQueueId ("unparsable").
JobSubmittedToRemoteQueue(j) ==
    /\ conns["submit"][j] > 0
    /\ \/ \E q \in SchedulerIds : Launch(j, q) /\ Register(j, q)
       \/ /\ "unparsable" \in Events
          /\ \E q \in SchedulerIds : Launch(j, q)
          /\ Register(j, 0)
       \/ /\ RetrySubmission("submit", j)
          /\ \/ UNCHANGED cluster
             \/ /\ "ackLost" \in Events
                /\ \E q \in SchedulerIds : Launch(j, q)
       \/ /\ IgnoreCompletion("submit", j)
          /\ \/ UNCHANGED cluster
             \/ \E q \in SchedulerIds : Launch(j, q)
    /\ UNCHANGED <<asked, hostNameSet, dialog, remoteDir>>

-----------------------------------------------------------------------------
(* Following the remote queue.                                             *)

Keys(map) == {q \in QueueIds : map[q] # NoJob}

\* QueueRemoteSsh::requestQueueUpdate over the references in map.  When the
\* connection cannot be started the flag stays set.
RequestQueueUpdate(map) ==
    IF m_isCheckingQueue \/ Keys(map) = {}
    THEN UNCHANGED <<m_isCheckingQueue, asked>>
    ELSE /\ m_isCheckingQueue' = TRUE
         /\ asked' = IF hostNameSet THEN Keys(map) ELSE asked

\* QueueRemote::removeStaleJobs.
RemoveStaleJobs ==
    [q \in QueueIds |-> IF m_jobs[q] # NoJob /\ Valid(m_jobs[q])
                        THEN m_jobs[q] ELSE NoJob]

\* The queue update timer.
UpdateTimer ==
    /\ m_jobs' = RemoveStaleJobs
    /\ RequestQueueUpdate(RemoveStaleJobs)
    /\ UNCHANGED <<jobVars, m_pendingSubmission, m_failureTracker, conns,
                   envVars>>

\* The menu entry behind QueueManager::updateRemoteQueues.
UpdateRemoteQueues ==
    /\ RequestQueueUpdate(m_jobs)
    /\ UNCHANGED <<jobVars, m_pendingSubmission, m_failureTracker, m_jobs,
                   conns, envVars>>

\* What the finalize chain can do with a job that left the queue, up to the
\* next completion: fetch its output, or skip that step and copy it to the
\* custom destination, clean the remote files, and mark it Finished.  Which
\* one is up to the job's options, read nowhere else.
Fates == {"fetch", "finish", "finishAndClean"} \cup
         IF "copyOutFails" \in Events THEN {"error"} ELSE {}

FateStateSilent(fate) ==                                         \* variant
    IF fate \in {"fetch", "error"} THEN "unchanged" ELSE "Finished"
FateState(fate) ==
    CASE fate = "fetch" -> IF hostNameSet THEN "unchanged" ELSE "Error"
      [] fate = "error" -> "Error"
      [] OTHER          -> "Finished"

\* The connection the finalize chain starts for a job, if any.
FateOps(fate) ==
    IF ~hostNameSet THEN {}
    ELSE CASE fate = "fetch"          -> {"fetch"}
           [] fate = "finishAndClean" -> {"clean"}
           [] OTHER                   -> {}

JobsIn(ids) == {m_jobs[q] : q \in ids} \ {NoJob}

\* The scheduler still holds the job known by this id.
Live(q) == q \in SchedulerIds /\ cluster[q].st \in {"queued", "running"}

\* The ids in m_jobs that a line of the reply to the request is about.
NamedIfRunning ==                                                \* variant
    {q \in asked \cap Keys(m_jobs) : Live(q) /\ cluster[q].st = "running"}
Named == {q \in asked \cap Keys(m_jobs) : Live(q)}

\* m_jobs.remove(queueId) for every job that is finalized.
LeftKept(left) == m_jobs                                         \* variant
LeftRemoved(left) ==
    [q \in QueueIds |-> IF q \in left THEN NoJob ELSE m_jobs[q]]

\* The part of handleQueueUpdate after a readable reply: jobs that a line
\* names take its state, every other job in m_jobs is taken to have left.
ProcessQueueReply ==
    \E left \in SUBSET Keys(m_jobs) :
      LET stay == Keys(m_jobs) \ left IN
      /\ Keys(m_jobs) \ Named \subseteq left
      /\ "unreadable" \in Events \/ left = Keys(m_jobs) \ Named
      /\ \E line \in [JobsIn(stay) -> LineStates],
            fate \in [JobsIn(left) -> Fates] :
           /\ jobState' = [j \in Jobs |->
                IF ~Valid(j) THEN jobState[j]
                ELSE IF j \in JobsIn(left)
                     THEN IF FateState(fate[j]) = "unchanged"
                          THEN jobState[j] ELSE FateState(fate[j])
                ELSE IF j \in JobsIn(stay) THEN line[j]
                ELSE jobState[j]]
           /\ conns' = [op \in Ops |-> [j \in Jobs |->
                conns[op][j] +
                  IF /\ Valid(j) /\ j \in JobsIn(left)
                     /\ op \in FateOps(fate[j]) THEN 1 ELSE 0]]
           /\ m_jobs' = LeftRemoved(left)

\* Every return path of handleQueueUpdate clears the flag.
FlagKept == UNCHANGED m_isCheckingQueue                          \* variant
FlagCleared == m_isCheckingQueue' = FALSE

\* QueueRemoteSsh::handleQueueUpdate.
HandleQueueUpdate ==
    /\ asked # {}
    /\ \/ /\ "qstatFails" \in Events
          /\ UNCHANGED <<jobState, conns, m_jobs>>
       \/ ProcessQueueReply
    /\ asked' = {}
    /\ FlagCleared
    /\ UNCHANGED <<queueId, m_pendingSubmission, m_failureTracker, envVars>>

\* QueueRemoteSsh::finalizeJobOutputCopiedFromServer.
OutputCopiedFromServer(j) ==
    /\ conns["fetch"][j] > 0
    /\ \/ /\ "sshFails" \in Events
          /\ Valid(j)
          /\ conns' = Finish("fetch", j)
          /\ SetState(j, "Error")
          /\ UNCHANGED <<queueId, queueVars>>
       \/ /\ Valid(j)
          /\ \E fate \in Fates \ {"fetch"} :
               /\ SetState(j, FateState(fate))
               /\ conns' = [op \in Ops |-> [Finish("fetch", j)[op] EXCEPT
                              ![j] = @ + IF op \in FateOps(fate) THEN 1 ELSE 0]]
          /\ UNCHANGED <<queueId, queueVars>>
       \/ IgnoreCompletion("fetch", j)
    /\ UNCHANGED <<asked, envVars>>

\* QueueRemoteSsh::remoteDirectoryCleaned.
RemoteDirectoryCleaned(j) ==
    /\ conns["clean"][j] > 0
    /\ \/ /\ Valid(j)
          /\ conns' = Finish("clean", j)
          /\ \/ UNCHANGED jobState
             \/ "sshFails" \in Events /\ SetState(j, "Error")
          /\ UNCHANGED <<queueId, queueVars>>
       \/ IgnoreCompletion("clean", j)
    /\ UNCHANGED <<asked, envVars>>

-----------------------------------------------------------------------------
(* Cancelling and removing.                                                *)

\* m_jobs.value(job.queueId()) == job.moleQueueId().
IsTracked(j) == queueId[j] \in QueueIds /\ m_jobs[queueId[j]] = j

\* m_jobs.remove(job.queueId()) in killJob.
StillTracked(j) == m_jobs                                        \* variant
Untracked(j) == [m_jobs EXCEPT ![queueId[j]] = NoJob]

\* QueueRemoteSsh::beginKillJob.
BeginKillJob(j) ==
    IF hostNameSet
    THEN conns' = [conns EXCEPT !["kill"][j] = @ + 1] /\ UNCHANGED jobState
    ELSE SetState(j, "Error") /\ UNCHANGED conns

\* QueueRemote::killJob.
KillJob(j) ==
    \/ /\ m_pendingSubmission[j] > 0
       /\ m_pendingSubmission' = [m_pendingSubmission EXCEPT ![j] = @ - 1]
       /\ SetState(j, "Canceled")
       /\ UNCHANGED <<m_jobs, conns>>
    \/ /\ m_pendingSubmission[j] = 0
       /\ IsTracked(j)
       /\ m_jobs' = Untracked(j)
       /\ BeginKillJob(j)
       /\ UNCHANGED m_pendingSubmission
    \/ /\ m_pendingSubmission[j] = 0
       /\ ~IsTracked(j)
       /\ SetState(j, "Canceled")
       /\ UNCHANGED <<m_pendingSubmission, m_jobs, conns>>

\* Server::handleCancelJobRequest.
CancelJob(j) ==
    /\ "cancel" \in Events
    /\ jobState[j] \in RpcCancelable
    /\ KillJob(j)
    /\ UNCHANGED <<queueId, m_failureTracker, m_isCheckingQueue, asked, envVars>>

\* KillJobActionFactory: the state is tested when the menu is built, the job
\* is killed when the modal dialog is answered, and the event loop runs in
\* between.
OpenKillDialog(j) ==
    /\ "dialog" \in Events
    /\ dialog = NoJob
    /\ jobState[j] \in GuiKillable
    /\ dialog' = j
    /\ UNCHANGED <<jobVars, queueVars, sshVars, hostNameSet, remoteDir, cluster>>

AnswerKillDialog ==
    /\ dialog # NoJob
    /\ dialog' = NoJob
    /\ \/ Valid(dialog) /\ KillJob(dialog)
       \/ UNCHANGED <<jobState, m_pendingSubmission, m_jobs, conns>>
    /\ UNCHANGED <<queueId, m_failureTracker, m_isCheckingQueue, asked,
                   hostNameSet, remoteDir, cluster>>

\* QueueRemoteSsh::endKillJob.
EndKillJob(j) ==
    /\ conns["kill"][j] > 0
    /\ conns' = Finish("kill", j)
    /\ \/ /\ cluster' = IF queueId[j] \in SchedulerIds
                        THEN [cluster EXCEPT ![queueId[j]].st = "gone"]
                        ELSE cluster
          /\ SetState(j, "Canceled")
       \/ /\ "killFails" \in Events
          /\ UNCHANGED <<jobState, cluster>>
    /\ UNCHANGED <<queueId, queueVars, asked, hostNameSet, dialog, remoteDir>>

\* Queue::jobAboutToBeRemoved: m_jobs.remove(job.queueId()).
ReferenceKept(j) == m_jobs                                       \* variant
WithoutReference(j) ==
    [q \in QueueIds |-> IF q = queueId[j] THEN NoJob ELSE m_jobs[q]]

\* QueueRemote::jobAboutToBeRemoved: m_pendingSubmission.removeOne.
PendingWithout(j) ==
    [m_pendingSubmission EXCEPT ![j] = IF @ > 0 THEN @ - 1 ELSE 0]

\* JobManager::removeJob with QueueRemote::jobAboutToBeRemoved.  The remove
\* dialog is modal, like the kill dialog.
RemoveJob(j) ==
    /\ "remove" \in Events
    /\ dialog = NoJob
    /\ Valid(j)
    /\ jobState' = [jobState EXCEPT ![j] = Removed]
    /\ m_pendingSubmission' = PendingWithout(j)
    /\ m_failureTracker' = [m_failureTracker EXCEPT ![j] = 0]
    /\ m_jobs' = WithoutReference(j)
    /\ UNCHANGED <<queueId, m_isCheckingQueue, sshVars, envVars>>

-----------------------------------------------------------------------------
(* The surroundings: the settings dialog and the batch scheduler.          *)

Reconfigure ==
    /\ "reconfigure" \in Events
    /\ hostNameSet' = ~hostNameSet
    /\ UNCHANGED <<jobVars, queueVars, sshVars, dialog, remoteDir, cluster>>

ClusterStarts(q) ==
    /\ cluster[q].st = "queued"
    /\ cluster' = [cluster EXCEPT ![q].st = "running"]
    /\ UNCHANGED <<jobVars, queueVars, sshVars, hostNameSet, dialog, remoteDir>>

ClusterEnds(q) ==
    /\ cluster[q].st \in {"queued", "running"}
    /\ cluster' = [cluster EXCEPT ![q].st = "gone"]
    /\ UNCHANGED <<jobVars, queueVars, sshVars, hostNameSet, dialog, remoteDir>>

Next ==
    \/ \E j \in Jobs :
         \/ SubmitJob(j)
         \/ RemoteDirectoryCreated(j)
         \/ InputFilesCopied(j)
         \/ JobSubmittedToRemoteQueue(j)
         \/ OutputCopiedFromServer(j)
         \/ RemoteDirectoryCleaned(j)
         \/ CancelJob(j)
         \/ OpenKillDialog(j)
         \/ EndKillJob(j)
         \/ RemoveJob(j)
    \/ SubmitPendingJobs
    \/ UpdateTimer
    \/ UpdateRemoteQueues
    \/ HandleQueueUpdate
    \/ AnswerKillDialog
    \/ Reconfigure
    \/ \E q \in SchedulerIds : ClusterStarts(q) \/ ClusterEnds(q)

Spec == Init /\ [][Next]_vars

-----------------------------------------------------------------------------
(* Safety.                                                                 *)

\* What is being done with a job: it waits in the pending list, one of its ssh
\* processes runs, or it is followed through its reference in m_jobs.
Activities(j) ==
    {op \in Ops : conns[op][j] > 0}
    \cup {a \in {"pending"} : m_pendingSubmission[j] > 0}
    \cup {a \in {"tracked"} : IsTracked(j)}

AtOneStage(j) ==
    /\ \A a, b \in Activities(j) : a = b
    /\ m_pendingSubmission[j] =< 1
    /\ \A op \in Ops : conns[op][j] =< 1
    /\ jobState[j] = NotCreated => Activities(j) = {}

\* Whatever the order in which ssh processes finish, timers fire and users
\* cancel or remove, a job is at one stage of its journey at a time, and there
\* once: no retry overtakes a submission, no job is fetched while it is being
\* killed, none is submitted twice over.
\* (remote.cpp 143-216, remotessh.cpp 122-306, 394-442, 569-620)
SingleStage == \A j \in Jobs : AtOneStage(j)

\* m_jobs and the jobs agree: a reference is to a job that still exists and
\* that carries the id it is filed under, so the error removeStaleJobs asks
\* users to report is never logged.  (remote.cpp 276-296)
IndexConsistent ==
    \A q \in QueueIds : m_jobs[q] # NoJob =>
        /\ Valid(m_jobs[q])
        /\ queueId[m_jobs[q]] = q

\* A job the queue still follows is shown as submitted or as the scheduler
\* last reported it, never as canceled, failed or finished.
TrackedIsActive ==
    \A j \in Jobs : IsTracked(j) => jobState[j] \in {"Submitted"} \cup LineStates

\* The ids the scheduler has given to a job.
Launches(j) == Cardinality({q \in SchedulerIds : cluster[q].job = j})

\* However often acknowledgements are lost, the retry count keeps a job from
\* being started more than once plus once per retry.  (queue.cpp 514-531)
LaunchesBounded == \A j \in Jobs : Launches(j) =< MaxRetries + 1

\* A job that finished stays out of the pipeline: it never becomes pending,
\* submitted, queued or running again.
FinishedNotRevived ==
    [][\A j \in Jobs : jobState[j] = "Finished" =>
         jobState'[j] \in {"Finished", "Canceled", "Error", Removed}]_vars

\* The queue drops a job only in a state that says so: one nothing is being
\* done with any more is finished, canceled or failed.  True of schedulers
\* whose kill command works and whose output parses.
NoOrphan ==
    \A j \in Jobs : Valid(j) /\ Activities(j) = {} =>
        jobState[j] \in {"Finished", "Canceled", "Error"}

\* The update flag is set only while a request is in flight, so that the
\* queue can always be asked again.  True as long as the host stays set.
CheckingMeansRequest == m_isCheckingQueue => asked # {}

\* "Job has completed." (molequeueglobal.h): when a job becomes Finished the
\* scheduler no longer holds it under the id it gave the queue.
FinishedHasLeft ==
    [][\A j \in Jobs : jobState[j] # "Finished" /\ jobState'[j] = "Finished" =>
         \A q \in SchedulerIds : queueId[j] = q => ~Live(q)]_vars

\* "Job has been terminated at a user request." (molequeueglobal.h): a
\* canceled job does not come back to life.
CanceledIsFinal ==
    [][\A j \in Jobs : jobState[j] = "Canceled" =>
         jobState'[j] \in {"Canceled", Removed}]_vars

-----------------------------------------------------------------------------
(* Refinement: the stage each job is at.                                   *)

StageOf(j) ==
    IF jobState[j] = NotCreated THEN "absent"
    ELSE IF jobState[j] = Removed THEN "released"
    ELSE IF m_pendingSubmission[j] > 0 THEN "pending"
    ELSE IF conns["mkdir"][j] + conns["copyIn"][j] + conns["submit"][j] > 0
         THEN "submitting"
    ELSE IF IsTracked(j) THEN "tracked"
    ELSE IF conns["kill"][j] > 0 THEN "killing"
    ELSE IF conns["fetch"][j] > 0 THEN "fetching"
    ELSE IF conns["clean"][j] > 0 THEN "cleaning"
    ELSE "released"

FailuresOf(j) ==
    IF StageOf(j) \in {"pending", "submitting"} THEN m_failureTracker[j] ELSE 0

Lifecycle == INSTANCE JobLifecycle
    WITH stage    <- [j \in Jobs |-> StageOf(j)],
         failures <- [j \in Jobs |-> FailuresOf(j)]

\* The queue implements the lifecycle: interleaved completions, kills and
\* removals never take a job back to a stage it has left, other than by one
\* of its MaxRetries retries, and never take up a job that was let go.
ImplementsLifecycle == Lifecycle!LifecycleSpec

-----------------------------------------------------------------------------
(* Liveness.  Started processes end, timers fire, and the scheduler gets   *)
(* every job through; users and settings owe nothing.                      *)

Completion(j) ==
    \/ RemoteDirectoryCreated(j) \/ InputFilesCopied(j)
    \/ JobSubmittedToRemoteQueue(j) \/ OutputCopiedFromServer(j)
    \/ RemoteDirectoryCleaned(j) \/ EndKillJob(j)

Fairness ==
    /\ WF_vars(SubmitPendingJobs)
    /\ WF_vars(UpdateTimer)
    /\ WF_vars(HandleQueueUpdate)
    /\ \A j \in Jobs : WF_vars(Completion(j))
    /\ \A q \in SchedulerIds : WF_vars(ClusterStarts(q) \/ ClusterEnds(q))

LiveSpec == Spec /\ Fairness

\* "If it returns false, the job has exceeded the maximum number of retries
\* and should be aborted." (queue.h): a submission does not go on for ever.
SubmissionEnds ==
    \A j \in Jobs : m_pendingSubmission[j] > 0 ~>
                      StageOf(j) \notin {"pending", "submitting"}

\* Every accepted job is eventually dealt with: the queue stops working on
\* it, by finishing it, by giving up after its retries, or on request.
EventuallyReleased ==
    \A j \in Jobs : m_pendingSubmission[j] > 0 ~>
                      (Activities(j) = {} \/ ~Valid(j))
==============================================================================
