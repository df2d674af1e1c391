------------------------------ MODULE LocalQueue ------------------------------
(***************************************************************************)
(* The queue that runs jobs as processes on the server's own machine:      *)
(* QueueLocal with the parts of Queue, JobManager and the kill dialog it   *)
(* works with, and with the two files from which the program recovers it:  *)
(* the job's mqjobinfo.json and the queue's .mqq.  Slots and timer events  *)
(* are atomic; processes, users and the end of the program interleave.     *)
(***************************************************************************)
EXTENDS JobStates, Integers, SequencesExt

CONSTANTS
    Jobs,             \* MoleQueue ids, which the server counts up
    CoreCounts,       \* what clients ask for as numberOfCores
    CoreSettings,     \* what a user can enter as the queue's cores
    IdealThreadCount, \* QThread::idealThreadCount()
    NoJob,            \* "no dialog"
    Events            \* the faults and user actions a run admits

AllEvents == {"remove", "cancel", "dialog", "setCores", "program",
              "writeFails", "processFails", "copyFails", "clean",
              "exit", "crash"}

ASSUME LocalQueueAssumption ==
    /\ Jobs \subseteq Nat
    /\ IsFiniteSet(Jobs)
    /\ CoreCounts \subseteq Int
    /\ CoreSettings \subseteq Nat \ {0}
    /\ IdealThreadCount \in Nat \ {0}
    /\ NoJob \notin Jobs
    /\ Events \subseteq AllEvents

VARIABLES
    jobState,          \* JobData::m_jobState, or NotCreated / Removed
    numberOfCores,     \* JobData::m_numberOfCores
    m_pendingJobQueue, \* ids waiting for cores, first in first out
    m_runningJobs,     \* the state of each job's process, if it has one
    m_cores,           \* the queue's cores; none set when not positive
    hasProgram,        \* the queue still has the program the jobs name
    dialog,            \* the job of the open "Really cancel?" dialog
    savedState,        \* jobState in mqjobinfo.json, NotCreated without one
    queueFile          \* the queue's settings file

jobVars   == <<jobState, numberOfCores>>
queueVars == <<m_pendingJobQueue, m_runningJobs>>
userVars  == <<m_cores, hasProgram, dialog>>
fileVars  == <<savedState, queueFile>>
vars      == <<jobVars, queueVars, userVars, fileVars>>

\* QProcess::ProcessState; "none" stands for a job not in m_runningJobs.
ProcessState == {"none", "starting", "running"}

\* The default of -1 is read back as 0.
CoreSetting == {0} \cup CoreSettings

TypeOK ==
    /\ jobState \in [Jobs -> JobState \cup {NotCreated, Removed}]
    /\ numberOfCores \in [Jobs -> CoreCounts]
    /\ m_pendingJobQueue \in Seq(Jobs)
    /\ m_runningJobs \in [Jobs -> ProcessState]
    /\ m_cores \in CoreSetting
    /\ hasProgram \in BOOLEAN
    /\ dialog \in Jobs \cup {NoJob}
    /\ savedState \in [Jobs -> JobState \cup {NotCreated}]
    /\ queueFile \in [jobsToResume : Seq(Jobs), cores : CoreSetting,
                      programs : BOOLEAN]

\* A queue set up earlier: the program has been started and has no jobs yet.
Init ==
    /\ jobState = [j \in Jobs |-> NotCreated]
    /\ numberOfCores \in [Jobs -> CoreCounts]
    /\ m_pendingJobQueue = <<>>
    /\ m_runningJobs = [j \in Jobs |-> "none"]
    /\ m_cores \in CoreSetting
    /\ hasProgram = TRUE
    /\ dialog = NoJob
    /\ savedState = [j \in Jobs |-> NotCreated]
    /\ queueFile = [jobsToResume |-> <<>>, cores |-> m_cores,
                    programs |-> TRUE]

\* JobReferenceBase::isValid.
Valid(j) == jobState[j] \notin {NotCreated, Removed}

\* Job::setJobState: nothing happens through an invalid reference.
SetState(j, s) ==
    jobState' = IF Valid(j) THEN [jobState EXCEPT ![j] = s] ELSE jobState

Running == {j \in Jobs : m_runningJobs[j] # "none"}

-----------------------------------------------------------------------------
(* Submission.                                                             *)

\* JobManager::newJob gives the job the next id and saves every job that has
\* changed, the new one in its initial state.
NewJob(j) ==
    /\ jobState[j] = NotCreated
    /\ \A k \in Jobs : k < j => jobState[k] # NotCreated
    /\ savedState' = [k \in Jobs |-> IF k = j THEN "None"
                                     ELSE IF Valid(k) THEN jobState[k]
                                     ELSE savedState[k]]

\* Queue::writeInputFiles fails without the program, or on a file.
WritesInputFiles == {TRUE} \cup IF "writeFails" \in Events THEN {FALSE} ELSE {}

\* Server::handleSubmitJobRequest, which answers a request for an unknown
\* program with an error, then JobManager::newJob and QueueLocal::submitJob.
SubmitJob(j) ==
    /\ hasProgram
    /\ NewJob(j)
    /\ \E written \in WritesInputFiles :
         IF written
         THEN /\ m_pendingJobQueue' = Append(m_pendingJobQueue, j)
              /\ jobState' = [jobState EXCEPT ![j] = "QueuedLocal"]
         ELSE /\ jobState' = [jobState EXCEPT ![j] = "Error"]
              /\ UNCHANGED m_pendingJobQueue
    /\ UNCHANGED <<numberOfCores, m_runningJobs, userVars, queueFile>>

-----------------------------------------------------------------------------
(* The 100 ms timer.                                                       *)

\* QueueLocal::maxNumberOfCores.
MaxNumberOfCores == IF m_cores > 0 THEN m_cores ELSE IdealThreadCount

\* checkJobQueue counts the cores of processes whose job it can look up.
CoresInUseStarted ==                                             \* variant
    SumFunctionOnSet(numberOfCores,
                     {j \in Running : Valid(j) /\ m_runningJobs[j] = "running"})
CoresInUse == SumFunctionOnSet(numberOfCores, {j \in Running : Valid(j)})

\* The entry at i is taken from the queue whatever startJob returns; it takes
\* cores when startJob finds the job and its program.
Starts(i) == Valid(m_pendingJobQueue[i]) /\ hasProgram

\* The cores left to the loop of checkJobQueue after n entries.
CoresAvailable(n) ==
    MaxNumberOfCores - CoresInUse
      - SumFunctionOnSet([i \in 1 .. n |->
                            IF Starts(i)
                            THEN numberOfCores[m_pendingJobQueue[i]] ELSE 0],
                         1 .. n)

\* The loop ends after n entries: the queue is empty, no core is left, or the
\* next job needs more than there are.
EndsAfterStrict(n) ==                                            \* variant
    n < Len(m_pendingJobQueue) =>
      \/ CoresAvailable(n) =< 0
      \/ /\ Valid(m_pendingJobQueue[n + 1])
         /\ numberOfCores[m_pendingJobQueue[n + 1]] >= CoresAvailable(n)
EndsAfter(n) ==
    n < Len(m_pendingJobQueue) =>
      \/ CoresAvailable(n) =< 0
      \/ /\ Valid(m_pendingJobQueue[n + 1])
         /\ numberOfCores[m_pendingJobQueue[n + 1]] > CoresAvailable(n)

\* What checkJobQueue leaves in the queue after taking n entries.
RestSkipping(n) == SubSeq(m_pendingJobQueue, n + 2, Len(m_pendingJobQueue)) \* variant
Rest(n) == SubSeq(m_pendingJobQueue, n + 1, Len(m_pendingJobQueue))

\* QueueLocal::checkJobQueue with the startJob of every entry it takes.
CheckJobQueue ==
    /\ \E n \in 1 .. Len(m_pendingJobQueue) :
         /\ EndsAfter(n)
         /\ \A m \in 0 .. n - 1 : ~EndsAfter(m)
         /\ m_pendingJobQueue' = Rest(n)
         /\ m_runningJobs' =
              [j \in Jobs |->
                 IF \E i \in 1 .. n : m_pendingJobQueue[i] = j /\ Starts(i)
                 THEN "starting" ELSE m_runningJobs[j]]
    /\ UNCHANGED <<jobVars, userVars, fileVars>>

-----------------------------------------------------------------------------
(* What becomes of a process.                                              *)

\* m_runningJobs.take.
Taken(j) == [m_runningJobs EXCEPT ![j] = "none"]

\* QueueLocal::processStarted.
ProcessStarted(j) ==
    /\ m_runningJobs[j] = "starting"
    /\ m_runningJobs' = [m_runningJobs EXCEPT ![j] = "running"]
    /\ SetState(j, "RunningLocal")
    /\ UNCHANGED <<numberOfCores, m_pendingJobQueue, userVars, fileVars>>

\* cleanLocalDirectory empties the working directory, which holds
\* mqjobinfo.json until the next sync.
Cleaned(j) == [savedState EXCEPT ![j] = NotCreated]

\* QueueLocal::processFinished.
ProcessFinished(j) ==
    /\ m_runningJobs[j] = "running"
    /\ m_runningJobs' = Taken(j)
    /\ \/ /\ "copyFails" \in Events
          /\ SetState(j, "Error")
          /\ UNCHANGED savedState
       \/ /\ SetState(j, "Finished")
          /\ \/ UNCHANGED savedState
             \/ "clean" \in Events /\ Valid(j) /\ savedState' = Cleaned(j)
    /\ UNCHANGED <<numberOfCores, m_pendingJobQueue, userVars, queueFile>>

\* QueueLocal::processError: the process did not start, or crashed.  The
\* finished signal that follows a crash finds the job gone.
ProcessError(j) ==
    /\ "processFails" \in Events
    /\ m_runningJobs[j] # "none"
    /\ m_runningJobs' = Taken(j)
    /\ SetState(j, "Error")
    /\ UNCHANGED <<numberOfCores, m_pendingJobQueue, userVars, fileVars>>

-----------------------------------------------------------------------------
(* Cancelling and removing.                                                *)

\* m_pendingJobQueue.indexOf and removeAt.
IsPending(j) == \E i \in 1 .. Len(m_pendingJobQueue) : m_pendingJobQueue[i] = j

PendingKept(j) == UNCHANGED m_pendingJobQueue                    \* variant
PendingWithout(j) ==
    \E i \in 1 .. Len(m_pendingJobQueue) :
      /\ m_pendingJobQueue[i] = j
      /\ \A k \in 1 .. i - 1 : m_pendingJobQueue[k] # j
      /\ m_pendingJobQueue' = RemoveAt(m_pendingJobQueue, i)

\* QueueLocal::killJob.
KillJob(j) ==
    /\ SetState(j, "Canceled")
    /\ \/ /\ IsPending(j)
          /\ PendingWithout(j)
          /\ UNCHANGED m_runningJobs
       \/ /\ ~IsPending(j)
          /\ m_runningJobs' = Taken(j)
          /\ UNCHANGED m_pendingJobQueue
    /\ UNCHANGED <<numberOfCores, m_cores, hasProgram, fileVars>>

\* Server::handleCancelJobRequest.
CancelJob(j) ==
    /\ "cancel" \in Events
    /\ jobState[j] \in RpcCancelable
    /\ KillJob(j)
    /\ UNCHANGED dialog

\* KillJobActionFactory: the state is tested when the menu is built, the job
\* is killed when the modal dialog is answered.
OpenKillDialog(j) ==
    /\ "dialog" \in Events
    /\ dialog = NoJob
    /\ jobState[j] \in GuiKillable
    /\ dialog' = j
    /\ UNCHANGED <<jobVars, queueVars, m_cores, hasProgram, fileVars>>

AnswerKillDialog ==
    /\ dialog # NoJob
    /\ dialog' = NoJob
    /\ \/ Valid(dialog) /\ KillJob(dialog)
       \/ UNCHANGED <<jobVars, queueVars, m_cores, hasProgram, fileVars>>

\* JobManager::removeJob.  The job's state file is renamed so that it is not
\* loaded again.  QueueLocal has no jobAboutToBeRemoved of its own: pending
\* entry and process stay.
RemoveJob(j) ==
    /\ "remove" \in Events
    /\ dialog = NoJob
    /\ Valid(j)
    /\ jobState' = [jobState EXCEPT ![j] = Removed]
    /\ savedState' = [savedState EXCEPT ![j] = NotCreated]
    /\ UNCHANGED <<numberOfCores, queueVars, userVars, queueFile>>

-----------------------------------------------------------------------------
(* Settings and files.                                                     *)

\* The ids of a set of jobs in the order of QMap::keys.
Keys(S) ==
    {s \in [1 .. Cardinality(S) -> S] :
        \A a, b \in DOMAIN s : a < b => s[a] < s[b]}

\* jobsToResume: the running jobs, then the pending ones.
RunningLast(keys) == m_pendingJobQueue \o keys                   \* variant
JobsToResume(keys) == keys \o m_pendingJobQueue

\* QueueLocal::writeJsonSettings.
WriteQueueFile(programs) ==
    \E keys \in Keys(Running) :
        queueFile' = [jobsToResume |-> JobsToResume(keys),
                      cores |-> m_cores, programs |-> programs]

\* LocalQueueWidget::save.
SetCores ==
    /\ "setCores" \in Events
    /\ m_cores' \in CoreSettings
    /\ UNCHANGED <<jobVars, queueVars, hasProgram, dialog, fileVars>>

\* The program is removed or added in the settings dialog, or renamed, which
\* takes it from the jobs that name it and writes the settings
\* (Queue::programNameChanged).
ChangeProgram ==
    /\ "program" \in Events
    /\ hasProgram' = ~hasProgram
    /\ UNCHANGED queueFile \/ WriteQueueFile(hasProgram')
    /\ UNCHANGED <<jobVars, queueVars, m_cores, dialog, savedState>>

\* JobManager::syncJobState.
SyncJobState ==
    savedState' = [j \in Jobs |-> IF Valid(j) THEN jobState[j]
                                  ELSE savedState[j]]

\* The 20 s timer of the server.
SyncTimer ==
    /\ SyncJobState
    /\ UNCHANGED <<jobVars, queueVars, userVars, queueFile>>

-----------------------------------------------------------------------------
(* The end of the program and the next start.                              *)

\* The cores are a double in the file, rounded by adding a half and cutting.
CoresRoundedUp(file) == file.cores + 1                           \* variant
CoresRead(file) == file.cores

\* What the program finds on disk: QueueLocal::readJsonSettings, then
\* JobManager::loadJobState.  A job without a state file is forgotten.
Load(saved, file) ==
    /\ jobState' = [j \in Jobs |-> IF saved[j] # NotCreated THEN saved[j]
                                   ELSE IF jobState[j] = NotCreated
                                   THEN NotCreated ELSE Removed]
    /\ m_pendingJobQueue' = file.jobsToResume
    /\ m_cores' = CoresRead(file)
    /\ hasProgram' = file.programs
    /\ m_runningJobs' = [j \in Jobs |-> "none"]
    /\ dialog' = NoJob
    /\ UNCHANGED numberOfCores

\* MainWindow::~MainWindow writes settings and job states; the queue's
\* destructor kills its processes.
ExitAndRestart ==
    /\ "exit" \in Events
    /\ dialog = NoJob
    /\ SyncJobState
    /\ WriteQueueFile(hasProgram)
    /\ Load(savedState', queueFile')

\* The program dies and is started again with the files as they are.
CrashAndRestart ==
    /\ "crash" \in Events
    /\ Load(savedState, queueFile)
    /\ UNCHANGED fileVars

Next ==
    \/ \E j \in Jobs :
         \/ SubmitJob(j)
         \/ ProcessStarted(j)
         \/ ProcessFinished(j)
         \/ ProcessError(j)
         \/ CancelJob(j)
         \/ OpenKillDialog(j)
         \/ RemoveJob(j)
    \/ CheckJobQueue
    \/ AnswerKillDialog
    \/ SetCores
    \/ ChangeProgram
    \/ SyncTimer
    \/ ExitAndRestart
    \/ CrashAndRestart

Spec == Init /\ [][Next]_vars

-----------------------------------------------------------------------------
(* Safety.                                                                 *)

Held(j) == IsPending(j) \/ m_runningJobs[j] # "none"

Ascending(s) == \A a, b \in 1 .. Len(s) : a < b => s[a] < s[b]

\* Jobs are started in the order in which they were submitted, also across
\* restarts and crashes: no job waits behind a later one, and none runs
\* while an earlier one waits.  In particular no job waits twice, and none
\* waits and runs.  (local.cpp 74-92, 297-330)
FifoOrder ==
    /\ Ascending(m_pendingJobQueue)
    /\ \A r \in Running, i \in 1 .. Len(m_pendingJobQueue) :
          r < m_pendingJobQueue[i]

\* A job that finished, failed or was canceled neither waits nor runs, in
\* whatever order kills, signals of its process and restarts come, as long as
\* the program never crashes.  (local.cpp 150-173, 221-267, 437-469)
EndedIsOver ==
    \A j \in Jobs : jobState[j] \in {"Finished", "Canceled", "Error"} => ~Held(j)

\* "Job is being queued locally, either waiting for local execution or
\* remote submission." (molequeueglobal.h), and so for a running job: the
\* queue holds every job shown as queued or running.
HeldWhileActive ==
    \A j \in Jobs : jobState[j] \in {"QueuedLocal", "RunningLocal"} => Held(j)

\* "Keep submitting jobs (FIFO) until we hit one we can't afford to start."
\* (local.cpp): when a job is started, the processes of the queue together
\* use no more cores than there are.
StartsAffordable ==
    [][(\E j \in Jobs : m_runningJobs[j] = "none"
                          /\ m_runningJobs'[j] = "starting") =>
         SumFunctionOnSet(numberOfCores, Running') =< MaxNumberOfCores]_vars

\* "Job has completed." (molequeueglobal.h): a finished job is not run again.
FinishedNotRerun ==
    [][\A j \in Jobs : jobState[j] = "Finished" => m_runningJobs'[j] = "none"]_vars

-----------------------------------------------------------------------------
(* Liveness.  The timer fires and computations end; users owe nothing.     *)

Fairness ==
    /\ WF_vars(CheckJobQueue)
    /\ \A j \in Jobs : /\ WF_vars(ProcessStarted(j) \/ ProcessError(j))
                       /\ WF_vars(ProcessFinished(j) \/ ProcessError(j))

LiveSpec == Spec /\ Fairness

\* Every job the queue takes leaves it.  True where no job asks for more cores
\* than there are and the number of cores does not change.
EventuallyServed == \A j \in Jobs : Held(j) ~> ~Held(j)
==============================================================================
