------------------------------ MODULE JobStates ------------------------------
(***************************************************************************)
(* The vocabulary shared by every component that handles jobs: the states  *)
(* of molequeueglobal.h and the two tests the program applies to a state   *)
(* before it lets somebody cancel a job.                                   *)
(***************************************************************************)

\* MoleQueue::JobState.
JobState == {"Unknown", "None", "Accepted", "QueuedLocal", "Submitted",
             "QueuedRemote", "RunningLocal", "RunningRemote", "Finished",
             "Canceled", "Error"}

\* A job the JobManager has not created yet, and one it has deleted: every
\* Job reference to either is invalid (JobReferenceBase::isValid).
NotCreated == "NotCreated"
Removed    == "Removed"

\* The states in which Server::handleCancelJobRequest kills the job; in any
\* other it answers "Cannot cancel job: Job not running."
RpcCancelable == {"Accepted", "QueuedLocal", "Submitted", "QueuedRemote",
                  "RunningLocal", "RunningRemote"}

\* The states in which KillJobActionFactory offers "Cancel job ...".
GuiKillable == RpcCancelable \cup {"Error"}
==============================================================================
