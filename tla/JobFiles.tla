-------------------------------- MODULE JobFiles --------------------------------
(***************************************************************************)
(* The files of jobs, from the request of a client to the directory their  *)
(* output was asked for: Queue::writeInputFiles, the copies of the remote  *)
(* queues to and from the host, recursiveCopyDirectory, and the cleaning.  *)
(* The queue the jobs are submitted to is of one of the types; the host    *)
(* and its scheduler are the environment.  A directory is a function from  *)
(* the names of the files a job can have to what they hold, None for no    *)
(* file.  Calls and answers that overlap are the subject of RemoteQueue.   *)
(***************************************************************************)
EXTENDS LaunchScript, Scheduler, JobStates, FiniteSets

CONSTANTS Jobs,        \* the jobs, numbers from 1: their MoleQueue ids and their ids on the host
          Types,       \* types of the queue, "Local" or a scheduler
          Requests,    \* job -> what its client may ask for
          Programs,    \* name of a program -> its description
          MaxRetries,  \* 3: addJobFailure gives up on the one after
          Events,      \* what may go wrong
          CutPoints,   \* the files a copy that breaks off may have got to
          Banners,     \* the schedulers whose hosts print lines on every login
          Sources,     \* what an input path may name: a text, bytes that are none in the
                       \* local encoding, a directory or a file that cannot be opened
          None

(* What a file that was written or copied holds: what it should; what is   *)
(* left of it when it went through a QString and the local 8-bit encoding; *)
(* nothing, since its source could not be opened, or was not there; a part *)
Contents == {"whole", "altered", "unread", "empty", "cut"}

(* How an input is specified; "foreign" are contents with characters that  *)
(* the local encoding lacks                                                *)
Formats == {"none", "contents", "foreign", "path"}

(* A directory is told from a job of no file in it, and a request is for   *)
(* one of the programs.                                                    *)
ASSUME JobFilesAssumption ==
  /\ Jobs \subseteq Nat \ {0} /\ IsFiniteSet(Jobs)
  /\ Types \subseteq {"Local"} \cup Schedulers
  /\ Banners \subseteq Schedulers
  /\ MaxRetries \in Nat
  /\ CutPoints \subseteq 1..5
  /\ Sources \subseteq {"text", "binary", "unreadable"}
  /\ None \notin Sources \cup (Jobs \X Contents)
  /\ \A j \in Jobs : \A r \in Requests[j] :
       /\ r.program \in DOMAIN Programs
       /\ r.input \in Formats /\ r.extra \in Formats
       /\ r.output \in {"shared", "own"}
       /\ {r.wall, r.cleanLocal, r.cleanRemote, r.retrieve} \subseteq BOOLEAN

VARIABLES queue,     \* type of the queue
          request,   \* job -> its request
          stage,     \* job -> where its files are on their way
          jobState,  \* job -> MoleQueue::JobState
          failures,  \* Queue::m_failureTracker
          followed,  \* QueueRemote::m_jobs, the jobs in it
          queueId,   \* job -> Job::queueId()
          phase,     \* job -> what the scheduler knows of it
          source,    \* what an input path names, None for nothing
          base,      \* the working directory of the queue exists on the host
          local,     \* job -> its localWorkingDirectory
          remote,    \* job -> its directory on the host
          output     \* the directory clients may ask the output to be put in

vars == <<queue, request, stage, jobState, failures, followed, queueId, phase, source, base,
          local, remote, output>>

(* In the order the directory listing gives them; mqjobinfo.json is "info" *)
FileOrder == <<"extra", "input", "script", "info", "result">>
FileNames == {"extra", "input", "script", "info", "result"}
EmptyDir  == [f \in FileNames |-> None]
File(j, held) == <<j, held>>
Exists(dir) == \E f \in FileNames : dir[f] # None

Remote == queue # "Local"
Program(j) == Programs[request[j].program]

-----------------------------------------------------------------------------
(* FileSpecification::contents and the conversions of writeFile: a path    *)
(* that cannot be opened has no contents, and is written all the same      *)
ReadFromPath ==
  CASE source = "text"   -> "whole"
    [] source = "binary" -> "altered"
    [] source = "unreadable" -> "unread"
    [] OTHER -> "empty"

Held(format) ==
  CASE format = "contents" -> "whole"
    [] format = "foreign"  -> "altered"
    [] OTHER -> ReadFromPath

(* What there may be of a file that writeFile truncates and writes; nobody *)
(* looks at its result or at that of the write                             *)
writeFile(j, f, format) ==
  {File(j, Held(format))} \cup
  (IF "writeFails" \in Events THEN {local[j][f], File(j, "cut")} ELSE {})

(* An additional input that is there is removed first *)
Overwritten(j, format) ==
  writeFile(j, "extra", format) \cup (IF "writeFails" \in Events THEN {None} ELSE {})

(* Whether the queue writes a script of the program *)
NeedsScript(j) == Remote \/ Program(j).syntax = "CUSTOM"

\* A mutant: the sources of additional inputs not looked at
Unchecked(j) == TRUE

(* Of the additional inputs only what a path names is looked at before they *)
(* are written, and only whether it exists; the main one is not.  Left out *)
(* are requests the queue refuses here, with a specification that is none, *)
(* and a path that names the target itself, which is skipped.              *)
CanWrite(j) == request[j].extra # "path" \/ source # None

(* What each file may hold afterwards.  What was written before a check    *)
(* that fails stays.                                                       *)
MainInput(j) ==
  IF request[j].input = "none" THEN {local[j]["input"]}
  ELSE writeFile(j, "input", request[j].input)

AdditionalInput(j) ==
  IF request[j].extra = "none" \/ ~CanWrite(j) THEN {local[j]["extra"]}
  ELSE Overwritten(j, request[j].extra)

(* The script comes last; one that cannot be opened or made executable is  *)
(* an error, one that is cut is none                                       *)
Script(j, success) ==
  IF ~NeedsScript(j) \/ ~CanWrite(j) THEN {local[j]["script"]}
  ELSE {File(j, "whole")} \cup
       (IF "writeFails" \notin Events THEN {}
        ELSE {File(j, "cut")} \cup IF success THEN {} ELSE {local[j]["script"]})

(* Without the directory, which is made when it is missing, unless that    *)
(* fails                                                                   *)
Outcomes(j) == {CanWrite(j)} \cup (IF "writeFails" \in Events THEN {FALSE} ELSE {})

writeInputFiles(j, success) ==
  /\ success \in Outcomes(j)
  /\ \E input \in MainInput(j), extra \in AdditionalInput(j), script \in Script(j, success) :
       local' = [local EXCEPT ![j] = [@ EXCEPT !["input"] = input, !["extra"] = extra,
                                               !["script"] = script]]
  /\ UNCHANGED <<request, source>>

(* What of the program is generated: the launch script, or what the local  *)
(* queue makes of the name the output is redirected to                     *)
Template(j) ==
  IF Remote THEN launchTemplate(Program(j), QueueTemplate(queue), TRUE)
  ELSE IF Program(j).syntax = "CUSTOM" THEN Program(j).custom
  ELSE <<Program(j).outputFilename, Program(j).arguments>>

Generated(j) == replaceKeywords(Template(j), Program(j), request[j], Remote)

-----------------------------------------------------------------------------
(* FileSystemTools::recursiveCopyDirectory: in the order of the listing up *)
(* to the first file that is in the target already, which QFile::copy      *)
(* refuses, or that cannot be written; what was copied stays.  "limit" is  *)
(* the number of files the disk takes.                                     *)
Refused(from, to) == {n \in DOMAIN FileOrder : from[FileOrder[n]] # None /\ to[FileOrder[n]] # None}

CopiedFiles(from, to, limit) ==
  {FileOrder[n] : n \in {n \in 1..limit : \A k \in 1..n : k \notin Refused(from, to)}}

Copied(from, to, limit) ==
  [f \in FileNames |-> IF f \in CopiedFiles(from, to, limit) /\ from[f] # None
                       THEN from[f] ELSE to[f]]

CopySucceeds(from, to, limit) == Exists(from) => Refused(from, to) = {} /\ limit = Len(FileOrder)

Limits == {Len(FileOrder)} \cup (IF "copyFails" \in Events THEN CutPoints ELSE {})

(* recursiveRemoveDirectory(dir, true) of cleanLocalDirectory *)
Cleaned(j, dir) == IF request[j].cleanLocal THEN EmptyDir ELSE dir

SetState(j, s) == jobState' = [jobState EXCEPT ![j] = s]
SetStage(j, s) == stage' = [stage EXCEPT ![j] = s]

\* A mutant: the result of the copy not looked at
CopyIgnored(j, s, dir, limit) == TRUE

(* finalizeJobCopyToCustomDestination and finalizeJobCleanup: "dir" is what *)
(* the local directory holds by now.  An output directory is always named: *)
(* Server::jobAboutToBeAdded fills in the local one.                       *)
Done(j, s, dir, limit) ==
  request[j].output = "shared" => CopySucceeds(dir, s.output, limit)

Delivered(j, s, dir, limit) ==
  [output   |-> IF request[j].output = "shared" THEN Copied(dir, s.output, limit) ELSE s.output,
   local    |-> [s.local EXCEPT ![j] = IF Done(j, s, dir, limit) THEN Cleaned(j, dir) ELSE dir],
   jobState |-> [s.jobState EXCEPT ![j] = IF Done(j, s, dir, limit) THEN "Finished" ELSE "Error"],
   stage    |-> [s.stage EXCEPT ![j] =
                   IF ~Done(j, s, dir, limit) THEN "failed"
                   ELSE IF Remote /\ request[j].cleanRemote THEN "cleaning" ELSE "settled"]]

Now == [output |-> output, local |-> local, jobState |-> jobState, stage |-> stage]

Become(s) == output' = s.output /\ local' = s.local /\ jobState' = s.jobState /\ stage' = s.stage

Deliver(j, dir) == \E limit \in Limits : Become(Delivered(j, Now, dir, limit))

-----------------------------------------------------------------------------
Init ==
  /\ queue \in Types
  /\ request \in {r \in [Jobs -> UNION {Requests[j] : j \in Jobs}] :
                     \A j \in Jobs : r[j] \in Requests[j]}
  /\ stage = [j \in Jobs |-> "none"]
  /\ jobState = [j \in Jobs |-> "None"]
  /\ failures = [j \in Jobs |-> 0]
  /\ followed = {}
  /\ queueId = [j \in Jobs |-> None]
  /\ phase = [j \in Jobs |-> "unknown"]
  /\ source \in Sources
  /\ base = FALSE
  /\ local = [j \in Jobs |-> EmptyDir]
  /\ remote = [j \in Jobs |-> EmptyDir]
  /\ output = EmptyDir

(* The user writes over, moves or removes what an input path names, which  *)
(* matters as long as such an input is to be written                       *)
ChangeSource ==
  /\ \E j \in Jobs : stage[j] \in {"none", "pending"}
                     /\ "path" \in {request[j].input, request[j].extra}
  /\ source' \in (Sources \cup {None}) \ {source}
  /\ UNCHANGED <<queue, request, stage, jobState, failures, followed, queueId, phase, base,
                 local, remote, output>>

(* submitJob: a local queue writes the files at once, a remote one when it  *)
(* gets to the job                                                         *)
SubmitLocal(j) ==
  /\ ~Remote /\ stage[j] = "none"
  /\ \E success \in BOOLEAN :
       /\ writeInputFiles(j, success)
       /\ SetStage(j, IF success THEN "pending" ELSE "failed")
       /\ SetState(j, IF success THEN "QueuedLocal" ELSE "Error")
  /\ UNCHANGED <<queue, failures, followed, queueId, phase, base, remote, output>>

SubmitRemote(j) ==
  /\ Remote /\ stage[j] = "none"
  /\ SetStage(j, "pending")
  /\ SetState(j, "Accepted")
  /\ UNCHANGED <<queue, request, failures, followed, queueId, phase, source, base, local, remote,
                 output>>

(* JobManager's timer writes mqjobinfo.json of a job that changed *)
SyncJobState(j) ==
  /\ stage[j] # "none" /\ local[j]["info"] = None
  /\ local' = [local EXCEPT ![j]["info"] = File(j, "whole")]
  /\ UNCHANGED <<queue, request, stage, jobState, failures, followed, queueId, phase, source,
                 base, remote, output>>

(* QueueRemote::beginJobSubmission, for a job of submitPendingJobs *)
BeginJobSubmission(j) ==
  /\ Remote /\ stage[j] = "pending"
  /\ \E success \in BOOLEAN :
       /\ writeInputFiles(j, success)
       /\ SetStage(j, IF success THEN "copying" ELSE "failed")
       /\ jobState' = [jobState EXCEPT ![j] = IF success THEN @ ELSE "Error"]
  /\ UNCHANGED <<queue, failures, followed, queueId, phase, base, remote, output>>

(* A failed copy or submission is tried again, MaxRetries times *)
Retry(j) ==
  /\ failures' = [failures EXCEPT ![j] = IF @ = MaxRetries THEN 0 ELSE @ + 1]
  /\ SetStage(j, IF failures[j] = MaxRetries THEN "failed" ELSE "pending")
  /\ SetState(j, "Error")

(* SshCommand::copyDirTo: scp -r names the directory of the job, which it  *)
(* makes; when it is there already the copy lands inside of it and the     *)
(* files it holds stay                                                     *)
copyDirTo(j) == IF Exists(remote[j]) THEN remote[j] ELSE local[j]

(* A copy that breaks off *)
CutAt(from, to, n) ==
  [f \in FileNames |->
     IF \E k \in 1..n : FileOrder[k] = f /\ from[f] # None
     THEN (IF f = FileOrder[n] THEN <<from[f][1], "cut">> ELSE from[f]) ELSE to[f]]

InputFilesCopied(j) ==
  /\ stage[j] = "copying"
  /\ \/ /\ base
        /\ remote' = [remote EXCEPT ![j] = copyDirTo(j)]
        /\ SetStage(j, "submitting")
        /\ UNCHANGED <<jobState, failures, base>>
     \/ /\ ~base /\ base' = TRUE      \* "No such file": mkdir -p, and the copy again
        /\ UNCHANGED <<stage, jobState, failures, remote>>
     \/ /\ "sendFails" \in Events
        /\ Retry(j)
        /\ \E n \in IF base /\ ~Exists(remote[j]) /\ "partialCopy" \in Events
                    THEN CutPoints ELSE {0} :
             remote' = [remote EXCEPT ![j] = CutAt(local[j], @, n)]
        /\ UNCHANGED base
  /\ UNCHANGED <<queue, request, followed, queueId, phase, source, local, output>>

(* The process of ssh merges its channels: what the host prints on a login  *)
(* comes before the answer                                                 *)
Logins == {banner \in BOOLEAN : banner => queue \in Banners}

(* jobSubmittedToRemoteQueue: an id that was not read is 0, and takes the  *)
(* place of another one in m_jobs                                          *)
JobSubmitted(j) ==
  /\ stage[j] = "submitting"
  /\ \/ \E banner \in Logins :
          LET id == parseQueueId(queue, banner, j)
          IN /\ queueId' = [queueId EXCEPT ![j] = id]
             /\ followed' = {k \in followed : queueId[k] # id} \cup {j}
             /\ phase' = [phase EXCEPT ![j] = "waits"]
             /\ SetStage(j, "inQueue")
             /\ SetState(j, "Submitted")
             /\ failures' = [failures EXCEPT ![j] = 0]
     \/ /\ "submitFails" \in Events
        /\ Retry(j)
        /\ UNCHANGED <<followed, queueId, phase>>
  /\ UNCHANGED <<queue, request, source, base, local, remote, output>>

(* The scheduler starts the job, the program ends and leaves its result in *)
(* the directory, and the job is listed no more                            *)
Schedule(j) ==
  /\ Remote
  /\ \/ /\ phase[j] = "waits" /\ phase' = [phase EXCEPT ![j] = "runs"]
        /\ UNCHANGED remote
     \/ /\ phase[j] = "runs" /\ phase' = [phase EXCEPT ![j] = "ended"]
        /\ remote' = [remote EXCEPT ![j]["result"] = File(j, "whole")]
     \/ /\ phase[j] = "ended" /\ phase' = [phase EXCEPT ![j] = "gone"]
        /\ UNCHANGED remote
  /\ UNCHANGED <<queue, request, stage, jobState, failures, followed, queueId, source, base,
                 local, output>>

(* What the listing says of a followed job; "Unknown" when no line was read *)
Listed == {j \in Jobs : phase[j] \in {"waits", "runs", "ended"}}

StatesShown(j) ==
  IF queueId[j] # j \/ j \notin ListedIds(queue, followed, Listed, "firstIdIgnored" \in Events)
  THEN {"Unknown"}
  ELSE LET codes == Printed(queue, phase[j])
                      \cup (IF "oddCodes" \in Events THEN OddCodes(queue, phase[j]) ELSE {})
       IN IF codes = {} THEN {"Unknown"} ELSE {parseQueueLine(queue, c) : c \in codes}

(* handleQueueUpdate, the listing and its answer in one step: the followed *)
(* jobs whose line was read get its state; the others have left the queue, *)
(* and finalizeJobCopyFromServer fetches their output, or goes on with     *)
(* what there is when none is wanted, one after the other.                 *)
Seen(shown) ==
  [Now EXCEPT !.jobState = [j \in Jobs |-> IF j \in followed /\ shown[j] # "Unknown" THEN shown[j]
                                          ELSE jobState[j]]]

Finalized(s, j, limit) ==
  IF request[j].retrieve THEN [s EXCEPT !.stage[j] = "fetching"]
  ELSE Delivered(j, s, s.local[j], limit)

(* The jobs in the order of QMap::keys, by their ids on the host *)
ByQueueId(S) ==
  {s \in [1..Cardinality(S) -> S] : \A a, b \in DOMAIN s : a < b => queueId[s[a]] < queueId[s[b]]}

AfterUpdate(shown, left, limits) ==
  LET after[n \in 0..Len(left)] ==
        IF n = 0 THEN Seen(shown) ELSE Finalized(after[n - 1], left[n], limits[left[n]])
  IN after[Len(left)]

HandleQueueUpdate ==
  /\ followed # {}
  /\ \E shown \in [followed -> UNION {StatesShown(j) : j \in followed}],
        limits \in [followed -> Limits] :
       /\ \A j \in followed : shown[j] \in StatesShown(j)
       /\ \E left \in ByQueueId({j \in followed : shown[j] = "Unknown"}) :
            Become(AfterUpdate(shown, left, limits))
       /\ followed' = {j \in followed : shown[j] # "Unknown"}
  /\ UNCHANGED <<queue, request, failures, queueId, phase, source, base, remote>>

(* SshCommand::copyDirFrom, into the parent of the local directory: it      *)
(* writes over the files of the same names                                 *)
copyDirFrom(j) == [f \in FileNames |-> IF remote[j][f] # None THEN remote[j][f] ELSE local[j][f]]

(* finalizeJobOutputCopiedFromServer *)
OutputCopiedFromServer(j) ==
  /\ stage[j] = "fetching"
  /\ \/ Deliver(j, copyDirFrom(j))
     \/ /\ "fetchFails" \in Events
        /\ SetStage(j, "failed")
        /\ SetState(j, "Error")
        /\ \E n \in CutPoints : local' = [local EXCEPT ![j] = CutAt(remote[j], @, n)]
        /\ UNCHANGED output
  /\ UNCHANGED <<queue, request, failures, followed, queueId, phase, source, base, remote>>

(* remoteDirectoryCleaned *)
RemoteDirectoryCleaned(j) ==
  /\ stage[j] = "cleaning"
  /\ SetStage(j, "settled")
  /\ \/ /\ remote' = [remote EXCEPT ![j] = EmptyDir]
        /\ UNCHANGED jobState
     \/ /\ "cleanFails" \in Events
        /\ SetState(j, "Error")
        /\ UNCHANGED remote
  /\ UNCHANGED <<queue, request, failures, followed, queueId, phase, source, base, local, output>>

(* QueueLocal::startJob, and the program that writes its result *)
StartJob(j) ==
  /\ ~Remote /\ stage[j] = "pending"
  /\ SetStage(j, "running")
  /\ SetState(j, "RunningLocal")
  /\ phase' = [phase EXCEPT ![j] = "runs"]
  /\ UNCHANGED <<queue, request, failures, followed, queueId, source, base, local, remote,
                 output>>

ProgramEnds(j) ==
  /\ stage[j] = "running" /\ phase[j] = "runs"
  /\ phase' = [phase EXCEPT ![j] = "gone"]
  /\ local' = [local EXCEPT ![j]["result"] = File(j, "whole")]
  /\ UNCHANGED <<queue, request, stage, jobState, failures, followed, queueId, source, base,
                 remote, output>>

ProcessFinished(j) ==
  /\ stage[j] = "running" /\ phase[j] = "gone"
  /\ Deliver(j, local[j])
  /\ UNCHANGED <<queue, request, failures, followed, queueId, phase, source, base, remote>>

Next ==
  \/ ChangeSource
  \/ HandleQueueUpdate
  \/ \E j \in Jobs :
       \/ SubmitLocal(j) \/ SubmitRemote(j) \/ SyncJobState(j)
       \/ BeginJobSubmission(j) \/ InputFilesCopied(j) \/ JobSubmitted(j) \/ Schedule(j)
       \/ OutputCopiedFromServer(j) \/ RemoteDirectoryCleaned(j)
       \/ StartJob(j) \/ ProgramEnds(j) \/ ProcessFinished(j)

Spec == Init /\ [][Next]_vars

-----------------------------------------------------------------------------
(* State, input and output of the jobs are of their types.                 *)
Directory == [FileNames -> {None} \cup (Jobs \X Contents)]
Stages    == {"none", "pending", "copying", "submitting", "inQueue", "running", "fetching",
              "cleaning", "settled", "failed"}

TypeOK ==
  /\ queue \in Types
  /\ DOMAIN request = Jobs /\ \A j \in Jobs : request[j] \in Requests[j]
  /\ stage \in [Jobs -> Stages]
  /\ jobState \in [Jobs -> JobState]
  /\ failures \in [Jobs -> 0..MaxRetries]
  /\ followed \subseteq Jobs
  /\ queueId \in [Jobs -> Jobs \cup {Unread, None}]
  /\ phase \in [Jobs -> {"unknown", "waits", "runs", "ended", "gone"}]
  /\ source \in Sources \cup {None}
  /\ base \in BOOLEAN
  /\ local \in [Jobs -> Directory] /\ remote \in [Jobs -> Directory] /\ output \in Directory

(* The result of a program that has ended is always somewhere the user can *)
(* get it: in a directory of the job or in the one it was asked for in.    *)
(* Only a job that is finished has lost it, when its request has every     *)
(* copy cleaned and none put elsewhere; a job that failed never has,       *)
(* whatever step failed.  (queue.cpp 554-561, remotessh.cpp 394-567,       *)
(* local.cpp 221-267, filesystemtools.cpp 27-96)                           *)
Asked(j) == Remote => request[j].retrieve

Given(j) ==
  /\ stage[j] \in {"cleaning", "settled"}
  /\ request[j].cleanRemote \/ ~Remote
  /\ ~Asked(j) \/ (request[j].cleanLocal /\ request[j].output = "own")

NothingIsLost ==
  /\ TypeOK
  /\ \A j \in Jobs : phase[j] \in {"ended", "gone"} =>
       \/ \E dir \in {local[j], remote[j], output} : dir["result"] = File(j, "whole")
       \/ Given(j)

(* When the scheduler or the local queue runs a job, its directory holds   *)
(* the script whole, and the additional input the job asks for, however    *)
(* often the copy or the submission was repeated: never a part of it, none *)
(* or another job's, and never the empty file of a path that named nothing *)
(* when the files were written.  Contents of the request are whole unless  *)
(* the local encoding lacks some of their characters.  A path is copied as *)
(* it was when the files were written, if that was a text; of other bytes  *)
(* the copy differs, and of what exists and cannot be opened it is empty.  *)
(* (queue.cpp 398-512, filespecification.cpp 135-181, remotessh.cpp        *)
(* 177-333)                                                                *)
Arrives(format) ==
  CASE format = "contents" -> {"whole"}
    [] format = "foreign"  -> {"altered"}
    [] OTHER -> {"whole", "altered", "unread"}

InputsAreSent ==
  \A j \in Jobs : phase[j] \in {"waits", "runs"} =>
    LET dir == IF Remote THEN remote[j] ELSE local[j]
    IN /\ NeedsScript(j) => dir["script"] = File(j, "whole")
       /\ request[j].extra # "none" =>
            \E held \in Arrives(request[j].extra) : dir["extra"] = File(j, held)

(* A job is Finished only when its program has ended and its output is     *)
(* whole where it was asked for, in the local directory too unless that    *)
(* is to be cleaned; only OAR's states of an ended job say Finished before *)
(* anything was fetched.  (remote.cpp 236-267, remotessh.cpp 334-505)      *)
FinishedIsDelivered ==
  \A j \in Jobs : jobState[j] = "Finished" /\ queue # "OAR" =>
    /\ phase[j] \in {"ended", "gone"}
    /\ Asked(j) /\ request[j].output = "shared" => output["result"] = File(j, "whole")
    /\ Asked(j) /\ ~request[j].cleanLocal => local[j]["result"] = File(j, "whole")

(* The script of a started job is what the documentation of the keywords   *)
(* promises, though every keyword is replaced once, in a fixed order, and  *)
(* values hold keywords.  (templatekeyworddialog.cpp 63-146; queue.cpp     *)
(* 370-396, remote.cpp 109-141, job.cpp 324-345, program.cpp 188-254)      *)
QueueText(j) ==
  IF Program(j).syntax # "CUSTOM" /\ Remote THEN QueueTemplate(queue) ELSE Template(j)

ScriptIsExpanded ==
  \A j \in Jobs : phase[j] = "waits" \/ stage[j] = "running" =>
    Generated(j) = Promised(QueueText(j), Program(j), request[j], Remote)
=============================================================================
