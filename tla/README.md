# Verification of MoleQueue in TLA+

MoleQueue is a desktop server that runs computational jobs for its clients. A
client asks over JSON-RPC for a job to be run by a program of a queue; the server
writes the input files and hands the job to the queue, which runs it locally or
on a remote host, follows it and fetches its output. This directory holds TLA+
models of that code, the TLC configurations that check them and the proofs that
TLAPS checks. Paths below are under `src/molequeue/`; a bare file name is in `app/`,
`app/queues/`, `servercore/` or `client/`.

## The system

The server runs in one Qt event loop. A slot, a timer event or a request handler
runs to its end before the next starts, so it is one atomic step of the models.
What is concurrent is around it: ssh and scp processes, computations, SOAP calls and
client programs, each of which reports by a signal delivered in some order; and message
boxes, menus and loops that wait, inside which the event loop keeps running
in the middle of a slot.

| component | state | operations | hard behaviour |
|---|---|---|---|
| Server and sessions (`server.cpp`, `client/`, `jsonrpc.cpp`, `localsocketconnection*.cpp`) | connections, the connection of each submitted job, the id counter; the client's packets and requests | connect, submitJob, lookupJob, cancelJob, listQueues, notifications, disconnect, start, quit | order of reply and notifications, addresses of connections used again, packets that arrive in pieces, crashes |
| JSON-RPC messages (`message.cpp`, `jsonrpc.cpp`) | none | build, write, parse, answer | both sides must read what the other writes; answers must not be answered |
| JobManager, Job, JobData, JobReferenceBase (`job*.cpp`) | the job list, the id map, one state file per job | newJob, loadJobState, removeJob, setters, syncJobState | references that outlive their job; what a crash or a full disk leaves |
| Job table, filters, menus (`jobitemmodel.cpp`, `jobtable*.cpp`, `jobview.cpp`, action factories) | rows shown, filter, counts, the open menu or box | filter, cancel, remove, clear finished, view log | what was selected changes while the box asks |
| Logger and log windows (`logger.cpp`, `logwindow.cpp`) | entries, new errors, silence, windows | log, open, close, clear | windows of the program and of jobs close in any order |
| QueueManager, queue and program settings (`queuemanager*.cpp`, `queue.cpp`, `program.cpp`, dialogs) | queues and programs by name, their dialogs, one file per queue | add, import, export, rename, remove, apply, read and write settings | dialogs whose subject is renamed, replaced or removed; names against objects against files |
| Local queue (`local.cpp`) | FIFO of pending jobs, running processes, cores | submit, kill, start, finish, error, timer | cores accounting, a kill against a finish, error and finish of one process |
| Remote SSH queues (`remote.cpp`, `remotessh.cpp`) | pending list, `m_jobs`, failure counts, update flag, processes in flight | submission pipeline, queue update, finalization, kill | interleaved completions, retries, lost acknowledgements, stale replies |
| Schedulers (`pbs/sge/slurm/oar.cpp`) | none | read the id of a submission, read the listing, templates | words and exit codes that mean different things |
| Job files and launch scripts (`queue.cpp`, `filespecification.cpp`, `filesystemtools.cpp`) | working, remote and output directories | write input, replace keywords, copy out and back, clean | one copy of several fails; order of replacements |
| UIT queue (`queueuit.cpp`, `queues/uit/directory*.cpp`) | like the SSH queues, with one operation per job | SOAP requests in place of ssh, recursive transfers | every request may fail or wait for a login |
| UIT session (`uit/session.cpp`, `authenticator.cpp`, `credentialsdialog.cpp`) | token, waiting requests, login under way | authenticate, prompts, cancel, token refused | many requests wait for one login; a nested loop in the middle of telling them |
| Open-with handlers (`openwith*.cpp`, `actionfactorymanager.cpp`) | the factories, the dialog's copies, the open menu | register, unregister, edit, apply, open | clients change the list under the dialog and in its message boxes |
| Main window and start-up (`mainwindow.cpp`, `main.cpp`) | open dialogs, error label | show, quit, second server | |
| ZeroMQ, plugins, Python client | | | not modelled |

A client's submitJob becomes JobManager::newJob (state None, then Accepted),
Queue::submitJob and, for a remote queue, an entry in `m_pendingSubmission`. A
5 s timer writes input files and starts scp; each completion slot starts the
next process: the base directory is made when it is missing, the files are
copied, the submission command is run and its output gives the scheduler id under
which the job is entered in `m_jobs`. A second timer asks the scheduler about
all ids in `m_jobs`; an id that the reply does not mention has left the queue and its job is
finalized: fetched, copied to where the client wanted it, cleaned, Finished.
Every state change goes through JobManager::setJobState, which tells the table and the
server, which notifies the client that submitted the job.

What makes the components correct:

- remote queues: a job is at one stage at a time and submitted no more often than
  its retries allow; the table of references agrees with the jobs; a job is
  Finished only after it left the scheduler; none is forgotten; every job is
  eventually dealt with;
- local queue: cores in use are those of the running processes and never more
  than there are; jobs start in order; each process ends its job once;
- files: what runs has a whole script and its inputs as they were read; what is Finished is where the
  client asked for it; nothing is removed that is nowhere else;
- job references: a reference never reaches another job than the one it was made
  for; what is marked as saved is on disk; the table shows what there is;
- settings: names agree with objects, and a start reads back what a quit wrote, as far as names tell files apart;
- handlers: a dialog that shows no changes shows what is in use;
- server: a request has one answer; a client hears of every state change of its jobs, in
  order, after the reply that names the job; ids are given once.

## Modules

| module | models | extends |
|---|---|---|
| `JobStates` | `MoleQueue::JobState` and the tests that let somebody cancel a job | |
| `JobLifecycle` | what a remote queue promises about each job: an abstract specification | |
| `RemoteQueue`, `MCRemoteQueue`, `RemoteQueueProofs` | QueueRemote and QueueRemoteSsh with the parts of Queue, JobManager, SshCommand and the kill dialog they work with | `JobStates`; implements `JobLifecycle` |
| `LocalQueue`, `LocalQueueProofs` | QueueLocal likewise, the files it is recovered from, clean exits and crashes | `JobStates` |
| `Scheduler` | the templates, answers and words of PBS, SGE, SLURM and OAR | |
| `LaunchScript` | the replacement of keywords in launch scripts | |
| `JobFiles`, `MCJobFiles`, `JobFilesProofs` | input files, copies to and from the host, delivery and cleaning | `LaunchScript`, `Scheduler` |
| `ErrorLog` | Logger, log windows, the error label | |
| `JobTable`, `MCJobTable`, `JobTableProofs` | JobManager, state files, references, the table, its filters, menus and boxes | `ErrorLog`, `JobStates` |
| `QueueConfig`, `MCQueueConfig`, `QueueConfigProofs` | QueueManager, queues, programs, their dialogs and files | |
| `OpenWith`, `MCOpenWith`, `OpenWithProofs` | handlers registered over RPC, the dialog that edits them, the menu that runs them | |
| `JsonRpcMessages` | Message, the answers of JsonRpc and Server, the reading of JsonRpcClient, as operators | |
| `ServerSession`, `MCServerSession`, `ServerSessionProofs` | Server, its transport, ids and files, and Client at the other end | `JobStates`; `JsonRpcMessages` as an instance |
| `UitReplies` | what is read from the XML of the UIT service: logins, submissions, job events, listings | |
| `UitSession` | Uit::Request, Session, Authenticator, the credentials dialog | `UitReplies` |
| `UitQueue`, `MCUitQueue`, `UitQueueProofs` | QueueUit, its operations and transfers | `UitSession`, `JobStates` |

Each of `RemoteQueue`, `LocalQueue`, `JobTable` and `ServerSession` models the Job and
JobManager operations from its own side: the queue's work, the list and its files, or the
notifications. In every module state is named after the members it stands for, actions after
the slots, and each disjunct of an action is one return path. `Events` names the faults and
user actions a run admits: with an event left out the model is the code under the assumption
that it does not happen. An operator marked `A mutant` or `variant` changes the one after it in
the way a slip in the code would; no specification uses it, and the run of its
property fails with it in place.

### RemoteQueue

`m_pendingSubmission` maps a job to how often it occurs in the pending list (the order is
irrelevant, since the timer submits the whole list); `m_jobs` maps scheduler ids to jobs;
`m_failureTracker` has 0 for no entry. `conns[op][j]` counts the ssh or scp
processes in flight for job j, `op` naming the slot that will handle the
completion; `asked` holds the ids named by the status request in flight.
`remoteDir` and `cluster` are the host: whether the base directory exists, and
what the scheduler knows of each id. `hostNameSet` is the one condition on which
SshConnection refuses to start a process, and `dialog` the job of the open
"Really cancel?" dialog.

Actions: `SubmitJob`, `SubmitPendingJobs`, `RemoteDirectoryCreated`,
`InputFilesCopied`, `JobSubmittedToRemoteQueue`, `UpdateTimer`,
`UpdateRemoteQueues`, `HandleQueueUpdate`, `OutputCopiedFromServer`,
`RemoteDirectoryCleaned`, `EndKillJob`, `RemoveJob`, and the two ways to cancel,
`CancelJob` (RPC) and `OpenKillDialog` with `AnswerKillDialog`. `Reconfigure`,
`ClusterStarts` and `ClusterEnds` are the surroundings.

Abstractions: the scheduler's reply is evaluated when it arrives (a reply that
is older only makes `FinishedHasLeft` fail more easily, and it fails with two jobs already);
which steps of the finalization are skipped depends on the job's options, which
nothing else reads, so it is chosen when it is used (`JobFiles` has the options);
a removed job's reference is invalid for good (`JobTable` has the addresses).

### LocalQueue

`m_pendingJobQueue` is the FIFO of ids, `m_runningJobs` the QProcess state of each job
that has a process (`"none"` for a job not in the map), `numberOfCores` what each job asks
for, `m_cores` what the settings allow (0: none set, `IdealThreadCount` applies) and
`hasProgram` whether the queue still has the program its jobs name. Two files are
variables of their own: `savedState`, the state in each job's `mqjobinfo.json`,
written by the 20 s timer, by every newJob and at exit, and `queueFile`, the queue's
settings with `jobsToResume`, written at exit and when a program is renamed.

Actions: `SubmitJob` (server, newJob and submitJob), `CheckJobQueue` (the 100 ms timer
with every startJob of its loop: it takes the shortest front part after which `EndsAfter`
holds), the signals `ProcessStarted`, `ProcessFinished` and `ProcessError`, `CancelJob`,
`OpenKillDialog` with `AnswerKillDialog`, `RemoveJob`, `SetCores`, `ChangeProgram`,
`SyncTimer`, `ExitAndRestart` (files written, then read) and `CrashAndRestart` (files read as
they are).

Abstractions: ids are numbers, because the order in which QMap lists them is what
keeps a restart in order; a crash falls between
steps, not inside the writing of a file (`JobTable` has that); processes that outlive a crashed
program are not tracked; the state Accepted, which submitJob sets and leaves within one
slot, does not appear.

### JobFiles, LaunchScript, Scheduler

A directory is a function from the five kinds of files a job has (main input, additional
input, launch script, `mqjobinfo.json`, result) to what they hold. `queue` is the type of
the queue, `request` what the client asked for: program, how the inputs are given, output
directory, cleaning. `stage` says where a job's files are on their way, `followed` and
`queueId` what the queue believes, `phase` what the scheduler knows. Actions are
the same slots as in `RemoteQueue` and `LocalQueue`, one call at a time, with what they do to
`local`, `remote` and `output`: `SubmitLocal` and `StartJob` with `ProcessFinished`;
`SubmitRemote`, `BeginJobSubmission` (writeInputFiles), `Retry`, `InputFilesCopied`,
`JobSubmitted` (the submission's answer read by the class of the scheduler),
`HandleQueueUpdate` (listing and answer in one step: their races are `RemoteQueue`'s),
`OutputCopiedFromServer`, `Deliver` (copy to the output directory, file by file up to
one that fails, then cleaning) and `RemoteDirectoryCleaned`.

`LaunchScript` has the passes of Queue::replaceKeywords and its overrides in the order the code makes
them. A text is a sequence of lines, a line a sequence of words, a keyword a word; `$$` and
`$$$` keywords, the lines removed with an unset wall time, and keywords given by
clients are kept. `Scheduler` has each class's default template, the
answer to a submission, the jobs its status command asks for and the words of its listing. A
submission's answer may begin with a login banner, which ssh merges into it. OAR's command is
`oarstat <id> -j <id> -j <id>...`; whether the first id, with no `-j`, is asked for is oarstat's
affair (`"firstIdIgnored"`).

What a file holds is one of five (`Contents`): `"whole"`, what it should; `"altered"`, what is
left of it after a QString and the local 8-bit encoding, when the source is not a text or the
request's contents have characters that encoding lacks; `"unread"`, nothing, because the source exists
and cannot be opened (a directory is such a source); `"empty"`, because there was none; `"cut"`.
`source` says what the input paths of the requests name at the moment, and `ChangeSource` lets a
user change it until the files are written. `writeInputFiles` has the check of queue.cpp 458, which is about
existence only, and `"writeFails"` is a target that cannot be opened, removed or written, or a
directory that cannot be made. The script goes through toLatin1 (queue.cpp 500), which is left out, as
are a path that names its own target, which is skipped (464), and requests without a valid file where they
name one (443-455).

### JobTable and ErrorLog

`heap` maps addresses to JobData, so that an address is used again after deletion, and a
`Job` is an address with the id it had (`IsValid` is JobReferenceBase::isValid).
`file` is `mqjobinfo.json`, which can be whole, partly written or emptied: `Outcomes` are what an
open, truncate and write can end in. `shown` and `counts` are what the proxy model and the status
bar were last told; `asked` is the open menu or box with the references it holds, and
everything else goes on under it. Actions: `NewJob`, `SetJobState`, `SetJobQueueId`,
`SyncTimer`, `RemoveJobs` (from the menu, from "clear finished"), `SetFilter`, `ContextMenu` and its
choices, the two boxes, `QuitAndRestart`, `CrashAndRestart` and `LoadJobState`, which
skips what it cannot read. `m_jobs` is a set: the order of the rows, which the user sorts, is left out. `ErrorLog` has the count of new errors, the silence and
the windows; `JobTable` logs through it whenever the code logs an error.

### QueueConfig

`queue` and `program` map addresses to objects with a name, a type and settings; `m_queues` and each
queue's `m_programs` map names to addresses; `file` maps `<name>.mqq` to what the settings
file holds; `dialogs` and `programDialogs` hold what an open dialog shows and whether it
has unsaved edits. A file holds keys, not values alone: `Keys` are the keys each class's
writeJsonSettings writes, `Required` those its readJsonSettings refuses to do without, per
type and for exports and imports, so a key that is written by one class and read by another is a
relation the properties see. Actions: adding, importing, removing and renaming a queue, its
dialog (`ShowSettingsDialog`, edits, `ClickApply`, `Accept`, `Reject`, `ResetDialog`,
`CloseDialog`), the same for programs, `SleepTest`, `Quit`, `Crash` and `Start`.

Names are numbers, in the order of QMap. `BaseName` gives what is before the first dot of a name, and
`Position` where the directory lists its file. `ReadSettings` calls the queue of a
file by its base name, as QFileInfo::baseName does (queuemanager.cpp 67): of several files with the same
one the last listed stays (`Replaced`), since `this` passed for `replace` (69) is true, and one that
is refused takes the file named after the base name with it, whichever it is (`RemovesOwn`).
`Crash` leaves a file cut (`CutFile`): the one a quit is writing, or the one a rename is (`Renaming`).

### OpenWith

`object` maps ids to factories, deleted ones included; `m_factories` is the manager's list;
`dlg` holds the dialog's copies, the originals they replace, what is selected and whether it is
dirty; `box` its message box, `menu` the factories an open menu points to, `openings` the nested
loops of handlers that wait for an RPC server. `RegisterOpenWith`, `UnregisterOpenWith` and
`UnregisterUnknown` (where `handler` is read uninitialised) come from clients at any time,
in those loops too. Where the code reaches freed memory `program` records why it has died: the
step is in the model, what happens after it is not.

### ServerSession and JsonRpcMessages

Server and clients are separate processes; `toServer` and `toClient` are what is on the socket.
`end` is the server's side of a connection, `open` the client's; addresses of
connections are used again. `m_connectionLUT` says whom to notify, `m_requests` and `outcome` what a
client knows of its requests, `told` the last state it heard of a job. Files: `savedCounter`,
written before an id is used, and `savedState`. Actions: `ConnectToServer`, `SendRequest`,
`CloseSocket`; `NewConnection`, `ClientDisconnected`, `ServerReads` (parse, handler, reply
and notifications), `ReadPartOfPacket` (readyRead before the whole packet is there),
`QueueProgress`, `RemoveJob`, `SyncJobState`; `ClientReads`; `Crash`, `Quit`, `StartServer`,
`ForceStart`. What queues do is cut down to the state changes they report. Only the server reads packets
before they are whole: that JsonRpcClient::readSocket does so too (jsonrpcclient.cpp 145-155) is not
modelled, so what the properties say of clients supposes that packets reach them whole.

`JsonRpcMessages` treats a JSON object as a function from member names and has every type of
message with its members: writing, parsing with the pending-request table, the setters and
generators, batches and the batches in them (`RepliesTo`), the errors of JsonRpc and Server, and
JsonRpcClient's reading. Its checks quantify over all objects and messages built from a few values per member.

### UitQueue, UitSession and UitReplies

`req` says of every request whether it is sent, with which token, or waits for a login; `auth` what
Authenticator and its dialog wait for, "lost" being a login that nothing can end any more; `box` the
message box that testConnection opens in the middle of telling the waiters. `op[j]` is the one
operation under way for a job, with the directory entries still to do and those done. Actions
are the slots of QueueUit and of DirectoryCreate, DirectoryUpload and
DirectoryDownload; `RequestFails` is every error slot, in which `forgotten` records the jobs that
the three known errors below leave with nobody to go on.
`UitReplies` is pure: the fields that each reply's class takes from elements that are present, missing or not
what it expects. The steps choose a reply of the service (`LoginReplies`, `Submissions`, `EventLists`,
`Listing`), valid XML or not, and act on what is read. An upload's answer is the exception: DirectoryUpload
goes on whenever the transport reports no error, and only logs an answer without "DONE"
(directoryupload.cpp 183-187), so to the model a file that was posted is uploaded.

## Runs

| run | instance | what it shows |
|---|---|---|
| `RemoteQueueFaults` | two jobs, two scheduler ids, nine kinds of events | types; a job is at one stage (`SingleStage`); references and ids agree (`IndexConsistent`); who is followed is shown so (`TrackedIsActive`); `FinishedNotRevived`; the queue implements `JobLifecycle` |
| `RemoteQueueOneJob` | one job, five ids, every event but unreadable status lines | the scheduler is given a job at most once plus once per retry (`LaunchesBounded`); a job is Finished only when it has left the scheduler (`FinishedHasLeft`) |
| `RemoteQueueLive` | two jobs under `LiveSpec` | no job is forgotten (`NoOrphan`); every accepted job is finished, given up or canceled (`EventuallyReleased`) |
| `LocalQueueCrash` | three jobs; crashes, exits, cancels, new core limits, programs that vanish | types; order of submission (`FifoOrder`); a job starts only while all fit (`StartsAffordable`) |
| `LocalQueueLive` | three jobs under `LiveSpec`; removed, canceled, failing | a job that is over has no process (`EndedIsOver`), one that is not is held (`HeldWhileActive`), and every job leaves the queue (`EventuallyServed`) |
| `JobFiles` | two jobs in a queue of each type, three programs, failing copies, submissions, fetches and cleaning, an input path that names a text, other bytes, what cannot be read or nothing | no result is lost while a copy fails (`NothingIsLost`); what runs has its additional input as it was when it was read (`InputsAreSent`) and a whole script with every keyword replaced (`ScriptIsExpanded`); the output of what is Finished is where it was asked for (`FinishedIsDelivered`) |
| `JobTable` | two ids, two addresses, two filters, disk full or unwritable, the log windows of the program and of one job | the table, counts and filter show the jobs as they are (`TableIsCurrent`); what is not marked for saving is on disk (`SyncedIsOnDisk`); the error label and the silence last no longer than their reason (`NotifiesTruly`) |
| `QueueConfig` | two queue and two program addresses, two dialogs, two names with one base name | maps by name agree with objects (`NamesAgree`); a quit and a start load every queue, but those replaced under the same base name, with its type, settings and programs (`SurvivesQuit`) |
| `OpenWith` | two offers, two rows, one edit | a dialog that is not marked as changed shows what the manager holds, and the manager holds no deleted factory (`CleanMeansSame`) |
| `ServerSession` | two clients, two connection addresses, two jobs, one restart, pieces of packets | one answer per request (`OneAnswer`); notifications go to the submitter (`RoutesLive`), each from the state the one before ended with (`ChainUnbroken`), none before the id (`IdBeforeNotice`); acknowledged jobs are kept (`AcknowledgedIsKept`) and ids given once (`IdsAreFresh`), over crashes; messages survive the wire and are answered at most once (`MessagesAreUnderstood`) |
| `ServerSessionLive` | one client under `LiveSpec`, every state a queue reports | every request is answered (`EventuallyAnswered`); a client learns the state its job has reached (`EventuallyTold`) |
| `UitQueue` | two jobs, a connection test, a tree of two directories and a file, one expiry of the token | nobody waits without a login (`NobodyWaitsForNothing`); a job is at one place (`OnePlaceAtATime`) and not lost but by three known errors (`OthersAreFollowed`); a job is submitted with all its input and Finished with all its output (`TransfersAreComplete`); an update of the queue ends (`UpdateEnds`) |

The modules without a `TypeOK` in the list have their type invariant as the first
conjunct of an invariant of the run.

Each property holds where its run says, and the events a run leaves out are the ones
that break it: `NoOrphan` needs kill commands that work and output that parses;
`HeldWhileActive` and `EndedIsOver` need a program that does not crash, and the first one a queue that
keeps the jobs' program; `StartsAffordable` needs that nobody removes a running job;
`FinishedHasLeft` a single job whose status lines are readable; `NothingIsLost`, `FinishedIsDelivered`
and `InputsAreSent` need schedulers whose words the parsers know (no `"oddCodes"`) and logins that print nothing
into the answer of a submission where the parser looks at its beginning (banners on OAR's hosts only);
`InputsAreSent` also that no copy to the host stops half way and is repeated into the same directory
(`"partialCopy"`), and that files can be written (`"writeFails"`), since nobody looks at what writeFile
returns. It is about the script and the additional inputs, for the main input is not looked at. It says
that a job never runs with a part of its input, with none, or with the empty file of a path that named nothing;
of a path that names what cannot be read the input is empty, of bytes that are no text it is
altered, and the job runs: the code does not promise more. `NothingIsLost` and
`FinishedIsDelivered` need of OAR that it answers for the first id too (no `"firstIdIgnored"`);
`FinishedIsDelivered` leaves the OAR queue out, which calls jobs Finished before their output is fetched. All of
these are listed below as met while modelling.

### Bounds

Remote queue: two jobs suffice for what one can do to another: they share the
scheduler id 0 when output does not parse, the pending list, the status request
and the update flag. Scheduler ids are used once; a run with n ids admits n
launches, and a submission with no id left can only fail. `RemoteQueueOneJob`
has more ids than launches, so the bound it checks is the code's. The failure
count is bounded by the code itself. Clients put no `queueId` in their requests
(`ClientIds = {InvalidId}`); JobData::setFromJson would take one.

Local queue: three jobs make its cases: one that runs, one that
waits and one behind it, or two that run while a third waits. Jobs of one and of
two cores with limits of one and two make every relation between what is
free and what the head of the queue needs. Exits and crashes are not counted. A request for no core or
fewer is accepted by the code; the proofs cover it (`CoreCounts` is any set of integers), the runs
do not.

Files: one job with each of three requests and a second that shares its output directory; between them
every command syntax with a name of its own, every way to give an input and every option of cleaning.
One retry, where the code has three; directories of five files, of which a copy stops after four
or takes them all.

Table: an address that is used again and an id that is not, or the reverse, need two of each. Every
state is one of two: RunningLocal, which can be canceled, and Canceled, which a filter hides.
Settings: two addresses, and of names `NoName`, one without a dot and one that comes back
as the first, make every rename, replacement and refusal between two queues and every way for two files to come
to one name; at most `MaxThings` = 5 queues, programs, dialogs and files at a time. One type
and one listing are checked; the proof covers all types, names and listings. Handlers: one that is registered by a
client under the dialog and one that the user adds or edits; one nested loop; a second loop makes
the outer one end later, as described below. Session: two clients on two addresses
have one take the address the other gave up; two requests of each, of two in all, make every pair of
requests; one restart has ids given before and after. UIT: one id the parser
reads and the one it gives when it cannot (-1); a directory with a file and a directory in it.

`CHECK_DEADLOCK FALSE` in all but the remote queue's configurations: a local queue whose jobs are
over, clients that have sent their requests, or a program that has died have nothing more to do.
The remote queue's timers never stop.

Symmetry is used only in runs without liveness properties: in jobs, clients and addresses. The
local queue has none, because ids are ordered.

### Fairness

`RemoteQueue`: weak fairness of the timers' actions, since QTimer fires as long as the
event loop runs; of completions and of the status reply, since an ssh
process ends, if only by its own timeout; and of the scheduler. None of users,
settings or faults. `RemoteQueueLive` excludes `reconfigure` (with no host
name the update flag is set and never cleared, remotessh.cpp 320-328) and
`filesMissing` (mkdir and copy alternate for ever).

`LocalQueue`: weak fairness of the 100 ms timer, and for each job that its process,
once started, reports started or an error, and that a computation, once running,
ends. The last is an assumption about users' programs, not about MoleQueue; without
it a job behind one that runs for ever waits for ever. `LocalQueueLive` leaves out
`setCores`, because a limit lowered below what a waiting job needs stops the queue.

`ServerSession`: weak fairness of accepting and of reading on each side, since sockets
that hold data wake the event loop. None of clients' sending, queues, users, or of a server
that comes back.

`UitQueue`: weak fairness of the answers to the requests of an update, of the user who presses Enter in a
dialog that stays, and of closing message boxes; strong fairness of a login's end,
because the service may ask again and again: a user who is asked for ever in the end succeeds or gives
up. Without it an update that waits for a login waits as long as the service asks.

## Proofs

`RemoteQueueProofs` proves for every set of jobs, every set of scheduler ids and
every choice of events that `TypeOK`, `SingleStage`, `IndexConsistent` and
`TrackedIsActive` are invariants of `Spec`, from `RemoteQueueAssumption` alone.
`SingleStage` is not inductive: that a job being registered is not in the table
under another id follows from `IndexConsistent`, and that no count is negative
from the types. `IInv` is the conjunction of the four; `InitIInv` and `NextIInv`
make it inductive. An activity excludes every other of its job (`ConnectionAlone`,
`PendingAlone`, `TrackedAlone`); a step leaves most jobs `Untouched` and the one it is
about with one activity at most, and `Preservation` concludes `IInv'`. The lemmas
`RetryStep`, `ContinueStep`, `IgnoreStep`, `EndStep` and `HandOver` are the return
paths the slots share.

`LocalQueueProofs` proves for every finite set of jobs, every core count and limit and every
choice of events that `TypeOK` and `FifoOrder` are invariants of `Spec`. `FifoOrder` is not
inductive: that a new job goes behind all others needs that ids are given in order
(`IdsInOrder`) and that everything the queue, its processes and its file name has
been created (`OnlyCreated`); that it survives a restart needs that the list in the
file is in order too. `IInv` is the conjunction, with one lemma per action and lemmas about
appending to, cutting and joining sequences in order. With `"crash"` not among the events
`EndedSafe` proves `EndedIsOver`, and with neither `"crash"` nor `"program"` `HeldSafe` proves
`HeldWhileActive`: every step `Concerns` one job, or takes entries from the queue
(`CheckHeld`), or is a clean restart (`ExitHeld`, which needs that QMap::keys lists every
running job, `KeysComplete`), or leaves states and queue alone (`Idle`). `StartsAffordable` is proved for a queue
whose jobs nobody removes (`StartsSafe`), and for every queue of the processes whose jobs still exist
(`CoresCounted`). Cores are sums over sets, which the library defines by recursion. What holds of all sums
(`SumOneMore`: one element more adds its number, in whatever order the recursion takes them) is proved
without induction: a set of numbers has a least one (`LeastNumber`), so a claim that failed would fail for
a smallest set. With it the loop's count of the cores left is right after every entry (`CountIsRight`), and the last
entry started was compared with it (`CheckAffords`). The hypotheses on events are necessary, as the entries on
crashes, programs and removed jobs below show.

`QueueConfigProofs` proves for any addresses, any number of names, any of the types, settings and
open dialogs that `NamesAgree` (`NamesSafe`) and `SurvivesQuit` (`QuitSafe`) are invariants of `Spec`, from
`QueueConfigAssumption` and from `NullAssumption`, that Null is no record. `NamesAgree` is not
inductive: a program that is renamed looks up the queue it belongs to and has its file written, so
`IInv` adds `ProgramsHaveQueues`, that this queue exists, and `FilesOK`, that no file of the directory is one a
start would refuse: `KeysSuffice` compares class by class the keys written with those asked
for. One lemma per action shows that it keeps its parts, crashes that cut files among them. `SurvivesQuit` then
holds in each state with `IInv`: `OneOfAName` shows that a file has one writer, `WrittenFields` what is
in it, and as no file is refused nothing takes away the queue it makes but a file listed later
under the same base name, which the property excepts. Of names it is assumed only that a base name has no dot
(`FileNameAssumption`).

The second half of `RemoteQueueProofs` proves that every step of the remote queue is a step of the abstract
`JobLifecycle` or a stutter (`Refinement`), under the mapping TLC checks. `StageOf` reads a job's stage off its
activities and its state, `FailuresOf` its failures off the tracker; `IInv` gives what each value means in terms of
the variables (`StageTable`), and each action has an `...Effect` lemma: `Moves(j)` for the job it is about,
`Framed(k)` for the others. The mapping needs a fact `IInv` does not contain, that a job not yet created has
no failures (`NoEarlyFailure`). On the stages rest four more:

- `FinishedNotRevived`, provided that no line of the scheduler's listing reads as Finished; PBS, SGE and
  SLURM have no such line; OAR has, and the queue then goes on following a job it shows as Finished.
  `FinishedIsOver`, that a finished job is at its finalization or let go, makes it inductive.
- `LaunchesBounded`, from `StartsCounted`: a job that is pending or being submitted has been launched at
  most as often as it has failed, any other at most once more than it may fail.
- `NoOrphan`, provided that kill commands work, answers parse and clients set no queueId: the three
  reasons the code has to let a job go silently, each one an entry below. `IdsOwned` (an id names one job)
  and `SettledIsFinal` (a stage that is over goes with a state that is over) are the strengthening.
- `FinishedHasLeft`, with readable status lines and none that reads as Finished. With two jobs it is false, and
  `FinishedLeaves` says that there is one reason: for any number of jobs it holds as long as no job is filed
  while a request that does not name it is in flight (`AllAskedFor`). `Registered`, that ids in `m_jobs` were given
  out, and `HasLeft`, that fetched jobs are gone from the scheduler, are the strengthening. With one
  job `AllAskedFor` is an invariant (`LoneFinishedLeaves`), because the refinement keeps a job that has been asked
  about from going back to its submission (`AskedIsPast`).

`UitQueueProofs` proves all four safety properties of `UitQueue` for any jobs, ids and retries and any
directory tree, from `UitQueueAssumption`: that every entry is below the root, that `.` and `..` are no
entries of their own and that the test of the connection is a request of its own. `UInv` is the types, `SessionInv`
(what requests and the login owe each other; `NobodyWaitsForNothing` is inductive with it) and `JobInv(j)`: a job has
one place, somebody goes on with it, nothing is done with it before it is created, and what its transfer has left to do
covers the tree below what it has done (`Shaped`). The last is why `TransfersAreComplete` holds: when nothing is
left, what is done is closed under children, hence all.

`ServerSessionProofs` proves all seven safety properties of `ServerSession` for any clients, connections,
numbers of jobs, requests and restarts, with sequences of packets of any length, from `SessionAssumption`. `SInv` is
the types and, for the process, `Process`; for a connection, `Wire` (who may have sent what is on it) and `Exact` (a
request that waits is on the wire once, itself or as its reply: `Answered`); `OneOpen` and `WaitsOpen` on the clients'
side; and for a job `Recorded` (what is on disk), `Routed` and `Prepared`. `Routed` contains the chain of states from
the one the client knows to the present one (`Chained`) and the reply still to come (`Awaited`); `Prepared` that
notifications before that reply do not exist (`Introduced`). None of these survives a step alone: a route is
good because the connection is open at the server's end, a chain ends at the present state because every change is
sent along the route. The first part of the module says what a packet more and a packet less do to the predicates on
sequences, so that the lemmas of the actions only say what is sent and what is read. The last part is about the
messages themselves. `AnswersAreFinal` and `AnswersAreUnderstood` hold of every JSON object, with whatever members
and values, where the run looks at those built from a few; `MessagesAreUnderstood` (`MessagesAreRead`) follows
from them and from one lemma for each type of message that it reads back as what it was (`RequestSurvives` and the
others, for any method, id, result and error, and the four kinds of params the model tells apart).

`JobTableProofs` proves the three properties of `JobTable` for any jobs, states, filters, windows and counts and any
finite set of addresses, from `JobTableAssumption`, `NullAssumption` (Null is no address and no job) and
`ErrorLogAssumption`. `IInv` is `TypeOK`, in which the list, the map, the objects and the files agree (`StoreOK`) and what
a menu or box holds are references, valid or not (`Question`), with the three. `TableIsCurrent` rests on one lemma
(`RowsStep`): what the code tells the table is right when it is the rows and the number of jobs of the state the
step leads to. `SyncedIsOnDisk` rests on `SyncStep`: saving changes nothing of a job but `needsSync`, and what it does not
leave to save is in its file. `LoadStep` goes from the files to a list in which all of it holds again. The address a
job is given is one nothing is at, so a file's name has one owner; this is where the agreement is needed.

`JobFilesProofs` proves `NothingIsLost` (`ResultsStay`) and `FinishedIsDelivered` (`OutputIsDelivered`) for any
jobs, requests, programs, retries and events but `"oddCodes"` and `"firstIdIgnored"` (`AnswersRead`), and
`InputsAreSent` (`InputsArrive`) for those but `"partialCopy"` and `"writeFails"` too (`Intact`), from `JobFilesAssumption` and with
banners on OAR's hosts only: TLC finds the properties violated without these hypotheses. Which copies fail, and after how
many files, is open, and so is what becomes of the files on the client's disk. `JobInv(j)` ties the stage a job is at to what the scheduler knows of it (`RemoteStage`, `LocalStage`),
says where its result is until it was handed over (`ResultStays`) and that it was, once it is settled
(`IsDelivered`); `InputsOf(j)` adds where the inputs are whole. Both were first checked as invariants of the run,
also with copies cut after each of the five files. A step `Concerns` one job and leaves the others `Framed`; what is in the
output directory, which jobs share, is not replaced (`Grown`), and this is why no job harms what another delivered. The
answer of a scheduler is the exception, one step that goes through all followed jobs in a loop, each of which
may finish and be copied. The loop is a recursive function: `OneMore` is one pass, `PassesExist` that
the function it describes exists, and `AfterUpdateFacts` goes through all passes by the least number of
jobs for which the claim would fail, as for the sums of the local queue.

`OpenWithProofs` proves `CleanMeansSame` for any offers, addresses, bounds and patterns, from `OpenWithAssumption`: ids
are given in order and a client sends a list of texts as patterns. The property has the types as its first
part, strong enough to be inductive: the ids not yet used are the last ones, the manager lists no factory twice and none
that is deleted or about to be, the dialog was loaded from ids that are used, a box asks about a row there is.
`ReplaceStep` is the lemma on the manager: what is replaced leaves the list, what is new is put where nothing has been. So a
client never puts a factory where the dialog was loaded from, and an untouched dialog stays right (`DialogStays`).

Only model-checked:

- `ScriptIsExpanded`: the replacement of keywords is a fold over texts whose values may name keywords again, and it is
  right for the templates the program has and the values the run gives, not for every one: a client's value that
  holds a keyword is replaced or not in the order of a hash, as described below. So it is a fact about these texts,
  found by evaluating it, and has no proof for all of them;
- everything temporal that needs fairness (`UpdateEnds`, `EventuallyAnswered`, `EventuallyTold`,
  `EventuallyReleased`, `EventuallyServed`), which this prover cannot do.

## Met while modelling

Where the code does not do what its documentation, or a careful reader, expects. The definitions named
are in the modules and are checked by no run, because the code violates them; the other
entries were read off the code while translating it.

Remote queues:

- A job canceled while scp or ssh runs for its submission is
  shown as Canceled, "Job has been terminated at a user request" (molequeueglobal.h 62), and submitted
  nevertheless (remote.cpp 174-178; `CanceledIsFinal`).
- `handleQueueUpdate` compares the reply with the ids in `m_jobs` when
  it arrives, not with those asked for; a job registered in between is taken to
  have left the queue (remotessh.cpp 360, 637; `FinishedHasLeft` with two jobs).
- mkdir and copy alternate for ever, uncounted, when the file scp misses is a local one
  (remotessh.cpp 219-224; `SubmissionEnds`), though "Once a job fails three times, it will no
  longer retry" (queue.h 416-417). `addJobFailure` allows a third retry besides (queue.cpp 523).
- With no host name the update flag stays set without a request (remotessh.cpp 320-328;
  `CheckingMeansRequest`). SshCommand connects `finished` and not `error`, so an ssh that cannot be started
  ends neither its job's stage nor the update.
- A job to be retried is shown as Error, "terminated due to an error"
  (molequeueglobal.h 64), until it is Submitted after all (remotessh.cpp 235).
- `jobIdMap` is written with the settings at exit (queue.cpp 211), the pending list not at all
  (remote.cpp 54), job states every 20 s: after a crash a submitted job may be followed by nobody,
  and a stale entry finalizes a job again.
- `Queue::jobAboutToBeRemoved` removes `job.queueId()` from `m_jobs` of
  every queue (queue.cpp 536), although ids of different schedulers coincide.

Local queue:

- A job removed while it runs keeps its process and no longer counts, so its cores are given away
  twice (local.cpp 303-307). `queue.h` 360-361 asks subclasses that hold state about jobs to
  reimplement `jobAboutToBeRemoved`; QueueLocal does not.
- A waiting job whose program is gone is taken from the queue, not started, and shown as queued
  for ever (local.cpp 321-322).
- `jobsToResume` is not rewritten when jobs finish and is read without a look at their state, so a
  crash runs a finished job again (local.cpp 128; `FinishedNotRerun`); a job queued since the last exit
  is then in no queue (local.cpp 83-88).
- A job that asks for more cores than there are stays at the head and stops every job behind it
  (local.cpp 328); one that asks for none or fewer is free (jobdata.cpp 141 checks nothing).

Files and schedulers:

- Additional inputs are looked for before they are written, the main one is not: a path that names
  nothing gives an empty file and a launched job. A main input whose path is the target itself is truncated
  before it is read.
- To be looked for is to exist (queue.cpp 458): a directory, or a file that cannot be opened, gives an empty
  additional input (filespecification.cpp 172-177), and the job is launched.
- Whether an input file could be written nobody asks (queue.cpp 438 and 479, filespecification.cpp 139-141): a job
  is launched without it, with an old one or with a part of it (`InputsAreSent` with `"writeFails"`).
- Inputs go through a QString and toLocal8Bit (filespecification.cpp 141, 179), scripts through toLatin1
  (queue.cpp 500): bytes that are no text and characters those encodings lack do not arrive.
- The first id of OAR's request has no `-j` before it (oar.cpp 97-98). If oarstat does not take it for a job's, the
  listing leaves it out and its job is taken to have ended while it waits or runs.
- A copy to the host repeated after one that stopped half way goes into the directory that is there
  already; the first, partial one is what runs.
- A login banner is merged into the answer of a submission, and the parsers that look at its beginning (SGE,
  SLURM, PBS) give the id 0.
- Words the parsers do not know (SGE `hqw`, `Eqw`, `dr`, others of SLURM, OAR `h`) finalize a job that is still in
  the scheduler; OAR's `t` and `f` show it as Finished before its output is fetched. Exit codes for an id
  that is gone are known for PBS only.
- Two jobs with the same output directory: the second fails, part of it copied. An output
  directory inside the working directory is copied into itself.
- The lines of an unset wall time stay when they are the first, the last or directly follow one another, though
  templatekeyworddialog.cpp 86-93 says they are removed; `$$remoteWorkingDir$$` is not replaced in a
  program's own template; a client's value that holds a keyword is replaced or not in the order of a hash.
- OAR's default template has its walltime written out, and leaves the job's directory.
- Cleaning the local directory takes the state file with it until the next sync; fetching
  overwrites it with the one that was sent.

Jobs, table, log:

- A reference whose id is gone is valid again for a new job at the same address
  (jobreferencebase.cpp 59-63).
- A state file is truncated before it is written, and the result of the write is not looked at; a torn
  file is not written again before the job changes. A rename that fails brings a removed job back.
- Errors logged while the settings are read are counted before anybody is connected, and never shown
  (`CountedIsShown`). The log window of one job silences and clears the errors of all.
- `clearFinishedJobs` collects its jobs before it asks.

Settings:

- A rename removes the file of the new name and leaves that of the old one: the old queue is back at the
  next start. The queue a rename replaces lives on, and a program renamed in it overwrites the file of the
  one in its place.
- Dialogs stay open on queues that were deleted, and removed programs are never deleted.
- `addQueue` writes no file. When a file can be read and is refused at the start, the file of its base name is
  deleted (removeQueue), be that the one refused or another's.
- A refused Save followed by a reset loses edits; the program dialog closes without `finished()`.
- Names may hold dots (molequeueglobal.h 210-211), and a start calls a queue by what is before the first
  (queuemanager.cpp 67): `cluster.example` comes back as `cluster`. Of `a.b` and `a.c` the one listed first is
  deleted by the other (69), and so is a queue `a` when a file `a.b.mqq` is listed after it, be
  that an old one or one a crash has cut, from which no type can be read. The quit after that writes `a.mqq`, and the next start
  decides between it and the old files again.
- The expression for valid names has the range `A-z` in the class of its first character, which lets `_`, `^` and others
  in; an empty new name makes a hidden file.

Handlers:

- A refused Save hides the dialog with its edits, which the next opening drops (`HiddenIsClean`).
- Originals that a client unregistered are deleted twice by Apply (openwithmanagerdialog.cpp 229), and come
  back.
- `handler` is read uninitialised when a client unregisters a name that is not there (server.cpp 748).
- A handler may be freed while it waits in its loop (openwithactionfactory.cpp 200-205); of two nested
  loops the outer one's answer in time is reported as a timeout; error replies are only timed out.

UIT:

- An upload's error is dropped by a cast that never succeeds (queueuit.cpp 275); a failed kill leaves
  a job nobody follows; job numbers that do not parse are all -1 and overwrite each other. These are the three errors
  `OthersAreFollowed` excepts.
- A job removed during its upload crashes the program (queueuit.cpp 323).
- Escape closes the credentials dialog without `canceled()`, and accepting one question hides the next: the
  login is lost, and with it every request (`auth = "lost"`).
- The connection test's message box runs an event loop while the session's mutex is held; a request that fails
  then waits for it for ever (`program = "deadlocked"`).
- A list of jobs that is not valid is only logged, and every job is finalized. So is a job listed with a number
  but no host, which reads as job 0 (jobeventlist.cpp 102-104), and `isValid` is false for a list that was copied (139).
- The last event of a job counts, in the order of the list: `lessThan`, by time, is never called
  (queueuit.cpp 482). A status that is not one letter shows a job that is still followed as Error (845).

Server:

- A packet read before all of it has arrived is taken for an empty one and its rest for another
  (localsocketconnection.cpp 83-103); the client's request is then never answered. The client library reads
  in the same way (jsonrpcclient.cpp 145-155).
- `m_connectionLUT` is not cleared by `stop()`; a second server that is ended by its user's answer has written
  its id counter over that of the first (mainwindow.cpp 106-112).
- With two transports a listener that fails starts the server again while it starts (server.cpp 145).
- An error whose request could not be parsed has a null id, and nobody to take it; the entries of
  `Client::m_requests` are never removed.

## Not modelled

- The restart of a remote queue, and two queues at once. What a run could ask of them is false by
  inspection, as listed above, or says no more than the assignments that read and write
  `jobIdMap`; the state that does survive a restart is checked in `LocalQueue`, `JobTable`, `QueueConfig` and
  `ServerSession`.
- Freed memory: where the code goes on using what it deleted, a model ends (`OpenWith`, `UitQueue`) or the step
  is left out (dialogs of deleted queues).
- Packets that reach a client in part, and what the UIT service answers to an upload, as said above.
- Texts: JSON, the texts inside XML elements, the output of ssh and schedulers are what their parsers tell apart, and names
  members of small sets; patterns match or do not.
- Processes that outlive a crashed program; a second transport (ZeroMQ), plugins, the Python client; the
  UIT host list, DirectoryDelete (never started) and `uit/queueuit.cpp` (not compiled).
- Sorting, selection, geometry, tray icon, terminal and file dialogs, command-line arguments.

## Plan

The modules planned at first are all here, in part under other names: `JobReferences` became
`JobTable`, `Rpc` became `JsonRpcMessages`, and `QueueSet` and `RemoteRestart` were given up for the
reason above. `QueueConfig`, `JobFiles`, `LaunchScript`, `Scheduler` and `ErrorLog` are additions.

What is left is under "Only model-checked" in the section on proofs. No further run is planned: every run answers a
question of its own and a new one would have to replace it.
