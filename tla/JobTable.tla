------------------------------- MODULE JobTable -------------------------------
(***************************************************************************)
(* The jobs of the program and what the user sees of them: JobManager with *)
(* the state files it keeps, Job references that outlive their job, the    *)
(* table of jobs with its filters and counts, its context menu and the     *)
(* boxes that ask before jobs are canceled or removed.  Queues are here    *)
(* only as what changes the state of a job.  One thread; menus and boxes   *)
(* run event loops of their own, in which jobs come, change and go.        *)
(* (JobManager, JobData, JobReferenceBase, JobItemModel, JobTableProxy-    *)
(* Model, JobTableWidget, JobView, the job action factories, MainWindow.)  *)
(***************************************************************************)
EXTENDS ErrorLog, JobStates, FiniteSets, Functions

CONSTANTS
    Addresses,   \* where JobData objects are put; freed ones are used again
    Null,
    Progress,    \* the states queues and clients give to jobs in a run
    Hides,       \* the values of hideFromGui jobs are submitted with
    Filters,     \* the filters the user sets in a run, the first one among them
    Events       \* the rare events of a run

ASSUME JobTableAssumption ==
    /\ IsFiniteSet(Ids) /\ Ids = 1 .. Cardinality(Ids)
    /\ IsFiniteSet(Addresses) /\ Null \notin Addresses
    /\ Progress \subseteq JobState /\ Hides \subseteq BOOLEAN

VARIABLES
    heap,          \* address -> the JobData there, or Null
    m_jobs,        \* the jobs of the table's source model, in any order
    m_moleQueueMap,\* MoleQueue id -> address, or Null
    m_moleQueueIdCounter,
    file,          \* id -> mqjobinfo.json in the job's directory
    filter,        \* JobTableProxyModel: what it lets through; saved at once
    shown,         \* the jobs the proxy model has a row for
    counts,        \* the numbers in the status bar: all jobs, hidden jobs
    asked          \* the open context menu or message box, and its jobs

storeVars == <<heap, m_jobs, m_moleQueueMap, m_moleQueueIdCounter, file>>
tableVars == <<shown, counts>>
vars == <<storeVars, filter, tableVars, asked, logVars>>

-----------------------------------------------------------------------------
(* Jobs and references to them.                                            *)

\* What is saved of a job; `queueId` tells whether a scheduler knows it.
States == Progress \cup {"Canceled"}
Data   == [id : Ids, state : States, hideFromGui : Hides, queueId : BOOLEAN]
Object == [id : Ids, state : States, hideFromGui : Hides, queueId : BOOLEAN,
           needsSync : BOOLEAN]

ASSUME NullAssumption == Null \notin Object

DataOf(j) == [id |-> j.id, state |-> j.state, hideFromGui |-> j.hideFromGui,
              queueId |-> j.queueId]
JobData(data, needsSync) ==
    [id |-> data.id, state |-> data.state, hideFromGui |-> data.hideFromGui,
     queueId |-> data.queueId, needsSync |-> needsSync]

\* mqjobinfo.json: none, whole, not written to its end, or only emptied.
NoFile == [at |-> "none"]
Whole(data) == [at |-> "whole", job |-> data]
Torn == {[at |-> "partial"], [at |-> "empty"]}
Unparsable(id) == file[id].at = "partial"

Ref(a) == [addr |-> a, id |-> heap[a].id]

\* isValid: by the id while the map has it, else by the address alone.
IsValid(r) == IF m_moleQueueMap[r.id] # Null THEN m_moleQueueMap[r.id] = r.addr
                                             ELSE r.addr \in m_jobs

Nobody  == [kind |-> "none"]
NoMenu  == asked = Nobody
Valid(refs) == {r.addr : r \in {q \in refs : IsValid(q)}}

-----------------------------------------------------------------------------
(* The table.                                                              *)

\* The status boxes of the filter.
StatusOf(state) ==
    CASE state \in {"Unknown", "None", "Accepted"}    -> "new"
      [] state \in {"QueuedLocal", "QueuedRemote"}    -> "queued"
      [] state \in {"RunningLocal", "RunningRemote"}  -> "running"
      [] OTHER                                        -> state
Statuses == {StatusOf(s) : s \in JobState}

NoFilter == [statuses |-> Statuses, showHidden |-> TRUE, terms |-> {}]

\* JobItemModel::data: the words in the columns of a job.
Words(j) == {StatusOf(j.state)} \cup (IF j.queueId THEN {"queueId"} ELSE {})

\* filterAcceptsRow.
Accepts(f, j) ==
    /\ j.hideFromGui => f.showHidden
    /\ StatusOf(j.state) \in f.statuses
    /\ \A t \in f.terms : (t.word \in Words(j)) # t.negated

\* The proxy model has rows for `rows` now, of `n` jobs; a changed number of
\* rows changes the counts.
ShowRows(rows, n) ==
    /\ shown' = rows
    /\ counts' = IF rows = shown /\ n = Cardinality(m_jobs) THEN counts
                 ELSE [total |-> n, hidden |-> n - Cardinality(rows)]

\* dataChanged of one row: it is filtered again.
DataChanged(a, j) ==
    ShowRows(IF Accepts(filter, j) THEN shown \cup {a} ELSE shown \ {a},
             Cardinality(m_jobs))

-----------------------------------------------------------------------------
(* JobData::save and the state files.                                      *)

\* What may come of saving j: it is written; the disk is full, which save does
\* not notice; the file cannot be opened; or what is there cannot be parsed.
Outcomes(j) ==
    IF Unparsable(j.id)
    THEN {[file |-> file[j.id], needsSync |-> TRUE]}
    ELSE {[file |-> Whole(DataOf(j)), needsSync |-> FALSE]}
         \cup (IF "diskFull" \in Events
               THEN {[file |-> [at |-> "partial"], needsSync |-> FALSE]}
               ELSE {})
         \cup (IF "unwritable" \in Events
               THEN {[file |-> file[j.id], needsSync |-> TRUE]} ELSE {})

NeedSync(h, as) == {a \in as : h[a].needsSync}

\* A mutant: the flag goes down also when the file cannot be opened.
Flag(o) == FALSE

\* m_needsSync after save.
FlagAfter(o) == o.needsSync

\* syncJobState for the jobs at `as` of the heap h, whose files change.
SyncJobState(h, as, entries) ==
    \E o \in [NeedSync(h, as) -> UNION {Outcomes(h[a]) : a \in NeedSync(h, as)}] :
       /\ \A a \in DOMAIN o : o[a] \in Outcomes(h[a])
       /\ heap' = [a \in Addresses |->
                     IF a \in DOMAIN o THEN [h[a] EXCEPT !.needsSync = FlagAfter(o[a])]
                                       ELSE h[a]]
       /\ file' = [id \in Ids |->
                     IF \E a \in DOMAIN o : h[a].id = id
                     THEN o[CHOOSE a \in DOMAIN o : h[a].id = id].file
                     ELSE file[id]]
       /\ LET errors == Cardinality({a \in DOMAIN o : o[a].needsSync})
          IN  Log(entries + errors, errors)

\* Every 20 seconds.
SyncTimer ==
    /\ NeedSync(heap, m_jobs) # {}
    /\ SyncJobState(heap, m_jobs, 0)
    /\ UNCHANGED <<m_jobs, m_moleQueueMap, m_moleQueueIdCounter, filter, tableVars,
                   asked>>

-----------------------------------------------------------------------------
(* Jobs come and change.                                                   *)

\* newJob: Server::jobAboutToBeAdded gives the job its id before the table
\* hears of it; then every job that needs it is saved.
NewJob(a, state, hide) ==
    LET id == m_moleQueueIdCounter + 1
        j  == JobData([id |-> id, state |-> state, hideFromGui |-> hide,
                       queueId |-> FALSE], TRUE)
    IN  /\ id \in Ids /\ heap[a] = Null
        /\ m_moleQueueIdCounter' = id
        /\ m_jobs' = m_jobs \cup {a}
        /\ m_moleQueueMap' = [m_moleQueueMap EXCEPT ![id] = a]
        /\ ShowRows(IF Accepts(filter, j) THEN shown \cup {a} ELSE shown,
                    Cardinality(m_jobs) + 1)
        /\ SyncJobState([heap EXCEPT ![a] = j], m_jobs \cup {a}, 0)
        /\ UNCHANGED <<filter, asked>>

\* A mutant: jobUpdated reaches the table only when the state changes.
UnlessOnlyId(a, j) ==
    IF j.state = heap[a].state THEN UNCHANGED tableVars ELSE DataChanged(a, j)

\* jobUpdated, which jobStateChanged is connected to.
JobUpdated(a, j) == DataChanged(a, j)

Modify(a, j) ==
    /\ heap' = [heap EXCEPT ![a] = JobData(j, TRUE)]
    /\ JobUpdated(a, j)
    /\ UNCHANGED <<m_jobs, m_moleQueueMap, m_moleQueueIdCounter, file, filter, asked>>

\* setJobState, for a queue: nothing for the same state.
SetJobState(id, state) ==
    /\ m_moleQueueMap[id] # Null
    /\ LET a == m_moleQueueMap[id] IN
       /\ heap[a].state # state
       /\ Modify(a, [heap[a] EXCEPT !.state = state])
    /\ Log(1, 0)

\* setJobQueueId.
SetJobQueueId(id) ==
    /\ m_moleQueueMap[id] # Null
    /\ LET a == m_moleQueueMap[id] IN
       /\ ~heap[a].queueId
       /\ Modify(a, [heap[a] EXCEPT !.queueId = TRUE])
    /\ UNCHANGED logVars

-----------------------------------------------------------------------------
(* Jobs go.                                                                *)

MapWithout(ids) == [id \in Ids |-> IF id \in ids THEN Null ELSE m_moleQueueMap[id]]

\* removeJob for each of `as`: the job is saved and its file renamed, so that
\* it is not loaded again.  Where the directory cannot be written neither
\* happens; a file that cannot be parsed is renamed all the same.
RemoveJobs(as) ==
    \E failed \in SUBSET as :
       LET ids    == {heap[a].id : a \in as}
           errors == Cardinality({a \in as : a \in failed
                                             \/ Unparsable(heap[a].id)})
       IN  /\ failed # {} => "unwritable" \in Events
           /\ m_jobs' = m_jobs \ as
           /\ m_moleQueueMap' = MapWithout(ids)
           /\ heap' = [a \in Addresses |-> IF a \in as THEN Null ELSE heap[a]]
           /\ file' = [id \in Ids |-> IF \E a \in as \ failed : heap[a].id = id
                                      THEN NoFile ELSE file[id]]
           /\ ShowRows(shown \ as, Cardinality(m_jobs) - Cardinality(as))
           /\ Log(errors, errors)
           /\ UNCHANGED m_moleQueueIdCounter

-----------------------------------------------------------------------------
(* The user: filters, menus and boxes.                                      *)

\* The filter line and AdvancedFilterDialog, which is not modal: whatever is
\* set is saved, and all jobs are filtered again.
SetFilter(f) ==
    /\ NoMenu
    /\ f # filter
    /\ filter' = f
    /\ ShowRows({a \in m_jobs : Accepts(f, heap[a])}, Cardinality(m_jobs))
    /\ UNCHANGED <<storeVars, asked, logVars>>

Ask(question) ==
    /\ asked' = question
    /\ UNCHANGED <<storeVars, filter, tableVars, logVars>>

\* contextMenuEvent at row a: the factories take the selected jobs, or the one
\* under the cursor; jobs that can be killed now are kept apart.
ContextMenu(a, selected) ==
    /\ NoMenu
    /\ Ask([kind |-> "menu", cursor |-> Ref(a), refs |-> {Ref(b) : b \in selected},
            kill |-> {Ref(b) : b \in {c \in selected :
                                        heap[c].state \in GuiKillable}}])

\* The actions of the menu; those without a job are not in it.
ChooseRemove == /\ asked.kind = "menu" /\ asked.refs # {}
                /\ Ask([kind |-> "remove", refs |-> asked.refs])
ChooseKill   == /\ asked.kind = "menu" /\ asked.kill # {}
                /\ Ask([kind |-> "kill", refs |-> asked.kill])
ChooseViewLog ==
    /\ asked.kind = "menu"
    /\ IF ~IsValid(asked.cursor) THEN UNCHANGED logVars
       ELSE LET id == heap[asked.cursor.addr].id
            IN  id \in Watched /\ ShowLogWindow(id)
    /\ asked' = Nobody
    /\ UNCHANGED <<storeVars, filter, tableVars>>

\* clearFinishedJobs: the jobs are collected before the user is asked.
ClearFinishedJobs ==
    /\ NoMenu
    /\ Ask([kind |-> "remove",
            refs |-> {Ref(a) : a \in {b \in m_jobs : heap[b].state
                                                       \in {"Finished", "Canceled"}}}])

\* No, or the menu is closed.
Dismiss == ~NoMenu /\ Ask(Nobody)

ConfirmRemove ==
    /\ asked.kind = "remove"
    /\ RemoveJobs(Valid(asked.refs))
    /\ asked' = Nobody
    /\ UNCHANGED filter

\* Queue::killJob of every job that still is one: some end canceled at once,
\* the others when their queue has heard of it.
ConfirmKill ==
    /\ asked.kind = "kill"
    /\ \E as \in SUBSET Valid(asked.refs) :
          LET dead == {a \in as : heap[a].state # "Canceled"}
              j(a) == [heap[a] EXCEPT !.state = "Canceled"]
          IN  /\ heap' = [a \in Addresses |-> IF a \in dead THEN JobData(j(a), TRUE)
                                                            ELSE heap[a]]
              /\ ShowRows({a \in shown \cup dead :
                             a \in dead => Accepts(filter, j(a))}, Cardinality(m_jobs))
              /\ Log(Cardinality(dead), 0)
    /\ asked' = Nobody
    /\ UNCHANGED <<m_jobs, m_moleQueueMap, m_moleQueueIdCounter, file, filter>>

-----------------------------------------------------------------------------
(* The end of the program and the next start.                              *)

\* Where a new process may put the jobs with these ids.
Places(ids) == {at \in [ids -> Addresses] : IsInjective(at)}

\* loadJobState, from the files f, without those that cannot be parsed, which
\* are logged as errors.
LoadJobState(f) ==
    LET ids  == {id \in Ids : f[id].at = "whole"}
        torn == Cardinality({id \in Ids : f[id] \in Torn})
    IN  \E at \in Places(ids) :
           LET job(a) == f[CHOOSE id \in ids : at[id] = a].job
           IN  /\ m_jobs' = Range(at)
               /\ heap' = [a \in Addresses |->
                     IF a \in Range(at) THEN JobData(job(a), FALSE) ELSE Null]
               /\ m_moleQueueMap' = [id \in Ids |-> IF id \in ids THEN at[id]
                                                                ELSE Null]
               /\ shown' = {a \in Range(at) : Accepts(filter, job(a))}
               /\ counts' = [total  |-> Cardinality(m_jobs'),
                             hidden |-> Cardinality(m_jobs') - Cardinality(shown')]
               /\ asked' = Nobody
               /\ StartLog(torn)
               /\ file' = f
               /\ UNCHANGED <<m_moleQueueIdCounter, filter>>

\* Server::writeSettings saves what needs it, Logger::~Logger the log.
QuitAndRestart ==
    /\ NoMenu
    /\ logFile' = m_log
    /\ LoadJobState([id \in Ids |->
          IF \E a \in NeedSync(heap, m_jobs) : heap[a].id = id
             /\ ~Unparsable(id)
          THEN Whole(DataOf(heap[m_moleQueueMap[id]])) ELSE file[id]])

\* A crash, at worst between emptying a state file and writing it.
CrashAndRestart ==
    /\ UNCHANGED logFile
    /\ \/ LoadJobState(file)
       \/ \E a \in NeedSync(heap, m_jobs), t \in Torn :
             /\ ~Unparsable(heap[a].id)
             /\ LoadJobState([file EXCEPT ![heap[a].id] = t])

Init ==
    /\ heap = [a \in Addresses |-> Null] /\ m_jobs = {}
    /\ m_moleQueueMap = [id \in Ids |-> Null] /\ m_moleQueueIdCounter = 0
    /\ file = [id \in Ids |-> NoFile]
    /\ filter = NoFilter
    /\ shown = {} /\ counts = [total |-> 0, hidden |-> 0]
    /\ asked = Nobody
    /\ LogInit

Next ==
    \/ \E a \in Addresses, s \in Progress, hide \in Hides : NewJob(a, s, hide)
    \/ \E id \in Ids : \/ \E s \in Progress : SetJobState(id, s)
                       \/ SetJobQueueId(id)
    \/ SyncTimer
    \/ \E f \in Filters : SetFilter(f)
    \/ \E selected \in SUBSET shown, a \in shown :
          a \in selected /\ ContextMenu(a, selected)
    \/ ChooseRemove \/ ChooseKill \/ ChooseViewLog
    \/ ClearFinishedJobs \/ Dismiss \/ ConfirmRemove \/ ConfirmKill
    \/ NoMenu /\ LogNext /\ UNCHANGED <<storeVars, filter, tableVars, asked>>
    \/ QuitAndRestart \/ CrashAndRestart

Spec == Init /\ [][Next]_vars

-----------------------------------------------------------------------------
(* Safety.                                                                 *)

Refs == [addr : Addresses, id : Ids]

\* The list, the map and the objects agree, and ids are not given twice.
TypeOK ==
    /\ LogTypeOK
    /\ heap \in [Addresses -> Object \cup {Null}]
    /\ m_jobs = {a \in Addresses : heap[a] # Null}
    /\ m_moleQueueMap \in [Ids -> Addresses \cup {Null}]
    /\ \A a \in Addresses, id \in Ids :
          m_moleQueueMap[id] = a <=> heap[a] # Null /\ heap[a].id = id
    /\ m_moleQueueIdCounter \in Nat
    /\ \A id \in Ids : m_moleQueueMap[id] # Null \/ file[id] # NoFile
                         => id =< m_moleQueueIdCounter
    /\ file \in [Ids -> {NoFile} \cup Torn \cup {Whole(d) : d \in Data}]
    /\ \A id \in Ids : file[id].at = "whole" => file[id].job.id = id
    /\ asked \in {Nobody}
          \cup [kind : {"menu"}, cursor : Refs, refs : SUBSET Refs, kill : SUBSET Refs]
          \cup [kind : {"remove", "kill"}, refs : SUBSET Refs]

\* What the user sees is what there is: the table has the rows of exactly the
\* jobs its filters let through in their present state, and the status bar
\* counts them right, after whatever changes of jobs and filters.
\* (jobmanager.cpp 206-249, jobitemmodel.cpp 132-168, jobtableproxymodel.cpp
\* 64-240, jobtablewidget.cpp 143-148)
TableIsCurrent ==
    /\ shown = {a \in m_jobs : Accepts(filter, heap[a])}
    /\ counts = [total  |-> Cardinality(m_jobs),
                 hidden |-> Cardinality(m_jobs) - Cardinality(shown)]

\* A job that is not waiting to be saved is on disk as it is, but for a disk
\* that was full: what save could not do it will try again.
\* (jobdata.cpp 210-271, jobmanager.cpp 74-81)
SyncedIsOnDisk ==
    TypeOK /\ \A a \in m_jobs :
        ~heap[a].needsSync => file[heap[a].id] \in Torn \cup {Whole(DataOf(heap[a]))}
==============================================================================
