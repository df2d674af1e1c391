---------------------------- MODULE JobTableProofs ----------------------------
(***************************************************************************)
(* The table of jobs, the state files and the error label for any jobs,    *)
(* addresses, filters and log windows.                                     *)
(*                                                                         *)
(* The list, the map, the objects and the files agree (StoreOK); what      *)
(* boxes and menus hold are references, valid or not (Question); both are  *)
(* TypeOK, on which the three properties rest.  ShowRows is right when it  *)
(* is given the rows and the number of jobs of the next state, and saving  *)
(* changes of a job what is not saved of it; the actions are then taken    *)
(* one at a time.                                                          *)
(***************************************************************************)
EXTENDS JobTable, FiniteSetTheorems, TLAPS

-----------------------------------------------------------------------------
(* The inductive invariant.                                                *)

StoreOK ==
    /\ heap \in [Addresses -> Object \cup {Null}]
    /\ m_jobs = {a \in Addresses : heap[a] # Null}
    /\ m_moleQueueMap \in [Ids -> Addresses \cup {Null}]
    /\ \A a \in Addresses, id \in Ids :
          m_moleQueueMap[id] = a <=> heap[a] # Null /\ heap[a].id = id
    /\ m_moleQueueIdCounter \in Nat
    /\ \A id \in Ids : m_moleQueueMap[id] # Null \/ file[id] # NoFile
                         => id =< m_moleQueueIdCounter
    /\ file \in [Ids -> {NoFile} \cup Torn \cup {Whole(d) : d \in Data}]
    /\ \A id \in Ids : file[id].at = "whole" => file[id].job.id = id

Question == {Nobody}
    \cup [kind : {"menu"}, cursor : Refs, refs : SUBSET Refs, kill : SUBSET Refs]
    \cup [kind : {"remove", "kill"}, refs : SUBSET Refs]

LogInv == LogTypeOK /\ NotifiesTruly

\* SyncedIsOnDisk of the job j with the files f.
OnDisk(j, f) == ~j.needsSync => f[j.id] \in Torn \cup {Whole(DataOf(j))}
AllOnDisk == \A a \in m_jobs : OnDisk(heap[a], file)

IInv == /\ LogInv
        /\ StoreOK
        /\ asked \in Question
        /\ TableIsCurrent
        /\ AllOnDisk

LEMMA Parts == IInv <=> TableIsCurrent /\ SyncedIsOnDisk /\ NotifiesTruly
<1>1. TypeOK <=> LogTypeOK /\ StoreOK /\ asked \in Question
  BY DEF TypeOK, StoreOK, Question
<1>2. SyncedIsOnDisk <=> TypeOK /\ AllOnDisk
  BY DEF SyncedIsOnDisk, AllOnDisk, OnDisk
<1> QED BY <1>1, <1>2 DEF IInv, LogInv

-----------------------------------------------------------------------------
(* The log, its windows and the label.                                     *)

LEMMA LeastType ==
    ASSUME NEW a \in Nat, NEW b \in Nat
    PROVE  /\ Least(a, b) \in 0 .. b
           /\ a > 0 /\ b > 0 => Least(a, b) > 0
BY DEF Least

\* A label that is reset is not shown.
LEMMA LabelGoes ==
    ASSUME LogInv, label' = (label /\ m_newErrorCount = 0)
    PROVE  label' = FALSE
<1>1. m_newErrorCount \in Nat
  BY ErrorLogAssumption DEF LogInv, LogTypeOK
<1>2. ~(label /\ m_newErrorCount = 0)
  BY <1>1 DEF LogInv, NotifiesTruly
<1>3. (label /\ m_newErrorCount = 0) = FALSE
  BY <1>2
<1> QED BY <1>3

LEMMA LogStep ==
    ASSUME LogInv, NEW entries \in Nat, NEW n \in Nat, Log(entries, n)
    PROVE  LogInv'
<1>1. /\ MaxEntries \in Nat /\ ManyErrors \in Nat /\ ManyErrors > 0
      /\ m_newErrorCount \in 0 .. ManyErrors /\ m_log \in 0 .. MaxEntries
  BY ErrorLogAssumption DEF LogInv, LogTypeOK
<1>2. /\ m_log' \in 0 .. MaxEntries
      /\ m_newErrorCount' \in 0 .. ManyErrors
      /\ m_newErrorCount + n > 0 => m_newErrorCount' > 0
  BY <1>1, LeastType, m_newErrorCount + n \in Nat, m_log + entries \in Nat DEF Log, Kept
<1>3. /\ label' \in BOOLEAN
      /\ label' => label \/ n > 0
      /\ UNCHANGED <<m_silenceNewErrors, logFile, windows>>
  BY DEF Log, FirstNewErrorOccurred, LogInv, LogTypeOK
<1>4. LogTypeOK'
  BY <1>2, <1>3 DEF LogInv, LogTypeOK
<1>5. label' => m_newErrorCount' > 0
  BY <1>1, <1>2, <1>3 DEF LogInv, NotifiesTruly
<1> QED BY <1>3, <1>4, <1>5 DEF LogInv, NotifiesTruly

LEMMA StartLogStep ==
    ASSUME LogInv, NEW n \in Nat, StartLog(n), logFile' \in 0 .. MaxEntries,
           logFile \in 0 .. MaxEntries
    PROVE  LogInv'
<1>1. /\ MaxEntries \in Nat /\ ManyErrors \in Nat
  BY ErrorLogAssumption
<1>2. /\ m_log' \in 0 .. MaxEntries
      /\ m_newErrorCount' \in 0 .. ManyErrors
  BY <1>1, LeastType, logFile + n \in Nat DEF StartLog
<1>3. NoWindows \in [Windows -> {"none", "hidden", "shown"}]
  BY DEF NoWindows
<1>4. m_silenceNewErrors' = FALSE /\ label' = FALSE /\ windows' = NoWindows
  BY DEF StartLog
<1> QED BY <1>2, <1>3, <1>4 DEF LogInv, LogTypeOK, NotifiesTruly

LEMMA ShowStep ==
    ASSUME LogInv, NEW w \in Windows, ShowLogWindow(w)
    PROVE  LogInv'
<1>1. /\ windows' = [windows EXCEPT ![w] = "shown"]
      /\ windows \in [Windows -> {"none", "hidden", "shown"}]
      /\ m_silenceNewErrors' = (m_silenceNewErrors \/ windows[w] # "shown")
      /\ UNCHANGED <<m_log, logFile>>
      /\ m_newErrorCount' = 0
      /\ label' = (label /\ m_newErrorCount = 0)
  BY DEF ShowLogWindow, ResetNewErrorCount, LogInv, LogTypeOK
<1>2. label' = FALSE
  BY <1>1, LabelGoes
<1>3. /\ windows' \in [Windows -> {"none", "hidden", "shown"}]
      /\ windows'[w] = "shown"
      /\ m_silenceNewErrors' \in BOOLEAN
  BY <1>1 DEF LogInv, LogTypeOK
<1>4. m_newErrorCount' \in 0 .. ManyErrors
  BY <1>1, ErrorLogAssumption
<1> QED BY <1>1, <1>2, <1>3, <1>4 DEF LogInv, LogTypeOK, NotifiesTruly

\* The log window loses its reason to silence, and what was counted is seen.
LEMMA ResetStep ==
    ASSUME LogInv, ResetNewErrorCount, UNCHANGED <<m_log, logFile>>,
           windows' \in [Windows -> {"none", "hidden", "shown"}],
           \/ m_silenceNewErrors' = FALSE
           \/ UNCHANGED <<m_silenceNewErrors, windows>>
    PROVE  LogInv'
<1>1. m_newErrorCount' = 0 /\ label' = FALSE
  BY LabelGoes DEF ResetNewErrorCount
<1>2. m_newErrorCount' \in 0 .. ManyErrors
  BY <1>1, ErrorLogAssumption
<1>3. m_silenceNewErrors' => \E w \in Windows : windows'[w] = "shown"
  BY DEF LogInv, NotifiesTruly
<1>4. m_silenceNewErrors' \in BOOLEAN
  BY DEF LogInv, LogTypeOK
<1> QED BY <1>1, <1>2, <1>3, <1>4 DEF LogInv, LogTypeOK, NotifiesTruly

LEMMA LogNextStep == ASSUME LogInv, LogNext PROVE LogInv'
<1>1. MainLog \in Windows
  BY DEF Windows, MainLog
<1>2. ASSUME NEW w \in Windows, CloseLogWindow(w) \/ EscapeLogWindow(w)
      PROVE  LogInv'
  <2>1. /\ m_silenceNewErrors' = FALSE
        /\ windows' \in [Windows -> {"none", "hidden", "shown"}]
        /\ ResetNewErrorCount /\ UNCHANGED <<m_log, logFile>>
    BY <1>2 DEF CloseLogWindow, EscapeLogWindow, Leave, SilencedAfter, LogInv,
                LogTypeOK
  <2> QED BY <2>1, ResetStep
<1>3. ASSUME NEW w \in Windows, ActivateLogWindow(w) PROVE LogInv'
  BY <1>3, ResetStep DEF ActivateLogWindow, LogInv, LogTypeOK
<1>4. CASE ShowLogWindow(MainLog)
  BY <1>1, <1>4, ShowStep
<1>5. CASE ClearLog
  BY <1>5, ErrorLogAssumption DEF ClearLog, LogInv, LogTypeOK, NotifiesTruly
<1>6. CASE LabelClicked
  <2>1. CASE ShowLogWindow(MainLog)
    BY <1>1, <2>1, ShowStep
  <2>2. CASE ResetNewErrorCount /\ UNCHANGED <<m_silenceNewErrors, m_log, logFile, windows>>
    BY <2>2, ResetStep DEF LogInv, LogTypeOK
  <2> QED BY <1>6, <2>1, <2>2 DEF LabelClicked
<1> QED BY <1>2, <1>3, <1>4, <1>5, <1>6 DEF LogNext

LEMMA LogUnchanged == ASSUME LogInv, UNCHANGED logVars PROVE LogInv'
BY DEF LogInv, LogTypeOK, NotifiesTruly, logVars

-----------------------------------------------------------------------------
(* The store, the rows and the files.                                      *)

FileKind == {NoFile} \cup Torn \cup {Whole(d) : d \in Data}
FilesOK(f) == /\ f \in [Ids -> FileKind]
              /\ \A id \in Ids : f[id].at = "whole" => f[id].job.id = id

\* The objects h at the addresses `as`, each with an id of its own.
HeapOK(h, as) ==
    /\ h \in [Addresses -> Object \cup {Null}]
    /\ as = {a \in Addresses : h[a] # Null}
    /\ \A a, b \in as : h[a].id = h[b].id => a = b

\* j and k differ in needsSync only.
SameData(j, k) == DataOf(j) = DataOf(k)

LEMMA StoreFacts ==
    ASSUME StoreOK
    PROVE  /\ HeapOK(heap, m_jobs) /\ FilesOK(file)
           /\ \A a \in m_jobs : /\ a \in Addresses /\ heap[a] \in Object
                                /\ heap[a].id \in Ids
                                /\ m_moleQueueMap[heap[a].id] = a
           /\ \A a \in Addresses \ m_jobs : heap[a] = Null
           /\ \A id \in Ids : m_moleQueueMap[id] # Null =>
                /\ m_moleQueueMap[id] \in m_jobs
                /\ heap[m_moleQueueMap[id]].id = id
           /\ m_jobs \subseteq Addresses /\ IsFiniteSet(m_jobs)
           /\ Cardinality(m_jobs) \in Nat
<1>1. FilesOK(file)
  BY DEF StoreOK, FilesOK, FileKind
<1>2. m_jobs \subseteq Addresses /\ IsFiniteSet(m_jobs) /\ Cardinality(m_jobs) \in Nat
  BY JobTableAssumption, FS_Subset, FS_CardinalityType DEF StoreOK
<1>3. \A a \in m_jobs : /\ a \in Addresses /\ heap[a] \in Object
                        /\ heap[a].id \in Ids
  BY DEF StoreOK, Object
<1>4. \A a \in m_jobs : m_moleQueueMap[heap[a].id] = a
  BY <1>3 DEF StoreOK
<1>5. HeapOK(heap, m_jobs)
  BY <1>3, <1>4 DEF StoreOK, HeapOK
<1>6. \A id \in Ids : m_moleQueueMap[id] # Null =>
         m_moleQueueMap[id] \in m_jobs /\ heap[m_moleQueueMap[id]].id = id
  BY DEF StoreOK
<1>7. \A a \in Addresses \ m_jobs : heap[a] = Null
  BY DEF StoreOK
<1> QED BY <1>1, <1>2, <1>3, <1>4, <1>5, <1>6, <1>7

LEMMA SameFields ==
    ASSUME NEW j, NEW k, SameData(j, k)
    PROVE  /\ j.id = k.id /\ j.state = k.state /\ j.queueId = k.queueId
           /\ j.hideFromGui = k.hideFromGui
BY DEF SameData, DataOf

LEMMA SameAccepted ==
    ASSUME NEW j, NEW k, SameData(j, k), NEW f
    PROVE  Accepts(f, j) <=> Accepts(f, k)
BY SameFields DEF Accepts, Words

\* ShowRows is right for the rows and the number of jobs of the next state.
LEMMA RowsStep ==
    ASSUME TableIsCurrent, NEW rows, NEW n, ShowRows(rows, n),
           n = Cardinality(m_jobs'),
           rows = {a \in m_jobs' : Accepts(filter', heap'[a])}
    PROVE  TableIsCurrent'
<1>1. CASE rows = shown /\ n = Cardinality(m_jobs)
  BY <1>1 DEF ShowRows, TableIsCurrent
<1>2. CASE ~(rows = shown /\ n = Cardinality(m_jobs))
  BY <1>2 DEF ShowRows, TableIsCurrent
<1> QED BY <1>1, <1>2

\* One row is filtered again.
LEMMA ChangedStep ==
    ASSUME StoreOK, TableIsCurrent, NEW a \in m_jobs, NEW j, DataChanged(a, j),
           SameData(heap'[a], j), \A b \in m_jobs \ {a} : heap'[b] = heap[b],
           UNCHANGED <<m_jobs, filter>>
    PROVE  TableIsCurrent'
<1> DEFINE rows == IF Accepts(filter, j) THEN shown \cup {a} ELSE shown \ {a}
<1>1. Accepts(filter, heap'[a]) <=> Accepts(filter, j)
  BY SameAccepted
<1>2. shown = {b \in m_jobs : Accepts(filter, heap[b])}
  BY DEF TableIsCurrent
<1>3. rows = {b \in m_jobs' : Accepts(filter', heap'[b])}
  <2> HIDE DEF Accepts
  <2>1. CASE Accepts(filter, j)
    BY <1>1, <1>2, <2>1
  <2>2. CASE ~Accepts(filter, j)
    BY <1>1, <1>2, <2>2
  <2> QED BY <2>1, <2>2
<1>4. ShowRows(rows, Cardinality(m_jobs))
  BY DEF DataChanged
<1> HIDE DEF rows
<1> QED BY <1>3, <1>4, RowsStep

LEMMA OutcomeFacts ==
    ASSUME FilesOK(file), NEW j \in Object, NEW o \in Outcomes(j)
    PROVE  /\ o.needsSync \in BOOLEAN
           /\ o.file \in FileKind
           /\ o.file.at = "whole" => o.file.job.id = j.id
           /\ ~o.needsSync => o.file \in Torn \cup {Whole(DataOf(j))}
<1>1. j.id \in Ids /\ file[j.id] \in FileKind
      /\ (file[j.id].at = "whole" => file[j.id].job.id = j.id)
  BY DEF FilesOK, Object
<1>2. DataOf(j) \in Data /\ DataOf(j).id = j.id
  BY DEF DataOf, Data, Object
<1>3. Whole(DataOf(j)) \in FileKind /\ Whole(DataOf(j)).job.id = j.id
  BY <1>2 DEF Whole, FileKind
<1>4. [at |-> "partial"] \in Torn /\ Torn \subseteq FileKind
  BY DEF Torn, FileKind
<1>5. \/ o = [file |-> file[j.id], needsSync |-> TRUE]
      \/ o = [file |-> Whole(DataOf(j)), needsSync |-> FALSE]
      \/ o = [file |-> [at |-> "partial"], needsSync |-> FALSE]
  BY DEF Outcomes
<1>6. CASE o = [file |-> file[j.id], needsSync |-> TRUE]
  BY <1>1, <1>6
<1>7. CASE o = [file |-> Whole(DataOf(j)), needsSync |-> FALSE]
  BY <1>3, <1>7
<1>8. CASE o = [file |-> [at |-> "partial"], needsSync |-> FALSE]
  BY <1>4, <1>8
<1> QED BY <1>5, <1>6, <1>7, <1>8

\* Saving changes no job but for its needsSync, and what it does not leave
\* to be saved is in the file.
LEMMA SyncStep ==
    ASSUME LogInv, FilesOK(file), NEW h, NEW as, HeapOK(h, as),
           \A a \in as : OnDisk(h[a], file), SyncJobState(h, as, 0)
    PROVE  /\ LogInv' /\ FilesOK(file')
           /\ heap' \in [Addresses -> Object \cup {Null}]
           /\ \A a \in Addresses \ as : heap'[a] = Null
           /\ \A a \in as : /\ heap'[a] \in Object
                            /\ SameData(heap'[a], h[a])
                            /\ OnDisk(heap'[a], file')
           /\ \A id \in Ids : file'[id] # file[id] => \E a \in as : h[a].id = id
<1> DEFINE due == NeedSync(h, as)
<1>1. /\ as \subseteq Addresses /\ due \subseteq as /\ IsFiniteSet(due)
      /\ \A a \in as : h[a] \in Object /\ h[a].id \in Ids
      /\ \A a \in Addresses \ as : h[a] = Null
  BY JobTableAssumption, FS_Subset DEF HeapOK, NeedSync, Object
<1>2. PICK o \in [due -> UNION {Outcomes(h[a]) : a \in due}] :
        /\ \A a \in due : o[a] \in Outcomes(h[a])
        /\ heap' = [a \in Addresses |->
              IF a \in due THEN [h[a] EXCEPT !.needsSync = o[a].needsSync] ELSE h[a]]
        /\ file' = [id \in Ids |->
              IF \E a \in due : h[a].id = id
              THEN o[CHOOSE a \in due : h[a].id = id].file ELSE file[id]]
        /\ Log(0 + Cardinality({a \in due : o[a].needsSync}),
               Cardinality({a \in due : o[a].needsSync}))
  <2>1. PICK o \in [due -> UNION {Outcomes(h[a]) : a \in due}] :
          /\ \A a \in DOMAIN o : o[a] \in Outcomes(h[a])
          /\ heap' = [a \in Addresses |->
                IF a \in DOMAIN o THEN [h[a] EXCEPT !.needsSync = o[a].needsSync]
                                  ELSE h[a]]
          /\ file' = [id \in Ids |->
                IF \E a \in DOMAIN o : h[a].id = id
                THEN o[CHOOSE a \in DOMAIN o : h[a].id = id].file ELSE file[id]]
          /\ Log(0 + Cardinality({a \in DOMAIN o : o[a].needsSync}),
                 Cardinality({a \in DOMAIN o : o[a].needsSync}))
    BY Zenon DEF SyncJobState, FlagAfter
  <2>2. DOMAIN o = due
    OBVIOUS
  <2> QED BY <2>1, <2>2, Zenon
<1> HIDE DEF due
<1>3. LogInv'
  <2> DEFINE n == Cardinality({a \in due : o[a].needsSync})
  <2>1. n \in Nat
    BY <1>1, FS_Subset, FS_CardinalityType
  <2>2. Log(0 + n, n) /\ 0 + n \in Nat
    BY <1>2, <2>1
  <2> HIDE DEF n
  <2> QED BY <2>1, <2>2, LogStep
<1>4. \A a \in due : /\ h[a] \in Object
                     /\ o[a].needsSync \in BOOLEAN
                     /\ o[a].file \in FileKind
                     /\ o[a].file.at = "whole" => o[a].file.job.id = h[a].id
                     /\ ~o[a].needsSync => o[a].file \in Torn \cup {Whole(DataOf(h[a]))}
  BY <1>1, <1>2, OutcomeFacts
<1>5. \A a \in due : file'[h[a].id] = o[a].file
  <2> SUFFICES ASSUME NEW a \in due PROVE file'[h[a].id] = o[a].file
    OBVIOUS
  <2>1. \A b \in due : h[b].id = h[a].id => b = a
    BY <1>1 DEF HeapOK
  <2>2. (CHOOSE b \in due : h[b].id = h[a].id) = a
    BY <2>1
  <2> QED BY <1>1, <1>2, <2>2
<1>6. \A id \in Ids : (\A a \in due : h[a].id # id) => file'[id] = file[id]
  BY <1>2
<1>7. FilesOK(file')
  <2>1. \A id \in Ids : /\ file'[id] \in FileKind
                        /\ file'[id].at = "whole" => file'[id].job.id = id
    <3> SUFFICES ASSUME NEW id \in Ids
                 PROVE  /\ file'[id] \in FileKind
                        /\ file'[id].at = "whole" => file'[id].job.id = id
      OBVIOUS
    <3>1. CASE \E a \in due : h[a].id = id
      BY <3>1, <1>4, <1>5
    <3>2. CASE \A a \in due : h[a].id # id
      BY <3>2, <1>6 DEF FilesOK
    <3> QED BY <3>1, <3>2
  <2>2. file' = [id \in Ids |-> file'[id]]
    BY <1>2
  <2> QED BY <2>1, <2>2 DEF FilesOK
<1>8. \A a \in as : /\ heap'[a] \in Object
                    /\ SameData(heap'[a], h[a])
                    /\ OnDisk(heap'[a], file')
  <2> SUFFICES ASSUME NEW a \in as
               PROVE  /\ heap'[a] \in Object
                      /\ SameData(heap'[a], h[a])
                      /\ OnDisk(heap'[a], file')
    OBVIOUS
  <2>1. CASE a \in due
    <3>1. heap'[a] = [h[a] EXCEPT !.needsSync = o[a].needsSync]
      BY <1>1, <1>2, <2>1
    <3>2. heap'[a] \in Object /\ SameData(heap'[a], h[a])
          /\ heap'[a].needsSync = o[a].needsSync
      BY <3>1, <1>4, <2>1 DEF Object, SameData, DataOf
    <3>3. heap'[a].id = h[a].id /\ DataOf(heap'[a]) = DataOf(h[a])
      BY <3>2, SameFields DEF SameData
    <3> QED BY <3>2, <3>3, <1>4, <1>5, <2>1 DEF OnDisk
  <2>2. CASE a \notin due
    <3>1. heap'[a] = h[a]
      BY <1>1, <1>2, <2>2
    <3>2. file'[h[a].id] = file[h[a].id]
      BY <1>1, <1>6, <2>2 DEF HeapOK
    <3> QED BY <3>1, <3>2, <1>1 DEF OnDisk, SameData
  <2> QED BY <2>1, <2>2
<1>9. \A a \in Addresses \ as : heap'[a] = Null
  BY <1>1, <1>2
<1>10. heap' \in [Addresses -> Object \cup {Null}]
  BY <1>1, <1>2, <1>8, <1>9
<1>11. \A id \in Ids : file'[id] # file[id] => \E a \in as : h[a].id = id
  BY <1>1, <1>6
<1> QED BY <1>3, <1>7, <1>8, <1>9, <1>10, <1>11

-----------------------------------------------------------------------------
(* Jobs come and change.                                                   *)

\* The objects stay where they are and keep their ids.
LEMMA StoreKept ==
    ASSUME StoreOK, FilesOK(file'), heap' \in [Addresses -> Object \cup {Null}],
           \A a \in Addresses \ m_jobs : heap'[a] = Null,
           \A a \in m_jobs : heap'[a] \in Object /\ heap'[a].id = heap[a].id,
           \A id \in Ids : file'[id] # NoFile =>
               file[id] # NoFile \/ m_moleQueueMap[id] # Null,
           UNCHANGED <<m_jobs, m_moleQueueMap, m_moleQueueIdCounter>>
    PROVE  StoreOK'
<1>1. \A a \in Addresses : heap'[a] # Null <=> heap[a] # Null
  BY NullAssumption DEF StoreOK
<1>2. m_jobs' = {a \in Addresses : heap'[a] # Null}
  BY <1>1 DEF StoreOK
<1>3. \A a \in Addresses, id \in Ids :
         m_moleQueueMap'[id] = a <=> heap'[a] # Null /\ heap'[a].id = id
  BY <1>1 DEF StoreOK
<1>4. \A id \in Ids : m_moleQueueMap'[id] # Null \/ file'[id] # NoFile
                        => id =< m_moleQueueIdCounter'
  BY DEF StoreOK
<1> QED BY <1>2, <1>3, <1>4 DEF StoreOK, FilesOK, FileKind

LEMMA NewJobStep ==
    ASSUME IInv, NEW a \in Addresses, NEW state \in Progress, NEW hide \in Hides,
           NewJob(a, state, hide)
    PROVE  IInv'
<1> DEFINE id == m_moleQueueIdCounter + 1
           j  == JobData([id |-> id, state |-> state, hideFromGui |-> hide,
                          queueId |-> FALSE], TRUE)
           h  == [heap EXCEPT ![a] = j]
           as == m_jobs \cup {a}
<1>1. /\ id \in Ids /\ heap[a] = Null
      /\ m_moleQueueIdCounter' = id
      /\ m_jobs' = as
      /\ m_moleQueueMap' = [m_moleQueueMap EXCEPT ![id] = a]
      /\ ShowRows(IF Accepts(filter, j) THEN shown \cup {a} ELSE shown,
                  Cardinality(m_jobs) + 1)
      /\ SyncJobState(h, as, 0)
      /\ UNCHANGED <<filter, asked>>
  BY DEF NewJob
<1>2. LogInv /\ StoreOK /\ asked \in Question /\ TableIsCurrent /\ AllOnDisk
  BY DEF IInv
<1>3. j \in Object /\ j.id = id /\ j.needsSync = TRUE
  BY <1>1 DEF JobData, Object, States
<1> HIDE DEF j
<1>4. /\ m_moleQueueIdCounter \in Nat /\ m_moleQueueMap[id] = Null
      /\ m_moleQueueMap \in [Ids -> Addresses \cup {Null}]
  <2>1. m_moleQueueIdCounter \in Nat
    BY <1>2 DEF StoreOK
  <2>2. ~(id =< m_moleQueueIdCounter)
    BY <2>1
  <2> QED BY <1>1, <1>2, <2>1, <2>2 DEF StoreOK
<1>5. /\ a \notin m_jobs
      /\ \A b \in m_jobs : /\ b \in Addresses /\ heap[b] \in Object
                           /\ heap[b].id \in Ids /\ heap[b].id # id
                           /\ h[b] = heap[b]
      /\ h[a] = j
      /\ \A b \in Addresses \ as : h[b] = Null
      /\ h \in [Addresses -> Object \cup {Null}]
  <2>1. a \notin m_jobs /\ heap \in [Addresses -> Object \cup {Null}]
    BY <1>1, <1>2 DEF StoreOK
  <2>2. \A b \in m_jobs : /\ b \in Addresses /\ heap[b] \in Object
                          /\ heap[b].id \in Ids /\ heap[b].id # id
    BY <1>2, <1>4, StoreFacts, JobTableAssumption
  <2> QED BY <1>2, <1>3, <2>1, <2>2, StoreFacts
<1> HIDE DEF h
<1>6. HeapOK(h, as)
  <2>1. as = {b \in Addresses : h[b] # Null}
    BY <1>3, <1>5, NullAssumption
  <2>2. \A b, c \in as : h[b].id = h[c].id => b = c
    BY <1>2, <1>3, <1>5, StoreFacts DEF HeapOK
  <2> QED BY <1>5, <2>1, <2>2 DEF HeapOK
<1>7. \A b \in as : OnDisk(h[b], file)
  BY <1>2, <1>3, <1>5 DEF AllOnDisk, OnDisk
<1> HIDE DEF id, as
<1>8. FilesOK(file)
  BY <1>2, StoreFacts
<1>9. /\ LogInv' /\ FilesOK(file')
      /\ heap' \in [Addresses -> Object \cup {Null}]
      /\ \A b \in Addresses \ as : heap'[b] = Null
      /\ \A b \in as : /\ heap'[b] \in Object
                       /\ SameData(heap'[b], h[b])
                       /\ OnDisk(heap'[b], file')
      /\ \A k \in Ids : file'[k] # file[k] => \E b \in as : h[b].id = k
  <2>1. PICK H, A : H = h /\ A = as
    OBVIOUS
  <2>2. SyncJobState(H, A, 0)
    BY <1>1, <2>1
  <2>3. HeapOK(H, A) /\ \A b \in A : OnDisk(H[b], file)
    BY <1>6, <1>7, <2>1
  <2>4. /\ LogInv' /\ FilesOK(file')
        /\ heap' \in [Addresses -> Object \cup {Null}]
        /\ \A b \in Addresses \ A : heap'[b] = Null
        /\ \A b \in A : /\ heap'[b] \in Object
                        /\ SameData(heap'[b], H[b])
                        /\ OnDisk(heap'[b], file')
        /\ \A k \in Ids : file'[k] # file[k] => \E b \in A : H[b].id = k
    BY <1>2, <1>8, <2>2, <2>3, SyncStep
  <2> QED BY <2>1, <2>4
<1>10. \A b \in as : heap'[b].id = h[b].id
  BY <1>9, SameFields
<1>11. StoreOK'
  <2>1. m_jobs' = {b \in Addresses : heap'[b] # Null}
    BY <1>1, <1>5, <1>9, NullAssumption DEF as
  <2>2. m_moleQueueMap' \in [Ids -> Addresses \cup {Null}]
    BY <1>1, <1>4
  <2>3. ASSUME NEW b \in Addresses, NEW k \in Ids
        PROVE  m_moleQueueMap'[k] = b <=> heap'[b] # Null /\ heap'[b].id = k
    <3>1. CASE b = a
      <4>1. heap'[b] # Null /\ heap'[b].id = id
        BY <3>1, <1>3, <1>5, <1>9, <1>10, NullAssumption DEF as
      <4>2. heap[a] = Null
        BY <1>1
      <4>3. m_moleQueueMap[k] # a
        BY <4>2, <1>2 DEF StoreOK
      <4> QED BY <3>1, <4>1, <4>3, <1>1, <1>4
    <3>2. CASE b \in m_jobs
      <4>1. heap'[b] # Null /\ heap'[b].id = heap[b].id /\ heap[b].id # id
            /\ heap[b] # Null
        BY <3>2, <1>5, <1>9, <1>10, NullAssumption DEF as
      <4>2. b # a
        BY <3>2, <1>5
      <4>3. m_moleQueueMap[k] = b <=> heap[b].id = k
        BY <4>1, <1>2 DEF StoreOK
      <4> QED BY <4>1, <4>2, <4>3, <1>1, <1>4
    <3>3. CASE b \notin as
      <4>1. heap'[b] = Null /\ heap[b] = Null /\ b # a
        BY <3>3, <1>2, <1>9, StoreFacts DEF as
      <4>2. m_moleQueueMap[k] # b
        BY <4>1, <1>2 DEF StoreOK
      <4> QED BY <4>1, <4>2, <1>1, <1>4
    <3> QED BY <3>1, <3>2, <3>3 DEF as
  <2>4. ASSUME NEW k \in Ids, m_moleQueueMap'[k] # Null \/ file'[k] # NoFile
        PROVE  k =< m_moleQueueIdCounter'
    <3>1. /\ m_moleQueueIdCounter' = m_moleQueueIdCounter + 1 /\ k \in Nat
          /\ id = m_moleQueueIdCounter + 1
      BY <1>1, ErrorLogAssumption DEF id
    <3>2. CASE k = id
      BY <3>1, <3>2, <1>4
    <3>3. CASE k # id /\ (m_moleQueueMap[k] # Null \/ file[k] # NoFile)
      <4>1. k =< m_moleQueueIdCounter
        BY <3>3, <1>2 DEF StoreOK
      <4> QED BY <4>1, <3>1, <1>4
    <3>4. CASE k # id /\ m_moleQueueMap[k] = Null /\ file[k] = NoFile
      <4>1. m_moleQueueMap'[k] = Null
        BY <3>4, <1>1, <1>4
      <4>2. file'[k] # file[k]
        BY <2>4, <3>4, <4>1
      <4>3. PICK b \in as : h[b].id = k
        BY <4>2, <1>9
      <4>4. b \in m_jobs /\ heap[b].id = k
        BY <4>3, <3>4, <1>3, <1>5 DEF as
      <4>5. m_moleQueueMap[k] = b /\ b \in Addresses
        BY <4>4, <1>2, StoreFacts
      <4> QED BY <4>5, <3>4, JobTableAssumption
    <3> QED BY <3>2, <3>3, <3>4
  <2>5. m_moleQueueIdCounter' \in Nat
    BY <1>1, <1>4 DEF id
  <2> QED BY <1>9, <2>1, <2>2, <2>3, <2>4, <2>5 DEF StoreOK, FilesOK, FileKind
<1>12. TableIsCurrent'
  <2> DEFINE rows == IF Accepts(filter, j) THEN shown \cup {a} ELSE shown
  <2>1. Cardinality(m_jobs) + 1 = Cardinality(m_jobs')
    BY <1>1, <1>2, <1>5, StoreFacts, FS_AddElement DEF as
  <2>2. \A b \in as : Accepts(filter, heap'[b]) <=> Accepts(filter, h[b])
    BY <1>9, SameAccepted
  <2>3. shown = {b \in m_jobs : Accepts(filter, heap[b])}
    BY <1>2 DEF TableIsCurrent
  <2> HIDE DEF Accepts
  <2>4. {b \in as : Accepts(filter, h[b])} = rows
    <3>1. CASE Accepts(filter, j)
      BY <3>1, <2>3, <1>5 DEF as
    <3>2. CASE ~Accepts(filter, j)
      BY <3>2, <2>3, <1>5 DEF as
    <3> QED BY <3>1, <3>2
  <2>5. rows = {b \in m_jobs' : Accepts(filter', heap'[b])}
    <3>1. {b \in m_jobs' : Accepts(filter', heap'[b])}
            = {b \in as : Accepts(filter, h[b])}
      BY <2>2, <1>1
    <3> QED BY <2>4, <3>1
  <2>6. ShowRows(rows, Cardinality(m_jobs) + 1)
    BY <1>1
  <2> HIDE DEF rows
  <2> QED BY <1>2, <2>1, <2>5, <2>6, RowsStep
<1>13. AllOnDisk'
  BY <1>1, <1>9 DEF AllOnDisk
<1> QED BY <1>1, <1>2, <1>9, <1>11, <1>12, <1>13 DEF IInv

LEMMA SyncTimerStep == ASSUME IInv, SyncTimer PROVE IInv'
<1>1. LogInv /\ StoreOK /\ asked \in Question /\ TableIsCurrent /\ AllOnDisk
  BY DEF IInv
<1>2. /\ SyncJobState(heap, m_jobs, 0)
      /\ UNCHANGED <<m_jobs, m_moleQueueMap, m_moleQueueIdCounter, filter, shown,
                     counts, asked>>
  BY DEF SyncTimer, tableVars
<1>3. /\ HeapOK(heap, m_jobs) /\ FilesOK(file)
      /\ \A a \in m_jobs : OnDisk(heap[a], file)
  BY <1>1, StoreFacts DEF AllOnDisk
<1>4. /\ LogInv' /\ FilesOK(file')
      /\ heap' \in [Addresses -> Object \cup {Null}]
      /\ \A a \in Addresses \ m_jobs : heap'[a] = Null
      /\ \A a \in m_jobs : /\ heap'[a] \in Object
                           /\ SameData(heap'[a], heap[a])
                           /\ OnDisk(heap'[a], file')
      /\ \A id \in Ids : file'[id] # file[id] => \E a \in m_jobs : heap[a].id = id
  BY <1>1, <1>2, <1>3, SyncStep
<1>5. \A a \in m_jobs : heap'[a].id = heap[a].id
  BY <1>4, SameFields
<1>6. \A id \in Ids : file'[id] # NoFile =>
         file[id] # NoFile \/ m_moleQueueMap[id] # Null
  <2>1. \A a \in m_jobs : m_moleQueueMap[heap[a].id] = a /\ a # Null
    BY <1>1, StoreFacts, JobTableAssumption
  <2> QED BY <1>4, <2>1
<1>7. StoreOK'
  BY <1>1, <1>2, <1>4, <1>5, <1>6, StoreKept
<1>8. TableIsCurrent'
  <2>1. \A a \in m_jobs : Accepts(filter, heap'[a]) <=> Accepts(filter, heap[a])
    BY <1>4, SameAccepted
  <2> QED BY <1>1, <1>2, <2>1 DEF TableIsCurrent
<1>9. AllOnDisk'
  BY <1>2, <1>4 DEF AllOnDisk
<1> QED BY <1>1, <1>2, <1>4, <1>7, <1>8, <1>9 DEF IInv

LEMMA ModifyStep ==
    ASSUME IInv, NEW a \in m_jobs, NEW j, j \in Object, j.id = heap[a].id,
           Modify(a, j)
    PROVE  /\ StoreOK' /\ TableIsCurrent' /\ AllOnDisk'
           /\ asked' \in Question
<1>1. StoreOK /\ asked \in Question /\ TableIsCurrent /\ AllOnDisk
  BY DEF IInv
<1>2. /\ heap' = [heap EXCEPT ![a] = JobData(j, TRUE)]
      /\ DataChanged(a, j)
      /\ UNCHANGED <<m_jobs, m_moleQueueMap, m_moleQueueIdCounter, file, filter, asked>>
  BY DEF Modify, JobUpdated
<1>3. /\ JobData(j, TRUE) \in Object /\ SameData(JobData(j, TRUE), j)
      /\ JobData(j, TRUE).id = heap[a].id /\ JobData(j, TRUE).needsSync
  BY DEF JobData, Object, SameData, DataOf
<1>4. a \in Addresses /\ heap \in [Addresses -> Object \cup {Null}]
  BY <1>1, StoreFacts DEF StoreOK
<1> HIDE DEF JobData
<1>5. /\ heap' \in [Addresses -> Object \cup {Null}]
      /\ heap'[a] = JobData(j, TRUE)
      /\ \A b \in Addresses \ {a} : heap'[b] = heap[b]
  BY <1>2, <1>3, <1>4
<1>6. /\ \A b \in Addresses \ m_jobs : heap'[b] = Null
      /\ \A b \in m_jobs : heap'[b] \in Object /\ heap'[b].id = heap[b].id
      /\ FilesOK(file')
  BY <1>1, <1>2, <1>3, <1>5, StoreFacts
<1>7. StoreOK'
  BY <1>1, <1>2, <1>5, <1>6, StoreKept
<1>8. TableIsCurrent'
  <2>1. SameData(heap'[a], j)
    BY <1>3, <1>5
  <2>2. \A b \in m_jobs \ {a} : heap'[b] = heap[b]
    BY <1>1, <1>5, StoreFacts
  <2> QED BY <1>1, <1>2, <2>1, <2>2, ChangedStep
<1>9. AllOnDisk'
  BY <1>1, <1>2, <1>3, <1>5, StoreFacts DEF AllOnDisk, OnDisk
<1> QED BY <1>1, <1>2, <1>7, <1>8, <1>9

LEMMA SetJobStateStep ==
    ASSUME IInv, NEW id \in Ids, NEW state \in Progress, SetJobState(id, state)
    PROVE  IInv'
<1>1. PICK a : a = m_moleQueueMap[id]
  OBVIOUS
<1>2. /\ a # Null /\ Modify(a, [heap[a] EXCEPT !.state = state]) /\ Log(1, 0)
  BY <1>1 DEF SetJobState
<1>3. a \in m_jobs /\ heap[a] \in Object
  BY <1>1, <1>2, StoreFacts DEF IInv
<1>4. PICK j : j = [heap[a] EXCEPT !.state = state]
  OBVIOUS
<1>5. j \in Object /\ j.id = heap[a].id
  BY <1>3, <1>4 DEF Object, States
<1>6. Modify(a, j)
  BY <1>2, <1>4
<1>7. LogInv'
  BY <1>2, LogStep DEF IInv
<1> QED BY <1>3, <1>5, <1>6, <1>7, ModifyStep DEF IInv

LEMMA SetJobQueueIdStep ==
    ASSUME IInv, NEW id \in Ids, SetJobQueueId(id)
    PROVE  IInv'
<1>1. PICK a : a = m_moleQueueMap[id]
  OBVIOUS
<1>2. /\ a # Null /\ Modify(a, [heap[a] EXCEPT !.queueId = TRUE])
      /\ UNCHANGED logVars
  BY <1>1 DEF SetJobQueueId
<1>3. a \in m_jobs /\ heap[a] \in Object
  BY <1>1, <1>2, StoreFacts DEF IInv
<1>4. PICK j : j = [heap[a] EXCEPT !.queueId = TRUE]
  OBVIOUS
<1>5. j \in Object /\ j.id = heap[a].id
  BY <1>3, <1>4 DEF Object
<1>6. Modify(a, j)
  BY <1>2, <1>4
<1>7. LogInv'
  BY <1>2, LogUnchanged DEF IInv
<1> QED BY <1>3, <1>5, <1>6, <1>7, ModifyStep DEF IInv

-----------------------------------------------------------------------------
(* Jobs go.                                                                *)

LEMMA RemoveStep ==
    ASSUME IInv, NEW as, as \subseteq m_jobs, RemoveJobs(as),
           UNCHANGED filter, asked' \in Question
    PROVE  IInv'
<1> DEFINE ids == {heap[a].id : a \in as}
<1>1. LogInv /\ StoreOK /\ TableIsCurrent /\ AllOnDisk
  BY DEF IInv
<1>2. PICK failed \in SUBSET as :
        /\ m_jobs' = m_jobs \ as
        /\ m_moleQueueMap' = MapWithout(ids)
        /\ heap' = [a \in Addresses |-> IF a \in as THEN Null ELSE heap[a]]
        /\ file' = [id \in Ids |-> IF \E a \in as \ failed : heap[a].id = id
                                   THEN NoFile ELSE file[id]]
        /\ ShowRows(shown \ as, Cardinality(m_jobs) - Cardinality(as))
        /\ LET n == Cardinality({a \in as : a \in failed
                                            \/ Unparsable(heap[a].id)})
           IN  Log(n, n)
        /\ UNCHANGED m_moleQueueIdCounter
  BY DEF RemoveJobs
<1>3. /\ \A a \in m_jobs : /\ a \in Addresses /\ heap[a] \in Object
                           /\ heap[a].id \in Ids
                           /\ m_moleQueueMap[heap[a].id] = a
      /\ IsFiniteSet(m_jobs) /\ FilesOK(file)
      /\ \A a, b \in m_jobs : heap[a].id = heap[b].id => a = b
      /\ IsFiniteSet(as) /\ Cardinality(as) \in Nat
  BY <1>1, StoreFacts, FS_Subset, FS_CardinalityType DEF HeapOK
<1>4. LogInv'
  <2>1. PICK n : n = Cardinality({a \in as : a \in failed
                                             \/ Unparsable(heap[a].id)})
    OBVIOUS
  <2>2. n \in Nat
    BY <1>3, <2>1, FS_Subset, FS_CardinalityType
  <2> QED BY <1>1, <1>2, <2>1, <2>2, LogStep
<1>5. /\ \A a \in m_jobs' : a \in m_jobs /\ a \in Addresses /\ heap'[a] = heap[a]
                            /\ file'[heap[a].id] = file[heap[a].id]
      /\ \A a \in as : heap'[a] = Null
  BY <1>2, <1>3
<1>6. \A id \in Ids : file'[id] \in {NoFile, file[id]}
  BY <1>2
<1>7. StoreOK'
  <2>1. /\ heap' \in [Addresses -> Object \cup {Null}]
        /\ m_jobs' = {a \in Addresses : heap'[a] # Null}
    BY <1>1, <1>2 DEF StoreOK
  <2>2. m_moleQueueMap' \in [Ids -> Addresses \cup {Null}]
    BY <1>1, <1>2 DEF StoreOK, MapWithout
  <2>3. ASSUME NEW a \in Addresses, NEW id \in Ids
        PROVE  m_moleQueueMap'[id] = a <=> heap'[a] # Null /\ heap'[a].id = id
    <3>1. m_moleQueueMap[id] = a <=> heap[a] # Null /\ heap[a].id = id
      BY <1>1 DEF StoreOK
    <3>2. m_moleQueueMap'[id] = IF id \in ids THEN Null ELSE m_moleQueueMap[id]
      BY <1>2 DEF MapWithout
    <3>3. CASE a \in as
      <4>1. heap'[a] = Null
        BY <3>3, <1>5
      <4>2. m_moleQueueMap[id] = a => id \in ids
        BY <3>1, <3>3
      <4> QED BY <3>2, <4>1, <4>2, JobTableAssumption
    <3>4. CASE a \notin as
      <4>1. heap'[a] = heap[a]
        BY <3>4, <1>2
      <4>2. heap[a] # Null /\ heap[a].id = id => id \notin ids
        <5>1. heap[a] # Null => a \in m_jobs
          BY <1>1 DEF StoreOK
        <5>2. SUFFICES ASSUME heap[a] # Null, heap[a].id = id, id \in ids
                       PROVE  FALSE
          OBVIOUS
        <5>3. PICK b \in as : heap[b].id = id
          BY <5>2
        <5> QED BY <3>4, <5>1, <5>2, <5>3, <1>3
      <4> QED BY <3>1, <3>2, <4>1, <4>2, JobTableAssumption
    <3> QED BY <3>3, <3>4
  <2>4. ASSUME NEW id \in Ids, m_moleQueueMap'[id] # Null \/ file'[id] # NoFile
        PROVE  id =< m_moleQueueIdCounter'
    <3>1. m_moleQueueMap[id] # Null \/ file[id] # NoFile
      BY <2>4, <1>2, <1>6 DEF MapWithout
    <3> QED BY <3>1, <1>1, <1>2 DEF StoreOK
  <2>5. FilesOK(file')
    <3>1. NoFile \in FileKind /\ NoFile.at # "whole"
      BY DEF NoFile, FileKind
    <3>2. \A id \in Ids : /\ file'[id] \in FileKind
                          /\ file'[id].at = "whole" => file'[id].job.id = id
      BY <3>1, <1>3, <1>6 DEF FilesOK
    <3>3. file' = [id \in Ids |-> file'[id]]
      BY <1>2
    <3> QED BY <3>2, <3>3 DEF FilesOK
  <2> QED BY <1>1, <1>2, <2>1, <2>2, <2>3, <2>4, <2>5 DEF StoreOK, FilesOK, FileKind
<1>8. TableIsCurrent'
  <2>1. Cardinality(m_jobs) - Cardinality(as) = Cardinality(m_jobs')
    <3>1. m_jobs \cap as = as
      OBVIOUS
    <3>2. Cardinality(m_jobs \ as) = Cardinality(m_jobs) - Cardinality(m_jobs \cap as)
      BY <1>3, FS_Difference
    <3> QED BY <1>2, <3>1, <3>2
  <2>2. shown \ as = {a \in m_jobs' : Accepts(filter', heap'[a])}
    <3>1. shown = {a \in m_jobs : Accepts(filter, heap[a])}
      BY <1>1 DEF TableIsCurrent
    <3>2. m_jobs' = m_jobs \ as /\ \A a \in m_jobs' : heap'[a] = heap[a]
      BY <1>2, <1>5
    <3> HIDE DEF Accepts
    <3> QED BY <3>1, <3>2
  <2> QED BY <1>1, <1>2, <2>1, <2>2, RowsStep
<1>9. AllOnDisk'
  BY <1>1, <1>5 DEF AllOnDisk, OnDisk
<1> QED BY <1>4, <1>7, <1>8, <1>9 DEF IInv

\* What is valid of the references a box holds are jobs.
LEMMA ValidJobs ==
    ASSUME StoreOK, NEW refs \in SUBSET Refs
    PROVE  Valid(refs) \subseteq m_jobs
<1>1. ASSUME NEW r \in refs, IsValid(r) PROVE r.addr \in m_jobs
  <2>1. r.id \in Ids /\ r.addr \in Addresses
    BY DEF Refs
  <2> QED BY <1>1, <2>1, StoreFacts DEF IsValid
<1> QED BY <1>1 DEF Valid

LEMMA ConfirmRemoveStep == ASSUME IInv, ConfirmRemove PROVE IInv'
<1>1. PICK refs : refs = asked.refs
  OBVIOUS
<1>2. /\ asked.kind = "remove" /\ RemoveJobs(Valid(refs)) /\ asked' = Nobody
      /\ UNCHANGED filter
  BY <1>1 DEF ConfirmRemove
<1>3. refs \in SUBSET Refs
  BY <1>1, <1>2 DEF IInv, Question, Nobody
<1>4. Valid(refs) \subseteq m_jobs
  BY <1>3, ValidJobs DEF IInv
<1>5. PICK as : as = Valid(refs)
  OBVIOUS
<1>6. asked' \in Question
  BY <1>2 DEF Question
<1> QED BY <1>2, <1>4, <1>5, <1>6, RemoveStep

LEMMA ConfirmKillStep == ASSUME IInv, ConfirmKill PROVE IInv'
<1>1. LogInv /\ StoreOK /\ TableIsCurrent /\ AllOnDisk
  BY DEF IInv
<1>2. asked.kind = "kill" /\ asked.refs \in SUBSET Refs
  BY DEF ConfirmKill, IInv, Question, Nobody
<1>3. PICK as \in SUBSET Valid(asked.refs) :
        LET dead == {a \in as : heap[a].state # "Canceled"}
            j(a) == [heap[a] EXCEPT !.state = "Canceled"]
        IN  /\ heap' = [a \in Addresses |-> IF a \in dead THEN JobData(j(a), TRUE)
                                                          ELSE heap[a]]
            /\ ShowRows({a \in shown \cup dead : a \in dead => Accepts(filter, j(a))},
                        Cardinality(m_jobs))
            /\ Log(Cardinality(dead), 0)
  BY DEF ConfirmKill
<1>4. PICK dead : dead = {a \in as : heap[a].state # "Canceled"}
  OBVIOUS
<1>5. /\ heap' = [a \in Addresses |->
              IF a \in dead THEN JobData([heap[a] EXCEPT !.state = "Canceled"], TRUE)
                            ELSE heap[a]]
      /\ ShowRows({a \in shown \cup dead :
             a \in dead => Accepts(filter, [heap[a] EXCEPT !.state = "Canceled"])},
             Cardinality(m_jobs))
      /\ Log(Cardinality(dead), 0)
  BY <1>3, <1>4
<1>6. /\ asked' = Nobody
      /\ UNCHANGED <<m_jobs, m_moleQueueMap, m_moleQueueIdCounter, file, filter>>
  BY DEF ConfirmKill
<1>7. /\ dead \subseteq m_jobs /\ IsFiniteSet(dead) /\ Cardinality(dead) \in Nat
      /\ \A a \in m_jobs : a \in Addresses /\ heap[a] \in Object
  <2>1. Valid(asked.refs) \subseteq m_jobs
    BY <1>1, <1>2, ValidJobs
  <2> QED BY <1>1, <1>3, <1>4, <2>1, StoreFacts, FS_Subset, FS_CardinalityType
<1>8. LogInv'
  BY <1>1, <1>5, <1>7, LogStep
<1>9. \A a \in dead : LET j == [heap[a] EXCEPT !.state = "Canceled"] IN
        /\ heap'[a] \in Object /\ heap'[a].id = heap[a].id /\ heap'[a].needsSync
        /\ SameData(heap'[a], j)
  BY <1>5, <1>7 DEF JobData, Object, States, SameData, DataOf
<1>10. \A a \in Addresses \ dead : heap'[a] = heap[a]
  BY <1>5
<1>11. /\ heap' \in [Addresses -> Object \cup {Null}]
       /\ \A a \in Addresses \ m_jobs : heap'[a] = Null
       /\ \A a \in m_jobs : heap'[a] \in Object /\ heap'[a].id = heap[a].id
  <2>1. /\ \A a \in Addresses \ m_jobs : heap'[a] = Null
        /\ \A a \in m_jobs : heap'[a] \in Object /\ heap'[a].id = heap[a].id
    BY <1>1, <1>7, <1>9, <1>10, StoreFacts
  <2>2. \A a \in Addresses : heap'[a] \in Object \cup {Null}
    BY <2>1
  <2>3. heap' = [a \in Addresses |-> heap'[a]]
    BY <1>5
  <2> QED BY <2>1, <2>2, <2>3
<1>12. StoreOK'
  BY <1>1, <1>6, <1>11, StoreFacts, StoreKept
<1>13. TableIsCurrent'
  <2> DEFINE rows == {a \in shown \cup dead :
             a \in dead => Accepts(filter, [heap[a] EXCEPT !.state = "Canceled"])}
  <2>1. \A a \in dead : Accepts(filter, heap'[a])
            <=> Accepts(filter, [heap[a] EXCEPT !.state = "Canceled"])
    BY <1>9, SameAccepted
  <2>2. shown = {a \in m_jobs : Accepts(filter, heap[a])}
    BY <1>1 DEF TableIsCurrent
  <2>3. rows = {a \in m_jobs' : Accepts(filter', heap'[a])}
    BY <1>6, <1>7, <1>10, <2>1, <2>2
  <2>4. ShowRows(rows, Cardinality(m_jobs))
    BY <1>5
  <2> HIDE DEF rows
  <2> QED BY <1>1, <1>6, <2>3, <2>4, RowsStep
<1>14. AllOnDisk'
  BY <1>1, <1>6, <1>7, <1>9, <1>10 DEF AllOnDisk, OnDisk
<1>15. asked' \in Question
  BY <1>6 DEF Question
<1> QED BY <1>8, <1>12, <1>13, <1>14, <1>15 DEF IInv

-----------------------------------------------------------------------------
(* Starts.                                                                 *)

LEMMA LoadStep ==
    ASSUME LogInv, StoreOK, NEW f, FilesOK(f),
           \A id \in Ids : f[id] # NoFile => id =< m_moleQueueIdCounter,
           logFile' \in 0 .. MaxEntries, LoadJobState(f)
    PROVE  IInv'
<1> DEFINE ids == {id \in Ids : f[id].at = "whole"}
<1>1. PICK at \in Places(ids) :
        LET job(a) == f[CHOOSE id \in ids : at[id] = a].job
        IN  /\ m_jobs' = Range(at)
            /\ heap' = [a \in Addresses |->
                  IF a \in Range(at) THEN JobData(job(a), FALSE) ELSE Null]
            /\ m_moleQueueMap' = [id \in Ids |-> IF id \in ids THEN at[id]
                                                             ELSE Null]
            /\ shown' = {a \in Range(at) : Accepts(filter, job(a))}
  BY Zenon DEF LoadJobState
<1>2. PICK torn : torn = Cardinality({id \in Ids : f[id] \in Torn})
  OBVIOUS
<1>3. /\ counts' = [total  |-> Cardinality(m_jobs'),
                    hidden |-> Cardinality(m_jobs') - Cardinality(shown')]
      /\ asked' = Nobody
      /\ StartLog(torn)
      /\ file' = f
      /\ UNCHANGED <<m_moleQueueIdCounter, filter>>
  BY <1>2 DEF LoadJobState
<1>4. LogInv'
  <2>1. torn \in Nat
    BY <1>2, JobTableAssumption, FS_Subset, FS_CardinalityType
  <2> QED BY <1>3, <2>1, StartLogStep DEF LogInv, LogTypeOK
<1>5. /\ at \in [ids -> Addresses]
      /\ \A k, l \in ids : at[k] = at[l] => k = l
      /\ Range(at) = {at[k] : k \in ids}
  BY DEF Places, IsInjective, Range
<1>6. \A k \in ids : /\ k \in Ids /\ f[k].job \in Data /\ f[k].job.id = k
                     /\ f[k] = Whole(f[k].job)
  <2> SUFFICES ASSUME NEW k \in ids
               PROVE  /\ k \in Ids /\ f[k].job \in Data /\ f[k].job.id = k
                      /\ f[k] = Whole(f[k].job)
    OBVIOUS
  <2>1. k \in Ids /\ f[k].at = "whole" /\ f[k] \in FileKind
    BY DEF FilesOK
  <2>2. f[k] \notin {NoFile} \cup Torn
    BY <2>1 DEF NoFile, Torn
  <2>3. PICK d \in Data : f[k] = Whole(d)
    BY <2>1, <2>2 DEF FileKind
  <2>4. f[k].job = d
    BY <2>3 DEF Whole
  <2> QED BY <2>1, <2>3, <2>4 DEF FilesOK
<1> HIDE DEF ids
<1>7. \A k \in ids : /\ heap'[at[k]] = JobData(f[k].job, FALSE)
                     /\ m_moleQueueMap'[k] = at[k] /\ at[k] \in Addresses
                     /\ at[k] \in m_jobs'
                     /\ at[k] \in shown' <=> Accepts(filter, f[k].job)
  <2> SUFFICES ASSUME NEW k \in ids
               PROVE  /\ heap'[at[k]] = JobData(f[k].job, FALSE)
                      /\ m_moleQueueMap'[k] = at[k] /\ at[k] \in Addresses
                      /\ at[k] \in m_jobs'
                      /\ at[k] \in shown' <=> Accepts(filter, f[k].job)
    OBVIOUS
  <2>1. (CHOOSE id \in ids : at[id] = at[k]) = k
    BY <1>5
  <2>2. at[k] \in Addresses /\ at[k] \in Range(at) /\ k \in Ids
    BY <1>5, <1>6
  <2> HIDE DEF Accepts, JobData
  <2> QED BY <1>1, <2>1, <2>2
<1>8. \A a \in m_jobs' : \E k \in ids : a = at[k]
  BY <1>1, <1>5
<1>9. \A d \in Data : /\ JobData(d, FALSE) \in Object
                      /\ JobData(d, FALSE).id = d.id
                      /\ SameData(JobData(d, FALSE), d)
                      /\ DataOf(JobData(d, FALSE)) = d
  BY DEF JobData, Object, Data, SameData, DataOf
<1>10. \A k \in ids : heap'[at[k]] \in Object /\ heap'[at[k]].id = k
  <2> SUFFICES ASSUME NEW k \in ids
               PROVE  heap'[at[k]] \in Object /\ heap'[at[k]].id = k
    OBVIOUS
  <2>1. PICK d \in Data : d = f[k].job /\ d.id = k
    BY <1>6
  <2>2. heap'[at[k]] = JobData(d, FALSE)
    BY <1>7, <2>1
  <2> QED BY <1>9, <2>1, <2>2
<1>11. /\ \A a \in Addresses \ m_jobs' : heap'[a] = Null
       /\ \A id \in Ids \ ids : m_moleQueueMap'[id] = Null
       /\ shown' \subseteq m_jobs'
  BY <1>1
<1>12. StoreOK'
  <2>1. \A a \in m_jobs' : a \in Addresses /\ heap'[a] \in Object
    BY <1>7, <1>8, <1>10
  <2>2. heap' \in [Addresses -> Object \cup {Null}]
    <3>1. \A a \in Addresses : heap'[a] \in Object \cup {Null}
      BY <1>11, <2>1
    <3>2. heap' = [a \in Addresses |-> heap'[a]]
      BY <1>1
    <3> QED BY <3>1, <3>2
  <2>3. m_jobs' = {a \in Addresses : heap'[a] # Null}
    BY <1>11, <2>1, NullAssumption
  <2>4. m_moleQueueMap' \in [Ids -> Addresses \cup {Null}]
    BY <1>1, <1>5
  <2>5. ASSUME NEW a \in Addresses, NEW id \in Ids
        PROVE  m_moleQueueMap'[id] = a <=> heap'[a] # Null /\ heap'[a].id = id
    <3>1. CASE a \in m_jobs'
      <4>1. PICK k \in ids : a = at[k]
        BY <3>1, <1>8
      <4>2. heap'[a] # Null /\ heap'[a].id = k
        BY <4>1, <1>10, NullAssumption
      <4>3. m_moleQueueMap'[id] = a <=> id = k
        <5>1. CASE id \in ids
          BY <5>1, <4>1, <1>5, <1>7
        <5>2. CASE id \notin ids
          BY <5>2, <4>1, <1>11, JobTableAssumption
        <5> QED BY <5>1, <5>2
      <4> QED BY <4>2, <4>3
    <3>2. CASE a \notin m_jobs'
      <4>1. heap'[a] = Null
        BY <3>2, <1>11
      <4>2. m_moleQueueMap'[id] # a
        <5>1. CASE id \in ids
          BY <5>1, <3>2, <1>7
        <5>2. CASE id \notin ids
          BY <5>2, <1>11, JobTableAssumption
        <5> QED BY <5>1, <5>2
      <4> QED BY <4>1, <4>2
    <3> QED BY <3>1, <3>2
  <2>6. ASSUME NEW id \in Ids, m_moleQueueMap'[id] # Null \/ file'[id] # NoFile
        PROVE  id =< m_moleQueueIdCounter'
    <3>1. m_moleQueueMap'[id] # Null => id \in ids
      BY <1>11
    <3>2. id \in ids => f[id] # NoFile
      BY DEF ids, NoFile
    <3> QED BY <2>6, <3>1, <3>2, <1>3
  <2>7. m_moleQueueIdCounter' \in Nat
    BY <1>3 DEF StoreOK
  <2> QED BY <1>3, <2>2, <2>3, <2>4, <2>5, <2>6, <2>7 DEF StoreOK, FilesOK, FileKind
<1>13. TableIsCurrent'
  <2>1. \A a \in m_jobs' : a \in shown' <=> Accepts(filter', heap'[a])
    <3> SUFFICES ASSUME NEW a \in m_jobs'
                 PROVE  a \in shown' <=> Accepts(filter', heap'[a])
      OBVIOUS
    <3>1. PICK k \in ids : a = at[k]
      BY <1>8
    <3>2. SameData(heap'[a], f[k].job) /\ filter' = filter
      BY <3>1, <1>3, <1>6, <1>7, <1>9
    <3>3. Accepts(filter, heap'[a]) <=> Accepts(filter, f[k].job)
      BY <3>2, SameAccepted
    <3> QED BY <3>1, <3>2, <3>3, <1>7
  <2>2. shown' = {a \in m_jobs' : Accepts(filter', heap'[a])}
    BY <1>11, <2>1
  <2> QED BY <1>3, <2>2 DEF TableIsCurrent
<1>14. AllOnDisk'
  <2>1. ASSUME NEW a \in m_jobs' PROVE OnDisk(heap'[a], file')
    <3>1. PICK k \in ids : a = at[k]
      BY <1>8
    <3>2. heap'[a].id = k /\ DataOf(heap'[a]) = f[k].job /\ file'[k] = f[k]
      BY <3>1, <1>3, <1>6, <1>7, <1>9
    <3> QED BY <3>2, <1>6 DEF OnDisk
  <2> QED BY <2>1 DEF AllOnDisk
<1>15. asked' \in Question
  BY <1>3 DEF Question
<1> QED BY <1>4, <1>12, <1>13, <1>14, <1>15 DEF IInv

LEMMA QuitStep == ASSUME IInv, QuitAndRestart PROVE IInv'
<1>1. LogInv /\ StoreOK
  BY DEF IInv
<1>2. PICK f : f = [id \in Ids |->
          IF \E a \in NeedSync(heap, m_jobs) : heap[a].id = id
             /\ ~Unparsable(id)
          THEN Whole(DataOf(heap[m_moleQueueMap[id]])) ELSE file[id]]
  OBVIOUS
<1>3. logFile' = m_log /\ LoadJobState(f)
  BY <1>2 DEF QuitAndRestart
<1>4. ASSUME NEW id \in Ids
      PROVE  /\ f[id] \in FileKind
             /\ f[id].at = "whole" => f[id].job.id = id
             /\ f[id] # NoFile => id =< m_moleQueueIdCounter
  <2>1. CASE f[id] = file[id]
    BY <2>1, <1>1, StoreFacts DEF StoreOK, FilesOK
  <2>2. CASE f[id] # file[id]
    <3>1. PICK a \in m_jobs : heap[a].id = id
      BY <1>2, <2>2 DEF NeedSync
    <3>2. m_moleQueueMap[id] = a /\ a \in Addresses /\ heap[a] \in Object
      BY <1>1, <3>1, StoreFacts
    <3>3. f[id] = Whole(DataOf(heap[a]))
      BY <1>2, <2>2, <3>2
    <3>4. DataOf(heap[a]) \in Data /\ DataOf(heap[a]).id = id
      BY <3>1, <3>2 DEF DataOf, Data, Object
    <3>5. f[id] \in FileKind /\ f[id].job.id = id
      BY <3>3, <3>4 DEF FileKind, Whole
    <3>6. id =< m_moleQueueIdCounter
      BY <1>1, <3>2, JobTableAssumption DEF StoreOK
    <3> QED BY <3>5, <3>6
  <2> QED BY <2>1, <2>2
<1>5. FilesOK(f)
  <2>1. f = [id \in Ids |-> f[id]]
    BY <1>2
  <2> QED BY <1>4, <2>1 DEF FilesOK
<1>6. logFile' \in 0 .. MaxEntries
  BY <1>1, <1>3 DEF LogInv, LogTypeOK
<1> QED BY <1>1, <1>3, <1>4, <1>5, <1>6, LoadStep

LEMMA CrashStep == ASSUME IInv, CrashAndRestart PROVE IInv'
<1>1. /\ LogInv /\ StoreOK /\ FilesOK(file)
      /\ logFile' \in 0 .. MaxEntries
      /\ \A id \in Ids : file[id] # NoFile => id =< m_moleQueueIdCounter
  BY StoreFacts DEF IInv, CrashAndRestart, LogInv, LogTypeOK, StoreOK
<1>2. CASE LoadJobState(file)
  <2>1. PICK f : f = file
    OBVIOUS
  <2> QED BY <1>1, <1>2, <2>1, LoadStep
<1>3. ASSUME NEW a \in NeedSync(heap, m_jobs), NEW t \in Torn,
             LoadJobState([file EXCEPT ![heap[a].id] = t])
      PROVE  IInv'
  <2>1. PICK f : f = [file EXCEPT ![heap[a].id] = t]
    OBVIOUS
  <2>2. PICK k : k = heap[a].id
    OBVIOUS
  <2>3. k \in Ids /\ m_moleQueueMap[k] # Null
    BY <1>1, <2>2, StoreFacts, JobTableAssumption DEF NeedSync
  <2>4. k =< m_moleQueueIdCounter
    BY <1>1, <2>3 DEF StoreOK
  <2>5. t \in FileKind /\ t.at # "whole"
    BY DEF Torn, FileKind
  <2>6. /\ f \in [Ids -> FileKind] /\ f[k] = t
        /\ \A id \in Ids \ {k} : f[id] = file[id]
    BY <1>1, <2>1, <2>2, <2>3, <2>5 DEF FilesOK
  <2>7. FilesOK(f)
    BY <1>1, <2>5, <2>6 DEF FilesOK
  <2>8. \A id \in Ids : f[id] # NoFile => id =< m_moleQueueIdCounter
    BY <1>1, <2>4, <2>6
  <2>9. LoadJobState(f)
    BY <1>3, <2>1
  <2> QED BY <1>1, <2>7, <2>8, <2>9, LoadStep
<1> QED BY <1>2, <1>3 DEF CrashAndRestart

-----------------------------------------------------------------------------
(* The user.                                                               *)

LEMMA AskStep ==
    ASSUME IInv, asked' \in Question, UNCHANGED <<storeVars, filter, tableVars>>,
           LogInv'
    PROVE  IInv'
<1>1. UNCHANGED <<heap, m_jobs, m_moleQueueMap, m_moleQueueIdCounter, file, filter,
                  shown, counts>>
  BY DEF storeVars, tableVars
<1>2. StoreOK'
  BY <1>1 DEF IInv, StoreOK
<1>3. TableIsCurrent'
  BY <1>1 DEF IInv, TableIsCurrent
<1>4. AllOnDisk'
  BY <1>1 DEF IInv, AllOnDisk
<1> QED BY <1>2, <1>3, <1>4 DEF IInv

\* A question is about references to jobs, whether it is asked or narrowed.
LEMMA AskingStep ==
    ASSUME IInv, NEW q, q \in Question, Ask(q)
    PROVE  IInv'
<1>1. asked' \in Question /\ UNCHANGED <<storeVars, filter, tableVars>> /\ LogInv'
  BY LogUnchanged DEF Ask, IInv
<1> QED BY <1>1, AskStep

LEMMA RefType ==
    ASSUME StoreOK
    PROVE  \A a \in m_jobs : Ref(a) \in Refs
BY StoreFacts DEF Ref, Refs

LEMMA MenuSteps ==
    ASSUME IInv,
           \/ \E selected \in SUBSET shown, a \in shown :
                a \in selected /\ ContextMenu(a, selected)
           \/ ChooseRemove \/ ChooseKill \/ ClearFinishedJobs \/ Dismiss
    PROVE  IInv'
<1>1. /\ \A a \in m_jobs : Ref(a) \in Refs
      /\ shown \subseteq m_jobs /\ asked \in Question
  BY RefType DEF IInv, TableIsCurrent
<1>2. ASSUME NEW selected \in SUBSET shown, NEW a \in shown,
             ContextMenu(a, selected)
      PROVE  IInv'
  <2>1. PICK q : q = [kind |-> "menu", cursor |-> Ref(a),
                      refs |-> {Ref(b) : b \in selected},
                      kill |-> {Ref(b) : b \in {c \in selected :
                                        heap[c].state \in GuiKillable}}]
    OBVIOUS
  <2>2. /\ {Ref(b) : b \in selected} \in SUBSET Refs /\ Ref(a) \in Refs
        /\ {Ref(b) : b \in {c \in selected :
                              heap[c].state \in GuiKillable}} \in SUBSET Refs
    BY <1>1
  <2>3. q \in Question
    BY <2>1, <2>2 DEF Question
  <2>4. Ask(q)
    BY <1>2, <2>1 DEF ContextMenu
  <2> QED BY <2>3, <2>4, AskingStep
<1>3. CASE ChooseRemove
  <2>1. PICK q : q = [kind |-> "remove", refs |-> asked.refs]
    OBVIOUS
  <2>2. q \in Question
    BY <1>1, <1>3, <2>1 DEF ChooseRemove, Question, Nobody
  <2>3. Ask(q)
    BY <1>3, <2>1 DEF ChooseRemove
  <2> QED BY <2>2, <2>3, AskingStep
<1>4. CASE ChooseKill
  <2>1. PICK q : q = [kind |-> "kill", refs |-> asked.kill]
    OBVIOUS
  <2>2. q \in Question
    BY <1>1, <1>4, <2>1 DEF ChooseKill, Question, Nobody
  <2>3. Ask(q)
    BY <1>4, <2>1 DEF ChooseKill
  <2> QED BY <2>2, <2>3, AskingStep
<1>5. CASE ClearFinishedJobs
  <2>1. PICK q : q = [kind |-> "remove",
                      refs |-> {Ref(a) : a \in {b \in m_jobs :
                          heap[b].state \in {"Finished", "Canceled"}}}]
    OBVIOUS
  <2>2. q \in Question
    BY <1>1, <2>1 DEF Question
  <2>3. Ask(q)
    BY <1>5, <2>1 DEF ClearFinishedJobs
  <2> QED BY <2>2, <2>3, AskingStep
<1>6. CASE Dismiss
  BY <1>6, AskingStep DEF Dismiss, Question
<1> QED BY <1>2, <1>3, <1>4, <1>5, <1>6

LEMMA ViewLogStep == ASSUME IInv, ChooseViewLog PROVE IInv'
<1>1. /\ asked' \in Question
      /\ UNCHANGED <<storeVars, filter, tableVars>>
  BY DEF ChooseViewLog, Question
<1>2. LogInv'
  <2>1. CASE UNCHANGED logVars
    BY <2>1, LogUnchanged DEF IInv
  <2>2. ASSUME NEW id \in Watched, ShowLogWindow(id) PROVE LogInv'
    BY <2>2, ShowStep DEF IInv, Windows
  <2> QED BY <2>1, <2>2 DEF ChooseViewLog
<1> QED BY <1>1, <1>2, AskStep

LEMMA SetFilterStep == ASSUME IInv, NEW f, SetFilter(f) PROVE IInv'
<1>1. /\ filter' = f
      /\ ShowRows({a \in m_jobs : Accepts(f, heap[a])}, Cardinality(m_jobs))
      /\ UNCHANGED <<heap, m_jobs, m_moleQueueMap, m_moleQueueIdCounter, file, asked>>
      /\ UNCHANGED logVars
  BY DEF SetFilter, storeVars
<1>2. LogInv'
  BY <1>1, LogUnchanged DEF IInv
<1>3. StoreOK' /\ AllOnDisk' /\ asked' \in Question
  BY <1>1 DEF IInv, StoreOK, AllOnDisk
<1>4. TableIsCurrent'
  <2>1. PICK rows : rows = {a \in m_jobs : Accepts(f, heap[a])}
    OBVIOUS
  <2>2. PICK n : n = Cardinality(m_jobs)
    OBVIOUS
  <2>3. ShowRows(rows, n)
    BY <1>1, <2>1, <2>2
  <2>4. rows = {a \in m_jobs' : Accepts(filter', heap'[a])} /\ n = Cardinality(m_jobs')
    BY <1>1, <2>1, <2>2
  <2> QED BY <2>3, <2>4, RowsStep DEF IInv
<1> QED BY <1>2, <1>3, <1>4 DEF IInv

LEMMA InitIInv == Init => IInv
<1> SUFFICES ASSUME Init PROVE IInv
  OBVIOUS
<1>1. LogInv
  <2>1. NoWindows \in [Windows -> {"none", "hidden", "shown"}]
    BY DEF NoWindows
  <2>2. /\ m_newErrorCount = 0 /\ m_silenceNewErrors = FALSE
        /\ m_log = 0 /\ logFile = 0 /\ label = FALSE /\ windows = NoWindows
    BY DEF Init, LogInit
  <2>3. m_newErrorCount \in 0 .. ManyErrors /\ {m_log, logFile} \subseteq 0 .. MaxEntries
    BY <2>2, ErrorLogAssumption
  <2> QED BY <2>1, <2>2, <2>3 DEF LogInv, LogTypeOK, NotifiesTruly
<1>2. /\ heap = [a \in Addresses |-> Null] /\ m_jobs = {}
      /\ m_moleQueueMap = [id \in Ids |-> Null] /\ m_moleQueueIdCounter = 0
      /\ file = [id \in Ids |-> NoFile] /\ shown = {} /\ asked = Nobody
      /\ counts = [total |-> 0, hidden |-> 0]
  BY DEF Init
<1>3. StoreOK
  BY <1>2, JobTableAssumption DEF StoreOK, NoFile
<1>4. TableIsCurrent
  BY <1>2, FS_EmptySet DEF TableIsCurrent
<1> QED BY <1>1, <1>2, <1>3, <1>4 DEF IInv, AllOnDisk, Question

LEMMA NextIInv == IInv /\ [Next]_vars => IInv'
<1> SUFFICES ASSUME IInv, [Next]_vars PROVE IInv'
  OBVIOUS
<1>1. ASSUME NEW a \in Addresses, NEW s \in Progress, NEW hide \in Hides,
             NewJob(a, s, hide)
      PROVE  IInv'
  BY <1>1, NewJobStep
<1>2. ASSUME NEW id \in Ids, NEW s \in Progress, SetJobState(id, s) PROVE IInv'
  BY <1>2, SetJobStateStep
<1>3. ASSUME NEW id \in Ids, SetJobQueueId(id) PROVE IInv'
  BY <1>3, SetJobQueueIdStep
<1>4. CASE SyncTimer
  BY <1>4, SyncTimerStep
<1>5. ASSUME NEW f \in Filters, SetFilter(f) PROVE IInv'
  BY <1>5, SetFilterStep
<1>6. CASE \/ \E selected \in SUBSET shown, a \in shown :
                a \in selected /\ ContextMenu(a, selected)
           \/ ChooseRemove \/ ChooseKill \/ ClearFinishedJobs \/ Dismiss
  BY <1>6, MenuSteps
<1>7. CASE ChooseViewLog
  BY <1>7, ViewLogStep
<1>8. CASE ConfirmRemove
  BY <1>8, ConfirmRemoveStep
<1>9. CASE ConfirmKill
  BY <1>9, ConfirmKillStep
<1>10. CASE LogNext /\ UNCHANGED <<storeVars, filter, tableVars, asked>>
  <2>1. LogInv' /\ asked' \in Question
    BY <1>10, LogNextStep DEF IInv
  <2> QED BY <1>10, <2>1, AskStep
<1>11. CASE QuitAndRestart
  BY <1>11, QuitStep
<1>12. CASE CrashAndRestart
  BY <1>12, CrashStep
<1>13. CASE UNCHANGED vars
  <2>1. /\ UNCHANGED <<storeVars, filter, tableVars>> /\ UNCHANGED logVars
        /\ asked' = asked
    BY <1>13 DEF vars
  <2>2. LogInv' /\ asked' \in Question
    BY <2>1, LogUnchanged DEF IInv
  <2> QED BY <2>1, <2>2, AskStep
<1> QED BY <1>1, <1>2, <1>3, <1>4, <1>5, <1>6, <1>7, <1>8, <1>9, <1>10, <1>11,
           <1>12, <1>13 DEF Next

-----------------------------------------------------------------------------
(* The theorems.                                                           *)

\* The list, the map, the objects, the files, the table and the log agree in
\* every state: what the properties below need to be inductive.
THEOREM Inductive == Spec => []IInv
BY InitIInv, NextIInv, PTL DEF Spec

\* The rows and the counts of the table are those of the jobs and the filter
\* there are, for any jobs and any filters.
THEOREM TableStaysCurrent == Spec => []TableIsCurrent
<1>1. IInv => TableIsCurrent
  BY Parts
<1> QED BY <1>1, Inductive, PTL

\* A job that needs no saving is on disk as it is, unless the disk was full.
THEOREM SyncedStaysOnDisk == Spec => []SyncedIsOnDisk
<1>1. IInv => SyncedIsOnDisk
  BY Parts
<1> QED BY <1>1, Inductive, PTL

\* The error label and the silence have their reason, for any log windows.
THEOREM LabelStaysTrue == Spec => []NotifiesTruly
<1>1. IInv => NotifiesTruly
  BY Parts
<1> QED BY <1>1, Inductive, PTL

===============================================================================
