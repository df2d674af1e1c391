--------------------------- MODULE QueueConfigProofs ---------------------------
(***************************************************************************)
(* Proofs about QueueConfig: for any number of queues, programs, names,    *)
(* types and dialogs the maps by name agree with the objects, and what the *)
(* end of the program writes the next start reads back.                    *)
(***************************************************************************)
EXTENDS QueueConfig, TLAPS

\* A program is freed with the queue it was made for.
ProgramsHaveQueues ==
    \A p \in Programs : program[p] # Null => queue[program[p].queue] # Null

\* No file of the directory is one that a start would refuse.
FileGood(f) == FileOK(f) /\ ~Refused(f)
FilesOK == \A n \in Names \ {NoName} : FileGood(file[n])

IInv == NamesAgree /\ ProgramsHaveQueues /\ FilesOK

-----------------------------------------------------------------------------
(* What is written.                                                        *)

\* The settings of a queue's programs have the form in which a file keeps
\* them (Queue::writeJsonSettings).
LEMMA ProgramsOfType ==
    ASSUME NEW prog \in [Programs -> {Null} \cup ProgramObject],
           NEW q \in QueueObject,
           \A n \in ProgramNames : q.m_programs[n] # Null => prog[q.m_programs[n]] # Null
    PROVE  ProgramsOf(q, prog) \in ProgramList
<1> DEFINE P == Range(q.m_programs) \ {Null}
<1>1. ASSUME NEW p \in P
      PROVE  p \in Programs /\ prog[p] \in ProgramObject
  <2>1. q.m_programs \in [ProgramNames -> Programs \cup {Null}]
    BY DEF QueueObject
  <2>2. PICK n \in ProgramNames : q.m_programs[n] = p
    BY <2>1 DEF Range
  <2>3. p # Null /\ p \in Programs
    BY <2>1, <2>2
  <2> QED
    BY <2>2, <2>3
<1>2. ASSUME NEW n \in ProgramNames, \E p \in P : prog[p].name = n
      PROVE  prog[CHOOSE p \in P : prog[p].name = n].settings \in ProgramSettings
  <2>1. (CHOOSE p \in P : prog[p].name = n) \in P
    BY <1>2
  <2> QED
    BY <1>1, <2>1 DEF ProgramObject
<1> QED
  BY <1>2 DEF ProgramsOf, ProgramList

\* The keys that readJsonSettings refuses to do without are among those that
\* writeJsonSettings writes, for each class.  (queue.cpp 139-325, remote.cpp
\* 54-95, remotessh.cpp 56-114, local.cpp 74-131, queueuit.cpp 85-121)
THEOREM KeysSuffice ==
    ASSUME NEW type \in Types, NEW only \in BOOLEAN, NEW with \in BOOLEAN
    PROVE  Required(type, only) \subseteq Keys(type, only, with)
BY DEF Required, Keys, QueueNeeds, QueueKeys, LocalNeeds, LocalKeys, RemoteNeeds,
       RemoteKeys, RemoteSshNeeds, RemoteSshKeys, UitNeeds, UitKeys

\* Names are the numbers up to MaxName.
LEMMA NamesBound == MaxName \in Names /\ \A n \in Names : n =< MaxName
<1>1. MaxName \in Nat
  BY QueueConfigAssumption
<1> QED
  BY <1>1 DEF Names, NoName

\* The fields of a record.
LEMMA RecordFields ==
    ASSUME NEW f, NEW t, NEW k, NEW v, NEW l,
           f = [at |-> "whole", type |-> t, keys |-> k, settings |-> v, programs |-> l]
    PROVE  f.at = "whole" /\ f.type = t /\ f.settings = v /\ f.keys = k /\ f.programs = l
OBVIOUS

\* The fields of a file that is written to be kept.
LEMMA WrittenFields ==
    ASSUME NEW q, NEW prog
    PROVE  LET f == Written(q, prog, FALSE, TRUE)
           IN  /\ f.at = "whole" /\ f.type = q.type /\ f.settings = q.settings
               /\ f.keys = Keys(q.type, FALSE, TRUE)
               /\ f.programs = ProgramsOf(q, prog)
<1> DEFINE f == Written(q, prog, FALSE, TRUE)
<1>1. f = [at |-> "whole", type |-> q.type, keys |-> Keys(q.type, FALSE, TRUE),
           settings |-> q.settings, programs |-> ProgramsOf(q, prog)]
  BY Zenon DEF Written
<1> HIDE DEF f
<1>2. \A t, k, v, l : f = [at |-> "whole", type |-> t, keys |-> k, settings |-> v, programs |-> l]
         => f.at = "whole" /\ f.type = t /\ f.settings = v /\ f.keys = k /\ f.programs = l
  BY RecordFields
<1>3. /\ f.at = "whole" /\ f.type = q.type /\ f.settings = q.settings
      /\ f.keys = Keys(q.type, FALSE, TRUE) /\ f.programs = ProgramsOf(q, prog)
  BY <1>1, <1>2, Zenon
<1> QED
  BY <1>3, Zenon DEF f

\* Queue::writeSettings leaves a file that is whole and has the queue's own
\* settings.
LEMMA WrittenOK ==
    ASSUME NEW prog \in [Programs -> {Null} \cup ProgramObject],
           NEW q \in QueueObject,
           \A n \in ProgramNames : q.m_programs[n] # Null => prog[q.m_programs[n]] # Null
    PROVE  FileGood(Written(q, prog, FALSE, TRUE))
<1>1. ProgramsOf(q, prog) \in ProgramList
  BY ProgramsOfType
<1> DEFINE f == Written(q, prog, FALSE, TRUE)
<1>2. /\ f.type = q.type /\ f.settings = q.settings /\ f.programs = ProgramsOf(q, prog)
      /\ f.keys = Keys(q.type, FALSE, TRUE)
  BY WrittenFields
<1>3. q.type \in Types /\ q.settings \in Settings
  BY DEF QueueObject
<1>5. Required(q.type, FALSE) \subseteq Keys(q.type, FALSE, TRUE)
  BY <1>3, KeysSuffice
<1> HIDE DEF f
<1>4. FileGood(f)
  BY <1>1, <1>2, <1>3, <1>5 DEF FileGood, FileOK, Refused, Readable
<1> QED
  BY <1>4 DEF f

\* A file that was written over another, or put in its place.
LEMMA WithFileOK ==
    ASSUME IInv, NEW n \in Names, NEW f, FileGood(f), file' = WithFile(n, f)
    PROVE  \A m \in Names \ {NoName} : FileGood(file'[m])
<1>1. \A m \in Names \ {NoName} : FileGood(file[m])
  BY DEF IInv, FilesOK
<1> QED
  BY <1>1 DEF WithFile

\* No file, or nothing to read in it.
LEMMA NoFileOK == FileGood(NoFile) /\ FileGood(CutFile)
BY DEF FileGood, FileOK, Refused, Whole, NoFile, CutFile

\* A queue of the manager has the programs it names.
LEMMA KeptQueue ==
    ASSUME IInv, NEW a \in Queues, queue[a] # Null
    PROVE  /\ queue[a] \in QueueObject
           /\ \A n \in ProgramNames : queue[a].m_programs[n] # Null =>
                 program[queue[a].m_programs[n]] # Null
<1>1. queue \in [Queues -> {Null} \cup QueueObject] /\ ProgramsHaveTheirNames
  BY DEF IInv, NamesAgree, TypeOK
<1> QED
  BY <1>1 DEF ProgramsHaveTheirNames

\* The manager keeps one queue under a name, and it has that name.
LEMMA OneOfAName ==
    ASSUME IInv, NEW n \in Names, m_queues[n] # Null
    PROVE  {a \in Kept : queue[a].name = n} = {m_queues[n]}
<1>1. m_queues \in [Names -> {Null} \cup Queues] /\ QueuesHaveTheirNames
  BY DEF IInv, NamesAgree, TypeOK
<1>2. m_queues[n] \in Kept /\ queue[m_queues[n]].name = n
  BY <1>1 DEF Kept, Range, QueuesHaveTheirNames
<1>3. ASSUME NEW a \in Kept, queue[a].name = n
      PROVE  a = m_queues[n]
  <2>1. PICK m \in Names : m_queues[m] = a /\ a # Null
    BY <1>1 DEF Kept, Range
  <2>2. queue[a].name = m
    BY <1>1, <2>1 DEF QueuesHaveTheirNames
  <2> QED
    BY <1>3, <2>1, <2>2
<1> QED
  BY <1>2, <1>3

\* QueueManager::writeSettings at exit or, up to some name, before a crash.
LEMMA SavedOK ==
    ASSUME IInv, NEW n \in Names
    PROVE  \A m \in Names \ {NoName} : FileGood(Saved(n)[m])
<1> SUFFICES ASSUME NEW m \in Names \ {NoName}
             PROVE  FileGood(Saved(n)[m])
  OBVIOUS
<1>1. CASE m =< n /\ \E a \in Kept : queue[a].name = m
  <2> DEFINE c == CHOOSE a \in Kept : queue[a].name = m
  <2>1. c \in Kept
    BY <1>1
  <2>2. c \in Queues /\ queue[c] # Null
    <3>1. m_queues \in [Names -> {Null} \cup Queues] /\ QueuesHaveTheirNames
      BY DEF IInv, NamesAgree, TypeOK
    <3>2. PICK k \in Names : m_queues[k] = c /\ c # Null
      BY <2>1, <3>1 DEF Kept, Range
    <3> QED
      BY <3>1, <3>2 DEF QueuesHaveTheirNames
  <2>3. FileGood(Written(queue[c], program, FALSE, TRUE))
    BY <2>2, KeptQueue, WrittenOK DEF IInv, NamesAgree, TypeOK
  <2> QED
    BY <1>1, <2>3 DEF Saved
<1>2. CASE ~(m =< n /\ \E a \in Kept : queue[a].name = m)
  <2>1. FileGood(file[m])
    BY DEF IInv, FilesOK
  <2> QED
    BY <1>2, <2>1 DEF Saved
<1> QED
  BY <1>1, <1>2

-----------------------------------------------------------------------------
(* What is read.                                                           *)

\* What the end of the program writes, the next start reads.
LEMMA InvSurvives == IInv => SurvivesQuit
<1> DEFINE files == Saved(MaxName)
<1> SUFFICES ASSUME IInv, NEW n \in Names \ {NoName}, m_queues[n] # Null,
                    ~Replaced(files, n)
             PROVE  LET f == files[n]
                        q == queue[m_queues[n]]
                    IN  /\ Loads(files, n)
                        /\ <<f.type, Taken(f, FALSE), f.programs>>
                           = <<q.type, q.settings, ProgramsOf(q, program)>>
  BY DEF SurvivesQuit
<1> DEFINE q == queue[m_queues[n]]
<1>1. {a \in Kept : queue[a].name = n} = {m_queues[n]}
  BY OneOfAName
<1>2. (CHOOSE a \in Kept : queue[a].name = n) = m_queues[n] /\ m_queues[n] \in Kept
  BY <1>1
<1>3. n =< MaxName
  BY NamesBound
<1>4. files[n] = Written(q, program, FALSE, TRUE)
  BY <1>1, <1>2, <1>3 DEF Saved
<1>5. \A m \in Names \ {NoName} : ~Refused(files[m])
  BY SavedOK, NamesBound DEF FileGood
<1>6. ~RemovesOwn(files, n)
  BY <1>5 DEF RemovesOwn, FilesFor
<1> HIDE DEF q
<1> DEFINE f == Written(q, program, FALSE, TRUE)
<1>7. /\ f.at = "whole" /\ f.type = q.type /\ f.settings = q.settings
      /\ f.programs = ProgramsOf(q, program)
  BY WrittenFields
<1> HIDE DEF f, files
<1>8. Readable(f, FALSE) /\ Taken(f, FALSE) = f.settings
  BY <1>4, <1>5, <1>7 DEF Refused, Whole, Taken, f
<1>9. Loads(files, n)
  BY <1>4, <1>6, <1>8 DEF Loads, f
<1> QED
  BY <1>4, <1>7, <1>8, <1>9 DEF q, f

-----------------------------------------------------------------------------
(* The invariant in parts.                                                 *)

ObjectsOK ==
    /\ queue \in [Queues -> {Null} \cup QueueObject]
    /\ program \in [Programs -> {Null} \cup ProgramObject]
    /\ m_queues \in [Names -> {Null} \cup Queues]
DialogsOK ==
    /\ dialogs \in [Queues -> {Null} \cup SettingsDialog]
    /\ programDialogs \in [Queues \X Programs -> {Null} \cup ProgramDialog]

LEMMA Parts ==
    IInv <=> /\ ObjectsOK /\ DialogsOK /\ FilesOK
             /\ QueuesHaveTheirNames /\ ProgramsHaveTheirNames /\ ProgramsHaveQueues
BY DEF IInv, NamesAgree, TypeOK, ObjectsOK, DialogsOK, FilesOK, FileGood

LEMMA PartsNext ==
    ASSUME ObjectsOK', DialogsOK', FilesOK', QueuesHaveTheirNames',
           ProgramsHaveTheirNames', ProgramsHaveQueues'
    PROVE  IInv'
BY DEF IInv, NamesAgree, TypeOK, ObjectsOK, DialogsOK, FilesOK, FileGood

\* A step that leaves queues, programs and the manager alone.
LEMMA ObjectsSame ==
    ASSUME IInv, UNCHANGED <<queue, program, m_queues>>, DialogsOK', FilesOK'
    PROVE  IInv'
<1>1. /\ ObjectsOK' /\ QueuesHaveTheirNames' /\ ProgramsHaveTheirNames'
      /\ ProgramsHaveQueues'
  BY Parts DEF ObjectsOK, QueuesHaveTheirNames, ProgramsHaveTheirNames, ProgramsHaveQueues
<1> QED
  BY <1>1, PartsNext

LEMMA FilesSame ==
    ASSUME IInv, UNCHANGED file
    PROVE  FilesOK'
BY Parts DEF FilesOK

LEMMA DialogsSame ==
    ASSUME IInv, UNCHANGED dialogVars
    PROVE  DialogsOK'
BY Parts DEF DialogsOK, dialogVars

-----------------------------------------------------------------------------
(* The dialogs' own steps.                                                 *)

LEMMA ShownOK ==
    ASSUME NEW q \in QueueObject
    PROVE  Shown(q) \in SettingsDialog
BY DEF Shown, QueueObject, SettingsDialog

LEMMA CloseDialogOK ==
    ASSUME IInv, NEW a \in Queues, CloseDialog(a)
    PROVE  DialogsOK'
BY Parts DEF CloseDialog, DialogsOK

LEMMA ShowSettingsDialogInv ==
    ASSUME IInv, NEW n \in Names, ShowSettingsDialog(n)
    PROVE  IInv'
<1>1. m_queues[n] \in Queues /\ queue[m_queues[n]] \in QueueObject
  BY Parts DEF ShowSettingsDialog, ObjectsOK, QueuesHaveTheirNames
<1>2. DialogsOK'
  BY <1>1, ShownOK, Parts DEF ShowSettingsDialog, DialogsOK
<1> QED
  BY <1>2, ObjectsSame, FilesSame DEF ShowSettingsDialog

LEMMA EditNameInv ==
    ASSUME IInv, NEW a \in Queues, NEW n \in Names, EditName(a, n)
    PROVE  IInv'
<1>1. dialogs[a] \in SettingsDialog
  BY Parts DEF EditName, Usable, DialogsOK
<1>2. [dialogs[a] EXCEPT !.name = n, !.dirty = TRUE] \in SettingsDialog
  BY <1>1 DEF SettingsDialog
<1>3. DialogsOK'
  BY <1>2, Parts DEF EditName, DialogsOK
<1> QED
  BY <1>3, ObjectsSame, FilesSame DEF EditName

LEMMA EditSettingsInv ==
    ASSUME IInv, NEW a \in Queues, NEW v \in Values, EditSettings(a, v)
    PROVE  IInv'
<1>1. dialogs[a] \in SettingsDialog
  BY Parts DEF EditSettings, Usable, DialogsOK
<1>2. [public |-> v, private |-> v] \in Settings
  BY DEF Settings
<1>3. [dialogs[a] EXCEPT !.unsaved = [public |-> v, private |-> v], !.dirty = TRUE]
        \in SettingsDialog
  BY <1>1, <1>2 DEF SettingsDialog
<1>4. DialogsOK'
  BY <1>3, Parts DEF EditSettings, DialogsOK
<1> QED
  BY <1>4, ObjectsSame, FilesSame DEF EditSettings

LEMMA RejectInv ==
    ASSUME IInv, NEW a \in Queues, Reject(a)
    PROVE  IInv'
BY CloseDialogOK, ObjectsSame, FilesSame DEF Reject

LEMMA ResetDialogInv ==
    ASSUME IInv, NEW a \in Queues, ResetDialog(a)
    PROVE  IInv'
<1>1. queue[a] \in QueueObject
  BY KeptQueue DEF ResetDialog, Usable
<1>2. DialogsOK'
  BY <1>1, ShownOK, Parts DEF ResetDialog, DialogsOK
<1> QED
  BY <1>2, ObjectsSame, FilesSame DEF ResetDialog

LEMMA ShowProgramConfigDialogInv ==
    ASSUME IInv, NEW a \in Queues, NEW n \in ProgramNames, ShowProgramConfigDialog(a, n)
    PROVE  IInv'
<1> DEFINE p == queue[a].m_programs[n]
<1>1. queue[a] \in QueueObject /\ p # Null /\ program[p] # Null
  BY KeptQueue DEF ShowProgramConfigDialog, Usable
<1>2. p \in Programs
  BY <1>1 DEF QueueObject
<1> HIDE DEF p
<1>3. program[p] \in ProgramObject
  BY <1>1, <1>2, Parts DEF ObjectsOK
<1>4. ShownProgram(p) \in ProgramDialog
  BY <1>3 DEF ShownProgram, ProgramObject, ProgramDialog
<1>5. programDialogs[<<a, p>>] \in {Null} \cup ProgramDialog
  BY <1>2, Parts DEF DialogsOK
<1>6. ASSUME programDialogs[<<a, p>>] # Null
      PROVE  [programDialogs[<<a, p>>] EXCEPT !.visible = TRUE] \in ProgramDialog
  BY <1>5, <1>6 DEF ProgramDialog
<1>7. programDialogs' = [programDialogs EXCEPT ![<<a, p>>] =
         IF programDialogs[<<a, p>>] = Null THEN ShownProgram(p)
         ELSE [programDialogs[<<a, p>>] EXCEPT !.visible = TRUE]]
  BY Zenon DEF ShowProgramConfigDialog, p
<1>8. programDialogs' \in [Queues \X Programs -> {Null} \cup ProgramDialog]
  BY <1>4, <1>6, <1>7, Parts DEF DialogsOK
<1> QED
  BY <1>8, Parts, ObjectsSame, FilesSame DEF ShowProgramConfigDialog, DialogsOK

LEMMA EditProgramInv ==
    ASSUME IInv, NEW a \in Queues, NEW p \in Programs, NEW n \in ProgramNames,
           NEW v \in ProgramSettings, EditProgram(a, p, n, v)
    PROVE  IInv'
<1>1. programDialogs[<<a, p>>] \in ProgramDialog
  BY Parts DEF EditProgram, UsableProgram, DialogsOK
<1> DEFINE d == [programDialogs[<<a, p>>] EXCEPT !.name = n, !.dirty = TRUE, !.settings = v]
<1>2. d \in ProgramDialog
  BY <1>1 DEF ProgramDialog
<1>3. programDialogs' = [programDialogs EXCEPT ![<<a, p>>] = d] /\ UNCHANGED dialogs
  BY DEF EditProgram
<1> HIDE DEF d
<1>4. DialogsOK'
  BY <1>2, <1>3, Parts DEF DialogsOK
<1> QED
  BY <1>4, ObjectsSame, FilesSame DEF EditProgram

LEMMA RejectProgramInv ==
    ASSUME IInv, NEW a \in Queues, NEW p \in Programs, RejectProgram(a, p)
    PROVE  IInv'
<1>1. DialogsOK'
  BY Parts DEF RejectProgram, DialogsOK
<1> QED
  BY <1>1, ObjectsSame, FilesSame DEF RejectProgram

LEMMA RefuseProgramInv ==
    ASSUME IInv, NEW a \in Queues, NEW p \in Programs, RefuseProgram(a, p)
    PROVE  IInv'
<1>1. programDialogs[<<a, p>>] \in ProgramDialog
  BY Parts DEF RefuseProgram, UsableProgram, DialogsOK
<1>2. [programDialogs[<<a, p>>] EXCEPT !.visible = FALSE] \in ProgramDialog
  BY <1>1 DEF ProgramDialog
<1>3. DialogsOK'
  BY <1>2, Parts DEF RefuseProgram, DialogsOK
<1> QED
  BY <1>3, ObjectsSame, FilesSame DEF RefuseProgram

-----------------------------------------------------------------------------
(* Queues come and go.                                                     *)

LEMMA NewQueueOK ==
    ASSUME NEW n \in Names, NEW t \in Types, NEW v \in Settings
    PROVE  /\ NewQueue(n, t, v) \in QueueObject
           /\ NewQueue(n, t, v).name = n
           /\ \A m \in ProgramNames : NewQueue(n, t, v).m_programs[m] = Null
BY DEF NewQueue, QueueObject

LEMMA DefaultsOK == Defaults \in Settings /\ Defaults \in ProgramSettings
BY QueueConfigAssumption DEF Defaults, Settings, ProgramSettings

\* A queue without programs is put where none is, under a name that is free.
LEMMA QueueAdded ==
    ASSUME IInv, NEW a \in Queues, NEW n \in Names, NEW q \in QueueObject,
           queue[a] = Null, m_queues[n] = Null, q.name = n,
           \A m \in ProgramNames : q.m_programs[m] = Null,
           queue' = [queue EXCEPT ![a] = q],
           m_queues' = [m_queues EXCEPT ![n] = a],
           UNCHANGED <<program, file, dialogVars>>
    PROVE  IInv'
<1>0. q # Null /\ a # Null
  BY NullAssumption, QueueConfigAssumption
<1>1. ObjectsOK'
  BY Parts DEF ObjectsOK
<1>2. QueuesHaveTheirNames'
  BY <1>0, Parts DEF ObjectsOK, QueuesHaveTheirNames
<1>3. ProgramsHaveTheirNames'
  BY Parts DEF ObjectsOK, ProgramsHaveTheirNames
<1>4. ProgramsHaveQueues'
  BY <1>0, Parts DEF ObjectsOK, ProgramsHaveQueues
<1> QED
  BY <1>1, <1>2, <1>3, <1>4, FilesSame, DialogsSame, PartsNext

LEMMA AddQueueInv ==
    ASSUME IInv, NEW a \in Queues, NEW n \in Names, NEW t \in Types, AddQueue(a, n, t)
    PROVE  IInv'
<1> DEFINE q == NewQueue(n, t, Defaults)
<1>1. q \in QueueObject /\ q.name = n /\ \A m \in ProgramNames : q.m_programs[m] = Null
  BY NewQueueOK, DefaultsOK
<1>2. /\ queue[a] = Null /\ m_queues[n] = Null
      /\ queue' = [queue EXCEPT ![a] = q]
      /\ m_queues' = [m_queues EXCEPT ![n] = a]
      /\ UNCHANGED <<program, file, dialogVars>>
  BY DEF AddQueue
<1> HIDE DEF q
<1> QED
  BY <1>1, <1>2, QueueAdded

\* Queue::readJsonSettings of an import makes the programs of the file; their
\* addresses were free.
LEMMA PutProgramsInv ==
    ASSUME IInv, NEW a \in Queues, NEW n \in Names, NEW q \in QueueObject,
           NEW from \in ProgramList,
           queue[a] = Null, m_queues[n] = Null, q.name = n,
           PutPrograms(q, a, from),
           m_queues' = [m_queues EXCEPT ![n] = a],
           UNCHANGED <<file, dialogVars>>
    PROVE  IInv'
<1>1. PICK put \in [{m \in ProgramNames : from[m] # Null} ->
                     {p \in Programs : program[p] = Null}] :
       /\ IsInjective(put)
       /\ queue' = [queue EXCEPT ![a] = [q EXCEPT !.m_programs =
                       [m \in ProgramNames |-> IF m \in DOMAIN put THEN put[m] ELSE Null]]]
       /\ program' = [p \in Programs |->
                        IF \E m \in DOMAIN put : put[m] = p
                        THEN LET m == CHOOSE m \in DOMAIN put : put[m] = p
                             IN  NewProgram(a, m, from[m])
                        ELSE program[p]]
  BY DEF PutPrograms
<1> DEFINE mp == [m \in ProgramNames |-> IF m \in DOMAIN put THEN put[m] ELSE Null]
           r  == [q EXCEPT !.m_programs = mp]
<1>2. mp \in [ProgramNames -> Programs \cup {Null}]
  OBVIOUS
<1>3. r \in QueueObject /\ r.name = n /\ r.m_programs = mp
  <2> HIDE DEF mp
  <2> QED
    BY <1>2 DEF QueueObject
<1>4. ASSUME NEW m \in DOMAIN put
      PROVE  /\ put[m] \in Programs /\ program[put[m]] = Null
             /\ program'[put[m]] = NewProgram(a, m, from[m])
             /\ program'[put[m]] \in ProgramObject
             /\ program'[put[m]].name = m /\ program'[put[m]].queue = a
  <2>1. put[m] \in Programs /\ program[put[m]] = Null
    OBVIOUS
  <2>2. \A k \in DOMAIN put : put[k] = put[m] => k = m
    BY <1>1 DEF IsInjective
  <2>3. (CHOOSE k \in DOMAIN put : put[k] = put[m]) = m
    BY <2>2
  <2>4. program'[put[m]] = NewProgram(a, m, from[m])
    BY <1>1, <2>1, <2>3, Zenon
  <2>5. m \in ProgramNames /\ from[m] \in ProgramSettings
    BY DEF ProgramList
  <2> QED
    BY <2>1, <2>4, <2>5 DEF NewProgram, ProgramObject
<1>5. ASSUME NEW p \in Programs, \A m \in DOMAIN put : put[m] # p
      PROVE  program'[p] = program[p]
  BY <1>1, <1>5
<1>6. ASSUME NEW p \in Programs
      PROVE  program'[p] \in {Null} \cup ProgramObject
  BY <1>4, <1>5, Parts DEF ObjectsOK
<1>7. program' \in [Programs -> {Null} \cup ProgramObject]
  <2>1. program' = [p \in Programs |-> program'[p]]
    BY <1>1, Zenon
  <2> QED
    BY <1>6, <2>1
<1>8. queue' = [queue EXCEPT ![a] = r]
  BY <1>1
<1> HIDE DEF r
<1>9. a # Null /\ r # Null
  BY <1>3, NullAssumption, QueueConfigAssumption
<1>10. ObjectsOK'
  BY <1>3, <1>7, <1>8, Parts DEF ObjectsOK
<1>11. QueuesHaveTheirNames'
  BY <1>3, <1>8, <1>9, Parts DEF ObjectsOK, QueuesHaveTheirNames
<1>12. ProgramsHaveTheirNames'
  <2> SUFFICES ASSUME NEW b \in Queues, queue'[b] # Null, NEW m \in ProgramNames,
                      queue'[b].m_programs[m] # Null
               PROVE  LET p == queue'[b].m_programs[m] IN
                      /\ program'[p] # Null /\ program'[p].name = m
                      /\ program'[p].queue = b
    BY DEF ProgramsHaveTheirNames
  <2>1. CASE b = a
    <3>1. queue'[b].m_programs[m] = mp[m]
      BY <1>3, <1>8, <2>1, Parts DEF ObjectsOK
    <3>2. m \in DOMAIN put /\ mp[m] = put[m]
      BY <3>1
    <3> QED
      BY <1>4, <2>1, <3>1, <3>2, NullAssumption
  <2>2. CASE b # a
    <3>1. queue'[b] = queue[b]
      BY <1>8, <2>2, Parts DEF ObjectsOK
    <3> DEFINE p == queue[b].m_programs[m]
    <3>2. p # Null /\ program[p] # Null /\ program[p].name = m /\ program[p].queue = b
      BY <3>1, Parts DEF ProgramsHaveTheirNames
    <3>3. p \in Programs
      BY <3>1, <3>2, KeptQueue DEF QueueObject
    <3>4. program'[p] = program[p]
      BY <1>4, <1>5, <3>2, <3>3
    <3> QED
      BY <3>1, <3>2, <3>4
  <2> QED
    BY <2>1, <2>2
<1>13. ProgramsHaveQueues'
  <2> SUFFICES ASSUME NEW p \in Programs, program'[p] # Null
               PROVE  queue'[program'[p].queue] # Null
    BY DEF ProgramsHaveQueues
  <2>1. CASE \E m \in DOMAIN put : put[m] = p
    BY <1>4, <1>8, <1>9, <2>1, Parts DEF ObjectsOK
  <2>2. CASE \A m \in DOMAIN put : put[m] # p
    BY <1>5, <1>8, <1>9, <2>2, Parts DEF ObjectsOK, ProgramsHaveQueues, ProgramObject
  <2> QED
    BY <2>1, <2>2
<1> QED
  BY <1>10, <1>11, <1>12, <1>13, FilesSame, DialogsSame, PartsNext

LEMMA TakenOK ==
    ASSUME NEW f, FileOK(f), Whole(f), NEW only \in BOOLEAN
    PROVE  Taken(f, only) \in Settings
<1>1. f.settings \in Settings
  BY DEF FileOK
<1>2. [f.settings EXCEPT !.private = 0] \in Settings
  BY <1>1, QueueConfigAssumption DEF Settings
<1> QED
  BY <1>1, <1>2 DEF Taken

LEMMA ImportQueueInv ==
    ASSUME IInv, NEW a \in Queues, NEW n \in Names, NEW f \in Imports,
           NEW with \in BOOLEAN, ImportQueue(a, n, f, with)
    PROVE  IInv'
<1> DEFINE nothing == [m \in ProgramNames |-> Null]
<1>1. FileOK(f) /\ f.type \in Types
  <2>1. PICK t \in Types, k \in ImportKeys :
          f = [at |-> "whole", type |-> t, keys |-> k, settings |-> Defaults,
               programs |-> [m \in ProgramNames |-> IF m = SleepTesting THEN Defaults ELSE Null]]
    BY DEF Imports
  <2>2. [m \in ProgramNames |-> IF m = SleepTesting THEN Defaults ELSE Null] \in ProgramList
    BY DefaultsOK DEF ProgramList
  <2>3. f.type = t /\ f.settings = Defaults /\ f.programs \in ProgramList
    BY <2>1, <2>2
  <2> QED
    BY <2>3, DefaultsOK DEF FileOK
<1>2. nothing \in ProgramList
  BY DEF ProgramList
<1>3. Whole(f) /\ queue[a] = Null /\ m_queues[n] = Null
  BY DEF ImportQueue
<1>4. CASE Readable(f, TRUE)
  <2> DEFINE q == NewQueue(n, f.type, Taken(f, TRUE))
             from == IF with THEN f.programs ELSE nothing
  <2>1. q \in QueueObject /\ q.name = n
    BY <1>1, <1>3, TakenOK, NewQueueOK
  <2>2. from \in ProgramList
    BY <1>1, <1>2, <1>3 DEF FileOK
  <2>3. PutPrograms(q, a, from)
    BY <1>4, Zenon DEF ImportQueue
  <2>4. m_queues' = [m_queues EXCEPT ![n] = a] /\ UNCHANGED <<file, dialogVars>>
    BY DEF ImportQueue
  <2> HIDE DEF q, from
  <2> QED
    BY <1>3, <2>1, <2>2, <2>3, <2>4, PutProgramsInv
<1>5. CASE ~Readable(f, TRUE)
  <2> DEFINE q == NewQueue(n, f.type, Defaults)
  <2>1. q \in QueueObject /\ q.name = n /\ \A m \in ProgramNames : q.m_programs[m] = Null
    BY <1>1, NewQueueOK, DefaultsOK
  <2>2. /\ queue' = [queue EXCEPT ![a] = q]
        /\ m_queues' = [m_queues EXCEPT ![n] = a]
        /\ UNCHANGED <<program, file, dialogVars>>
    BY <1>5 DEF ImportQueue
  <2> HIDE DEF q
  <2> QED
    BY <1>3, <2>1, <2>2, QueueAdded
<1> QED
  BY <1>4, <1>5

LEMMA RemoveQueueInv ==
    ASSUME IInv, NEW n \in Names, RemoveQueue(n)
    PROVE  IInv'
<1> DEFINE a == m_queues[n]
<1>1. a \in Queues /\ a # Null /\ queue[a] # Null /\ queue[a].name = n
  BY Parts DEF RemoveQueue, ObjectsOK, QueuesHaveTheirNames
<1>2. /\ m_queues' = [m_queues EXCEPT ![n] = Null]
      /\ file' = WithFile(queue[a].name, NoFile)
      /\ queue' = [queue EXCEPT ![a] = Null]
      /\ program' = [p \in Programs |->
            IF program[p] # Null /\ program[p].queue = a THEN Null ELSE program[p]]
      /\ UNCHANGED dialogVars
  BY DEF RemoveQueue
<1> HIDE DEF a
<1>3. ObjectsOK'
  BY <1>1, <1>2, Parts DEF ObjectsOK
<1>4. QueuesHaveTheirNames'
  <2> SUFFICES ASSUME NEW m \in Names, m_queues'[m] # Null
               PROVE  queue'[m_queues'[m]] # Null /\ queue'[m_queues'[m]].name = m
    BY DEF QueuesHaveTheirNames
  <2>1. m # n /\ m_queues'[m] = m_queues[m]
    BY <1>2, Parts DEF ObjectsOK
  <2>2. queue[m_queues[m]] # Null /\ queue[m_queues[m]].name = m
    BY <2>1, Parts DEF QueuesHaveTheirNames
  <2>3. m_queues[m] # a
    BY <1>1, <2>1, <2>2
  <2> QED
    BY <1>1, <1>2, <2>1, <2>2, <2>3, Parts DEF ObjectsOK
<1>5. ProgramsHaveTheirNames'
  <2> SUFFICES ASSUME NEW b \in Queues, queue'[b] # Null, NEW m \in ProgramNames,
                      queue'[b].m_programs[m] # Null
               PROVE  LET p == queue'[b].m_programs[m] IN
                      /\ program'[p] # Null /\ program'[p].name = m
                      /\ program'[p].queue = b
    BY DEF ProgramsHaveTheirNames
  <2>1. b # a /\ queue'[b] = queue[b]
    BY <1>1, <1>2, Parts DEF ObjectsOK
  <2> DEFINE p == queue[b].m_programs[m]
  <2>2. p # Null /\ program[p] # Null /\ program[p].name = m /\ program[p].queue = b
    BY <2>1, Parts DEF ProgramsHaveTheirNames
  <2>3. p \in Programs
    BY <2>1, <2>2, KeptQueue DEF QueueObject
  <2>4. program'[p] = program[p]
    BY <1>2, <2>1, <2>2, <2>3
  <2> QED
    BY <2>1, <2>2, <2>4
<1>6. ProgramsHaveQueues'
  <2> SUFFICES ASSUME NEW p \in Programs, program'[p] # Null
               PROVE  queue'[program'[p].queue] # Null
    BY DEF ProgramsHaveQueues
  <2>1. program'[p] = program[p] /\ program[p].queue # a
    BY <1>2
  <2>2. program[p].queue \in Queues /\ queue[program[p].queue] # Null
    BY <2>1, Parts DEF ObjectsOK, ProgramObject, ProgramsHaveQueues
  <2> QED
    BY <1>2, <2>1, <2>2, Parts DEF ObjectsOK
<1>7. FilesOK'
  BY <1>1, <1>2, WithFileOK, NoFileOK DEF FilesOK
<1> QED
  BY <1>2, <1>3, <1>4, <1>5, <1>6, <1>7, DialogsSame, PartsNext

-----------------------------------------------------------------------------
(* Queues are renamed.                                                     *)

\* QueueManager::queueNameChanged: a queue under its old name is filed under
\* its new one, and one that was replaced or removed stays out of the map.
LEMMA RenameOK ==
    ASSUME IInv, NEW a \in Queues, queue[a] # Null, NEW n \in Names, Rename(a, n),
           NEW q \in QueueObject, q.name = n,
           queue' = [queue EXCEPT ![a] = q]
    PROVE  /\ m_queues' \in [Names -> {Null} \cup Queues]
           /\ QueuesHaveTheirNames' /\ FilesOK'
<1> DEFINE old == queue[a].name
           b   == m_queues[old]
           r   == [queue[a] EXCEPT !.name = n]
<1>1. queue[a] \in QueueObject /\ old \in Names
  BY KeptQueue DEF QueueObject
<1>2. r \in QueueObject /\ r.name = n /\ r.m_programs = queue[a].m_programs
  BY <1>1 DEF QueueObject
<1>3. [queue EXCEPT ![a].name = n] = [queue EXCEPT ![a] = r]
  BY Parts DEF ObjectsOK
<1>4. b # Null => b \in Queues /\ queue[b] # Null /\ queue[b].name = old
  BY <1>1, Parts DEF ObjectsOK, QueuesHaveTheirNames
<1>5. q # Null /\ a # Null
  BY NullAssumption, QueueConfigAssumption
<1>6. CASE n # old /\ IsRenamed(b, n, [queue EXCEPT ![a] = r])
  <2>1. b # Null /\ [queue EXCEPT ![a] = r][b].name = n
    BY <1>6 DEF IsRenamed
  <2>2. b = a
    BY <1>4, <1>6, <2>1, Parts DEF ObjectsOK
  <2>3. /\ m_queues' = [m_queues EXCEPT ![old] = Null, ![n] = a]
        /\ file' = WithFile(n, Written([queue EXCEPT ![a] = r][a], program, FALSE, TRUE))
    BY <1>3, <1>6, <2>2, Zenon DEF Rename
  <2>4. [queue EXCEPT ![a] = r][a] = r
    BY Parts DEF ObjectsOK
  <2>5. FileGood(Written(r, program, FALSE, TRUE))
    BY <1>2, KeptQueue, WrittenOK, Parts DEF ObjectsOK
  <2> DEFINE w == Written(r, program, FALSE, TRUE)
  <2>6. file' = WithFile(n, w)
    BY <2>3, <2>4, Zenon
  <2> HIDE DEF w
  <2>7. FilesOK'
    BY <2>5, <2>6, WithFileOK DEF FilesOK, w
  <2> HIDE DEF r, old, b
  <2>8. m_queues' \in [Names -> {Null} \cup Queues]
    BY <1>1, <2>3, Parts DEF ObjectsOK
  <2>9. QueuesHaveTheirNames'
    <3> SUFFICES ASSUME NEW m \in Names, m_queues'[m] # Null
                 PROVE  queue'[m_queues'[m]] # Null /\ queue'[m_queues'[m]].name = m
      BY DEF QueuesHaveTheirNames
    <3>1. CASE m = n
      BY <1>5, <2>3, <3>1, Parts DEF ObjectsOK
    <3>2. CASE m # n
      <4>1. m # old /\ m_queues'[m] = m_queues[m]
        BY <1>1, <2>3, <3>2, Parts DEF ObjectsOK
      <4>2. m_queues[m] \in Queues /\ queue[m_queues[m]] # Null /\ queue[m_queues[m]].name = m
        BY <4>1, Parts DEF ObjectsOK, QueuesHaveTheirNames
      <4>3. m_queues[m] # a
        BY <4>1, <4>2 DEF old
      <4> QED
        BY <4>1, <4>2, <4>3, Parts DEF ObjectsOK
    <3> QED
      BY <3>1, <3>2
  <2> QED
    BY <2>7, <2>8, <2>9
<1>7. CASE ~(n # old /\ IsRenamed(b, n, [queue EXCEPT ![a] = r]))
  <2>1. UNCHANGED <<m_queues, file>>
    BY <1>3, <1>7, Zenon DEF Rename
  <2>2. FilesOK' /\ m_queues' \in [Names -> {Null} \cup Queues]
    BY <2>1, FilesSame, Parts DEF ObjectsOK
  <2>3. QueuesHaveTheirNames'
    <3> SUFFICES ASSUME NEW m \in Names, m_queues[m] # Null
                 PROVE  queue'[m_queues[m]] # Null /\ queue'[m_queues[m]].name = m
      BY <2>1 DEF QueuesHaveTheirNames
    <3>1. m_queues[m] \in Queues /\ queue[m_queues[m]] # Null /\ queue[m_queues[m]].name = m
      BY Parts DEF ObjectsOK, QueuesHaveTheirNames
    <3>2. CASE m_queues[m] = a
      <4>1. m = old /\ b = a
        BY <3>1, <3>2
      <4>2. n = old
        BY <1>2, <1>5, <1>7, <4>1, Parts DEF IsRenamed, ObjectsOK
      <4> QED
        BY <1>5, <3>2, <4>1, <4>2, Parts DEF ObjectsOK
    <3>3. CASE m_queues[m] # a
      BY <3>1, <3>3, Parts DEF ObjectsOK
    <3> QED
      BY <3>2, <3>3
  <2> QED
    BY <2>2, <2>3
<1> QED
  BY <1>6, <1>7

\* A queue that keeps its programs, or loses some, in its place.
LEMMA QueueEdited ==
    ASSUME IInv, NEW a \in Queues, queue[a] # Null,
           NEW q \in QueueObject, queue' = [queue EXCEPT ![a] = q],
           \A n \in ProgramNames : q.m_programs[n] \in {Null, queue[a].m_programs[n]},
           UNCHANGED program,
           m_queues' \in [Names -> {Null} \cup Queues],
           QueuesHaveTheirNames', DialogsOK', FilesOK'
    PROVE  IInv'
<1>1. q # Null
  BY NullAssumption
<1>2. ObjectsOK'
  BY Parts DEF ObjectsOK
<1>3. ProgramsHaveTheirNames'
  <2> SUFFICES ASSUME NEW b \in Queues, queue'[b] # Null, NEW n \in ProgramNames,
                      queue'[b].m_programs[n] # Null
               PROVE  LET p == queue'[b].m_programs[n] IN
                      /\ program'[p] # Null /\ program'[p].name = n
                      /\ program'[p].queue = b
    BY DEF ProgramsHaveTheirNames
  <2>1. queue[b] # Null /\ queue'[b].m_programs[n] = queue[b].m_programs[n]
    BY Parts DEF ObjectsOK
  <2> QED
    BY <2>1, Parts DEF ProgramsHaveTheirNames
<1>4. ProgramsHaveQueues'
  BY <1>1, Parts DEF ObjectsOK, ProgramsHaveQueues
<1> QED
  BY <1>2, <1>3, <1>4, PartsNext

LEMMA EditedOK ==
    ASSUME IInv, NEW a \in Queues, Usable(a)
    PROVE  /\ queue[a] \in QueueObject /\ Edited(a) \in QueueObject
           /\ Edited(a).name = dialogs[a].name /\ dialogs[a].name \in Names
           /\ SettingsSaved(a) \in Settings
           /\ Edited(a).m_programs = queue[a].m_programs
<1>1. queue[a] \in QueueObject /\ dialogs[a] \in SettingsDialog
  BY KeptQueue, Parts DEF Usable, DialogsOK
<1>2. SettingsSaved(a) \in Settings /\ dialogs[a].name \in Names
  BY <1>1 DEF SettingsSaved, SettingsDialog, QueueObject
<1> QED
  BY <1>1, <1>2 DEF Edited, QueueObject

LEMMA ApplyOK ==
    ASSUME IInv, NEW a \in Queues, Apply(a), DialogsOK'
    PROVE  IInv'
<1>1. /\ Usable(a) /\ queue[a] # Null /\ Rename(a, dialogs[a].name)
      /\ queue' = [queue EXCEPT ![a] = Edited(a)]
      /\ UNCHANGED program
  BY DEF Apply, Usable
<1>2. /\ m_queues' \in [Names -> {Null} \cup Queues]
      /\ QueuesHaveTheirNames' /\ FilesOK'
  BY <1>1, EditedOK, RenameOK
<1>3. \A n \in ProgramNames : Edited(a).m_programs[n] \in {Null, queue[a].m_programs[n]}
  BY <1>1, EditedOK
<1> QED
  BY <1>1, <1>2, <1>3, EditedOK, QueueEdited

LEMMA ClickApplyInv ==
    ASSUME IInv, NEW a \in Queues, ClickApply(a)
    PROVE  IInv'
<1>1. Edited(a) \in QueueObject
  BY EditedOK DEF ClickApply, Apply
<1>2. DialogsOK'
  BY <1>1, ShownOK, Parts DEF ClickApply, DialogsOK
<1> QED
  BY <1>2, ApplyOK DEF ClickApply

LEMMA AcceptInv ==
    ASSUME IInv, NEW a \in Queues, Accept(a)
    PROVE  IInv'
BY CloseDialogOK, ApplyOK DEF Accept

-----------------------------------------------------------------------------
(* Programs.                                                               *)

\* The names of queues are those they had.
LEMMA NamesKept ==
    ASSUME IInv, NEW a \in Queues, queue[a] # Null, NEW q, q.name = queue[a].name,
           q # Null, queue' = [queue EXCEPT ![a] = q], UNCHANGED m_queues
    PROVE  m_queues' \in [Names -> {Null} \cup Queues] /\ QueuesHaveTheirNames'
<1>1. m_queues' \in [Names -> {Null} \cup Queues]
  BY Parts DEF ObjectsOK
<1>2. ASSUME NEW m \in Names, m_queues[m] # Null
      PROVE  queue'[m_queues[m]] # Null /\ queue'[m_queues[m]].name = m
  <2>1. m_queues[m] \in Queues /\ queue[m_queues[m]] # Null /\ queue[m_queues[m]].name = m
    BY <1>2, Parts DEF ObjectsOK, QueuesHaveTheirNames
  <2>2. CASE m_queues[m] = a
    BY <2>1, <2>2, Parts DEF ObjectsOK
  <2>3. CASE m_queues[m] # a
    BY <2>1, <2>3, Parts DEF ObjectsOK
  <2> QED
    BY <2>2, <2>3
<1> QED
  BY <1>1, <1>2 DEF QueuesHaveTheirNames

\* A new program is put under a name of its queue.
LEMMA ProgramAdded ==
    ASSUME IInv, NEW a \in Queues, queue[a] # Null, NEW p \in Programs,
           program[p] = Null, NEW n \in ProgramNames,
           NEW q \in QueueObject, q.name = queue[a].name,
           q.m_programs = [queue[a].m_programs EXCEPT ![n] = p],
           NEW r \in ProgramObject, r.name = n, r.queue = a,
           queue' = [queue EXCEPT ![a] = q], program' = [program EXCEPT ![p] = r],
           UNCHANGED <<m_queues, file>>, DialogsOK'
    PROVE  IInv'
<1>1. q # Null /\ r # Null
  BY NullAssumption
<1>2. ObjectsOK'
  BY Parts DEF ObjectsOK
<1>3. QueuesHaveTheirNames'
  BY <1>1, NamesKept
<1>4. ProgramsHaveTheirNames'
  <2> SUFFICES ASSUME NEW b \in Queues, queue'[b] # Null, NEW m \in ProgramNames,
                      queue'[b].m_programs[m] # Null
               PROVE  LET s == queue'[b].m_programs[m] IN
                      /\ program'[s] # Null /\ program'[s].name = m
                      /\ program'[s].queue = b
    BY DEF ProgramsHaveTheirNames
  <2>0. queue[a].m_programs \in [ProgramNames -> Programs \cup {Null}]
    BY KeptQueue DEF QueueObject
  <2>1. CASE b = a /\ m = n
    <3>1. queue'[b].m_programs[m] = p
      BY <2>0, <2>1, Parts DEF ObjectsOK
    <3> QED
      BY <1>1, <2>1, <3>1, Parts DEF ObjectsOK
  <2>2. CASE ~(b = a /\ m = n)
    <3>1. queue[b] # Null /\ queue'[b].m_programs[m] = queue[b].m_programs[m]
      BY <2>0, <2>2, Parts DEF ObjectsOK
    <3> DEFINE s == queue[b].m_programs[m]
    <3>2. program[s] # Null /\ program[s].name = m /\ program[s].queue = b
      BY <3>1, Parts DEF ProgramsHaveTheirNames
    <3>3. s \in Programs
      BY <3>1, KeptQueue DEF QueueObject
    <3>4. program'[s] = program[s]
      BY <3>2, <3>3, Parts DEF ObjectsOK
    <3> QED
      BY <3>1, <3>2, <3>4
  <2> QED
    BY <2>1, <2>2
<1>5. ProgramsHaveQueues'
  <2> SUFFICES ASSUME NEW s \in Programs, program'[s] # Null
               PROVE  queue'[program'[s].queue] # Null
    BY DEF ProgramsHaveQueues
  <2>1. CASE s = p
    BY <1>1, <2>1, Parts DEF ObjectsOK
  <2>2. CASE s # p
    <3>1. program'[s] = program[s] /\ program[s].queue \in Queues
      BY <2>2, Parts DEF ObjectsOK, ProgramObject
    <3> QED
      BY <1>1, <3>1, Parts DEF ObjectsOK, ProgramsHaveQueues
  <2> QED
    BY <2>1, <2>2
<1> QED
  BY <1>2, <1>3, <1>4, <1>5, FilesSame, PartsNext

LEMMA WithProgramOK ==
    ASSUME NEW q \in QueueObject, NEW n \in ProgramNames, NEW p \in Programs
    PROVE  /\ WithProgram(q, n, p) \in QueueObject
           /\ WithProgram(q, n, p).name = q.name
           /\ WithProgram(q, n, p).m_programs = [q.m_programs EXCEPT ![n] = p]
BY DEF WithProgram, QueueObject

LEMMA NewProgramOK ==
    ASSUME NEW a \in Queues, NEW n \in ProgramNames, NEW v \in ProgramSettings
    PROVE  /\ NewProgram(a, n, v) \in ProgramObject
           /\ NewProgram(a, n, v).name = n /\ NewProgram(a, n, v).queue = a
BY DEF NewProgram, ProgramObject

LEMMA AddProgramInv ==
    ASSUME IInv, NEW a \in Queues, NEW p \in Programs, NEW n \in ProgramNames,
           NEW v \in ProgramSettings, AddProgram(a, p, n, v)
    PROVE  IInv'
<1>1. queue[a] \in QueueObject /\ queue[a] # Null /\ program[p] = Null
  BY KeptQueue DEF AddProgram, Usable
<1>2. /\ queue' = [queue EXCEPT ![a] = WithProgram(queue[a], n, p)]
      /\ program' = [program EXCEPT ![p] = NewProgram(a, n, v)]
      /\ UNCHANGED <<m_queues, file, dialogVars>>
  BY DEF AddProgram
<1>3. DialogsOK'
  BY <1>2, DialogsSame
<1> DEFINE w == WithProgram(queue[a], n, p)
           r == NewProgram(a, n, v)
<1>4. /\ w \in QueueObject /\ w.name = queue[a].name
      /\ w.m_programs = [queue[a].m_programs EXCEPT ![n] = p]
  BY <1>1, WithProgramOK
<1>5. r \in ProgramObject /\ r.name = n /\ r.queue = a
  BY NewProgramOK
<1>6. /\ queue' = [queue EXCEPT ![a] = w] /\ program' = [program EXCEPT ![p] = r]
      /\ UNCHANGED <<m_queues, file>>
  BY <1>2
<1> HIDE DEF w, r
<1> QED
  BY <1>1, <1>3, <1>4, <1>5, <1>6, ProgramAdded

LEMMA RemoveProgramInv ==
    ASSUME IInv, NEW a \in Queues, NEW n \in ProgramNames, RemoveProgram(a, n)
    PROVE  IInv'
<1> DEFINE q == WithoutProgram(queue[a], n)
<1>1. queue[a] \in QueueObject /\ queue[a] # Null
  BY KeptQueue DEF RemoveProgram, Usable
<1>2. /\ q \in QueueObject /\ q.name = queue[a].name
      /\ q.m_programs = [queue[a].m_programs EXCEPT ![n] = Null]
      /\ queue[a].m_programs \in [ProgramNames -> Programs \cup {Null}]
  BY <1>1 DEF WithoutProgram, QueueObject
<1>3. queue' = [queue EXCEPT ![a] = q] /\ UNCHANGED <<program, m_queues, file, dialogVars>>
  BY DEF RemoveProgram
<1> HIDE DEF q
<1>4. \A m \in ProgramNames : q.m_programs[m] \in {Null, queue[a].m_programs[m]}
  BY <1>2
<1>5. m_queues' \in [Names -> {Null} \cup Queues] /\ QueuesHaveTheirNames'
  BY <1>1, <1>2, <1>3, NamesKept, NullAssumption
<1> QED
  BY <1>1, <1>2, <1>3, <1>4, <1>5, FilesSame, DialogsSame, QueueEdited

LEMMA SleepTestInv ==
    ASSUME IInv, NEW a \in Queues, NEW p \in Programs, NEW complete \in BOOLEAN,
           SleepTest(a, p, complete)
    PROVE  IInv'
<1> DEFINE q   == [queue[a] EXCEPT !.settings = SettingsSaved(a)]
           new == complete /\ q.m_programs[SleepTesting] = Null
<1>1. queue[a] \in QueueObject /\ queue[a] # Null /\ SettingsSaved(a) \in Settings
  BY EditedOK DEF SleepTest, Usable
<1>2. q \in QueueObject /\ q.name = queue[a].name /\ q.m_programs = queue[a].m_programs
  BY <1>1 DEF QueueObject
<1>3. /\ new => program[p] = Null
      /\ queue' = [queue EXCEPT ![a] = IF new THEN WithProgram(q, SleepTesting, p) ELSE q]
      /\ program' = IF new
            THEN [program EXCEPT ![p] = NewProgram(a, SleepTesting, Defaults)]
            ELSE program
      /\ dialogs' = [dialogs EXCEPT ![a].unsaved = Null]
      /\ UNCHANGED <<m_queues, file, programDialogs>>
  BY DEF SleepTest
<1>4. DialogsOK'
  <2>1. dialogs[a] \in SettingsDialog
    BY Parts DEF SleepTest, Usable, DialogsOK
  <2>2. [dialogs[a] EXCEPT !.unsaved = Null] \in SettingsDialog
    BY <2>1 DEF SettingsDialog
  <2>3. dialogs' = [dialogs EXCEPT ![a] = [dialogs[a] EXCEPT !.unsaved = Null]]
    BY <1>3, Parts DEF DialogsOK
  <2> QED
    BY <1>3, <2>2, <2>3, Parts DEF DialogsOK
<1>5. SleepTesting \in ProgramNames
  <2>1. MaxProgramName \in Nat \ {0}
    BY QueueConfigAssumption
  <2> QED
    BY <2>1 DEF SleepTesting, ProgramNames, NoName
<1> HIDE DEF q, new
<1>6. CASE new
  <2>1. /\ queue' = [queue EXCEPT ![a] = WithProgram(q, SleepTesting, p)]
        /\ program' = [program EXCEPT ![p] = NewProgram(a, SleepTesting, Defaults)]
        /\ program[p] = Null
        /\ UNCHANGED <<m_queues, file>>
    BY <1>3, <1>6
  <2> DEFINE w == WithProgram(q, SleepTesting, p)
  <2>2. /\ w \in QueueObject /\ w.name = queue[a].name
        /\ w.m_programs = [queue[a].m_programs EXCEPT ![SleepTesting] = p]
    BY <1>2, <1>5, WithProgramOK
  <2> DEFINE r == NewProgram(a, SleepTesting, Defaults)
  <2>3. r \in ProgramObject /\ r.name = SleepTesting /\ r.queue = a
    BY <1>5, NewProgramOK, DefaultsOK
  <2>4. queue' = [queue EXCEPT ![a] = w] /\ program' = [program EXCEPT ![p] = r]
    BY <2>1
  <2> DEFINE n == SleepTesting
  <2>5. /\ n \in ProgramNames
        /\ w \in QueueObject /\ w.name = queue[a].name
        /\ w.m_programs = [queue[a].m_programs EXCEPT ![n] = p]
        /\ r \in ProgramObject /\ r.name = n /\ r.queue = a
    BY <1>5, <2>2, <2>3
  <2>6. program[p] = Null /\ UNCHANGED <<m_queues, file>>
    BY <2>1
  <2> HIDE DEF w, r, n
  <2> QED
    BY <1>1, <1>4, <2>4, <2>5, <2>6, ProgramAdded
<1>7. CASE ~new
  <2>1. queue' = [queue EXCEPT ![a] = q] /\ UNCHANGED program
    BY <1>3, <1>7
  <2>2. \A n \in ProgramNames : q.m_programs[n] \in {Null, queue[a].m_programs[n]}
    BY <1>2
  <2>3. m_queues' \in [Names -> {Null} \cup Queues] /\ QueuesHaveTheirNames'
    BY <1>1, <1>2, <1>3, <2>1, NamesKept, NullAssumption
  <2> QED
    BY <1>1, <1>2, <1>3, <1>4, <2>1, <2>2, <2>3, FilesSame, QueueEdited
<1> QED
  BY <1>6, <1>7

\* Program::setName and Queue::programNameChanged: a program under its old name
\* is filed under its new one in the queue it was made for, and one that was
\* replaced or removed stays out of the map.
LEMMA UpdateProgramFromGuiOK ==
    ASSUME IInv, NEW a \in Queues, NEW p \in Programs, UpdateProgramFromGui(a, p),
           DialogsOK'
    PROVE  IInv'
<1> DEFINE d    == programDialogs[<<a, p>>]
           old  == program[p].name
           o    == program[p].queue
           r    == [program[p] EXCEPT !.name = d.name]
           prog == [program EXCEPT ![p] = r]
           b    == queue[o].m_programs[old]
           mp   == [queue[o].m_programs EXCEPT ![old] = Null, ![d.name] = b]
           q    == [queue[o] EXCEPT !.m_programs = mp]
           s    == [r EXCEPT !.settings = d.settings]
<1>1. /\ d \in ProgramDialog /\ program[p] \in ProgramObject /\ program[p] # Null
      /\ o \in Queues /\ queue[o] # Null /\ old \in ProgramNames
      /\ d.name \in ProgramNames /\ d.settings \in ProgramSettings
  BY Parts DEF UpdateProgramFromGui, UsableProgram, DialogsOK, ObjectsOK, ProgramsHaveQueues,
               ProgramObject, ProgramDialog
<1>2. queue[o] \in QueueObject /\ b \in Programs \cup {Null}
  BY <1>1, KeptQueue DEF QueueObject
<1>3. b # Null => program[b] # Null /\ program[b].name = old /\ program[b].queue = o
  BY <1>1, Parts DEF ProgramsHaveTheirNames
<1>4. r \in ProgramObject /\ r.name = d.name /\ r.queue = o
  BY <1>1 DEF ProgramObject
<1>5. s \in ProgramObject /\ s.name = d.name /\ s.queue = o
  BY <1>1, <1>4 DEF ProgramObject
<1>6. mp \in [ProgramNames -> Programs \cup {Null}]
  BY <1>1, <1>2 DEF QueueObject
<1>7. q \in QueueObject /\ q.name = queue[o].name /\ q.m_programs = mp
  <2> HIDE DEF mp
  <2> QED
    BY <1>1, <1>2, <1>6 DEF QueueObject
<1>8. prog \in [Programs -> {Null} \cup ProgramObject] /\ prog[p] = r
  <2> HIDE DEF r
  <2> QED
    BY <1>4, Parts DEF ObjectsOK
<1>9. [program EXCEPT ![p].name = d.name] = prog
  BY Parts DEF ObjectsOK
<1>10. program' = [program EXCEPT ![p] = s]
  <2>1. program' = [prog EXCEPT ![p].settings = d.settings]
    BY <1>9, Zenon DEF UpdateProgramFromGui
  <2>2. [prog EXCEPT ![p].settings = d.settings] = [prog EXCEPT ![p] = s]
    BY <1>8
  <2> HIDE DEF s, r
  <2> QED
    BY <2>1, <2>2, Parts DEF ObjectsOK
<1>11. UNCHANGED <<m_queues, dialogs>>
  BY DEF UpdateProgramFromGui
<1>12. s # Null /\ r # Null /\ q # Null
  BY <1>4, <1>5, <1>7, NullAssumption
<1>13. CASE d.name # old /\ b # Null /\ prog[b].name = d.name
  <2>1. b = p
    BY <1>2, <1>3, <1>13, Parts DEF ObjectsOK
  <2>2. queue' = [queue EXCEPT ![o] = q] /\ file' = WithFile(q.name, Written(q, prog, FALSE, TRUE))
    BY <1>9, <1>13, Zenon DEF UpdateProgramFromGui
  <2> HIDE DEF s, r, prog, q
  <2>3. ASSUME NEW n \in ProgramNames, mp[n] # Null
        PROVE  mp[n] \in Programs /\ prog[mp[n]] # Null
    <3>1. CASE n = d.name
      BY <1>1, <1>2, <1>8, <1>12, <2>1, <3>1 DEF QueueObject
    <3>2. CASE n # d.name
      <4>1. mp[n] = queue[o].m_programs[n] /\ queue[o].m_programs[n] # Null
        BY <1>1, <1>2, <2>3, <3>2 DEF QueueObject
      <4>2. mp[n] \in Programs /\ program[mp[n]] # Null
        BY <1>1, <1>6, <2>3, <4>1, KeptQueue
      <4> QED
        BY <1>8, <1>12, <4>2, Parts DEF ObjectsOK, prog
    <3> QED
      BY <3>1, <3>2
  <2>4. FilesOK'
    <3>1. FileGood(Written(q, prog, FALSE, TRUE)) /\ q.name \in Names
      BY <1>7, <1>8, <2>3, WrittenOK DEF QueueObject
    <3> DEFINE w == Written(q, prog, FALSE, TRUE)
    <3>2. FileGood(w) /\ file' = WithFile(q.name, w)
      BY <2>2, <3>1
    <3> HIDE DEF w
    <3> QED
      BY <3>1, <3>2, WithFileOK DEF FilesOK
  <2>5. m_queues' \in [Names -> {Null} \cup Queues] /\ QueuesHaveTheirNames'
    BY <1>1, <1>7, <1>11, <1>12, <2>2, NamesKept
  <2>6. ObjectsOK'
    BY <1>1, <1>5, <1>7, <1>10, <2>2, <2>5, Parts DEF ObjectsOK
  <2>7. ProgramsHaveTheirNames'
    <3> SUFFICES ASSUME NEW c \in Queues, queue'[c] # Null, NEW n \in ProgramNames,
                        queue'[c].m_programs[n] # Null
                 PROVE  LET t == queue'[c].m_programs[n] IN
                        /\ program'[t] # Null /\ program'[t].name = n
                        /\ program'[t].queue = c
      BY DEF ProgramsHaveTheirNames
    <3>1. CASE c = o /\ n = d.name
      <4>1. queue'[c].m_programs[n] = p
        BY <1>1, <1>2, <1>7, <2>1, <2>2, <3>1, Parts DEF ObjectsOK, QueueObject
      <4> QED
        BY <1>5, <1>10, <1>12, <3>1, <4>1, Parts DEF ObjectsOK
    <3>2. CASE ~(c = o /\ n = d.name)
      <4> DEFINE t == queue[c].m_programs[n]
      <4>1. queue[c] # Null /\ queue'[c].m_programs[n] = t /\ ~(c = o /\ n = old)
        <5>1. CASE c = o
          BY <1>1, <1>2, <1>7, <2>2, <3>2, <5>1, Parts DEF ObjectsOK, QueueObject
        <5>2. CASE c # o
          BY <1>1, <2>2, <5>2, Parts DEF ObjectsOK
        <5> QED
          BY <5>1, <5>2
      <4>2. program[t] # Null /\ program[t].name = n /\ program[t].queue = c
        BY <4>1, Parts DEF ProgramsHaveTheirNames
      <4>3. t \in Programs
        BY <4>1, KeptQueue DEF QueueObject
      <4>4. t # p
        BY <4>1, <4>2
      <4>5. program'[t] = program[t]
        BY <1>10, <4>3, <4>4, Parts DEF ObjectsOK
      <4> QED
        BY <4>1, <4>2, <4>5
    <3> QED
      BY <3>1, <3>2
  <2>8. ProgramsHaveQueues'
    <3> SUFFICES ASSUME NEW t \in Programs, program'[t] # Null
                 PROVE  queue'[program'[t].queue] # Null
      BY DEF ProgramsHaveQueues
    <3>1. program[t] # Null /\ program'[t].queue = program[t].queue
      BY <1>1, <1>5, <1>10, Parts DEF ObjectsOK
    <3>2. program[t].queue \in Queues /\ queue[program[t].queue] # Null
      BY <3>1, Parts DEF ObjectsOK, ProgramObject, ProgramsHaveQueues
    <3> QED
      BY <1>12, <2>2, <3>1, <3>2, Parts DEF ObjectsOK
  <2> QED
    BY <2>4, <2>6, <2>7, <2>8, <2>5, PartsNext
<1>14. CASE ~(d.name # old /\ b # Null /\ prog[b].name = d.name)
  <2>1. UNCHANGED <<queue, file>>
    BY <1>9, <1>14, Zenon DEF UpdateProgramFromGui
  <2> HIDE DEF s, mp, q
  <2>2. ObjectsOK' /\ QueuesHaveTheirNames'
    BY <1>5, <1>10, <1>11, <2>1, Parts DEF ObjectsOK, QueuesHaveTheirNames
  <2>3. ProgramsHaveTheirNames'
    <3> SUFFICES ASSUME NEW c \in Queues, queue[c] # Null, NEW n \in ProgramNames,
                        queue[c].m_programs[n] # Null
                 PROVE  LET t == queue[c].m_programs[n] IN
                        /\ program'[t] # Null /\ program'[t].name = n
                        /\ program'[t].queue = c
      BY <2>1 DEF ProgramsHaveTheirNames
    <3> DEFINE t == queue[c].m_programs[n]
    <3>1. program[t] # Null /\ program[t].name = n /\ program[t].queue = c
      BY Parts DEF ProgramsHaveTheirNames
    <3>2. t \in Programs
      BY KeptQueue DEF QueueObject
    <3>3. CASE t = p
      <4>1. n = old /\ c = o /\ b = p
        BY <3>1, <3>3
      <4>2. d.name = old
        BY <1>1, <1>4, <1>8, <1>14, <4>1, QueueConfigAssumption
      <4> QED
        BY <1>5, <1>10, <1>12, <3>3, <4>1, <4>2, Parts DEF ObjectsOK
    <3>4. CASE t # p
      BY <1>10, <3>1, <3>2, <3>4, Parts DEF ObjectsOK
    <3> QED
      BY <3>3, <3>4
  <2>4. ProgramsHaveQueues'
    BY <1>1, <1>5, <1>10, <2>1, Parts DEF ObjectsOK, ProgramsHaveQueues
  <2> QED
    BY <2>1, <2>2, <2>3, <2>4, FilesSame, PartsNext
<1> QED
  BY <1>13, <1>14

LEMMA ApplyProgramInv ==
    ASSUME IInv, NEW a \in Queues, NEW p \in Programs, ApplyProgram(a, p)
    PROVE  IInv'
<1>1. programDialogs[<<a, p>>] \in ProgramDialog
  BY Parts DEF ApplyProgram, UpdateProgramFromGui, UsableProgram, DialogsOK
<1>2. [programDialogs[<<a, p>>] EXCEPT !.dirty = FALSE] \in ProgramDialog
  BY <1>1 DEF ProgramDialog
<1>3. UNCHANGED dialogs
  BY DEF ApplyProgram, UpdateProgramFromGui
<1>4. programDialogs' = [programDialogs EXCEPT ![<<a, p>>] =
                           [programDialogs[<<a, p>>] EXCEPT !.dirty = FALSE]]
  BY Parts DEF ApplyProgram, DialogsOK
<1>5. DialogsOK'
  BY <1>2, <1>3, <1>4, Parts DEF DialogsOK
<1> QED
  BY <1>5, UpdateProgramFromGuiOK DEF ApplyProgram

LEMMA AcceptProgramInv ==
    ASSUME IInv, NEW a \in Queues, NEW p \in Programs, AcceptProgram(a, p)
    PROVE  IInv'
<1>1. UNCHANGED dialogs
  BY DEF AcceptProgram, UpdateProgramFromGui
<1>2. DialogsOK'
  BY <1>1, Parts DEF AcceptProgram, DialogsOK
<1> QED
  BY <1>2, UpdateProgramFromGuiOK DEF AcceptProgram

-----------------------------------------------------------------------------
(* The end and the next start.                                             *)

\* QueueManager::readSettings makes a queue for each file that is accepted and
\* a program for each it names.
LEMMA StartInv ==
    ASSUME IInv, Start
    PROVE  IInv'
<1> DEFINE loaded == {m \in Names \ {NoName} : Loads(file, m)}
           slots  == {s \in loaded \X ProgramNames : file[s[1]].programs[s[2]] # Null}
<1>1. PICK at \in [loaded -> Queues], pt \in [slots -> Programs] :
        /\ IsInjective(at) /\ IsInjective(pt)
        /\ m_queues' = [b \in Names |->
              IF \E m \in loaded : BaseName[m] = b
              THEN at[CHOOSE m \in loaded : BaseName[m] = b] ELSE Null]
        /\ queue' = [a \in Queues |->
              IF \E m \in loaded : at[m] = a
              THEN LET m == CHOOSE m \in loaded : at[m] = a
                   IN  [NewQueue(BaseName[m], file[m].type, Taken(file[m], FALSE))
                          EXCEPT !.m_programs = [k \in ProgramNames |->
                             IF <<m, k>> \in slots THEN pt[<<m, k>>] ELSE Null]]
              ELSE Null]
        /\ program' = [p \in Programs |->
              IF \E s \in slots : pt[s] = p
              THEN LET s == CHOOSE s \in slots : pt[s] = p
                   IN  NewProgram(at[s[1]], s[2], file[s[1]].programs[s[2]])
              ELSE Null]
        /\ file' = [b \in Names \ {NoName} |->
              IF RemovesOwn(file, b) THEN NoFile ELSE file[b]]
  BY Zenon DEF Start, ReadSettings
<1>2. ASSUME NEW n \in loaded
      PROVE  /\ n \in Names \ {NoName} /\ BaseName[n] \in Names
             /\ file[n].type \in Types /\ file[n].programs \in ProgramList
             /\ Taken(file[n], FALSE) \in Settings
  <2>1. n \in Names \ {NoName} /\ Whole(file[n]) /\ FileOK(file[n])
    BY Parts DEF Loads, Readable, FilesOK, FileGood
  <2> QED
    BY <2>1, TakenOK, FileNameAssumption DEF FileOK
<1> DEFINE mp(n) == [m \in ProgramNames |-> IF <<n, m>> \in slots THEN pt[<<n, m>>] ELSE Null]
           nq(n) == [NewQueue(BaseName[n], file[n].type, Taken(file[n], FALSE)) EXCEPT !.m_programs = mp(n)]
           np(s) == NewProgram(at[s[1]], s[2], file[s[1]].programs[s[2]])
<1>3. ASSUME NEW s \in slots
      PROVE  /\ s[1] \in loaded /\ s[2] \in ProgramNames /\ s = <<s[1], s[2]>>
             /\ file[s[1]].programs[s[2]] \in ProgramSettings /\ at[s[1]] \in Queues
  <2>0. s \in loaded \X ProgramNames /\ file[s[1]].programs[s[2]] # Null
    BY Zenon DEF slots
  <2>1. s[1] \in loaded /\ s[2] \in ProgramNames /\ s = <<s[1], s[2]>>
        /\ file[s[1]].programs[s[2]] # Null
    <3> HIDE DEF loaded, slots
    <3> QED
      BY <2>0
  <2>2. file[s[1]].programs \in ProgramList
    BY <1>2, <2>1
  <2> HIDE DEF loaded, slots
  <2> QED
    BY <2>1, <2>2 DEF ProgramList
<1> HIDE DEF loaded, slots
<1>4. ASSUME NEW n \in loaded
      PROVE  nq(n) \in QueueObject /\ nq(n).name = BaseName[n] /\ nq(n).m_programs = mp(n)
  <2>1. mp(n) \in [ProgramNames -> Programs \cup {Null}]
    OBVIOUS
  <2> DEFINE q == NewQueue(BaseName[n], file[n].type, Taken(file[n], FALSE))
             M == mp(n)
  <2>2. q \in QueueObject /\ q.name = BaseName[n]
    BY <1>2, NewQueueOK
  <2>3. M \in [ProgramNames -> Programs \cup {Null}]
    BY <2>1
  <2> HIDE DEF q, M
  <2>4. LET r == [q EXCEPT !.m_programs = M]
        IN  r \in QueueObject /\ r.name = BaseName[n] /\ r.m_programs = M
    BY <2>2, <2>3 DEF QueueObject
  <2> QED
    BY <2>4, Zenon DEF q, M
<1>5. ASSUME NEW s \in slots
      PROVE  np(s) \in ProgramObject /\ np(s).name = s[2] /\ np(s).queue = at[s[1]]
  BY <1>3, NewProgramOK
<1>6. ASSUME NEW n \in loaded
      PROVE  queue'[at[n]] = nq(n)
  <2>1. \A m \in loaded : at[m] = at[n] => m = n
    BY <1>1 DEF IsInjective
  <2>2. (CHOOSE m \in loaded : at[m] = at[n]) = n
    BY <2>1
  <2>3. at[n] \in Queues
    OBVIOUS
  <2> QED
    BY <1>1, <2>2, <2>3, Zenon
<1>7. ASSUME NEW s \in slots
      PROVE  program'[pt[s]] = np(s)
  <2>1. \A t \in slots : pt[t] = pt[s] => t = s
    BY <1>1 DEF IsInjective
  <2>2. (CHOOSE t \in slots : pt[t] = pt[s]) = s
    BY <2>1
  <2>3. pt[s] \in Programs
    OBVIOUS
  <2> QED
    BY <1>1, <2>2, <2>3, Zenon
<1>8. ASSUME NEW a \in Queues, queue'[a] # Null
      PROVE  \E n \in loaded : at[n] = a
  BY <1>1, <1>8, Zenon
<1>9. ASSUME NEW p \in Programs, program'[p] # Null
      PROVE  \E s \in slots : pt[s] = p
  BY <1>1, <1>9, Zenon
<1> HIDE DEF nq, np, mp
<1>16. ASSUME NEW n \in loaded
       PROVE  /\ at[n] \in Queues
              /\ queue'[at[n]] \in QueueObject /\ queue'[at[n]] # Null
              /\ queue'[at[n]].name = BaseName[n] /\ queue'[at[n]].m_programs = mp(n)
  <2>1. at[n] \in Queues
    OBVIOUS
  <2>2. queue'[at[n]] = nq(n)
    BY <1>6
  <2>3. nq(n) \in QueueObject /\ nq(n).name = BaseName[n] /\ nq(n).m_programs = mp(n)
    BY <1>4
  <2>4. nq(n) # Null
    BY <2>3, NullAssumption
  <2> QED
    BY <2>1, <2>2, <2>3, <2>4, Zenon
<1>17. ASSUME NEW s \in slots
       PROVE  /\ program'[pt[s]] \in ProgramObject /\ program'[pt[s]] # Null
              /\ program'[pt[s]].name = s[2] /\ program'[pt[s]].queue = at[s[1]]
  <2>2. program'[pt[s]] = np(s)
    BY <1>7
  <2>3. np(s) \in ProgramObject /\ np(s).name = s[2] /\ np(s).queue = at[s[1]]
    BY <1>5
  <2>4. np(s) # Null
    BY <2>3, NullAssumption
  <2> QED
    BY <2>2, <2>3, <2>4, Zenon
<1>10. ObjectsOK'
  <2>1. queue' = [a \in Queues |-> queue'[a]] /\ program' = [p \in Programs |-> program'[p]]
    BY <1>1, Zenon
  <2>2. \A a \in Queues : queue'[a] \in {Null} \cup QueueObject
    <3> SUFFICES ASSUME NEW a \in Queues, queue'[a] # Null
                 PROVE  queue'[a] \in QueueObject
      OBVIOUS
    <3>1. PICK n \in loaded : at[n] = a
      BY <1>8
    <3> QED
      BY <1>16, <3>1, Zenon
  <2>3. \A p \in Programs : program'[p] \in {Null} \cup ProgramObject
    <3> SUFFICES ASSUME NEW p \in Programs, program'[p] # Null
                 PROVE  program'[p] \in ProgramObject
      OBVIOUS
    <3>1. PICK s \in slots : pt[s] = p
      BY <1>9
    <3> QED
      BY <1>17, <3>1, Zenon
  <2>4. m_queues' \in [Names -> {Null} \cup Queues]
    BY <1>1
  <2> QED
    BY <2>1, <2>2, <2>3, <2>4 DEF ObjectsOK
<1>11. QueuesHaveTheirNames'
  <2> SUFFICES ASSUME NEW n \in Names, m_queues'[n] # Null
               PROVE  queue'[m_queues'[n]] # Null /\ queue'[m_queues'[n]].name = n
    BY DEF QueuesHaveTheirNames
  <2> DEFINE m == CHOOSE m \in loaded : BaseName[m] = n
  <2>1. m_queues'[n] = IF \E k \in loaded : BaseName[k] = n THEN at[m] ELSE Null
    BY <1>1
  <2>2. m \in loaded /\ BaseName[m] = n
    BY <2>1
  <2>3. m_queues'[n] = at[m]
    BY <2>1, <2>2
  <2> HIDE DEF m
  <2> QED
    BY <1>16, <2>2, <2>3, Zenon
<1>12. ProgramsHaveTheirNames'
  <2> SUFFICES ASSUME NEW a \in Queues, queue'[a] # Null, NEW m \in ProgramNames,
                      queue'[a].m_programs[m] # Null
               PROVE  LET p == queue'[a].m_programs[m] IN
                      /\ program'[p] # Null /\ program'[p].name = m
                      /\ program'[p].queue = a
    BY DEF ProgramsHaveTheirNames
  <2>1. PICK n \in loaded : at[n] = a
    BY <1>8
  <2>2. queue'[a].m_programs[m] = mp(n)[m]
    BY <1>16, <2>1
  <2>3. <<n, m>> \in slots /\ queue'[a].m_programs[m] = pt[<<n, m>>]
    BY <2>2 DEF mp
  <2> DEFINE s == <<n, m>>
  <2>4. program'[pt[s]] # Null /\ program'[pt[s]].name = m /\ program'[pt[s]].queue = a
    BY <1>17, <2>1, <2>3
  <2> QED
    BY <2>3, <2>4
<1>13. ProgramsHaveQueues'
  <2> SUFFICES ASSUME NEW p \in Programs, program'[p] # Null
               PROVE  queue'[program'[p].queue] # Null
    BY DEF ProgramsHaveQueues
  <2>1. PICK s \in slots : pt[s] = p
    BY <1>9
  <2>2. program'[p].queue = at[s[1]] /\ s[1] \in loaded
    BY <1>3, <1>17, <2>1
  <2> QED
    BY <1>16, <2>2, Zenon
<1>14. FilesOK'
  BY <1>1, NoFileOK, Parts DEF FilesOK
<1>15. DialogsOK'
  BY DialogsSame DEF Start
<1> QED
  BY <1>10, <1>11, <1>12, <1>13, <1>14, <1>15, PartsNext

\* Without memory there is nothing to disagree.
LEMMA NothingInMemory ==
    ASSUME queue = NoMemory.queue, program = NoMemory.program,
           m_queues = NoMemory.m_queues, dialogs = NoMemory.dialogs,
           programDialogs = NoMemory.programDialogs, FilesOK
    PROVE  IInv
<1>1. /\ queue = [a \in Queues |-> Null] /\ program = [p \in Programs |-> Null]
      /\ m_queues = [n \in Names |-> Null] /\ dialogs = [a \in Queues |-> Null]
      /\ programDialogs = [d \in Queues \X Programs |-> Null]
  BY DEF NoMemory
<1>2. ObjectsOK /\ DialogsOK
  BY <1>1 DEF ObjectsOK, DialogsOK
<1>3. QueuesHaveTheirNames /\ ProgramsHaveTheirNames /\ ProgramsHaveQueues
  BY <1>1 DEF QueuesHaveTheirNames, ProgramsHaveTheirNames, ProgramsHaveQueues
<1> QED
  BY <1>2, <1>3, Parts

LEMMA StopInv ==
    ASSUME Stop, FilesOK'
    PROVE  IInv'
<1>1. /\ queue' = [a \in Queues |-> Null] /\ program' = [p \in Programs |-> Null]
      /\ m_queues' = [n \in Names |-> Null] /\ dialogs' = [a \in Queues |-> Null]
      /\ programDialogs' = [d \in Queues \X Programs |-> Null]
  BY DEF Stop, NoMemory
<1>2. ObjectsOK' /\ DialogsOK'
  BY <1>1 DEF ObjectsOK, DialogsOK
<1>3. QueuesHaveTheirNames' /\ ProgramsHaveTheirNames' /\ ProgramsHaveQueues'
  BY <1>1 DEF QueuesHaveTheirNames, ProgramsHaveTheirNames, ProgramsHaveQueues
<1> QED
  BY <1>2, <1>3, PartsNext

LEMMA QuitInv ==
    ASSUME IInv, Quit
    PROVE  IInv'
<1>1. FilesOK'
  BY SavedOK, NamesBound DEF Quit, FilesOK
<1> QED
  BY <1>1, StopInv DEF Quit

\* A crash leaves at most one file cut off, whenever it comes.
LEMMA CrashInv ==
    ASSUME IInv, Crash
    PROVE  IInv'
<1>1. ASSUME UNCHANGED file
      PROVE  FilesOK'
  BY <1>1, FilesSame
<1>2. ASSUME NEW n \in Names \ {NoName}, file' = [Saved(n) EXCEPT ![n] = CutFile]
      PROVE  FilesOK'
  <2>1. \A m \in Names \ {NoName} : FileGood(Saved(n)[m])
    BY SavedOK
  <2>2. DOMAIN Saved(n) = Names \ {NoName}
    BY DEF Saved
  <2>3. \A m \in Names \ {NoName} : file'[m] = Saved(n)[m] \/ file'[m] = CutFile
    BY <1>2, <2>2
  <2> QED
    BY <2>1, <2>3, NoFileOK DEF FilesOK
<1>3. ASSUME NEW n \in Renaming, NEW f \in {NoFile, CutFile}, file' = WithFile(n, f)
      PROVE  FilesOK'
  <2>1. \A m \in Names \ {NoName} : FileGood(file[m])
    BY Parts DEF FilesOK
  <2> QED
    BY <1>3, <2>1, NoFileOK DEF FilesOK, WithFile
<1>4. FilesOK'
  BY <1>1, <1>2, <1>3 DEF Crash
<1> QED
  BY <1>4, StopInv DEF Crash

-----------------------------------------------------------------------------
(* Every step.                                                             *)

LEMMA ImportProgramInv ==
    ASSUME IInv, NEW a \in Queues, NEW p \in Programs, NEW n \in ProgramNames,
           NEW f \in ProgramFiles, ImportProgram(a, p, n, f)
    PROVE  IInv'
<1>1. f.settings \in ProgramSettings
  BY DEF ProgramFiles
<1> QED
  BY <1>1, AddProgramInv DEF ImportProgram

LEMMA InitInv == Init => IInv
<1> SUFFICES ASSUME Init PROVE IInv
  OBVIOUS
<1>1. FilesOK
  BY NoFileOK DEF Init, FilesOK
<1> QED
  BY <1>1, NothingInMemory DEF Init

LEMMA StepInv == IInv /\ Step => IInv'
<1> SUFFICES ASSUME IInv, Step PROVE IInv'
  OBVIOUS
<1>1. ASSUME NEW a \in Queues, NEW n \in Names, NEW t \in Types, AddQueue(a, n, t)
      PROVE  IInv'
  BY <1>1, AddQueueInv
<1>2. ASSUME NEW a \in Queues, NEW n \in Names, NEW f \in Imports, NEW with \in BOOLEAN,
             ImportQueue(a, n, f, with)
      PROVE  IInv'
  BY <1>2, ImportQueueInv
<1>3. ASSUME NEW a \in Queues, NEW n \in Names, EditName(a, n)
      PROVE  IInv'
  BY <1>3, EditNameInv
<1>4. ASSUME NEW n \in Names, RemoveQueue(n) \/ ShowSettingsDialog(n)
      PROVE  IInv'
  BY <1>4, RemoveQueueInv, ShowSettingsDialogInv
<1>5. ASSUME NEW a \in Queues,
             \/ \E v \in Values \ {0} : EditSettings(a, v)
             \/ ClickApply(a) \/ Accept(a) \/ Reject(a) \/ ResetDialog(a)
      PROVE  IInv'
  BY <1>5, EditSettingsInv, ClickApplyInv, AcceptInv, RejectInv, ResetDialogInv
<1>6. ASSUME NEW a \in Queues, NEW n \in ProgramNames,
             RemoveProgram(a, n) \/ ShowProgramConfigDialog(a, n)
      PROVE  IInv'
  BY <1>6, RemoveProgramInv, ShowProgramConfigDialogInv
<1>7. ASSUME NEW a \in Queues, NEW p \in Programs, NEW n \in ProgramNames,
             \/ AddProgram(a, p, n, Defaults)
             \/ \E v \in ProgramSettings : EditProgram(a, p, n, v)
             \/ \E f \in ProgramFiles : ImportProgram(a, p, n, f)
      PROVE  IInv'
  BY <1>7, DefaultsOK, AddProgramInv, EditProgramInv, ImportProgramInv
<1>8. ASSUME NEW a \in Queues, NEW p \in Programs,
             \/ \E complete \in BOOLEAN : SleepTest(a, p, complete)
             \/ ApplyProgram(a, p) \/ AcceptProgram(a, p)
             \/ RejectProgram(a, p) \/ RefuseProgram(a, p)
      PROVE  IInv'
  BY <1>8, SleepTestInv, ApplyProgramInv, AcceptProgramInv, RejectProgramInv,
     RefuseProgramInv
<1> QED
  BY <1>1, <1>2, <1>3, <1>4, <1>5, <1>6, <1>7, <1>8, Zenon DEF Step

LEMMA NextIInv == IInv /\ [Next]_vars => IInv'
<1> SUFFICES ASSUME IInv, [Next]_vars PROVE IInv'
  OBVIOUS
<1>1. CASE Next
  BY <1>1, StartInv, QuitInv, CrashInv, StepInv DEF Next
<1>2. CASE UNCHANGED vars
  <2>1. UNCHANGED <<queue, program, m_queues, file, dialogVars>>
    BY <1>2, Zenon DEF vars
  <2> QED
    BY <2>1, ObjectsSame, DialogsSame, FilesSame
<1> QED
  BY <1>1, <1>2

LEMMA SpecIInv == Spec => []IInv
<1> QED
  BY InitInv, NextIInv, PTL DEF Spec

\* The manager's map of queues and each queue's map of programs agree with the
\* objects they hold, after any renames, replacements, removals, dialogs left
\* open and restarts.  (queuemanager.cpp 147-205, queue.cpp 332-368 and 539-552)
THEOREM NamesSafe == Spec => []NamesAgree
<1>1. IInv => NamesAgree
  BY DEF IInv
<1> QED
  BY <1>1, SpecIInv, PTL

\* Whenever the program quits, the next start loads every queue that has a name,
\* with its type, settings and programs, but for one whose file comes to the
\* same name as a file that is listed later.  (queue.cpp 139-325, queuemanager.cpp
\* 54-92)
THEOREM QuitSafe == Spec => []SurvivesQuit
<1> QED
  BY InvSurvives, SpecIInv, PTL
==============================================================================
