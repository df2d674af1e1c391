------------------------------ MODULE QueueConfig ------------------------------
(***************************************************************************)
(* The configuration of queues and programs: QueueManager's queues by name,*)
(* the dialogs that edit them and stay open while others remove, rename or *)
(* replace what they edit, the files that queues are exported to and       *)
(* imported from, and those they are loaded from at the next start.        *)
(* (QueueManager, Queue, Program, QueueManagerDialog, QueueSettingsDialog, *)
(* the settings widgets of the queue types, ProgramConfigureDialog, the    *)
(* dialogs to add and import.)  What queues do with jobs is not here.      *)
(***************************************************************************)
EXTENDS Naturals, FiniteSets, Functions

CONSTANTS
    Queues,    \* addresses of Queue objects; freed ones are used again
    Programs,  \* addresses of Program objects
    Null,
    MaxName,   \* bound: names are 0 .. MaxName in the order of strings
    BaseName,  \* name -> what of it is before the first dot
    Position,  \* name -> where the directory listing, which has an order of its
               \* own, has <name>.mqq
    MaxProgramName, \* bound: the same for programs
    Types,     \* the types of queue of a run
    Values,    \* the values of a queue's setting, 0 the default
    ProgramValues,  \* the same for programs
    MaxOpen    \* bound: dialogs that are open at a time

ASSUME QueueConfigAssumption ==
    /\ Null \notin Queues \cup Programs
    /\ {MaxName, MaxProgramName} \subseteq Nat \ {0} /\ MaxOpen \in Nat
    /\ 0 \in Values \cap ProgramValues
    /\ Types \subseteq {"Local", "PBS/Torque", "ezHPC UIT"}

VARIABLES
    queue,           \* address -> the Queue there, or Null
    program,         \* address -> the Program there, or Null
    m_queues,        \* QueueManager: name -> address, or Null
    file,            \* name -> <name>.mqq in the config directory, but for the
                     \* hidden file of no name, which is written and never read
    dialogs,         \* address -> the QueueSettingsDialog of the queue there
    programDialogs,  \* <<queue, program>> -> its ProgramConfigureDialog
    running          \* the program runs

dialogVars == <<dialogs, programDialogs>>
vars == <<queue, program, m_queues, file, dialogVars, running>>

-----------------------------------------------------------------------------
(* What a configuration file holds.                                        *)

\* The empty text, which the dialogs' validators let pass as unfinished.
NoName == 0
Names  == NoName .. MaxName
ProgramNames == NoName .. MaxProgramName

\* Valid names may have dots, but none to begin with.
ASSUME FileNameAssumption ==
    /\ BaseName \in [Names \ {NoName} -> Names \ {NoName}]
    /\ \A n \in DOMAIN BaseName : BaseName[BaseName[n]] = BaseName[n]
    /\ Position \in [Names \ {NoName} -> Nat] /\ IsInjective(Position)

\* The program the settings widgets of remote queues add for their test job.
SleepTesting == 1

\* `private` is what is saved but not exported.
Settings == [public : Values, private : Values]
Defaults == [public |-> 0, private |-> 0]
ProgramSettings == [public : ProgramValues, private : {0}]

\* What there is at an address, what the dialogs hold and what a file says of
\* the programs.
QueueObject   == [name : Names, type : Types, settings : Settings,
                  m_programs : [ProgramNames -> Programs \cup {Null}]]
ProgramObject == [name : ProgramNames, queue : Queues, settings : ProgramSettings]
SettingsDialog == [name : Names, type : Types, unsaved : {Null} \cup Settings,
                   dirty : BOOLEAN]
ProgramDialog == [name : ProgramNames, settings : ProgramSettings,
                  dirty : BOOLEAN, visible : BOOLEAN]
ProgramList   == [ProgramNames -> {Null} \cup ProgramSettings]

ASSUME NullAssumption ==
    Null \notin QueueObject \cup ProgramObject \cup SettingsDialog
               \cup ProgramDialog \cup Settings

\* The keys that the writeJsonSettings of a class adds.
QueueKeys(exportOnly, includePrograms) ==
    {"type, launchTemplate, launchScriptName"}
    \cup (IF exportOnly THEN {} ELSE {"jobIdMap"})
    \cup (IF includePrograms THEN {"programs"} ELSE {})

LocalKeys(exportOnly) ==
    {"cores"} \cup (IF exportOnly THEN {} ELSE {"jobsToResume"})

RemoteKeys(exportOnly) ==
    {"queueUpdateInterval, defaultMaxWallTime"}
    \cup (IF exportOnly THEN {} ELSE {"workingDirectoryBase"})

\* A mutant: the login is never written.
NoLogin(exportOnly) == {"commands, hostName"}

RemoteSshKeys(exportOnly) ==
    {"commands, hostName"}
    \cup (IF exportOnly THEN {} ELSE {"executables, userName"})

UitKeys == {"kerberos, host"}

Keys(type, exportOnly, includePrograms) ==
    QueueKeys(exportOnly, includePrograms) \cup
    CASE type = "Local"      -> LocalKeys(exportOnly)
      [] type = "PBS/Torque" -> RemoteKeys(exportOnly) \cup RemoteSshKeys(exportOnly)
      [] OTHER               -> RemoteKeys(exportOnly) \cup UitKeys

\* The keys that the readJsonSettings of a class refuses to do without.
QueueNeeds == {"type, launchTemplate, launchScriptName"}
LocalNeeds == {"cores"}
RemoteNeeds(importOnly) ==
    {"queueUpdateInterval, defaultMaxWallTime"}
    \cup (IF importOnly THEN {} ELSE {"workingDirectoryBase"})
RemoteSshNeeds(importOnly) ==
    {"commands, hostName"}
    \cup (IF importOnly THEN {} ELSE {"executables, userName"})
UitNeeds == {"kerberos, host"}

Required(type, importOnly) ==
    QueueNeeds \cup
    CASE type = "Local"      -> LocalNeeds
      [] type = "PBS/Torque" -> RemoteNeeds(importOnly) \cup RemoteSshNeeds(importOnly)
      [] OTHER               -> RemoteNeeds(importOnly) \cup UitNeeds

\* There is no file, or one cut off by a crash, whose type cannot be read.
NoFile == [at |-> "none"]
CutFile == [at |-> "cut"]
Whole(f) == f.at = "whole"
Readable(f, importOnly) == Whole(f) /\ Required(f.type, importOnly) \subseteq f.keys

\* The settings of the programs that m_programs holds, by their own name.
ProgramsOf(q, prog) ==
    [n \in ProgramNames |->
       IF \E p \in Range(q.m_programs) \ {Null} : prog[p].name = n
       THEN prog[CHOOSE p \in Range(q.m_programs) \ {Null} : prog[p].name = n].settings
       ELSE Null]

\* writeJsonSettingsToFile.
Written(q, prog, exportOnly, includePrograms) ==
    [at |-> "whole", type |-> q.type,
     keys |-> Keys(q.type, exportOnly, includePrograms),
     settings |-> IF exportOnly THEN [q.settings EXCEPT !.private = 0]
                                ELSE q.settings,
     programs |-> IF includePrograms THEN ProgramsOf(q, prog)
                                     ELSE [n \in ProgramNames |-> Null]]

\* The files once that of a queue named n is f.
WithFile(n, f) == [m \in Names \ {NoName} |-> IF m = n THEN f ELSE file[m]]

\* What of a file an import or a start takes.
Taken(f, importOnly) ==
    IF importOnly THEN [f.settings EXCEPT !.private = 0] ELSE f.settings

-----------------------------------------------------------------------------
(* QueueManager and Queue.                                                 *)

Kept == Range(m_queues) \ {Null}

NewQueue(n, type, settings) ==
    [name |-> n, type |-> type, settings |-> settings,
     m_programs |-> [m \in ProgramNames |-> Null]]

\* Queue::addProgram and removeProgram, which deletes nothing: a removed program
\* stays connected to its queue.
WithProgram(q, n, p) == [q EXCEPT !.m_programs[n] = p]
WithoutProgram(q, n) == [q EXCEPT !.m_programs[n] = Null]

NewProgram(a, n, settings) == [name |-> n, settings |-> settings, queue |-> a]

\* The programs `from`, by name, as new objects of the queue at a.
PutPrograms(q, a, from) ==
    \E put \in [{n \in ProgramNames : from[n] # Null} ->
                 {p \in Programs : program[p] = Null}] :
       /\ IsInjective(put)
       /\ queue' = [queue EXCEPT ![a] = [q EXCEPT !.m_programs =
                       [n \in ProgramNames |-> IF n \in DOMAIN put THEN put[n] ELSE Null]]]
       /\ program' = [p \in Programs |->
                        IF \E n \in DOMAIN put : put[n] = p
                        THEN LET n == CHOOSE n \in DOMAIN put : put[n] = p
                             IN  NewProgram(a, n, from[n])
                        ELSE program[p]]

\* AddQueueDialog, which is modal: not without a name, nor with one that is
\* taken.
AddQueue(a, n, type) ==
    /\ queue[a] = Null /\ n # NoName /\ m_queues[n] = Null
    /\ queue' = [queue EXCEPT ![a] = NewQueue(n, type, Defaults)]
    /\ m_queues' = [m_queues EXCEPT ![n] = a]
    /\ UNCHANGED <<program, file, dialogVars>>

\* ImportQueueDialog: the queue is added before the file is read, and stays
\* when the file is refused.
ImportQueue(a, n, f, includePrograms) ==
    /\ Whole(f)
    /\ queue[a] = Null /\ n # NoName /\ m_queues[n] = Null
    /\ m_queues' = [m_queues EXCEPT ![n] = a]
    /\ IF Readable(f, TRUE)
       THEN PutPrograms(NewQueue(n, f.type, Taken(f, TRUE)), a,
                        IF includePrograms THEN f.programs
                                           ELSE [m \in ProgramNames |-> Null])
       ELSE /\ queue' = [queue EXCEPT ![a] = NewQueue(n, f.type, Defaults)]
            /\ UNCHANGED program
    /\ UNCHANGED <<file, dialogVars>>

\* What the user may import: a queue that was exported, here or elsewhere, or
\* what only says it is one.
ImportKeys == {{}, Keys("Local", TRUE, TRUE), UNION {Keys(u, TRUE, TRUE) : u \in Types}}
Imports ==
    {[at |-> "whole", type |-> t, keys |-> k, settings |-> Defaults,
      programs |-> [n \in ProgramNames |-> IF n = SleepTesting THEN Defaults ELSE Null]]
     : t \in Types, k \in ImportKeys}

\* removeQueue: its file goes too, the queue and its programs are deleted; the
\* dialogs that are open on them stay.
RemoveQueue(n) ==
    /\ m_queues[n] # Null
    /\ LET a == m_queues[n] IN
       /\ m_queues' = [m_queues EXCEPT ![n] = Null]
       /\ file' = WithFile(queue[a].name, NoFile)
       /\ queue' = [queue EXCEPT ![a] = Null]
       /\ program' = [p \in Programs |->
             IF program[p] # Null /\ program[p].queue = a THEN Null ELSE program[p]]
    /\ UNCHANGED <<dialogVars>>

\* A mutant: the queue that has the old name is not looked at.
Moves(b, newName, q) == b # Null

\* queueNameChanged acts on the queue kept under the old name if that is the
\* one that was renamed: a queue that was replaced may be renamed as well.
IsRenamed(b, newName, q) == b # Null /\ q[b].name = newName

\* setName for the queue at a, and queueNameChanged: the file of the new name is
\* written, that of the old one stays.
Rename(a, n) ==
    LET old == queue[a].name
        b   == m_queues[old]
        q   == [queue EXCEPT ![a].name = n]
    IN  IF n # old /\ IsRenamed(b, n, q)
        THEN /\ m_queues' = [m_queues EXCEPT ![old] = Null, ![n] = b]
             /\ file' = WithFile(n, Written(q[b], program, FALSE, TRUE))
        ELSE UNCHANGED <<m_queues, file>>

-----------------------------------------------------------------------------
(* QueueSettingsDialog and the settings widget of the type in it.          *)

\* reset: what the dialog shows of its queue; `unsaved` are the settings in the
\* widget while it is dirty.
Shown(q) == [name |-> q.name, type |-> q.type, unsaved |-> Null, dirty |-> FALSE]

Open == Cardinality({a \in Queues : dialogs[a] # Null})
        + Cardinality({d \in Queues \X Programs : programDialogs[d] # Null})

\* The queue of an open dialog is there.  One whose queue was deleted reads
\* freed memory unless it is closed unchanged; the address may by then be
\* another queue's, of the same type or of one its widget is not made for.
Usable(a) == /\ dialogs[a] # Null /\ queue[a] # Null
             /\ dialogs[a].type = queue[a].type

\* An open dialog of the queue, or of one at its address, is only raised.
ShowSettingsDialog(n) ==
    /\ m_queues[n] # Null /\ dialogs[m_queues[n]] = Null /\ Open < MaxOpen
    /\ dialogs' = [dialogs EXCEPT ![m_queues[n]] = Shown(queue[m_queues[n]])]
    /\ UNCHANGED <<queue, program, m_queues, file, programDialogs>>

\* The settings once the widget is saved.
SettingsSaved(a) == IF dialogs[a].unsaved = Null THEN queue[a].settings
                                                 ELSE dialogs[a].unsaved

EditName(a, n) ==
    /\ Usable(a) /\ n # dialogs[a].name
    /\ dialogs' = [dialogs EXCEPT ![a].name = n, ![a].dirty = TRUE]
    /\ UNCHANGED <<queue, program, m_queues, file, programDialogs>>

EditSettings(a, v) ==
    /\ Usable(a) /\ SettingsSaved(a) # [public |-> v, private |-> v]
    /\ dialogs' = [dialogs EXCEPT ![a].unsaved = [public |-> v, private |-> v],
                                  ![a].dirty = TRUE]
    /\ UNCHANGED <<queue, program, m_queues, file, programDialogs>>

\* The queue at a as the dialog has it.  The files are not written for the
\* settings; the user has agreed to replace a queue that has the name.
Edited(a) == [queue[a] EXCEPT !.name = dialogs[a].name,
                              !.settings = SettingsSaved(a)]
Apply(a) ==
    /\ Usable(a)
    /\ Rename(a, dialogs[a].name)
    /\ queue' = [queue EXCEPT ![a] = Edited(a)]
    /\ UNCHANGED <<program>>

\* The Apply button, and Save when the tab is changed.
ClickApply(a) ==
    /\ dialogs[a] # Null /\ dialogs[a].dirty
    /\ Apply(a)
    /\ dialogs' = [dialogs EXCEPT ![a] = Shown(Edited(a))]
    /\ UNCHANGED programDialogs

\* finished: the dialog is deleted, and the program dialogs in it.
CloseDialog(a) ==
    /\ dialogs' = [dialogs EXCEPT ![a] = Null]
    /\ programDialogs' = [d \in Queues \X Programs |->
                            IF d[1] = a THEN Null ELSE programDialogs[d]]

\* Ok, and Save when the window is closed.
Accept(a) == Apply(a) /\ CloseDialog(a)

\* Cancel, Discard; Save, when the user then refuses to replace a queue.
Reject(a) ==
    /\ dialogs[a] # Null
    /\ CloseDialog(a)
    /\ UNCHANGED <<queue, program, m_queues, file>>

\* Discard when the tab is changed, and Save that is refused.
ResetDialog(a) ==
    /\ Usable(a) /\ dialogs[a].dirty
    /\ dialogs' = [dialogs EXCEPT ![a] = Shown(queue[a])]
    /\ UNCHANGED <<queue, program, m_queues, file, programDialogs>>

-----------------------------------------------------------------------------
(* Programs.                                                               *)

\* Not without a name, nor with one that is taken: QueueProgramItemModel.
CanAdd(q, n) == n # NoName /\ q.m_programs[n] = Null

\* addProgramClicked asks until the program can be added.
AddProgram(a, p, n, settings) ==
    /\ Usable(a) /\ program[p] = Null /\ CanAdd(queue[a], n)
    /\ program' = [program EXCEPT ![p] = NewProgram(a, n, settings)]
    /\ queue' = [queue EXCEPT ![a] = WithProgram(@, n, p)]
    /\ UNCHANGED <<m_queues, file, dialogVars>>

\* ImportProgramDialog: a file that is refused leaves nothing but memory behind.
ImportProgram(a, p, n, f) ==
    /\ f.whole
    /\ AddProgram(a, p, n, f.settings)

\* Files of programs: all that is saved of one is exported.
ProgramFiles == {[whole |-> TRUE, settings |-> v] : v \in ProgramSettings}

RemoveProgram(a, n) ==
    /\ Usable(a) /\ queue[a].m_programs[n] # Null
    /\ queue' = [queue EXCEPT ![a] = WithoutProgram(@, n)]
    /\ UNCHANGED <<program, m_queues, file, dialogVars>>

\* sleepTest of the widgets of remote queues saves the widget, not the dialog,
\* and unless something it needs is not set adds a program for the job it
\* submits.
SleepTest(a, p, complete) ==
    /\ Usable(a) /\ queue[a].type # "Local"
    /\ LET q   == [queue[a] EXCEPT !.settings = SettingsSaved(a)]
           new == complete /\ q.m_programs[SleepTesting] = Null
       IN  /\ new => program[p] = Null
           /\ queue' = [queue EXCEPT ![a] =
                 IF new THEN WithProgram(q, SleepTesting, p) ELSE q]
           /\ program' = IF new
                 THEN [program EXCEPT ![p] = NewProgram(a, SleepTesting, Defaults)]
                 ELSE program
    /\ dialogs' = [dialogs EXCEPT ![a].unsaved = Null]
    /\ UNCHANGED <<m_queues, file, programDialogs>>

\* ProgramConfigureDialog: what it shows of its program.
ShownProgram(p) == [name |-> program[p].name, settings |-> program[p].settings,
                    dirty |-> FALSE, visible |-> TRUE]

UsableProgram(a, p) == programDialogs[<<a, p>>] # Null /\ program[p] # Null
                       /\ programDialogs[<<a, p>>].visible

\* A dialog of the program that was only hidden is shown again.
ShowProgramConfigDialog(a, n) ==
    /\ Usable(a) /\ queue[a].m_programs[n] # Null
    /\ LET p == queue[a].m_programs[n] IN
       /\ IF programDialogs[<<a, p>>] = Null THEN Open < MaxOpen
                                        ELSE ~programDialogs[<<a, p>>].visible
       /\ programDialogs' = [programDialogs EXCEPT ![<<a, p>>] =
             IF @ = Null THEN ShownProgram(p) ELSE [@ EXCEPT !.visible = TRUE]]
    /\ UNCHANGED <<queue, program, m_queues, file, dialogs>>

EditProgram(a, p, n, v) ==
    /\ UsableProgram(a, p)
    /\ LET d == [programDialogs[<<a, p>>] EXCEPT !.name = n, !.dirty = TRUE,
                                             !.settings = v]
       IN  /\ <<d.name, d.settings>> # <<programDialogs[<<a, p>>].name,
                                         programDialogs[<<a, p>>].settings>>
           /\ programDialogs' = [programDialogs EXCEPT ![<<a, p>>] = d]
    /\ UNCHANGED <<queue, program, m_queues, file, dialogs>>

\* updateProgramFromGui: setName and programNameChanged, which writes the file
\* of the queue, before the settings are taken over.
UpdateProgramFromGui(a, p) ==
    LET d    == programDialogs[<<a, p>>]
        old  == program[p].name
        o    == program[p].queue
        prog == [program EXCEPT ![p].name = d.name]
        b    == queue[o].m_programs[old]
        q    == [queue[o] EXCEPT !.m_programs =
                   [queue[o].m_programs EXCEPT ![old] = Null, ![d.name] = b]]
    IN  /\ UsableProgram(a, p)
        /\ IF d.name # old /\ b # Null /\ prog[b].name = d.name
           THEN /\ queue' = [queue EXCEPT ![o] = q]
                /\ file' = WithFile(q.name, Written(q, prog, FALSE, TRUE))
           ELSE UNCHANGED <<queue, file>>
        /\ program' = [prog EXCEPT ![p].settings = d.settings]
        /\ UNCHANGED <<m_queues, dialogs>>

ApplyProgram(a, p) ==
    /\ UpdateProgramFromGui(a, p)
    /\ programDialogs[<<a, p>>].dirty
    /\ programDialogs' = [programDialogs EXCEPT ![<<a, p>>].dirty = FALSE]

AcceptProgram(a, p) ==
    /\ programDialogs[<<a, p>>] # Null /\ programDialogs[<<a, p>>].dirty
    /\ UpdateProgramFromGui(a, p)
    /\ programDialogs' = [programDialogs EXCEPT ![<<a, p>>] = Null]

\* Cancel, Discard, or Ok when nothing was changed.
RejectProgram(a, p) ==
    /\ programDialogs[<<a, p>>] # Null /\ programDialogs[<<a, p>>].visible
    /\ programDialogs' = [programDialogs EXCEPT ![<<a, p>>] = Null]
    /\ UNCHANGED <<queue, program, m_queues, file, dialogs>>

\* The window is closed, the user saves and then refuses to replace a program:
\* the dialog is hidden, and neither finished nor reset.
RefuseProgram(a, p) ==
    /\ UsableProgram(a, p) /\ programDialogs[<<a, p>>].dirty
    /\ LET d == programDialogs[<<a, p>>]
       IN  d.name # program[p].name
           /\ queue[program[p].queue].m_programs[d.name] # Null
    /\ programDialogs' = [programDialogs EXCEPT ![<<a, p>>].visible = FALSE]
    /\ UNCHANGED <<queue, program, m_queues, file, dialogs>>

-----------------------------------------------------------------------------
(* The end of the program and the next start.                              *)

\* writeSettings for every queue of the manager, whose names are at most n.
Saved(n) == [m \in Names \ {NoName} |->
    IF m =< n /\ \E a \in Kept : queue[a].name = m
    THEN Written(queue[CHOOSE a \in Kept : queue[a].name = m], program, FALSE, TRUE)
    ELSE file[m]]

\* readSettings calls the queue of a file by what is before the first dot of the
\* file's name.  The hidden file of the empty name is not listed.
FilesFor(files, b) == {m \in Names \ {NoName} : BaseName[m] = b /\ files[m].at # "none"}

\* A file that is listed later takes the place of the queue that an earlier one
\* loaded under the same name, also when no type can be read from it.
Replaced(files, m) == \E k \in FilesFor(files, BaseName[m]) : Position[m] < Position[k]

\* A file that is refused removes its queue, and with it that queue's own file,
\* be it listed before or after.
Refused(f) == Whole(f) /\ ~Readable(f, FALSE)
RemovesOwn(files, b) == \E k \in FilesFor(files, b) : Refused(files[k])

\* The queue that is read from <m>.mqq is there after the start.
Loads(files, m) ==
    /\ Readable(files[m], FALSE) /\ ~Replaced(files, m)
    /\ ~(BaseName[m] = m /\ RemovesOwn(files, m))

ReadSettings ==
    LET loaded == {m \in Names \ {NoName} : Loads(file, m)}
        slots  == {s \in loaded \X ProgramNames : file[s[1]].programs[s[2]] # Null}
    IN  \E at \in [loaded -> Queues], pt \in [slots -> Programs] :
           /\ IsInjective(at) /\ IsInjective(pt)
           /\ m_queues' = [b \in Names |->
                 IF \E m \in loaded : BaseName[m] = b
                 THEN at[CHOOSE m \in loaded : BaseName[m] = b] ELSE Null]
           /\ queue' = [a \in Queues |->
                 IF \E m \in loaded : at[m] = a
                 THEN LET m == CHOOSE m \in loaded : at[m] = a
                      IN  [NewQueue(BaseName[m], file[m].type, Taken(file[m], FALSE))
                             EXCEPT !.m_programs = [k \in ProgramNames |->
                                IF <<m, k>> \in slots THEN pt[<<m, k>>] ELSE Null]]
                 ELSE Null]
           /\ program' = [p \in Programs |->
                 IF \E s \in slots : pt[s] = p
                 THEN LET s == CHOOSE s \in slots : pt[s] = p
                      IN  NewProgram(at[s[1]], s[2], file[s[1]].programs[s[2]])
                 ELSE Null]
           /\ file' = [b \in Names \ {NoName} |->
                 IF RemovesOwn(file, b) THEN NoFile ELSE file[b]]

Start ==
    /\ ~running /\ running' = TRUE
    /\ ReadSettings
    /\ UNCHANGED dialogVars

\* Memory is gone.
NoMemory == [queue |-> [a \in Queues |-> Null], program |-> [p \in Programs |-> Null],
             m_queues |-> [n \in Names |-> Null],
             dialogs |-> [a \in Queues |-> Null],
             programDialogs |-> [d \in Queues \X Programs |-> Null]]
Stop ==
    /\ queue' = NoMemory.queue /\ program' = NoMemory.program
    /\ m_queues' = NoMemory.m_queues
    /\ dialogs' = NoMemory.dialogs /\ programDialogs' = NoMemory.programDialogs
    /\ running' = FALSE

\* The program quits: what dialogs hold is not asked for.
Quit == Stop /\ file' = Saved(MaxName)

\* The files a rename may be writing.
Renaming ==
    {dialogs[a].name : a \in {a \in Queues :
        Usable(a) /\ dialogs[a].name # queue[a].name /\ m_queues[queue[a].name] = a}}
    \cup {queue[program[d[2]].queue].name : d \in {d \in Queues \X Programs :
        /\ UsableProgram(d[1], d[2])
        /\ programDialogs[d].name # program[d[2]].name
        /\ queue[program[d[2]].queue].m_programs[program[d[2]].name] = d[2]}}

\* A crash: between two steps; while the queues are written, one after another
\* in the order of their names; or while a rename, that of a queue after
\* removing what there was, writes a file.
Crash ==
    /\ Stop
    /\ \/ UNCHANGED file
       \/ \E n \in Names \ {NoName} :
             /\ m_queues[n] # Null
             /\ file' = [Saved(n) EXCEPT ![n] = CutFile]
       \/ \E n \in Renaming, f \in {NoFile, CutFile} : file' = WithFile(n, f)

Init ==
    /\ queue = NoMemory.queue /\ program = NoMemory.program
    /\ m_queues = NoMemory.m_queues
    /\ dialogs = NoMemory.dialogs /\ programDialogs = NoMemory.programDialogs
    /\ running = FALSE
    /\ file = [n \in Names \ {NoName} |-> NoFile]

Step ==
    \/ \E a \in Queues, n \in Names :
          \/ \E t \in Types : AddQueue(a, n, t)
          \/ \E f \in Imports, with \in BOOLEAN : ImportQueue(a, n, f, with)
          \/ EditName(a, n)
    \/ \E n \in Names : RemoveQueue(n) \/ ShowSettingsDialog(n)
    \/ \E a \in Queues : \/ \E v \in Values \ {0} : EditSettings(a, v)
                         \/ ClickApply(a) \/ Accept(a) \/ Reject(a) \/ ResetDialog(a)
    \/ \E a \in Queues, n \in ProgramNames :
          RemoveProgram(a, n) \/ ShowProgramConfigDialog(a, n)
    \/ \E a \in Queues, p \in Programs :
          \/ \E n \in ProgramNames :
                \/ AddProgram(a, p, n, Defaults)
                \/ \E v \in ProgramSettings : EditProgram(a, p, n, v)
                \/ \E f \in ProgramFiles : ImportProgram(a, p, n, f)
          \/ \E complete \in BOOLEAN : SleepTest(a, p, complete)
          \/ ApplyProgram(a, p) \/ AcceptProgram(a, p)
          \/ RejectProgram(a, p) \/ RefuseProgram(a, p)

Next ==
    \/ Start
    \/ /\ running
       /\ \/ Quit \/ Crash
          \/ UNCHANGED running /\ Step

Spec == Init /\ [][Next]_vars

-----------------------------------------------------------------------------
(* Safety.                                                                 *)

\* A file that is whole has settings a queue can take.
FileOK(f) ==
    Whole(f) => f.type \in Types /\ f.settings \in Settings /\ f.programs \in ProgramList

TypeOK ==
    /\ queue \in [Queues -> {Null} \cup QueueObject]
    /\ program \in [Programs -> {Null} \cup ProgramObject]
    /\ m_queues \in [Names -> {Null} \cup Queues]
    /\ dialogs \in [Queues -> {Null} \cup SettingsDialog]
    /\ programDialogs \in [Queues \X Programs -> {Null} \cup ProgramDialog]
    /\ \A n \in Names \ {NoName} : FileOK(file[n])

\* What is looked up by a name has that name: the maps of queues and of
\* programs agree with the objects through renames, replacements and removals,
\* also by dialogs of queues and programs that were replaced or removed, and
\* hold nothing that was deleted.
\* (queuemanager.cpp 147-205, queue.cpp 332-368 and 539-552)
QueuesHaveTheirNames ==
    \A n \in Names : m_queues[n] # Null =>
       queue[m_queues[n]] # Null /\ queue[m_queues[n]].name = n
ProgramsHaveTheirNames ==
    \A a \in Queues : queue[a] # Null =>
       \A n \in ProgramNames : LET p == queue[a].m_programs[n] IN
          p # Null => program[p] # Null /\ program[p].name = n /\ program[p].queue = a
NamesAgree == TypeOK /\ QueuesHaveTheirNames /\ ProgramsHaveTheirNames

\* The program could quit now, and the next start would load every queue, of
\* whatever type, with its settings and programs: what a class writes it reads
\* back, and no file of the directory is refused, which would delete a queue
\* and a file.  The queue comes back under what is before the first dot of its
\* name.  Left out is one whose file is not the last listed of those that come to
\* the same name, files left behind by renames and crashes among them: that one
\* is replaced.  So is a queue that was renamed to nothing: its file is hidden.
\* (queue.cpp 139-325, remote.cpp 54-95, remotessh.cpp 56-114, local.cpp
\* 74-131, queueuit.cpp 85-121, queuemanager.cpp 54-92)
SurvivesQuit ==
    LET files == Saved(MaxName)
    IN  \A n \in Names \ {NoName} : m_queues[n] # Null /\ ~Replaced(files, n) =>
           LET f == files[n]
               q == queue[m_queues[n]]
           IN  /\ Loads(files, n)
               /\ <<f.type, Taken(f, FALSE), f.programs>>
                  = <<q.type, q.settings, ProgramsOf(q, program)>>
==============================================================================
