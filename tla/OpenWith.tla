------------------------------- MODULE OpenWith -------------------------------
(***************************************************************************)
(* The "open with" handlers: clients register and unregister them over     *)
(* RPC, the user edits copies of them in a dialog without a modal state,   *)
(* and the context menu of a job runs them.  One thread; what interleaves  *)
(* are the nested event loops of message boxes, of the menu and of a       *)
(* handler that waits for its RPC server.  (Server::handleRegisterOpenWith *)
(* Request and its kin, ActionFactoryManager, OpenWithActionFactory,       *)
(* OpenWithManagerDialog and its models.)                                  *)
(***************************************************************************)
EXTENDS Naturals, Sequences, SequencesExt, FiniteSets

CONSTANTS
    Ids,          \* addresses of factories, never used twice: 1 .. n
    Offers,       \* what clients ask to register
    NewName,      \* the name of a handler added in the dialog
    Renamed,      \* the name the user may give it
    MaxRows,      \* bound: handlers in the dialog
    MaxEdits,     \* bound: edits in the dialog since it was loaded
    MaxPatterns,  \* bound: patterns of a handler
    MaxOpenings,  \* bound: handlers that wait at a time, one in the other
    Events        \* the rare events of a run

ASSUME OpenWithAssumption ==
    /\ IsFiniteSet(Ids) /\ Ids = 1 .. Cardinality(Ids)
    /\ MaxRows \in Nat /\ MaxEdits \in Nat /\ MaxPatterns \in Nat
    /\ MaxOpenings \in Nat
    /\ \A o \in Offers : /\ o.target \in {"valid", "invalid"}
                         /\ o.patterns \in Seq(STRING)

VARIABLES
    object,      \* id -> the OpenWithActionFactory there, or what it was
    m_factories, \* ActionFactoryManager: the open-with factories in order
    doomed,      \* the ids given to deleteLater
    settings,    \* the handlers in the settings file
    dlg,         \* OpenWithManagerDialog
    box,         \* the message box of the dialog that is open, if any
    menu,        \* the factories the open context menu has an action of
    openings,    \* the nested RpcHandlerStrategy::openFile, innermost last
    program      \* "runs", or why it has died

managerVars == <<object, m_factories, doomed>>
vars == <<object, m_factories, doomed, settings, dlg, box, menu, openings,
          program>>

-----------------------------------------------------------------------------
(* Handlers.                                                               *)

HandlerTypes == {"NoHandler", "ExecutableHandler", "RpcHandler"}

\* "hit" matches a file of the job, "miss" does not.
Patterns == {"hit", "miss"}

\* The executable can be run, or the RPC server be reached.
Targets == {"valid", "invalid"}

Names == {NewName, Renamed} \cup {o.name : o \in Offers}

Factory == [name : Names, type : HandlerTypes, target : Targets,
            patterns : Seq(Patterns)]

Unused  == [at |-> "unused"]
Deleted == [at |-> "deleted"]
Live(id) == object[id] \notin {Unused, Deleted}

\* OpenWithExecutableModel::insertRows: a new handler and its default pattern.
NewFactory == [name |-> NewName, type |-> "NoHandler", target |-> "invalid",
               patterns |-> <<"hit">>]

\* setHandlerType: nothing for the same type, else a strategy that is empty.
WithType(f, type) == IF type = f.type THEN f
                     ELSE [f EXCEPT !.type = type, !.target = "invalid"]

\* setExecutable, setRpcDetails; without a handler there is nothing to set.
WithTarget(f, target) == IF f.type = "NoHandler" THEN f
                         ELSE [f EXCEPT !.target = target]

\* The dialog refuses executables it cannot find or run, and those only.
NeedsWarning(f) == f.type = "ExecutableHandler" /\ f.target = "invalid"

\* isValidForJob: some file of the job's directory matches a pattern.
IsValidForJob(f) == "hit" \in Range(f.patterns)

-----------------------------------------------------------------------------
(* The dialog when it is hidden and asks nothing.                          *)

\* rows: m_factories, the copies that are edited; orig: m_origFactories;
\* row: the selected row, or 0; regexps: the row whose patterns the pattern
\* model points at, or 0; stale: that row is a copy that was freed.
Emptied == [visible |-> FALSE, orig |-> <<>>, rows |-> <<>>, row |-> 0,
            regexps |-> 0, stale |-> FALSE, dirty |-> FALSE, edits |-> 0]

NoBox == [kind |-> "none"]
Asking(kind) == box.kind = kind

-----------------------------------------------------------------------------
(* ActionFactoryManager.                                                   *)

FreeIds == {id \in Ids : object[id] = Unused}

\* The n addresses taken next.
Fresh(n) == LET used == Cardinality(Ids) - Cardinality(FreeIds)
            IN  [i \in 1 .. n |-> used + i]

\* The entries of s that are in S, in their order.
Among(s, S) ==
    LET kept    == {i \in DOMAIN s : s[i] \in S}
        rank(i) == Cardinality({k \in kept : k =< i})
    IN  [n \in 1 .. Cardinality(kept) |-> s[CHOOSE i \in kept : rank(i) = n]]

\* addFactory for each of a sequence of new factories, after removeFactory,
\* which calls deleteLater, for each of the old ones.
Listed(old) == Among(m_factories, Ids \ old)
Replace(old, new) ==
    LET ids == Fresh(Len(new)) IN
    /\ Len(new) =< Cardinality(FreeIds)
    /\ m_factories' = Listed(old) \o ids
    /\ object' = [id \in Ids |-> IF \E i \in DOMAIN ids : ids[i] = id
                                 THEN new[CHOOSE i \in DOMAIN ids : ids[i] = id]
                                 ELSE object[id]]
    /\ doomed' = doomed \cup {id \in old : Live(id)}

\* deleteLater: the event loop, nested or not, deletes the factory.
DeferredDelete ==
    /\ doomed # {}
    /\ object' = [id \in Ids |-> IF id \in doomed THEN Deleted ELSE object[id]]
    /\ doomed' = {}
    /\ UNCHANGED <<m_factories, settings, dlg, box, menu, openings, program>>

Runs == program = "runs"

\* The program ends where it should not; nothing but the settings is left.
Dies(why) ==
    /\ program' = why
    /\ object' = [id \in Ids |-> Unused]
    /\ m_factories' = <<>> /\ doomed' = {}
    /\ dlg' = Emptied /\ box' = NoBox /\ menu' = {} /\ openings' = <<>>
    /\ UNCHANGED settings

\* A message box and an open menu keep the user from everything else; the
\* clients and the timers are served in their nested event loops.
Idle == Runs /\ box = NoBox /\ menu = {}

-----------------------------------------------------------------------------
(* Clients.                                                                *)

ValuesOf(ids) == [i \in DOMAIN ids |-> object[ids[i]]]

\* handleListOpenWithNamesRequest.
ListedNames == {object[m_factories[i]].name : i \in DOMAIN m_factories}

\* The request as the server reads it: the client library leaves out patterns
\* that are neither a regexp nor a wildcard, and no pattern means every file.
Sendable(patterns) == Among(patterns, Patterns)

\* registerOpenWith, of which there is one with an executable and one with a
\* server and its method.
TypeAskedFor(offer) == IF offer.method = "executable" THEN "ExecutableHandler"
                                                      ELSE "RpcHandler"
Registered(offer) ==
    [name |-> offer.name,
     type |-> TypeAskedFor(offer),
     target |-> offer.target,
     patterns |-> IF Sendable(offer.patterns) = <<>> THEN <<"hit">>
                  ELSE Sendable(offer.patterns)]

RegisterOpenWith(offer) ==
    /\ Runs
    /\ offer.method \in {"executable", "rpc"}
    /\ offer.name \notin ListedNames
    /\ Replace({}, <<Registered(offer)>>)
    /\ UNCHANGED <<settings, dlg, box, menu, openings, program>>

\* The first factory of that name goes.
UnregisterOpenWith(name) ==
    /\ Runs
    /\ \E i \in DOMAIN m_factories :
         /\ object[m_factories[i]].name = name
         /\ \A k \in 1 .. i - 1 : object[m_factories[k]].name # name
         /\ Replace({m_factories[i]}, <<>>)
    /\ UNCHANGED <<settings, dlg, box, menu, openings, program>>

\* `handler` is not initialised: without such a name the request is answered
\* with an error if it happens to be NULL, and else ends the program.
UnregisterUnknown(name) ==
    /\ Runs /\ "unknown" \in Events
    /\ name \notin ListedNames
    /\ Dies("uninitialised")

-----------------------------------------------------------------------------
(* The dialog: what it shows.                                              *)

\* loadFactories, when the manager's list is `ids` of `values`.
LoadedFrom(ids, values) == [Emptied EXCEPT !.visible = TRUE, !.orig = ids,
                                           !.rows = values]

\* MainWindow::showOpenWithManagerDialog, also when the dialog is shown.
ShowDialog ==
    /\ Idle
    /\ Len(m_factories) =< MaxRows
    /\ dlg' = LoadedFrom(m_factories, ValuesOf(m_factories))
    /\ UNCHANGED <<managerVars, settings, box, menu, openings, program>>

\* factorySelectionChanged.
WithSelection(d, i) == [d EXCEPT !.row = i, !.regexps = i, !.stale = FALSE]

CanEdit == Idle /\ dlg.visible /\ dlg.edits < MaxEdits

\* A mutant: only edits of the selected handler mark the dialog.
EditedUnmarked(d) == [d EXCEPT !.dirty = d.row # 0, !.edits = @ + 1]

\* dataChanged, rowsInserted and rowsRemoved of both models: markDirty.
Edited(d) == [d EXCEPT !.dirty = TRUE, !.edits = @ + 1]
Change(d) ==
    /\ dlg' = Edited(d)
    /\ UNCHANGED <<managerVars, settings, box, menu, openings, program>>

SelectRow ==
    /\ Idle /\ dlg.visible
    /\ \E i \in DOMAIN dlg.rows \ {dlg.row} : dlg' = WithSelection(dlg, i)
    /\ UNCHANGED <<managerVars, settings, box, menu, openings, program>>

\* addFactory: before the selected row, else at the end.
AddRow ==
    /\ CanEdit /\ Len(dlg.rows) < MaxRows
    /\ LET i == IF dlg.row = 0 THEN Len(dlg.rows) + 1 ELSE dlg.row
       IN  Change(WithSelection([dlg EXCEPT !.rows = InsertAt(@, i, NewFactory)],
                                i))

\* removeFactory: the view selects a neighbour first when the removed row was
\* also the current one; addFactory selects rows without making them current.
RemoveRow ==
    /\ CanEdit /\ dlg.row # 0
    /\ LET rest == [dlg EXCEPT !.rows = RemoveAt(@, dlg.row)]
           next == IF dlg.row < Len(dlg.rows) THEN dlg.row ELSE dlg.row - 1
       IN  \E i \in {0, next} : Change(WithSelection(rest, i))

-----------------------------------------------------------------------------
(* The dialog: editing a handler and its patterns.                         *)

WithRow(f) == [dlg EXCEPT !.rows[dlg.row] = f]

EditHandler ==
    /\ CanEdit /\ dlg.row # 0
    /\ LET f == dlg.rows[dlg.row] IN
       \/ Change(WithRow([f EXCEPT !.name = Renamed]))
       \/ \E type \in HandlerTypes : Change(WithRow(WithType(f, type)))
       \/ \E target \in Targets : Change(WithRow(WithTarget(f, target)))

\* The pattern model writes through its pointer.
PatternsShown == dlg.rows[dlg.regexps].patterns
WithPatterns(ps) == [dlg EXCEPT !.rows[dlg.regexps].patterns = ps]
CanEditPatterns == CanEdit /\ dlg.regexps # 0 /\ ~dlg.stale

AddPattern ==
    /\ CanEditPatterns /\ Len(PatternsShown) < MaxPatterns
    /\ Change(WithPatterns(Append(PatternsShown, "hit")))

RemovePattern ==
    /\ CanEditPatterns
    /\ \E i \in DOMAIN PatternsShown :
          Change(WithPatterns(RemoveAt(PatternsShown, i)))

EditPattern ==
    /\ CanEditPatterns
    /\ \E i \in DOMAIN PatternsShown, p \in Patterns :
          Change(WithPatterns([PatternsShown EXCEPT ![i] = p]))

\* A repaint reads the list the pattern model points at after it was freed.
PaintFreedPatterns ==
    /\ Runs /\ dlg.stale
    /\ Dies("freed patterns")

-----------------------------------------------------------------------------
(* The dialog: Apply, Ok, Cancel and closing it.                           *)

\* apply has found nothing to ask about any more: the factories it was loaded
\* from go, the copies come.  One of those that a client unregistered in the
\* meantime is deleted a second time, which may or may not end the program.
Dangling == \E i \in DOMAIN dlg.orig : ~Live(dlg.orig[i])
Commit(then) ==
    \/ Dangling /\ Dies("deleted twice")
    \/ /\ Replace(Range(dlg.orig), dlg.rows)
       /\ dlg' = IF then = "apply"
                 THEN LoadedFrom(m_factories', [i \in DOMAIN m_factories' |->
                                                  object'[m_factories'[i]]])
                 ELSE Emptied
       /\ box' = NoBox
       /\ UNCHANGED <<settings, menu, openings, program>>

\* apply from row k on: ask about the next executable that cannot be run.
\* `detached`: while the loop holds a copy of the list, a repaint of the
\* table makes m_factories a new list and leaves the old one to the loop.
ApplyFrom(k, then, detached) ==
    LET bad == {i \in k .. Len(dlg.rows) : NeedsWarning(dlg.rows[i])} IN
    \/ bad = {} /\ Commit(then)
    \/ \E i \in bad :
          /\ \A j \in bad : i =< j
          /\ box' = [kind |-> "executable", then |-> then, row |-> i,
                     detached |-> detached]
          /\ UNCHANGED <<managerVars, settings, dlg, menu, openings, program>>

\* Apply is enabled by markDirty; Ok always is.
ClickApply == Idle /\ dlg.visible /\ dlg.dirty /\ ApplyFrom(1, "apply", FALSE)
ClickOk    == Idle /\ dlg.visible /\ ApplyFrom(1, "accept", FALSE)

\* OpenWithExecutableModel::data, called by a repaint under the message box.
RepaintUnderBox ==
    /\ Runs /\ Asking("executable") /\ ~box.detached
    /\ box' = [box EXCEPT !.detached = TRUE]
    /\ UNCHANGED <<managerVars, settings, dlg, menu, openings, program>>

\* "Would you like to change the executable now?"  No.
KeepExecutable ==
    /\ Runs /\ Asking("executable")
    /\ ApplyFrom(box.row + 1, box.then, box.detached)

\* Yes: apply returns false.  The row is selected, which is no change if it
\* was; closeEvent returns without ignoring the event, and so hides the dialog.
RowAsked == IF dlg.row = box.row
            THEN [dlg EXCEPT !.stale = box.detached /\ dlg.regexps # 0]
            ELSE WithSelection(dlg, box.row)
ChangeExecutable ==
    /\ Runs /\ Asking("executable")
    /\ dlg' = [RowAsked EXCEPT !.visible = box.then # "close"]
    /\ box' = NoBox
    /\ UNCHANGED <<managerVars, settings, menu, openings, program>>

\* Cancel: reject.
ClickCancel ==
    /\ Idle /\ dlg.visible
    /\ dlg' = Emptied
    /\ UNCHANGED <<managerVars, settings, box, menu, openings, program>>

\* Escape or the window's button: closeEvent, and QDialog's, which rejects.
CloseDialog ==
    /\ Idle /\ dlg.visible
    /\ IF dlg.dirty THEN /\ box' = [kind |-> "unsaved"]
                         /\ UNCHANGED dlg
                    ELSE /\ dlg' = Emptied
                         /\ UNCHANGED box
    /\ UNCHANGED <<managerVars, settings, menu, openings, program>>

\* "Would you like to save or discard them?"
AnswerUnsaved ==
    /\ Runs /\ Asking("unsaved")
    /\ \/ ApplyFrom(1, "close", FALSE)
       \/ \E d \in {dlg, Emptied} :
             /\ dlg' = d
             /\ box' = NoBox
             /\ UNCHANGED <<managerVars, settings, menu, openings, program>>

-----------------------------------------------------------------------------
(* The context menu of a job, and what its actions do.                     *)

\* JobView::contextMenuEvent: the factories with a file of the job to open.
ContextMenu ==
    /\ Idle
    /\ menu' = {id \in Range(m_factories) : IsValidForJob(object[id])}
    /\ menu' # {}
    /\ UNCHANGED <<managerVars, settings, dlg, box, openings, program>>

CloseMenu ==
    /\ Runs /\ menu # {}
    /\ menu' = {}
    /\ UNCHANGED <<managerVars, settings, dlg, box, openings, program>>

\* actionTriggered, unless the factory, and with it the connection, is gone.
\* Executables are started detached, and an RPC server that cannot be reached
\* is reported; one that can is waited for in an event loop of its own.
Trigger(id) ==
    /\ Runs /\ id \in menu
    /\ menu' = {}
    /\ IF Live(id) /\ object[id].type = "RpcHandler"
                   /\ object[id].target = "valid"
       THEN /\ Len(openings) < MaxOpenings
            /\ openings' = Append(openings,
                                  [id |-> id, timer |-> TRUE, quit |-> FALSE])
       ELSE UNCHANGED openings
    /\ UNCHANGED <<managerVars, settings, dlg, box, program>>

\* resultReceived; an error reply is not listened to.
ReplyArrives(k) ==
    /\ Runs /\ ~openings[k].quit
    /\ openings' = [openings EXCEPT ![k].quit = TRUE]
    /\ UNCHANGED <<managerVars, settings, dlg, box, menu, program>>

\* Three seconds: the loop is told to quit, were it only an outer one.
TimerFires(k) ==
    /\ Runs /\ openings[k].timer
    /\ openings' = [openings EXCEPT ![k].timer = FALSE, ![k].quit = TRUE]
    /\ UNCHANGED <<managerVars, settings, dlg, box, menu, program>>

\* The innermost loop ends.  After a timeout the error is stored in the
\* strategy, which may have been deleted with its factory meanwhile.
OpenFileReturns ==
    /\ Runs /\ openings # <<>> /\ Last(openings).quit
    /\ \/ /\ openings' = Front(openings)
          /\ UNCHANGED <<managerVars, settings, dlg, box, menu, program>>
       \/ /\ ~Last(openings).timer /\ ~Live(Last(openings).id)
          /\ Dies("freed handler")

-----------------------------------------------------------------------------
(* The end of the program and the next start.                              *)

\* ActionFactoryManager::readSettings.
ReadSettings(saved) ==
    /\ Len(saved) =< Cardinality(Ids)
    /\ m_factories' = [i \in DOMAIN saved |-> i]
    /\ object' = [id \in Ids |-> IF id \in DOMAIN saved THEN saved[id]
                                                        ELSE Unused]
    /\ doomed' = {}
    /\ dlg' = Emptied /\ box' = NoBox /\ menu' = {} /\ openings' = <<>>
    /\ program' = "runs"

\* MainWindow::~MainWindow writes the settings; nobody asks about the dialog.
QuitAndRestart ==
    /\ Idle /\ openings = <<>>
    /\ settings' = ValuesOf(m_factories)
    /\ ReadSettings(settings')

CrashAndRestart ==
    /\ ReadSettings(settings)
    /\ UNCHANGED settings

Init ==
    /\ object = [id \in Ids |-> Unused]
    /\ m_factories = <<>> /\ doomed = {} /\ settings = <<>>
    /\ dlg = Emptied /\ box = NoBox /\ menu = {} /\ openings = <<>>
    /\ program = "runs"

Next ==
    \/ \E offer \in Offers : RegisterOpenWith(offer)
    \/ \E name \in Names : UnregisterOpenWith(name) \/ UnregisterUnknown(name)
    \/ DeferredDelete
    \/ ShowDialog \/ SelectRow \/ AddRow \/ RemoveRow \/ EditHandler
    \/ AddPattern \/ RemovePattern \/ EditPattern \/ PaintFreedPatterns
    \/ ClickApply \/ ClickOk \/ RepaintUnderBox \/ KeepExecutable
    \/ ChangeExecutable \/ ClickCancel \/ CloseDialog \/ AnswerUnsaved
    \/ ContextMenu \/ CloseMenu
    \/ \E id \in Ids : Trigger(id)
    \/ \E k \in DOMAIN openings : ReplyArrives(k) \/ TimerFires(k)
    \/ OpenFileReturns
    \/ QuitAndRestart \/ CrashAndRestart

Spec == Init /\ [][Next]_vars

-----------------------------------------------------------------------------
(* Safety.                                                                 *)

Dialog == [visible : BOOLEAN, orig : Seq(Ids), rows : Seq(Factory), row : Nat,
           regexps : Nat, stale : BOOLEAN, dirty : BOOLEAN, edits : Nat]
Box == {NoBox, [kind |-> "unsaved"]}
       \cup [kind : {"executable"}, then : {"apply", "accept", "close"},
             row : Nat \ {0}, detached : BOOLEAN]

\* Addresses are taken in order.  The manager lists a factory once, and none
\* that is deleted or about to be; the pattern table edits the handler that is
\* selected, or none, and a box asks about a handler there is.
TypeOK ==
    /\ object \in [Ids -> Factory \cup {Unused, Deleted}]
    /\ \E u \in 0 .. Cardinality(Ids) : FreeIds = u + 1 .. Cardinality(Ids)
    /\ m_factories \in Seq(Ids) /\ IsInjective(m_factories)
    /\ \A i \in DOMAIN m_factories : Live(m_factories[i])
                                     /\ m_factories[i] \notin doomed
    /\ doomed \subseteq {id \in Ids : Live(id)}
    /\ settings \in Seq(Factory)
    /\ dlg \in Dialog
    /\ dlg.row =< Len(dlg.rows) /\ dlg.regexps = dlg.row
    /\ \A i \in DOMAIN dlg.orig : dlg.orig[i] \notin FreeIds
    /\ box \in Box
    /\ box.kind = "executable" => box.row =< Len(dlg.rows)
    /\ menu \subseteq Ids
    /\ openings \in Seq([id : Ids, timer : BOOLEAN, quit : BOOLEAN])

\* A dialog, shown or hidden, that is not marked changed, and so is closed
\* without a question, shows what the manager holds: every row is the factory
\* it was copied from, unless a client unregistered that one.
\* (openwithmanagerdialog.cpp 137-148, 156-175, 226-234)
CleanMeansSame ==
    TypeOK /\ (~dlg.dirty =>
      /\ Len(dlg.rows) = Len(dlg.orig)
      /\ \A i \in DOMAIN dlg.orig :
            Live(dlg.orig[i]) => object[dlg.orig[i]] = dlg.rows[i])

\* "Would you like to save or discard them?" (openwithmanagerdialog.cpp):
\* changes are saved or discarded, and do not stay behind in a closed dialog.
HiddenIsClean == ~dlg.visible => ~dlg.dirty
==============================================================================
