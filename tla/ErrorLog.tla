------------------------------- MODULE ErrorLog -------------------------------
(***************************************************************************)
(* Errors and who is told of them: Logger counts the new ones, MainWindow  *)
(* shows a label for the first, and the log windows, the main one and one  *)
(* for each job the user looks at, silence it and reset the count.         *)
(* (Logger, LogWindow, ViewJobLogActionFactory and the slots of MainWindow *)
(* they are connected to.)                                                 *)
(***************************************************************************)
EXTENDS Naturals

CONSTANTS
    Ids,         \* the MoleQueue ids of jobs, positive
    Watched,     \* bound: the jobs whose log the user looks at
    MaxEntries,  \* bound: m_maxEntries, the entries the log keeps
    ManyErrors   \* bound: error counts from here on are not told apart

ASSUME ErrorLogAssumption ==
    /\ Ids \subseteq Nat \ {0} /\ Watched \subseteq Ids
    /\ MaxEntries \in Nat /\ ManyErrors \in Nat \ {0}

VARIABLES
    m_newErrorCount,     \* errors since somebody looked
    m_silenceNewErrors,
    m_log,               \* how many entries the log has
    logFile,             \* how many were written to log.json
    label,               \* errorNotificationLabel is shown
    windows              \* the log windows: none, hidden or shown

logVars == <<m_newErrorCount, m_silenceNewErrors, m_log, logFile, label, windows>>

\* The main log window goes by no id, and is never deleted.
MainLog == 0
Windows == Watched \cup {MainLog}
NoWindows == [w \in Windows |-> IF w = MainLog THEN "hidden" ELSE "none"]

Least(a, b) == IF a < b THEN a ELSE b

-----------------------------------------------------------------------------
(* Logger.                                                                 *)

\* handleNewLogEntry and trimLog, for n entries.
Kept(n) == Least(m_log + n, MaxEntries)

\* handleNewError, n times: only the first since the last reset is notified,
\* and none while errors are silenced.
FirstNewErrorOccurred(n) == n > 0 /\ m_newErrorCount = 0 /\ ~m_silenceNewErrors

\* `entries` log entries, n of them errors, are logged after one another.
Log(entries, n) ==
    /\ m_log' = Kept(entries)
    /\ m_newErrorCount' = Least(m_newErrorCount + n, ManyErrors)
    /\ label' = (label \/ FirstNewErrorOccurred(n))
    /\ UNCHANGED <<m_silenceNewErrors, logFile, windows>>

\* resetNewErrorCount, and MainWindow::errorCleared when there were any.
ResetNewErrorCount ==
    /\ m_newErrorCount' = 0
    /\ label' = (label /\ m_newErrorCount = 0)

\* A new process reads log.json and logs n errors before MainWindow listens;
\* onEventLoopStart then hides the label.
StartLog(n) ==
    /\ m_log' = Least(logFile + n, MaxEntries)
    /\ m_newErrorCount' = Least(n, ManyErrors)
    /\ m_silenceNewErrors' = FALSE
    /\ label' = FALSE
    /\ windows' = NoWindows

-----------------------------------------------------------------------------
(* LogWindow.                                                              *)

\* showLogWindow of MainWindow, actionTriggered of ViewJobLogActionFactory:
\* the window is made unless there is one, and shown.  Raising a window that
\* is shown activates it, which resets the count as well.
ShowLogWindow(w) ==
    /\ windows' = [windows EXCEPT ![w] = "shown"]
    /\ m_silenceNewErrors' = (m_silenceNewErrors \/ windows[w] # "shown")
    /\ ResetNewErrorCount
    /\ UNCHANGED <<m_log, logFile>>

\* A mutant: a window that is left by Escape keeps errors silent.
SilencedUnlessClosed(w) == windows'[w] = "hidden"

\* hideEvent, and closeEvent before it.
SilencedAfter(w) == FALSE

Leave(w, after) ==
    /\ windows[w] = "shown"
    /\ windows' = [windows EXCEPT ![w] = after]
    /\ m_silenceNewErrors' = SilencedAfter(w)
    /\ ResetNewErrorCount
    /\ UNCHANGED <<m_log, logFile>>

\* closeEvent: the window of a job is forgotten and deleted.
CloseLogWindow(w) == Leave(w, IF w = MainLog THEN "hidden" ELSE "none")

\* Escape: QDialog::reject hides the window without a closeEvent.
EscapeLogWindow(w) == Leave(w, "hidden")

\* The window gets the focus.
ActivateLogWindow(w) ==
    /\ windows[w] = "shown"
    /\ ResetNewErrorCount
    /\ UNCHANGED <<m_silenceNewErrors, m_log, logFile, windows>>

ClearLog ==
    /\ windows[MainLog] = "shown"
    /\ m_log' = 0
    /\ UNCHANGED <<m_newErrorCount, m_silenceNewErrors, logFile, label, windows>>

\* The links of the label: view the log, or clear the error.
LabelClicked ==
    /\ label
    /\ \/ ShowLogWindow(MainLog)
       \/ /\ ResetNewErrorCount
          /\ UNCHANGED <<m_silenceNewErrors, m_log, logFile, windows>>

LogInit ==
    /\ m_newErrorCount = 0 /\ m_silenceNewErrors = FALSE
    /\ m_log = 0 /\ logFile = 0
    /\ label = FALSE /\ windows = NoWindows

LogNext ==
    \/ \E w \in Windows :
          CloseLogWindow(w) \/ EscapeLogWindow(w) \/ ActivateLogWindow(w)
    \/ ShowLogWindow(MainLog) \/ ClearLog \/ LabelClicked

-----------------------------------------------------------------------------

LogTypeOK ==
    /\ m_newErrorCount \in 0 .. ManyErrors
    /\ {m_silenceNewErrors, label} \subseteq BOOLEAN
    /\ {m_log, logFile} \subseteq 0 .. MaxEntries
    /\ windows \in [Windows -> {"none", "hidden", "shown"}]

\* The label and the silence last no longer than their reason: the label is
\* shown only while there are errors nobody has looked at, and errors are
\* silenced only while some log window is shown, however many windows are
\* opened, closed and escaped from.  (logger.cpp 127-135 and
\* 237-251, logwindow.cpp 106-129)
NotifiesTruly ==
    /\ label => m_newErrorCount > 0
    /\ m_silenceNewErrors => \E w \in Windows : windows[w] = "shown"

\* An error nobody has looked at is notified or silenced: false after a start
\* that logs errors, for the label is connected and hidden only later.
CountedIsShown == m_newErrorCount > 0 => label \/ m_silenceNewErrors
==============================================================================
