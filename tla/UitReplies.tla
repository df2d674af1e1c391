------------------------------ MODULE UitReplies ------------------------------
(***************************************************************************)
(* What a UIT queue reads from the XML of the service's replies:           *)
(* AuthenticateResponse, JobSubmissionInfo, JobEventList, DirListingInfo.  *)
(* A reply parses or not; one that does is a function from the names of    *)
(* its elements to their text, or to the elements they hold.               *)
(***************************************************************************)
EXTENDS Naturals, Sequences

NotXml == [name \in {} |-> ""]
Parses(xml) == DOMAIN xml # {}

\* An element that is missing has the text "".
Text(xml, name) == IF name \in DOMAIN xml THEN xml[name] ELSE ""

\* A flag is set by "true" alone; prompts count only where they are announced.
AuthenticateResponse(xml) ==
    LET hasPrompts == Text(xml, "has__prompts") = "true" IN
    [valid        |-> Parses(xml),
     success      |-> Text(xml, "success") = "true",
     hasPrompts   |-> hasPrompts,
     prompts      |-> IF hasPrompts THEN xml["prompts"] ELSE 0,
     errorMessage |-> Text(xml, "error__message")]

\* The text of a job's id is [number, hasHost]: the expression looks for
\* "<number>.<host>", and without a host it finds nothing.
JobNumber(text, nothing) == IF text.hasHost THEN text.number ELSE nothing

\* A job whose number is not found keeps the one of the constructor.
JobSubmissionInfo(xml, unparsed) ==
    [jobNumber |-> IF Parses(xml) THEN JobNumber(xml["jobNumber"], unparsed)
                                  ELSE unparsed,
     stderr    |-> Text(xml, "stderr")]

\* The path expression: the events whose id begins with one of those asked
\* for, if any.  JobEventListXmlReceiver reads an id in which no number is found as 0.
JobEvent(e) == [jobId |-> JobNumber(e.jobID, 0), jobStatusText |-> e.jobStatusText]
JobEventList(list, jobIds) ==
    LET asked == IF jobIds = {} THEN list
                 ELSE SelectSeq(list, LAMBDA e : e.jobID.number \in jobIds)
    IN  [i \in DOMAIN asked |-> JobEvent(asked[i])]

\* QueueUit::jobEventToJobState.
JobEventToJobState(event) ==
    CASE event.jobStatusText \in {"r", "e", "c"}           -> "RunningRemote"
      [] event.jobStatusText \in {"q", "h", "t", "w", "s"} -> "QueuedRemote"
      [] event.jobStatusText \in {"", "text"}              -> "Error"
      [] OTHER                                             -> "Unknown"

\* FileInfoXmlReceiver: the entries below <directories> or <files>.
FileInfos(xml, name) == IF Parses(xml) THEN xml[name] ELSE {}
DirListingInfo(xml) ==
    [valid       |-> Parses(xml),
     directories |-> FileInfos(xml, "directories"),
     files       |-> FileInfos(xml, "files")]
===============================================================================
