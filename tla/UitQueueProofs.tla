---------------------------- MODULE UitQueueProofs ----------------------------
(***************************************************************************)
(* The safety of a UIT queue for any jobs, any directory tree and any      *)
(* number of tokens and questions.                                         *)
(*                                                                         *)
(* The session and the jobs are taken apart.  SessionInv says what the     *)
(* requests and the login owe each other; JobInv(j) says of one job that   *)
(* it is at one place, that somebody will go on with it, and what its      *)
(* operation has still to do.  A step is about one job or about those that *)
(* a timer or a login concerns; the others are Kept.                       *)
(***************************************************************************)
EXTENDS UitQueue, TLAPS

-----------------------------------------------------------------------------
(* The inductive invariant.                                                *)

OpSet == [at : Making \cup Uploading \cup Downloading \cup {"submit", "idle"},
          todo : SUBSET Entries, dirs : SUBSET Dirs,
          done : SUBSET Entries, cur : Entries \cup {NoEntry},
          parts : 0 .. BaseDepth]

\* What is done of a transfer, counting the entry under way.
Reached(o) == o.done \cup {o.cur}

\* A transfer has the root behind it, and whatever is in a directory it has
\* opened is behind it, under way or on one of its lists.
Shaped(o) ==
    /\ o.at = "uploadUrl" => o.todo \subseteq {Root}
    /\ o.at \in {"mkdir", "post"} =>
         /\ o.cur \in Entries
         /\ Root \in Reached(o)
         /\ \A e \in Entries \ {Root} :
              Parent[e] \in Reached(o) => e \in Reached(o) \cup o.todo
    /\ o.at \in {"list", "get"} =>
         /\ o.cur \in Entries
         /\ o.at = "get" => o.cur \in Files
         /\ o.todo \subseteq Files
         /\ Root \in Reached(o)
         /\ \A e \in Entries \ {Root} :
              Parent[e] \in o.done => e \in Reached(o) \cup o.todo \cup o.dirs

Active == {"Accepted", "Submitted", "QueuedRemote", "RunningRemote", "Unknown"}
Listed(j) == \E q \in QueueIds : m_jobs[q] = j

OnePlace(j) ==
    /\ j \in m_pendingSubmission => op[j] = Idle
    /\ Listed(j) => op[j] = Idle /\ j \notin m_pendingSubmission
    /\ \A p, q \in QueueIds : m_jobs[p] = j /\ m_jobs[q] = j => p = q

Followed(j) ==
    j \notin forgotten /\ jobState[j] \in Active =>
      \/ j \in m_pendingSubmission
      \/ op[j] # Idle
      \/ req[Kill(j)] # Absent
      \/ Listed(j)

\* Nothing is done with a job before it is created.
Fresh(j) ==
    jobState[j] = NotCreated =>
      op[j] = Idle /\ j \notin m_pendingSubmission /\ ~Listed(j)

JobInv(j) ==
    Shaped(op[j]) /\ (Valid(j) => OnePlace(j)) /\ Followed(j) /\ Fresh(j)

\* A question is shown only while one is left.
PromptsLeft == auth = "prompt" => prompts > 0

SessionInv == SessionTypeOK /\ NobodyWaitsForNothing /\ PromptsLeft

UInv == TypeOK /\ SessionInv /\ \A j \in Jobs : JobInv(j)

-----------------------------------------------------------------------------
(* The session.                                                            *)

\* A request that is under way stays so, but for the test of the connection.
CallsGoOn == \A r \in Requests \ {TestConnection} :
                req[r] # Absent => req'[r] # Absent

Call == [at : {"absent", "sent", "waiting"}, token : 0 .. MaxTokens]

LEMMA CallTypes ==
    ASSUME SessionTypeOK
    PROVE  /\ Absent \in Call /\ Waiting \in Call /\ Sent \in Call
           /\ Waiting # Absent /\ Sent # Absent
           /\ req \in [Requests -> Call]
BY UitSessionAssumption
   DEF SessionTypeOK, Absent, Waiting, Sent, Call, UitSessionAssumption

LEMMA SessionInitInv == SessionInit => SessionInv
<1> SUFFICES ASSUME SessionInit PROVE SessionInv
  OBVIOUS
<1>1. SessionTypeOK
  BY UitSessionAssumption
     DEF SessionInit, SessionTypeOK, Absent, AuthStates, UitSessionAssumption
<1>2. Waiters = {}
  BY DEF SessionInit, Waiters, Absent
<1> QED BY <1>1, <1>2
        DEF SessionInit, SessionInv, NobodyWaitsForNothing, PromptsLeft

\* Steps that send, answer or give up calls and leave the login alone.
LEMMA CallsInv ==
    ASSUME SessionInv, req' \in [Requests -> Call], Waiters' \subseteq Waiters,
           UNCHANGED <<auth, prompts, token, accepted, box>>,
           program' = program \/ (Runs /\ program' = "crashed")
    PROVE  SessionInv'
<1>1. SessionTypeOK'
  BY DEF SessionInv, SessionTypeOK, Call
<1>2. NobodyWaitsForNothing'
  BY DEF SessionInv, NobodyWaitsForNothing, Runs
<1>3. PromptsLeft'
  BY DEF SessionInv, PromptsLeft
<1> QED BY <1>1, <1>2, <1>3 DEF SessionInv

\* What a login may read as the number of questions.
LEMMA PromptsRead == \A r \in LoginResponses : r.prompts \in 0 .. MaxPrompts
<1> SUFFICES ASSUME NEW xml \in LoginReplies \cup {NotXml}
             PROVE  AuthenticateResponse(xml).prompts \in 0 .. MaxPrompts
  BY DEF LoginResponses
<1>1. AuthenticateResponse(xml).prompts =
        IF Text(xml, "has__prompts") = "true" THEN xml["prompts"] ELSE 0
  BY DEF AuthenticateResponse
<1>2. 0 \in 0 .. MaxPrompts
  BY UitSessionAssumption DEF UitSessionAssumption
<1>3. CASE xml \in LoginReplies
  <2>1. xml["prompts"] \in 0 .. MaxPrompts
    BY <1>3 DEF LoginReplies
  <2> QED BY <1>1, <1>2, <2>1
<1>4. CASE xml = NotXml
  <2>1. Text(xml, "has__prompts") = ""
    BY <1>4 DEF Text, NotXml
  <2> QED BY <1>1, <1>2, <2>1
<1> QED BY <1>3, <1>4

\* The end of a login leaves a waiter only behind a message box.
LEMMA HeardOrBox ==
    ASSUME NEW W \in Heard
    PROVE  /\ W \subseteq Waiters
           /\ TestConnection \in W \/ W = Waiters
BY DEF Heard

LEMMA ResubmittedFacts ==
    ASSUME SessionTypeOK, NEW W \in SUBSET Waiters, NEW tok \in 0 .. MaxTokens,
           req' = Resubmitted(W, tok)
    PROVE  /\ req' \in [Requests -> Call]
           /\ Waiters' = Waiters \ W
           /\ CallsGoOn
<1>1. \A r \in Requests : req'[r] =
        CASE r \in W /\ r = TestConnection -> Absent
          [] r \in W                       -> [at |-> "sent", token |-> tok]
          [] OTHER                         -> req[r]
  BY DEF Resubmitted
<1>2. req' \in [Requests -> Call]
  BY CallTypes DEF Resubmitted, Call
<1>3. \A r \in W : req'[r].at # "waiting"
  BY <1>1 DEF Waiters, Absent
<1>4. \A r \in Requests \ W : req'[r] = req[r]
  BY <1>1
<1>5. Waiters' = Waiters \ W
  BY <1>3, <1>4 DEF Waiters
<1>6. CallsGoOn
  BY <1>1 DEF CallsGoOn, Absent
<1> QED BY <1>2, <1>5, <1>6

LEMMA AuthenticationCompleteInv ==
    ASSUME SessionInv, AuthenticationComplete
    PROVE  SessionInv' /\ CallsGoOn
<1>1. PICK W \in Heard :
        req' = Resubmitted(W, NextToken) /\ box' = BoxAfter(W, "complete")
  BY DEF AuthenticationComplete
<1>2. NextToken \in 0 .. MaxTokens
  BY UitSessionAssumption
     DEF NextToken, SessionInv, SessionTypeOK, UitSessionAssumption
<1>3. W \subseteq Waiters /\ (TestConnection \in W \/ W = Waiters)
  BY HeardOrBox
<1>4. /\ req' \in [Requests -> Call]
      /\ Waiters' = Waiters \ W
      /\ CallsGoOn
  BY <1>1, <1>2, <1>3, ResubmittedFacts DEF SessionInv
<1>5. /\ token' = NextToken /\ accepted' = NextToken
      /\ auth' = "none" /\ prompts' = 0 /\ program' = program
  BY DEF AuthenticationComplete
<1>6. SessionTypeOK'
  BY <1>1, <1>2, <1>4, <1>5, UitSessionAssumption
     DEF SessionInv, SessionTypeOK, Call, AuthStates, BoxAfter,
         UitSessionAssumption
<1>7. NobodyWaitsForNothing'
  BY <1>1, <1>3, <1>4 DEF NobodyWaitsForNothing, BoxAfter
<1> QED BY <1>4, <1>5, <1>6, <1>7 DEF SessionInv, PromptsLeft

LEMMA ProceedInv ==
    ASSUME SessionInv, NEW R \in SUBSET LoginResponses, Proceed(R)
    PROVE  SessionInv' /\ CallsGoOn
<1>1. CASE AuthenticationComplete
  BY <1>1, AuthenticationCompleteInv
<1>2. CASE AskAgain
  BY <1>2
     DEF AskAgain, SessionInv, SessionTypeOK, AuthStates, PromptsLeft,
         NobodyWaitsForNothing, Waiters, CallsGoOn
<1>3. CASE \E n \in 0 .. MaxPrompts : ShowPrompts(n)
  <2>1. PICK n \in 0 .. MaxPrompts : ShowPrompts(n)
    BY <1>3
  <2>2. /\ prompts' = n
        /\ auth' = IF n = 0 THEN "cont" ELSE "prompt"
        /\ UNCHANGED <<req, token, accepted, box, program>>
    BY <2>1 DEF ShowPrompts
  <2>3. SessionTypeOK'
    BY <2>2 DEF SessionInv, SessionTypeOK, AuthStates
  <2>4. PromptsLeft' /\ NobodyWaitsForNothing' /\ CallsGoOn
    BY <2>2, UitSessionAssumption
       DEF PromptsLeft, NobodyWaitsForNothing, CallsGoOn, UitSessionAssumption
  <2> QED BY <2>3, <2>4 DEF SessionInv
<1> QED BY <1>1, <1>2, <1>3, PromptsRead DEF Proceed

LEMMA AuthenticateInv ==
    ASSUME SessionInv, NEW r \in Requests, Authenticate(r),
           UNCHANGED <<prompts, token, accepted, box>>
    PROVE  SessionInv' /\ CallsGoOn
<1>1. CASE box # "none"
  <2>1. program' = "deadlocked" /\ UNCHANGED <<req, auth>>
    BY <1>1 DEF Authenticate
  <2> QED BY <2>1
          DEF SessionInv, SessionTypeOK, NobodyWaitsForNothing, PromptsLeft,
              CallsGoOn
<1>2. CASE box = "none"
  <2>1. /\ req' = [req EXCEPT ![r] = Waiting]
        /\ auth' = IF auth = "none" THEN "password" ELSE auth
        /\ UNCHANGED program
    BY <1>2 DEF Authenticate
  <2>2. req' \in [Requests -> Call] /\ CallsGoOn
    BY <2>1, CallTypes DEF SessionInv, CallsGoOn
  <2>3. SessionTypeOK'
    BY <2>1, <2>2 DEF SessionInv, SessionTypeOK, AuthStates, Call
  <2>4. auth' # "none"
    BY <2>1
  <2>5. PromptsLeft'
    BY <2>1 DEF SessionInv, PromptsLeft
  <2> QED BY <2>2, <2>3, <2>4, <2>5 DEF SessionInv, NobodyWaitsForNothing
<1> QED BY <1>1, <1>2

LEMMA DialogInv ==
    ASSUME SessionInv, Enter \/ Escape \/ Expire
    PROVE  SessionInv' /\ CallsGoOn
<1>1. UNCHANGED <<req, token, box, program>>
  BY DEF Enter, Escape, Expire
<1>2. CASE Enter
  BY <1>1, <1>2, UitSessionAssumption
     DEF Enter, SessionInv, SessionTypeOK, AuthStates, PromptsLeft,
         NobodyWaitsForNothing, CallsGoOn, UitSessionAssumption
<1>3. CASE Escape
  BY <1>1, <1>3
     DEF Escape, SessionInv, SessionTypeOK, AuthStates, PromptsLeft,
         NobodyWaitsForNothing, CallsGoOn
<1>4. CASE Expire
  BY <1>1, <1>4
     DEF Expire, SessionInv, SessionTypeOK, AuthStates, PromptsLeft,
         NobodyWaitsForNothing, Waiters, CallsGoOn
<1> QED BY <1>2, <1>3, <1>4

LEMMA SessionStepInv ==
    ASSUME SessionInv, SessionStep
    PROVE  SessionInv' /\ CallsGoOn
<1>1. CASE \E r \in Requests : TokenRefused(r)
  BY <1>1, AuthenticateInv DEF TokenRefused
<1>2. CASE StartTest
  BY <1>2, AuthenticateInv, UitSessionAssumption
     DEF StartTest, UitSessionAssumption
<1>3. CASE Enter \/ Escape \/ Expire
  BY <1>3, DialogInv
<1>4. CASE CloseCompleteBox
  <2>1. /\ req' = Resubmitted(Waiters, token)
        /\ UNCHANGED <<auth, prompts, token, accepted, program>>
        /\ box' = "none"
    BY <1>4 DEF CloseCompleteBox
  <2>2. /\ req' \in [Requests -> Call]
        /\ Waiters' = {}
        /\ CallsGoOn
    BY <2>1, ResubmittedFacts DEF SessionInv, SessionTypeOK
  <2> QED BY <2>1, <2>2
          DEF SessionInv, SessionTypeOK, Call, NobodyWaitsForNothing, PromptsLeft
<1>5. CASE KerberosResponse
  <2>1. CASE Proceed(LoginResponses \ Silent)
    BY <2>1, ProceedInv
  <2>2. CASE auth' = "deaf" /\ UNCHANGED <<req, prompts, token, accepted, box, program>>
    BY <2>2
       DEF SessionInv, SessionTypeOK, AuthStates, PromptsLeft,
           NobodyWaitsForNothing, CallsGoOn
  <2> QED BY <1>5, <2>1, <2>2 DEF KerberosResponse
<1>6. CASE ContResponse
  BY <1>6, ProceedInv DEF ContResponse
<1> QED BY <1>1, <1>2, <1>3, <1>4, <1>5, <1>6 DEF SessionStep

-----------------------------------------------------------------------------
(* The jobs a step is not about.                                           *)

QueueTypeOK ==
    /\ jobState \in [Jobs -> JobState \cup {NotCreated, Removed}]
    /\ queueId \in [Jobs -> QueueIds \cup {InvalidId}]
    /\ m_pendingSubmission \subseteq Jobs
    /\ m_failureTracker \in [Jobs -> 0 .. MaxRetries]
    /\ m_jobs \in [QueueIds -> Jobs \cup {NoJob}]
    /\ m_isCheckingQueue \in BOOLEAN
    /\ op \in [Jobs -> OpSet]
    /\ forgotten \subseteq Jobs

LEMMA Types == TypeOK <=> SessionTypeOK /\ QueueTypeOK
BY DEF TypeOK, QueueTypeOK, OpSet

\* The requests of a job, the update and the test of the connection differ.
LEMMA Names ==
    /\ Update \in Requests /\ Update # TestConnection
    /\ \A j \in Jobs :
         /\ Op(j) \in Requests /\ Op(j) # TestConnection /\ Op(j) # Update
         /\ Kill(j) \in Requests /\ Kill(j) # TestConnection /\ Kill(j) # Update
         /\ \A k \in Jobs : Op(j) # Kill(k)
         /\ \A k \in Jobs : k # j => Op(j) # Op(k) /\ Kill(j) # Kill(k)
BY UitQueueAssumption DEF UitQueueAssumption, Op, Kill, Update

LEMMA IdleFacts ==
    Idle \in OpSet /\ Idle.at = "idle" /\ Shaped(Idle)
BY UitQueueAssumption
   DEF Idle, OpSet, Shaped, UitQueueAssumption

\* What TransfersAreComplete says of one job.
Transferred(j) ==
    /\ op[j].at \in Uploading /\ op'[j].at = "submit" => op'[j].done = Entries
    /\ op[j].at \in Downloading /\ op'[j].at = "idle"
         /\ jobState'[j] = "Finished" /\ jobState[j] # "Finished" =>
         op[j].done \cup {op[j].cur} = Entries

\* What every step gives.
StepGood == UInv' /\ \A j \in Jobs : Transferred(j)

\* A step that is not about k leaves it where it is, and if it takes the id
\* or the kill of k away, it says so.
Kept(k) ==
    /\ op'[k] = op[k] /\ jobState'[k] = jobState[k]
    /\ k \in m_pendingSubmission' <=> k \in m_pendingSubmission
    /\ \A q \in QueueIds : m_jobs'[q] = k => m_jobs[q] = k
    /\ k \in forgotten => k \in forgotten'
    /\ Valid(k) /\ k \notin forgotten' =>
         /\ Listed(k) => Listed(k)'
         /\ req[Kill(k)] # Absent => req'[Kill(k)] # Absent

JobGood(k) == JobInv(k)' /\ Transferred(k)

LEMMA StatesApart ==
    /\ NotCreated \notin JobState /\ Removed \notin JobState
    /\ NotCreated # Removed
    /\ Active \subseteq JobState /\ FinalStates \subseteq JobState
    /\ Active \cap FinalStates = {}
BY DEF NotCreated, Removed, JobState, Active, FinalStates

LEMMA KeptGood ==
    ASSUME NEW k \in Jobs, JobInv(k), Kept(k)
    PROVE  JobGood(k)
<1>1. Shaped(op[k])'
  <2>1. op'[k] = op[k]
    BY DEF Kept
  <2>2. Shaped(op'[k])
    BY <2>1 DEF JobInv
  <2> QED BY <2>2 DEF Shaped, Reached
<1>2. Listed(k)' => Listed(k)
  BY DEF Kept, Listed
<1>3. Valid(k)' <=> Valid(k)
  BY DEF Kept, Valid
<1>4. (Valid(k) => OnePlace(k))'
  BY <1>2, <1>3 DEF Kept, JobInv, OnePlace
<1>5. Followed(k)'
  <2>1. jobState[k] \in Active => Valid(k)
    BY StatesApart DEF Valid
  <2> QED BY <2>1 DEF Kept, JobInv, Followed, Absent
<1>6. Fresh(k)'
  BY <1>2 DEF Kept, JobInv, Fresh
<1>7. Transferred(k)
  BY DEF Kept, Transferred, Uploading, Downloading
<1> QED BY <1>1, <1>4, <1>5, <1>6, <1>7 DEF JobGood, JobInv

\* The calls of a step that sends or ends them.
LEMMA Calls ==
    ASSUME SessionInv, req' \in [Requests -> Call],
           \A r \in Requests : req'[r] = req[r] \/ req'[r].at # "waiting",
           UNCHANGED <<auth, prompts, token, accepted, box>>,
           program' = program \/ (Runs /\ program' = "crashed")
    PROVE  SessionInv'
BY CallsInv DEF Waiters

LEMMA OneCall ==
    ASSUME SessionInv, NEW r \in Requests, Submitted(r) \/ Ended(r)
    PROVE  /\ req' \in [Requests -> Call]
           /\ \A s \in Requests : req'[s] = req[s] \/ req'[s].at # "waiting"
           /\ \A s \in Requests \ {r} : req'[s] = req[s]
           /\ Submitted(r) => req'[r] # Absent
<1>1. /\ Absent \in Call /\ Sent \in Call /\ Sent # Absent
      /\ Absent.at # "waiting" /\ Sent.at # "waiting"
      /\ req \in [Requests -> Call]
  BY CallTypes DEF SessionInv, Absent, Sent
<1> QED BY <1>1 DEF Submitted, Ended

\* A step is good when its calls, its types and its jobs are.
LEMMA Together ==
    ASSUME SessionInv', QueueTypeOK', \A k \in Jobs : JobGood(k)
    PROVE  StepGood
BY Types DEF StepGood, UInv, JobGood, SessionInv, TypeOK, QueueTypeOK, OpSet

-----------------------------------------------------------------------------
(* Failures.                                                               *)

\* The operation of a job ends, and nothing took the job up meanwhile but
\* its retry, which only a job that was nowhere else is given.
LEMMA EndedGood ==
    ASSUME NEW k \in Jobs, JobInv(k),
           op'[k] = Idle, op[k].at \notin Downloading \/ jobState'[k] # "Finished",
           jobState'[k] = jobState[k] \/ (Valid(k) /\ jobState'[k] \in JobState),
           \A q \in QueueIds : m_jobs'[q] = k => m_jobs[q] = k,
           k \in m_pendingSubmission' =>
             k \in m_pendingSubmission \/ (Valid(k) /\ op[k] # Idle),
           Listed(k)' /\ k \in m_pendingSubmission' => k \in m_pendingSubmission,
           Valid(k) => k \in forgotten' \/ jobState'[k] \notin Active
    PROVE  JobGood(k)
<1>1. Shaped(op[k])'
  BY IdleFacts DEF Shaped, Reached
<1>2. Listed(k)' => Listed(k)
  BY DEF Listed
<1>3. Valid(k)' => Valid(k)
  BY StatesApart DEF Valid
<1>4. (Valid(k) => OnePlace(k))'
  BY <1>2, <1>3 DEF JobInv, OnePlace
<1>5. Followed(k)'
  <2>1. jobState[k] \in Active => Valid(k)
    BY StatesApart DEF Valid
  <2> QED BY <2>1 DEF Followed
<1>6. Fresh(k)'
  <2>1. jobState'[k] = NotCreated => jobState[k] = NotCreated
    BY StatesApart
  <2> QED BY <1>2, <2>1 DEF JobInv, Fresh, Valid
<1>7. Transferred(k)
  BY IdleFacts DEF Transferred
<1> QED BY <1>1, <1>4, <1>5, <1>6, <1>7 DEF JobGood, JobInv

LEMMA SetStatesTypes ==
    ASSUME QueueTypeOK, NEW js, NEW s \in JobState, SetStates(js, s)
    PROVE  /\ jobState' \in [Jobs -> JobState \cup {NotCreated, Removed}]
           /\ \A k \in Jobs : jobState'[k] = IF k \in js /\ Valid(k) THEN s
                                             ELSE jobState[k]
BY DEF QueueTypeOK, SetStates

LEMMA RetryTypes ==
    ASSUME QueueTypeOK, NEW js \in SUBSET Jobs, RetryAll(js)
    PROVE  /\ m_failureTracker' \in [Jobs -> 0 .. MaxRetries]
           /\ m_pendingSubmission' \subseteq Jobs
           /\ m_pendingSubmission \subseteq m_pendingSubmission'
           /\ \A k \in m_pendingSubmission' \ m_pendingSubmission :
                k \in js /\ Valid(k)
<1>1. m_failureTracker' \in [Jobs -> 0 .. MaxRetries]
  BY UitQueueAssumption
     DEF QueueTypeOK, RetryAll, MayRetry, UitQueueAssumption
<1> QED BY <1>1 DEF QueueTypeOK, RetryAll

LEMMA ErrorSlotsGood ==
    ASSUME UInv, NEW W \in SUBSET Requests, ErrorSlots(W),
           \A r \in Requests \ W : req'[r] = req[r]
    PROVE  QueueTypeOK' /\ \A k \in Jobs : JobGood(k)
<1> DEFINE ops     == {j \in Jobs : Op(j) \in W}
           retried == {j \in ops : op[j].at \in Retried}
           loaded  == {j \in ops : op[j].at \in Downloading}
           killed  == {j \in Jobs : Kill(j) \in W}
<1>1. QueueTypeOK /\ \A k \in Jobs : JobInv(k)
  BY Types DEF UInv
<1>2. /\ RetryAll(retried)
      /\ SetStates(retried \cup loaded, "Error")
      /\ forgotten' = forgotten \cup
           {j \in (ops \ (retried \cup loaded)) \cup killed : Valid(j)}
      /\ op' = [j \in Jobs |-> IF j \in ops THEN Idle ELSE op[j]]
      /\ m_isCheckingQueue' = FlagDown(W)
      /\ UNCHANGED <<queueId, m_jobs>>
  BY DEF ErrorSlots
<1>3. "Error" \in JobState /\ "Error" \notin Active
  BY DEF JobState, Active
<1>4. /\ jobState' \in [Jobs -> JobState \cup {NotCreated, Removed}]
      /\ \A k \in Jobs :
           jobState'[k] = IF k \in retried \cup loaded /\ Valid(k) THEN "Error"
                          ELSE jobState[k]
  BY <1>1, <1>2, <1>3, SetStatesTypes
<1>5. /\ m_failureTracker' \in [Jobs -> 0 .. MaxRetries]
      /\ m_pendingSubmission' \subseteq Jobs
      /\ m_pendingSubmission \subseteq m_pendingSubmission'
      /\ \A k \in m_pendingSubmission' \ m_pendingSubmission :
           k \in retried /\ Valid(k)
  BY <1>1, <1>2, RetryTypes
<1>6. QueueTypeOK'
  BY <1>1, <1>2, <1>4, <1>5, IdleFacts DEF QueueTypeOK, FlagDown
<1>7. ASSUME NEW k \in Jobs
      PROVE  JobGood(k)
  <2>1. CASE k \in ops
    <3>1. op'[k] = Idle
      BY <1>2, <2>1
    <3>2. k \in retried => op[k] # Idle
      BY IdleFacts DEF Retried, Making
    <3>3. jobState'[k] = jobState[k] \/ (Valid(k) /\ jobState'[k] \in JobState)
      BY <1>3, <1>4
    <3>4. k \in m_pendingSubmission' =>
            k \in m_pendingSubmission \/ (Valid(k) /\ op[k] # Idle)
      BY <1>5, <3>2
    <3>5. Listed(k)' /\ k \in m_pendingSubmission' => k \in m_pendingSubmission
      BY <1>1, <1>2, <3>4 DEF Listed, JobInv, OnePlace
    <3>6. Valid(k) => k \in forgotten' \/ jobState'[k] \notin Active
      BY <1>2, <1>3, <1>4, <2>1
    <3>7. op[k].at \notin Downloading \/ jobState'[k] # "Finished" \/ ~Valid(k)
      BY <1>4, <2>1
    <3>8. op[k].at \notin Downloading \/ jobState'[k] # "Finished"
      BY <1>4, <3>7, StatesApart DEF Valid, JobState
    <3> QED BY <1>1, <1>2, <3>1, <3>3, <3>4, <3>5, <3>6, <3>8, EndedGood
  <2>2. CASE k \notin ops
    <3>1. op'[k] = op[k] /\ jobState'[k] = jobState[k]
      BY <1>2, <1>4, <2>2
    <3>2. k \in m_pendingSubmission' <=> k \in m_pendingSubmission
      BY <1>5, <2>2
    <3>3. Valid(k) /\ k \notin forgotten' => req'[Kill(k)] = req[Kill(k)]
      BY <1>2, Names
    <3> QED BY <1>1, <1>2, <3>1, <3>2, <3>3, KeptGood DEF Kept, Listed
  <2> QED BY <2>1, <2>2
<1> QED BY <1>6, <1>7

LEMMA GoneFacts ==
    ASSUME SessionInv, NEW W \in SUBSET Requests, req' = Gone(W)
    PROVE  /\ req' \in [Requests -> Call]
           /\ Waiters' = Waiters \ W
           /\ \A r \in Requests \ W : req'[r] = req[r]
           /\ \A r \in W : req'[r].at # "waiting"
<1>1. Absent \in Call /\ Absent.at # "waiting" /\ req \in [Requests -> Call]
  BY CallTypes DEF SessionInv, Absent
<1> QED BY <1>1 DEF Gone, Waiters

LEMMA FailsGood ==
    ASSUME UInv, NEW r \in Requests, Fails(r)
    PROVE  StepGood
<1>1. /\ req' = Gone({r})
      /\ ErrorSlots({r})
      /\ UNCHANGED <<auth, prompts, token, accepted, box, program>>
  BY DEF Fails
<1>2. SessionInv
  BY DEF UInv
<1>3. SessionInv'
  BY <1>1, <1>2, GoneFacts, Calls
<1>4. QueueTypeOK' /\ \A k \in Jobs : JobGood(k)
  BY <1>1, <1>2, GoneFacts, ErrorSlotsGood
<1> QED BY <1>3, <1>4, Together

LEMMA LoginGivenUpGood == UInv /\ LoginGivenUp => StepGood
<1> SUFFICES ASSUME UInv, LoginGivenUp PROVE StepGood
  OBVIOUS
<1>1. PICK W \in Heard :
        /\ req' = Gone(W)
        /\ ErrorSlots(W)
        /\ AuthenticationError(W)
  BY DEF LoginGivenUp, Told, AllTold
<1>2. W \subseteq Waiters /\ (TestConnection \in W \/ W = Waiters)
  BY HeardOrBox
<1>3. SessionInv /\ W \in SUBSET Requests
  BY <1>2 DEF UInv, Waiters
<1>4. /\ req' \in [Requests -> Call]
      /\ Waiters' = Waiters \ W
      /\ \A r \in Requests \ W : req'[r] = req[r]
  BY <1>1, <1>3, GoneFacts
<1>5. SessionInv'
  <2>1. SessionTypeOK'
    BY <1>1, <1>3, <1>4, UitSessionAssumption
       DEF SessionInv, SessionTypeOK, Call, AuthStates, AuthenticationError,
           BoxAfter, UitSessionAssumption
  <2>2. NobodyWaitsForNothing'
    BY <1>1, <1>2, <1>4
       DEF NobodyWaitsForNothing, AuthenticationError, BoxAfter
  <2>3. PromptsLeft'
    BY <1>1 DEF PromptsLeft, AuthenticationError
  <2> QED BY <2>1, <2>2, <2>3 DEF SessionInv
<1>6. QueueTypeOK' /\ \A k \in Jobs : JobGood(k)
  BY <1>1, <1>3, <1>4, ErrorSlotsGood
<1> QED BY <1>5, <1>6, Together

LEMMA CloseErrorBoxGood == UInv /\ CloseErrorBox => StepGood
<1> SUFFICES ASSUME UInv, CloseErrorBox PROVE StepGood
  OBVIOUS
<1>1. /\ req' = Gone(Waiters)
      /\ ErrorSlots(Waiters)
      /\ box' = "none"
      /\ UNCHANGED <<auth, prompts, token, accepted, program>>
  BY DEF CloseErrorBox
<1>2. SessionInv /\ Waiters \in SUBSET Requests
  BY DEF UInv, Waiters
<1>3. /\ req' \in [Requests -> Call]
      /\ Waiters' = {}
      /\ \A r \in Requests \ Waiters : req'[r] = req[r]
  BY <1>1, <1>2, GoneFacts
<1>4. SessionInv'
  BY <1>1, <1>2, <1>3
     DEF SessionInv, SessionTypeOK, Call, NobodyWaitsForNothing, PromptsLeft
<1>5. QueueTypeOK' /\ \A k \in Jobs : JobGood(k)
  BY <1>1, <1>2, <1>3, ErrorSlotsGood
<1> QED BY <1>4, <1>5, Together

LEMMA SessionMovesGood == UInv /\ SessionMoves => StepGood
<1> SUFFICES ASSUME UInv, SessionMoves PROVE StepGood
  OBVIOUS
<1>1. SessionInv /\ QueueTypeOK /\ \A k \in Jobs : JobInv(k)
  BY Types DEF UInv
<1>2. /\ SessionInv' /\ CallsGoOn
      /\ UNCHANGED <<jobVars, queueVars, op, forgotten>>
  BY <1>1, SessionStepInv DEF SessionMoves
<1>3. QueueTypeOK'
  BY <1>1, <1>2 DEF QueueTypeOK, jobVars, queueVars
<1>4. \A k \in Jobs : Kept(k)
  BY <1>2, Names DEF Kept, Listed, CallsGoOn, jobVars, queueVars, Absent
<1> QED BY <1>1, <1>2, <1>3, <1>4, KeptGood, Together

-----------------------------------------------------------------------------
(* The operation of one job goes on.                                       *)

\* The slot of j leaves the record o and answers, sends or ends its request.
GoesOn(j, o) ==
    /\ op' = [op EXCEPT ![j] = o]
    /\ Submitted(Op(j)) \/ Ended(Op(j))
    /\ jobState' = jobState \/ (o = Idle /\ \E s \in FinalStates : SetStates({j}, s))
    /\ o = Idle /\ Valid(j) => jobState'[j] \notin Active

Elsewhere == <<auth, prompts, token, accepted, box, program, forgotten,
               queueId, queueVars>>

LEMMA GoesOnGood ==
    ASSUME UInv, NEW j \in Jobs, op[j] # Idle,
           NEW o \in OpSet, Shaped(o), GoesOn(j, o),
           UNCHANGED Elsewhere, Transferred(j)
    PROVE  StepGood
<1>1. SessionInv /\ QueueTypeOK /\ \A k \in Jobs : JobInv(k)
  BY Types DEF UInv
<1>2. /\ req' \in [Requests -> Call]
      /\ \A s \in Requests : req'[s] = req[s] \/ req'[s].at # "waiting"
      /\ \A s \in Requests \ {Op(j)} : req'[s] = req[s]
  BY <1>1, OneCall, Names DEF GoesOn
<1>3. SessionInv'
  BY <1>1, <1>2, Calls DEF Elsewhere
<1>4. /\ jobState' \in [Jobs -> JobState \cup {NotCreated, Removed}]
      /\ \A k \in Jobs \ {j} : jobState'[k] = jobState[k]
      /\ jobState'[j] = jobState[j] \/ (Valid(j) /\ jobState'[j] \in FinalStates)
  <2>1. CASE jobState' = jobState
    BY <1>1, <2>1 DEF QueueTypeOK
  <2>2. CASE \E s \in FinalStates : SetStates({j}, s)
    BY <1>1, <2>2, SetStatesTypes, StatesApart
  <2> QED BY <2>1, <2>2 DEF GoesOn
<1>5. QueueTypeOK'
  BY <1>1, <1>4 DEF QueueTypeOK, GoesOn, Elsewhere, queueVars
<1>6. ASSUME NEW k \in Jobs \ {j}
      PROVE  JobGood(k)
  <2>1. Kept(k)
    BY <1>1, <1>2, <1>4, Names
       DEF Kept, Listed, GoesOn, QueueTypeOK, Elsewhere, queueVars
  <2> QED BY <1>1, <2>1, KeptGood
<1>7. JobGood(j)
  <2>1. op'[j] = o
    BY <1>1 DEF GoesOn, QueueTypeOK
  <2>2. Shaped(op[j])'
    BY <2>1 DEF Shaped, Reached
  <2>3. /\ Valid(j)' => Valid(j)
        /\ jobState'[j] = NotCreated => jobState[j] = NotCreated
    BY <1>4, StatesApart DEF Valid
  <2>4. Listed(j)' = Listed(j) /\ m_pendingSubmission' = m_pendingSubmission
        /\ m_jobs' = m_jobs
    BY DEF Listed, Elsewhere, queueVars
  <2>5. Valid(j) => ~Listed(j) /\ j \notin m_pendingSubmission
    BY <1>1 DEF JobInv, OnePlace
  <2>6. (Valid(j) => OnePlace(j))'
    BY <1>1, <2>3, <2>4, <2>5 DEF JobInv, OnePlace
  <2>7. Followed(j)'
    <3>1. jobState'[j] \in Active => Valid(j)'
      BY StatesApart DEF Valid
    <3> QED BY <2>1, <2>3, <3>1 DEF Followed, GoesOn
  <2>8. Fresh(j)'
    BY <1>1, <2>3 DEF JobInv, Fresh
  <2> QED BY <2>2, <2>6, <2>7, <2>8 DEF JobGood, JobInv
<1> QED BY <1>3, <1>5, <1>6, <1>7, Together

\* The two sides of a step that sends a request and keeps the state of the job.
LEMMA AsksGood ==
    ASSUME UInv, NEW j \in Jobs, op[j] # Idle,
           NEW o \in OpSet, Shaped(o), o # Idle, Asks(j, o),
           jobState' = jobState, UNCHANGED Elsewhere, Transferred(j)
    PROVE  StepGood
BY GoesOnGood DEF GoesOn, Asks

LEMMA NewStage ==
    ASSUME UInv, NEW j \in Jobs, NEW o, op' = [op EXCEPT ![j] = o]
    PROVE  op'[j] = o
BY Types DEF UInv, QueueTypeOK

\* The record an upload starts with, and the one of a directory to be made.
LEMMA StageTypes ==
    /\ \A v \in BOOLEAN :
         LET o == [Idle EXCEPT !.at = "uploadUrl",
                               !.todo = IF v THEN {Root} ELSE {}]
         IN  o \in OpSet /\ Shaped(o) /\ o.at = "uploadUrl"
    /\ \A n \in 1 .. BaseDepth :
         LET o == [Idle EXCEPT !.at = "partStat", !.parts = n - 1]
         IN  o \in OpSet /\ Shaped(o) /\ o.at = "partStat"
<1>1. ASSUME NEW v \in BOOLEAN
      PROVE  LET o == [Idle EXCEPT !.at = "uploadUrl",
                                   !.todo = IF v THEN {Root} ELSE {}]
             IN  o \in OpSet /\ Shaped(o) /\ o.at = "uploadUrl"
  <2> DEFINE todo == IF v THEN {Root} ELSE {}
             o    == [Idle EXCEPT !.at = "uploadUrl", !.todo = todo]
  <2>1. todo \in SUBSET Entries /\ todo \subseteq {Root}
    BY UitQueueAssumption DEF UitQueueAssumption
  <2> HIDE DEF todo
  <2>2. o \in OpSet /\ o.at = "uploadUrl" /\ o.todo = todo
    BY <2>1, IdleFacts DEF Idle, OpSet, Uploading
  <2>3. Shaped(o)
    BY <2>1, <2>2 DEF Shaped
  <2> QED BY <2>2, <2>3 DEF todo
<1>2. ASSUME NEW n \in 1 .. BaseDepth
      PROVE  LET o == [Idle EXCEPT !.at = "partStat", !.parts = n - 1]
             IN  o \in OpSet /\ Shaped(o) /\ o.at = "partStat"
  <2>1. n - 1 \in 0 .. BaseDepth
    BY UitQueueAssumption DEF UitQueueAssumption
  <2> DEFINE o == [Idle EXCEPT !.at = "partStat", !.parts = n - 1]
  <2>2. o \in OpSet /\ o.at = "partStat"
    BY <2>1, IdleFacts DEF Idle, OpSet, Making
  <2>3. Shaped(o)
    BY <2>2 DEF Shaped
  <2> QED BY <2>2, <2>3
<1> QED BY <1>1, <1>2

\* A stage that is not a submission and not the end completes no transfer.
LEMMA NoTransferEnds ==
    ASSUME NEW j, op'[j].at \notin {"submit", "idle"}
    PROVE  Transferred(j)
BY DEF Transferred

LEMMA UploadStartGood ==
    ASSUME UInv, NEW j \in Jobs, op[j] # Idle, UploadInputFilesToHost(j),
           jobState' = jobState, UNCHANGED Elsewhere
    PROVE  StepGood
<1> DEFINE o == [Idle EXCEPT !.at = "uploadUrl",
                             !.todo = IF Valid(j) THEN {Root} ELSE {}]
<1>1. o \in OpSet /\ Shaped(o) /\ o.at = "uploadUrl"
  BY StageTypes, Valid(j) \in BOOLEAN DEF Valid
<1>2. o # Idle
  BY <1>1, IdleFacts
<1>3. Asks(j, o)
  BY DEF UploadInputFilesToHost
<1>4. op'[j] = o
  BY <1>3, NewStage DEF Asks
<1>5. Transferred(j)
  BY <1>1, <1>4, NoTransferEnds
<1> HIDE DEF o
<1> QED BY <1>1, <1>2, <1>3, <1>5, AsksGood

LEMMA CreateNextGood ==
    ASSUME UInv, NEW j \in Jobs, op[j] # Idle, NEW parts \in 0 .. BaseDepth,
           CreateNext(j, parts), jobState' = jobState, UNCHANGED Elsewhere
    PROVE  StepGood
<1>1. CASE parts = 0
  BY <1>1, UploadStartGood DEF CreateNext
<1>2. CASE parts # 0
  <2> DEFINE o == [Idle EXCEPT !.at = "partStat", !.parts = parts - 1]
  <2>1. parts \in 1 .. BaseDepth
    BY <1>2
  <2>2. o \in OpSet /\ Shaped(o) /\ o.at = "partStat"
    BY <2>1, StageTypes
  <2>3. o # Idle
    BY <2>2, IdleFacts
  <2>4. Asks(j, o)
    BY <1>2 DEF CreateNext
  <2>5. op'[j] = o
    BY <2>4, NewStage DEF Asks
  <2>6. Transferred(j)
    BY <2>2, <2>5, NoTransferEnds
  <2> HIDE DEF o
  <2> QED BY <2>2, <2>3, <2>4, <2>6, AsksGood
<1> QED BY <1>1, <1>2

LEMMA OpTyped ==
    ASSUME UInv, NEW j \in Jobs
    PROVE  op[j] \in OpSet /\ Shaped(op[j])
BY Types DEF UInv, QueueTypeOK, JobInv

LEMMA NotIdle ==
    ASSUME NEW j, op[j].at # "idle"
    PROVE  op[j] # Idle
BY IdleFacts

LEMMA MakingGood ==
    ASSUME UInv, NEW j \in Jobs,
           \/ ProcessStatFileRequest(j)
           \/ ProcessStatResponse(j)
           \/ CreateDirectoryComplete(j)
    PROVE  StepGood
<1>1. jobState' = jobState /\ UNCHANGED Elsewhere
  BY DEF ProcessStatFileRequest, ProcessStatResponse, CreateDirectoryComplete,
         Unmoved, Others, Elsewhere, jobVars
<1>2. op[j] # Idle
  BY NotIdle
     DEF ProcessStatFileRequest, ProcessStatResponse, CreateDirectoryComplete
<1>3. op[j] \in OpSet /\ op[j].parts \in 0 .. BaseDepth
  BY OpTyped DEF OpSet
<1>4. BaseDepth \in 0 .. BaseDepth
  BY UitQueueAssumption DEF UitQueueAssumption
<1>5. CASE \/ UploadInputFilesToHost(j)
           \/ CreateNext(j, BaseDepth) \/ CreateNext(j, op[j].parts)
  BY <1>1, <1>2, <1>3, <1>4, <1>5, UploadStartGood, CreateNextGood
<1>6. CASE Asks(j, [op[j] EXCEPT !.at = "partMkdir"])
  <2> DEFINE o == [op[j] EXCEPT !.at = "partMkdir"]
  <2>1. o \in OpSet /\ o.at = "partMkdir"
    BY <1>3 DEF OpSet, Making
  <2>2. Shaped(o) /\ o # Idle
    BY <2>1, IdleFacts DEF Shaped
  <2>3. op'[j] = o
    BY <1>6, NewStage DEF Asks
  <2>4. Transferred(j)
    BY <2>1, <2>3, NoTransferEnds
  <2> HIDE DEF o
  <2>5. Asks(j, o)
    BY <1>6 DEF o
  <2> QED BY <1>1, <1>2, <2>1, <2>2, <2>4, <2>5, AsksGood
<1> QED BY <1>5, <1>6
        DEF ProcessStatFileRequest, ProcessStatResponse, CreateDirectoryComplete

\* Whatever holds the root and all of what is in its directories is the tree.
LEMMA WholeTree ==
    ASSUME NEW S \in SUBSET Entries, Root \in S,
           \A e \in Entries \ {Root} : Parent[e] \in S => e \in S
    PROVE  S = Entries
BY UitQueueAssumption DEF UitQueueAssumption

LEMMA TreeTypes ==
    /\ Root \in Dirs /\ Dirs \subseteq Entries /\ NoEntry \notin Entries
    /\ \A e \in Entries \ {Root} : Parent[e] \in Dirs
    /\ Files = Entries \ Dirs
    /\ \A d : Children(d) = {e \in Entries \ {Root} : Parent[e] = d}
BY UitQueueAssumption DEF UitQueueAssumption, Files, Children

UploadElsewhere == <<auth, prompts, token, accepted, box, forgotten,
                     queueId, queueVars>>

LEMMA SubmitGood ==
    ASSUME UInv, NEW j \in Jobs, op[j] # Idle, Runs,
           SubmitJobToRemoteQueue(j, Entries),
           jobState' = jobState, UNCHANGED UploadElsewhere
    PROVE  StepGood
<1>1. CASE Valid(j)
  <2> DEFINE o == [Idle EXCEPT !.at = "submit", !.done = Entries]
  <2>1. o \in OpSet /\ o.at = "submit" /\ o.done = Entries
    BY IdleFacts DEF Idle, OpSet
  <2>2. Shaped(o) /\ o # Idle
    BY <2>1, IdleFacts DEF Shaped
  <2>3. Asks(j, o) /\ UNCHANGED program
    BY <1>1 DEF SubmitJobToRemoteQueue
  <2>4. op'[j] = o
    BY <2>3, NewStage DEF Asks
  <2> HIDE DEF o
  <2>5. Transferred(j)
    BY <2>1, <2>4 DEF Transferred
  <2>6. UNCHANGED Elsewhere
    BY <2>3 DEF Elsewhere, UploadElsewhere
  <2> QED BY <2>1, <2>2, <2>3, <2>5, <2>6, AsksGood
<1>2. CASE ~Valid(j)
  <2>1. program' = "crashed" /\ UNCHANGED <<op, req>>
    BY <1>2 DEF SubmitJobToRemoteQueue
  <2>2. SessionInv /\ QueueTypeOK /\ \A k \in Jobs : JobInv(k)
    BY Types DEF UInv
  <2>3. SessionInv'
    <3>1. req' \in [Requests -> Call]
      BY <2>1, <2>2, CallTypes DEF SessionInv
    <3> QED BY <2>1, <2>2, <3>1, Calls DEF UploadElsewhere
  <2>4. QueueTypeOK'
    BY <2>1, <2>2 DEF QueueTypeOK, UploadElsewhere, queueVars
  <2>5. \A k \in Jobs : Kept(k)
    BY <2>1 DEF Kept, Listed, UploadElsewhere, queueVars
  <2> QED BY <2>2, <2>3, <2>4, <2>5, KeptGood, Together
<1> QED BY <1>1, <1>2

LEMMA UploadNextGood ==
    ASSUME UInv, NEW j \in Jobs, op[j] # Idle, Runs,
           NEW todo \in SUBSET Entries, NEW done \in SUBSET Entries,
           Root \in done \/ todo = {Root},
           \A e \in Entries \ {Root} : Parent[e] \in done => e \in done \cup todo,
           UploadNext(j, todo, done),
           jobState' = jobState, UNCHANGED UploadElsewhere
    PROVE  StepGood
<1>1. CASE todo = {} /\ SubmitJobToRemoteQueue(j, done)
  <2>1. done = Entries
    BY <1>1, WholeTree
  <2> QED BY <1>1, <2>1, SubmitGood
<1>2. ASSUME NEW e \in todo,
             LET next == [Idle EXCEPT
                            !.at = IF e \in Dirs THEN "mkdir" ELSE "post",
                            !.todo = EntriesAdded(todo, e),
                            !.done = done, !.cur = e] IN
             /\ IF e \in Dirs THEN Asks(j, next)
                ELSE op' = [op EXCEPT ![j] = next] /\ Ended(Op(j))
             /\ UNCHANGED program
      PROVE  StepGood
  <2> DEFINE at   == IF e \in Dirs THEN "mkdir" ELSE "post"
             rest == EntriesAdded(todo, e)
             o    == [Idle EXCEPT !.at = at, !.todo = rest,
                                  !.done = done, !.cur = e]
  <2>1. rest \in SUBSET Entries /\ rest = (todo \ {e}) \cup Children(e)
    BY TreeTypes DEF EntriesAdded
  <2>2. /\ op' = [op EXCEPT ![j] = o]
        /\ Submitted(Op(j)) \/ Ended(Op(j))
        /\ UNCHANGED program
    BY <1>2 DEF Asks
  <2>3. at \in {"mkdir", "post"}
    OBVIOUS
  <2> HIDE DEF at, rest
  <2>4. /\ o \in OpSet
        /\ o.at = at /\ o.todo = rest /\ o.done = done /\ o.cur = e
    BY <2>1, <2>3, IdleFacts DEF Idle, OpSet, Uploading
  <2> HIDE DEF o
  <2>5. Shaped(o)
    <3>1. Root \in done \cup {e}
      OBVIOUS
    <3>2. ASSUME NEW x \in Entries \ {Root}, Parent[x] \in done \cup {e}
          PROVE  x \in done \cup {e} \cup rest
      <4>1. CASE Parent[x] = e
        BY <4>1, <2>1, TreeTypes
      <4>2. CASE Parent[x] \in done
        BY <4>2, <2>1
      <4> QED BY <3>2, <4>1, <4>2
    <3> QED BY <2>3, <2>4, <3>1, <3>2 DEF Shaped, Reached
  <2>6. o # Idle
    BY <2>3, <2>4, IdleFacts
  <2>7. op'[j] = o
    BY <2>2, NewStage
  <2>8. Transferred(j)
    BY <2>3, <2>4, <2>7, NoTransferEnds
  <2>9. UNCHANGED Elsewhere
    BY <2>2 DEF Elsewhere, UploadElsewhere
  <2>10. GoesOn(j, o)
    BY <2>2, <2>6 DEF GoesOn
  <2> QED BY <2>4, <2>5, <2>8, <2>9, <2>10, GoesOnGood
<1> QED BY <1>1, <1>2 DEF UploadNext

LEMMA UploadGood ==
    ASSUME UInv, NEW j \in Jobs, UploadInternal(j) \/ EntryUploaded(j)
    PROVE  StepGood
<1>1. op[j] \in OpSet /\ Shaped(op[j])
  BY OpTyped
<1>2. op[j] # Idle /\ Runs
  BY NotIdle DEF UploadInternal, EntryUploaded, Taken
<1>3. jobState' = jobState /\ UNCHANGED UploadElsewhere
  BY DEF UploadInternal, EntryUploaded, Unmoved, UploadOthers,
         UploadElsewhere, jobVars
<1>4. CASE UploadInternal(j)
  <2>1. op[j].todo = {Root} /\ UploadNext(j, op[j].todo, {})
    BY <1>1, <1>4 DEF UploadInternal, Shaped
  <2>2. {Root} \in SUBSET Entries /\ {} \in SUBSET Entries
    BY TreeTypes
  <2> QED BY <1>2, <1>3, <2>1, <2>2, UploadNextGood
<1>5. CASE EntryUploaded(j)
  <2> DEFINE done == op[j].done \cup {op[j].cur}
  <2>1. op[j].at \in {"mkdir", "post"} /\ UploadNext(j, op[j].todo, done)
    BY <1>5 DEF EntryUploaded
  <2>2. /\ done \in SUBSET Entries /\ Root \in done
        /\ \A e \in Entries \ {Root} :
             Parent[e] \in done => e \in done \cup op[j].todo
    BY <1>1, <2>1 DEF OpSet, Shaped, Reached
  <2>3. op[j].todo \in SUBSET Entries
    BY <1>1 DEF OpSet
  <2> HIDE DEF done
  <2> QED BY <1>2, <1>3, <2>1, <2>2, <2>3, UploadNextGood
<1> QED BY <1>4, <1>5

LEMMA UploadFailsGood ==
    ASSUME UInv, NEW j \in Jobs, UploadFails(j)
    PROVE  StepGood
BY FailsGood, Names DEF UploadFails

\* A download that ends has finished only with the whole tree done.
LEMMA FinalizedGood ==
    ASSUME UInv, NEW j \in Jobs, op[j] # Idle, op[j].at \in Downloading,
           NEW s \in FinalStates, Finalized(j, s), UNCHANGED Elsewhere,
           s = "Error" \/ Reached(op[j]) = Entries
    PROVE  StepGood
<1>1. /\ op' = [op EXCEPT ![j] = Idle]
      /\ SetStates({j}, s)
      /\ Ended(Op(j))
  BY DEF Finalized
<1>2. jobState'[j] = IF Valid(j) THEN s ELSE jobState[j]
  BY <1>1 DEF SetStates
<1>3. GoesOn(j, Idle)
  BY <1>1, <1>2, StatesApart DEF GoesOn
<1>4. op'[j] = Idle
  BY <1>1, NewStage
<1>5. Transferred(j)
  BY <1>2, <1>4, IdleFacts DEF Transferred, Reached, Downloading, Uploading
<1> QED BY <1>3, <1>5, IdleFacts, GoesOnGood

LEMMA DownloadNextGood ==
    ASSUME UInv, NEW j \in Jobs, op[j] # Idle, op[j].at \in Downloading,
           NEW files \in SUBSET Files, NEW dirs \in SUBSET Dirs,
           NEW done \in SUBSET Entries,
           Root \in done \/ (files = {} /\ dirs = {Root}),
           \A e \in Entries \ {Root} :
             Parent[e] \in done => e \in done \cup files \cup dirs,
           dirs = {} => done = Reached(op[j]),
           DownloadNext(j, files, dirs, done), UNCHANGED Elsewhere
    PROVE  StepGood
<1>1. ASSUME NEW f \in files,
             op' = [op EXCEPT ![j] = [Idle EXCEPT
                       !.at = "get", !.todo = files \ {f}, !.dirs = dirs,
                       !.done = done, !.cur = f]],
             Ended(Op(j)), UNCHANGED jobState
      PROVE  StepGood
  <2> DEFINE rest == files \ {f}
             o    == [Idle EXCEPT !.at = "get", !.todo = rest, !.dirs = dirs,
                                  !.done = done, !.cur = f]
  <2>1. rest \in SUBSET Entries /\ f \in Entries
    BY TreeTypes
  <2>2. op' = [op EXCEPT ![j] = o]
    BY <1>1
  <2>3. rest \subseteq Files /\ files \subseteq rest \cup {f} /\ f \in Files
    OBVIOUS
  <2> HIDE DEF rest
  <2>4. /\ o \in OpSet
        /\ o.at = "get" /\ o.todo = rest /\ o.dirs = dirs
        /\ o.done = done /\ o.cur = f
    BY <2>1, IdleFacts DEF Idle, OpSet, Downloading
  <2> HIDE DEF o
  <2>5. Root \in Reached(o)
    BY <2>4 DEF Reached
  <2>6. \A e \in Entries \ {Root} :
          Parent[e] \in done => e \in done \cup {f} \cup rest \cup dirs
    BY <2>3
  <2>7. Shaped(o)
    BY <2>1, <2>3, <2>4, <2>5, <2>6 DEF Shaped, Reached
  <2>8. o # Idle
    BY <2>4, IdleFacts
  <2>9. op'[j] = o
    BY <2>2, NewStage
  <2>10. Transferred(j)
    BY <2>4, <2>9, NoTransferEnds
  <2>11. GoesOn(j, o)
    BY <1>1, <2>2, <2>8 DEF GoesOn
  <2> QED BY <2>4, <2>7, <2>10, <2>11, GoesOnGood
<1>2. CASE files # {} /\ Finalized(j, "Error")
  BY <1>2, FinalizedGood DEF FinalStates
<1>3. ASSUME files = {}, NEW d \in dirs,
             Asks(j, [Idle EXCEPT !.at = "list", !.dirs = dirs \ {d},
                                  !.done = done, !.cur = d]),
             UNCHANGED jobState
      PROVE  StepGood
  <2> DEFINE rest == dirs \ {d}
             o    == [Idle EXCEPT !.at = "list", !.dirs = rest,
                                  !.done = done, !.cur = d]
  <2>1. rest \in SUBSET Dirs /\ d \in Entries /\ dirs \subseteq rest \cup {d}
    BY TreeTypes
  <2>2. Asks(j, o)
    BY <1>3
  <2> HIDE DEF rest
  <2>3. /\ o \in OpSet
        /\ o.at = "list" /\ o.todo = {} /\ o.dirs = rest
        /\ o.done = done /\ o.cur = d
    BY <2>1, IdleFacts DEF Idle, OpSet, Downloading
  <2> HIDE DEF o
  <2>4. Root \in Reached(o)
    BY <1>3, <2>3 DEF Reached
  <2>5. \A e \in Entries \ {Root} :
          Parent[e] \in done => e \in done \cup {d} \cup rest
    BY <1>3, <2>1
  <2>6. Shaped(o)
    BY <2>1, <2>3, <2>4, <2>5 DEF Shaped, Reached
  <2>7. o # Idle
    BY <2>3, IdleFacts
  <2>8. op'[j] = o
    BY <2>2, NewStage DEF Asks
  <2>9. Transferred(j)
    BY <2>3, <2>8, NoTransferEnds
  <2> QED BY <1>3, <2>2, <2>3, <2>6, <2>7, <2>9, AsksGood
<1>4. CASE files = {} /\ dirs = {} /\ \E s \in FinalStates : Finalized(j, s)
  <2>1. done = Entries
    BY <1>4, WholeTree
  <2> QED BY <1>4, <2>1, FinalizedGood
<1> QED BY <1>1, <1>2, <1>3, <1>4 DEF DownloadNext

LEMMA ListingRead ==
    ASSUME NEW d
    PROVE  /\ DirListingInfo(Listing(d)).files = Children(d) \cap Files
           /\ DirListingInfo(Listing(d)).directories = (Children(d) \cap Dirs) \cup Dots
           /\ ~DirListingInfo(NotXml).valid
<1>1. DOMAIN Listing(d) # {}
  BY DEF Listing
<1>2. /\ Listing(d)["files"] = Children(d) \cap Files
      /\ Listing(d)["directories"] = (Children(d) \cap Dirs) \cup Dots
  BY DEF Listing
<1>3. Parses(Listing(d)) /\ ~Parses(NotXml)
  BY <1>1 DEF Parses, NotXml
<1> QED BY <1>2, <1>3 DEF DirListingInfo, FileInfos

LEMMA DownloadGood ==
    ASSUME UInv, NEW j \in Jobs,
           DownloadInternal(j) \/ ProcessDirectoryListing(j) \/ FileDownloaded(j)
    PROVE  StepGood
<1>1. op[j] \in OpSet /\ Shaped(op[j])
  BY OpTyped
<1>2. op[j] # Idle /\ op[j].at \in Downloading /\ UNCHANGED Elsewhere
  BY NotIdle
     DEF DownloadInternal, ProcessDirectoryListing, FileDownloaded, Downloading,
         Elsewhere, DownloadOthers, Others
<1>3. CASE DownloadInternal(j)
  <2>1. DownloadNext(j, {}, {Root}, {})
    BY <1>3 DEF DownloadInternal
  <2>2. {Root} \in SUBSET Dirs
    BY TreeTypes
  <2> QED BY <1>2, <2>1, <2>2, DownloadNextGood
<1>4. CASE (\/ ProcessDirectoryListing(j) \/ FileDownloaded(j)) /\ Finalized(j, "Error")
  BY <1>2, <1>4, FinalizedGood DEF FinalStates
<1> DEFINE done == op[j].done \cup {op[j].cur}
<1>5. done = Reached(op[j])
  BY DEF Reached
<1>6. ASSUME op[j].at \in {"list", "get"}
      PROVE  /\ op[j].cur \in Entries /\ op[j].todo \subseteq Files
             /\ op[j].dirs \subseteq Dirs
             /\ op[j].at = "get" => op[j].cur \in Files
             /\ done \in SUBSET Entries /\ Root \in done
             /\ \A e \in Entries \ {Root} :
                  Parent[e] \in op[j].done =>
                    e \in done \cup op[j].todo \cup op[j].dirs
  BY <1>1, <1>6 DEF OpSet, Shaped, Reached
<1>7. CASE /\ ProcessDirectoryListing(j)
           /\ \E xml \in {Listing(op[j].cur), NotXml} :
                LET info == DirListingInfo(xml) IN
                /\ info.valid
                /\ DownloadNext(j, op[j].todo \cup info.files,
                                op[j].dirs \cup (info.directories \ Dots), done)
  <2> DEFINE d     == op[j].cur
             files == op[j].todo \cup (Children(d) \cap Files)
             dirs  == op[j].dirs \cup
                        (((Children(d) \cap Dirs) \cup Dots) \ Dots)
  <2>1. op[j].at = "list"
    BY <1>7 DEF ProcessDirectoryListing
  <2>2. DownloadNext(j, files, dirs, done)
    BY <1>7, ListingRead
  <2>3. dirs = op[j].dirs \cup (Children(d) \cap Dirs)
    BY TreeTypes, UitQueueAssumption DEF Dots, UitQueueAssumption
  <2>4. files \in SUBSET Files /\ dirs \in SUBSET Dirs
    BY <1>6, <2>1, <2>3
  <2>5. \A e \in Entries \ {Root} :
          Parent[e] \in done => e \in done \cup files \cup dirs
    <3> SUFFICES ASSUME NEW e \in Entries \ {Root}, Parent[e] \in done
                 PROVE  e \in done \cup files \cup dirs
      OBVIOUS
    <3>1. CASE Parent[e] = d
      BY <2>3, <3>1, TreeTypes
    <3>2. CASE Parent[e] \in op[j].done
      BY <1>6, <2>1, <2>3, <3>2
    <3> QED BY <3>1, <3>2
  <2>6. done \in SUBSET Entries /\ Root \in done
    BY <1>6, <2>1
  <2> HIDE DEF files, dirs, done
  <2> QED BY <1>2, <1>5, <2>2, <2>4, <2>5, <2>6, DownloadNextGood
<1>8. CASE FileDownloaded(j) /\ DownloadNext(j, op[j].todo, op[j].dirs, done)
  <2>1. op[j].at = "get"
    BY <1>8 DEF FileDownloaded
  <2>2. \A e \in Entries \ {Root} :
          Parent[e] \in done => e \in done \cup op[j].todo \cup op[j].dirs
    BY <1>6, <2>1, TreeTypes
  <2>3. /\ done \in SUBSET Entries /\ Root \in done
        /\ op[j].todo \in SUBSET Files /\ op[j].dirs \in SUBSET Dirs
    BY <1>6, <2>1
  <2> HIDE DEF done
  <2> QED BY <1>2, <1>5, <1>8, <2>2, <2>3, DownloadNextGood
<1>9. CASE ProcessDirectoryListing(j)
  BY <1>4, <1>7, <1>9 DEF ProcessDirectoryListing
<1>10. CASE FileDownloaded(j)
  BY <1>4, <1>8, <1>10 DEF FileDownloaded
<1> QED BY <1>3, <1>9, <1>10

-----------------------------------------------------------------------------
(* Submission, the queue, killing and removing.                            *)

\* A step that leaves the session alone.
LEMMA SessionAlone ==
    ASSUME SessionInv, UNCHANGED sessionVars
    PROVE  SessionInv'
BY CallTypes, Calls DEF SessionInv, sessionVars

LEMMA SubmitJobGood ==
    ASSUME UInv, NEW j \in Jobs, SubmitJob(j)
    PROVE  StepGood
<1>1. SessionInv /\ QueueTypeOK /\ \A k \in Jobs : JobInv(k)
  BY Types DEF UInv
<1>2. /\ jobState[j] = NotCreated
      /\ jobState' = [jobState EXCEPT ![j] = "Accepted"]
      /\ m_pendingSubmission' = m_pendingSubmission \cup {j}
      /\ UNCHANGED <<sessionVars, queueId, m_failureTracker, m_jobs,
                     m_isCheckingQueue, op, forgotten>>
  BY DEF SubmitJob
<1>3. SessionInv'
  BY <1>1, <1>2, SessionAlone
<1>4. QueueTypeOK'
  BY <1>1, <1>2 DEF QueueTypeOK, JobState
<1>5. \A k \in Jobs \ {j} : Kept(k)
  BY <1>1, <1>2 DEF Kept, Listed, QueueTypeOK, sessionVars
<1>6. JobGood(j)
  <2>1. op[j] = Idle /\ ~Listed(j)
    BY <1>1, <1>2 DEF JobInv, Fresh
  <2>2. op'[j] = Idle /\ ~Listed(j)' /\ j \in m_pendingSubmission'
    BY <1>2, <2>1 DEF Listed
  <2>3. jobState'[j] = "Accepted" /\ jobState'[j] # NotCreated
    BY <1>1, <1>2 DEF QueueTypeOK, NotCreated
  <2>4. Shaped(op[j])'
    BY <2>2, IdleFacts DEF Shaped, Reached
  <2>5. (Valid(j) => OnePlace(j))'
    BY <2>2 DEF OnePlace, Listed
  <2>6. Followed(j)' /\ Fresh(j)'
    BY <2>2, <2>3 DEF Followed, Fresh
  <2>7. Transferred(j)
    BY <2>1, <2>2, IdleFacts DEF Transferred, Uploading, Downloading
  <2> QED BY <2>4, <2>5, <2>6, <2>7 DEF JobGood, JobInv
<1> QED BY <1>1, <1>3, <1>4, <1>5, <1>6, KeptGood, Together

LEMMA SubmitPendingJobsGood == UInv /\ SubmitPendingJobs => StepGood
<1> SUFFICES ASSUME UInv, SubmitPendingJobs PROVE StepGood
  OBVIOUS
<1>1. SessionInv /\ QueueTypeOK /\ \A k \in Jobs : JobInv(k)
  BY Types DEF UInv
<1> DEFINE o == [Idle EXCEPT !.at = "stat"]
<1>2. PICK written \in SUBSET m_pendingSubmission :
        /\ op' = [j \in Jobs |-> IF j \in written THEN o ELSE op[j]]
        /\ req' = [r \in Requests |->
                     IF \E j \in written : r = Op(j) THEN Sent ELSE req[r]]
        /\ SetStates(m_pendingSubmission \ written, "Error")
  BY DEF SubmitPendingJobs
<1>3. /\ m_pendingSubmission' = {}
      /\ UNCHANGED <<Others, queueId, m_failureTracker, m_jobs,
                     m_isCheckingQueue>>
  BY DEF SubmitPendingJobs, PendingCleared
<1>4. o \in OpSet /\ o.at = "stat"
  BY IdleFacts DEF Idle, OpSet, Making
<1>5. Shaped(o) /\ o # Idle
  BY <1>4, IdleFacts DEF Shaped
<1> HIDE DEF o
<1>6. SessionInv'
  <2>1. Sent \in Call /\ Sent.at # "waiting" /\ req \in [Requests -> Call]
    BY <1>1, CallTypes DEF SessionInv, Sent
  <2>2. /\ req' \in [Requests -> Call]
        /\ \A r \in Requests : req'[r] = req[r] \/ req'[r].at # "waiting"
    BY <1>2, <2>1
  <2> QED BY <1>1, <1>3, <2>2, Calls DEF Others
<1>7. "Error" \in JobState /\ "Error" \notin Active /\ "Error" # NotCreated
  BY DEF JobState, Active, NotCreated
<1>8. /\ jobState' \in [Jobs -> JobState \cup {NotCreated, Removed}]
      /\ \A k \in Jobs : jobState'[k] =
           IF k \in m_pendingSubmission \ written /\ Valid(k) THEN "Error"
           ELSE jobState[k]
  BY <1>1, <1>2, <1>7, SetStatesTypes
<1>9. QueueTypeOK'
  BY <1>1, <1>2, <1>3, <1>4, <1>8 DEF QueueTypeOK, Others
<1>10. ASSUME NEW k \in Jobs
       PROVE  JobGood(k)
  <2>1. req'[Kill(k)] = req[Kill(k)]
    BY <1>1, <1>2, Names DEF QueueTypeOK
  <2>2. CASE k \notin m_pendingSubmission
    <3>1. Kept(k)
      BY <1>2, <1>3, <1>8, <2>1, <2>2 DEF Kept, Listed, Others
    <3> QED BY <1>1, <3>1, KeptGood
  <2>3. CASE k \in m_pendingSubmission
    <3>1. jobState[k] # NotCreated
      BY <1>1, <2>3 DEF JobInv, Fresh
    <3>2. Valid(k) => ~Listed(k)
      BY <1>1, <2>3 DEF JobInv, OnePlace
    <3>3. jobState'[k] # NotCreated /\ (Valid(k)' => Valid(k))
      BY <1>7, <1>8, <3>1 DEF Valid
    <3>4. Valid(k)' => ~Listed(k)'
      BY <1>3, <3>2, <3>3 DEF Listed
    <3>5. (Valid(k) => OnePlace(k))'
      BY <1>3, <3>4 DEF OnePlace, Listed
    <3>6. Shaped(op[k])'
      <4>1. op'[k] = o \/ op'[k] = op[k]
        BY <1>2
      <4>2. Shaped(op'[k])
        BY <1>1, <1>5, <4>1 DEF JobInv
      <4> QED BY <4>2 DEF Shaped, Reached
    <3>7. Followed(k)'
      <4>1. CASE k \in written
        BY <1>2, <1>5, <4>1 DEF Followed
      <4>2. CASE k \notin written
        BY <1>7, <1>8, <2>3, <4>2, StatesApart DEF Followed, Valid
      <4> QED BY <4>1, <4>2
    <3>8. Fresh(k)'
      BY <3>3 DEF Fresh
    <3>9. Transferred(k)
      BY <1>2, <1>4, NoTransferEnds, <1>8, StatesApart
         DEF Transferred, Uploading, Downloading, JobState
    <3> QED BY <3>5, <3>6, <3>7, <3>8, <3>9 DEF JobGood, JobInv
  <2> QED BY <2>2, <2>3
<1> QED BY <1>6, <1>9, <1>10, Together

\* A submission is answered with a number of the host, or without one.
LEMMA SubmissionRead == \A i \in Submissions : i.jobNumber \in QueueIds
<1> DEFINE Answers == [jobNumber : [number : HostIds, hasHost : BOOLEAN],
                       stderr : {"", "text"}]
<1> SUFFICES ASSUME NEW xml \in {NotXml} \cup Answers
             PROVE  JobSubmissionInfo(xml, Unparsed).jobNumber \in QueueIds
  BY DEF Submissions
<1>1. JobSubmissionInfo(xml, Unparsed).jobNumber =
        IF Parses(xml) THEN JobNumber(xml["jobNumber"], Unparsed) ELSE Unparsed
  BY DEF JobSubmissionInfo
<1>2. CASE xml \in Answers
  <2>1. JobNumber(xml["jobNumber"], Unparsed) \in QueueIds
    BY <1>2 DEF JobNumber, QueueIds
  <2> QED BY <1>1, <2>1 DEF QueueIds
<1>3. CASE xml = NotXml
  <2>1. ~Parses(xml)
    BY <1>3 DEF Parses, NotXml
  <2> QED BY <1>1, <2>1 DEF QueueIds
<1> QED BY <1>2, <1>3

LEMMA JobSubmittedGood ==
    ASSUME UInv, NEW j \in Jobs, JobSubmittedToRemoteQueue(j)
    PROVE  StepGood
<1>1. SessionInv /\ QueueTypeOK /\ \A k \in Jobs : JobInv(k)
  BY Types DEF UInv
<1>2. /\ op[j].at = "submit" /\ Ended(Op(j))
      /\ op' = [op EXCEPT ![j] = Idle]
      /\ UNCHANGED <<auth, prompts, token, accepted, box, program,
                     m_pendingSubmission, m_isCheckingQueue>>
  BY DEF JobSubmittedToRemoteQueue
<1>3. PICK i \in Submissions :
        /\ SetStates({j}, "Submitted")
        /\ m_failureTracker' = [m_failureTracker EXCEPT ![j] = 0]
        /\ queueId' = IF Valid(j) THEN [queueId EXCEPT ![j] = i.jobNumber]
                      ELSE queueId
        /\ m_jobs' = InsertedAt(j, i.jobNumber)
        /\ forgotten' = forgotten \cup ({m_jobs[i.jobNumber]} \ {NoJob})
  BY DEF JobSubmittedToRemoteQueue, Entered
<1> DEFINE q == i.jobNumber
<1>4. q \in QueueIds
  BY SubmissionRead
<1> HIDE DEF q
<1>5. "Submitted" \in JobState /\ "Submitted" # NotCreated
      /\ "Submitted" # "Finished"
  BY DEF JobState, NotCreated
<1>6. /\ jobState' \in [Jobs -> JobState \cup {NotCreated, Removed}]
      /\ \A k \in Jobs : jobState'[k] = IF k = j /\ Valid(j) THEN "Submitted"
                                       ELSE jobState[k]
  BY <1>1, <1>3, <1>5, SetStatesTypes
<1>7. /\ m_jobs' \in [QueueIds -> Jobs \cup {NoJob}]
      /\ m_jobs'[q] = IF Valid(j) THEN j ELSE NoJob
      /\ \A p \in QueueIds \ {q} : m_jobs'[p] = m_jobs[p]
      /\ forgotten' = forgotten \cup ({m_jobs[q]} \ {NoJob})
      /\ queueId' = IF Valid(j) THEN [queueId EXCEPT ![j] = q] ELSE queueId
  BY <1>1, <1>3, <1>4 DEF QueueTypeOK, InsertedAt, q
<1>8. NoJob \notin Jobs
  BY UitQueueAssumption DEF UitQueueAssumption
<1>9. /\ req' \in [Requests -> Call]
      /\ \A s \in Requests : req'[s] = req[s] \/ req'[s].at # "waiting"
      /\ \A s \in Requests \ {Op(j)} : req'[s] = req[s]
  BY <1>1, <1>2, OneCall, Names
<1>10. SessionInv'
  BY <1>1, <1>2, <1>9, Calls
<1>11. m_failureTracker' \in [Jobs -> 0 .. MaxRetries]
  BY <1>1, <1>3, UitQueueAssumption DEF QueueTypeOK, UitQueueAssumption
<1>12. QueueTypeOK'
  BY <1>1, <1>2, <1>4, <1>6, <1>7, <1>11, IdleFacts DEF QueueTypeOK
<1>13. op'[j] = Idle /\ \A k \in Jobs \ {j} : op'[k] = op[k]
  BY <1>1, <1>2 DEF QueueTypeOK
<1>14. ASSUME NEW k \in Jobs \ {j}
       PROVE  JobGood(k)
  <2>1. k \notin forgotten' /\ Listed(k) => Listed(k)'
    BY <1>7, <1>8 DEF Listed
  <2>2. Kept(k)
    BY <1>2, <1>4, <1>6, <1>7, <1>8, <1>9, <1>13, <2>1, Names DEF Kept
  <2> QED BY <1>1, <2>2, KeptGood
<1>15. JobGood(j)
  <2>1. op[j] # Idle
    BY <1>2, NotIdle
  <2>2. jobState'[j] # NotCreated /\ (Valid(j)' => Valid(j))
    BY <1>1, <1>5, <1>6, <2>1 DEF JobInv, Fresh, Valid
  <2>3. Valid(j) => ~Listed(j) /\ j \notin m_pendingSubmission
    BY <1>1, <2>1 DEF JobInv, OnePlace
  <2>4. Shaped(op[j])'
    BY <1>13, IdleFacts DEF Shaped, Reached
  <2>5. (Valid(j) => OnePlace(j))'
    BY <1>2, <1>7, <1>13, <2>2, <2>3 DEF OnePlace, Listed
  <2>6. Followed(j)'
    <3>1. CASE Valid(j)
      BY <1>4, <1>7, <3>1 DEF Followed, Listed
    <3>2. CASE ~Valid(j)
      BY <1>6, <3>2, StatesApart DEF Followed, Valid
    <3> QED BY <3>1, <3>2
  <2>7. Fresh(j)'
    BY <2>2 DEF Fresh
  <2>8. Transferred(j)
    BY <1>2, <1>13, IdleFacts DEF Transferred, Uploading, Downloading
  <2> QED BY <2>4, <2>5, <2>6, <2>7, <2>8 DEF JobGood, JobInv
<1> QED BY <1>10, <1>12, <1>14, <1>15, Together

LEMMA UpdateTimerGood == UInv /\ UpdateTimer => StepGood
<1> SUFFICES ASSUME UInv, UpdateTimer PROVE StepGood
  OBVIOUS
<1>1. SessionInv /\ QueueTypeOK /\ \A k \in Jobs : JobInv(k)
  BY Types DEF UInv
<1> DEFINE kept == [q \in QueueIds |-> IF m_jobs[q] # NoJob /\ Valid(m_jobs[q])
                                       THEN m_jobs[q] ELSE NoJob]
<1>2. /\ m_jobs' = kept
      /\ RequestQueueUpdate(kept)
      /\ UNCHANGED <<Others, jobVars, m_pendingSubmission, m_failureTracker, op>>
  BY DEF UpdateTimer
<1>3. /\ m_jobs' \in [QueueIds -> Jobs \cup {NoJob}]
      /\ \A q \in QueueIds : m_jobs'[q] = IF m_jobs[q] # NoJob /\ Valid(m_jobs[q])
                                         THEN m_jobs[q] ELSE NoJob
  BY <1>1, <1>2 DEF QueueTypeOK
<1> HIDE DEF kept
<1>4. /\ m_isCheckingQueue' \in BOOLEAN
      /\ req' = req \/ Submitted(Update)
  BY <1>1, <1>2 DEF RequestQueueUpdate, QueueTypeOK
<1>5. /\ req' \in [Requests -> Call]
      /\ \A s \in Requests : req'[s] = req[s] \/ req'[s].at # "waiting"
      /\ \A s \in Requests \ {Update} : req'[s] = req[s]
  BY <1>1, <1>4, OneCall, Names, CallTypes DEF SessionInv
<1>6. SessionInv'
  BY <1>1, <1>2, <1>5, Calls DEF Others
<1>7. QueueTypeOK'
  BY <1>1, <1>2, <1>3, <1>4 DEF QueueTypeOK, Others, jobVars
<1>8. ASSUME NEW k \in Jobs
      PROVE  Kept(k)
  <2>1. NoJob # k
    BY UitQueueAssumption DEF UitQueueAssumption
  <2>2. Valid(k) /\ Listed(k) => Listed(k)'
    BY <1>3, <2>1 DEF Listed
  <2>3. req'[Kill(k)] = req[Kill(k)]
    BY <1>5, Names
  <2> QED BY <1>2, <1>3, <2>1, <2>2, <2>3 DEF Kept, Others, jobVars
<1> QED BY <1>1, <1>6, <1>7, <1>8, KeptGood, Together

\* What an update reads for each job it asked for.
EventStates == {"none", "RunningRemote", "QueuedRemote", "Error", "Unknown"}

LEMMA StatesAreRead ==
    ASSUME NEW ids \in SUBSET QueueIds, NEW event \in StatesRead(ids)
    PROVE  event \in [ids -> EventStates]
<1>1. \A e : JobEventToJobState(e) \in EventStates
  BY DEF JobEventToJobState, EventStates
<1>2. \A events, q : StateOf(events, q) \in EventStates
  BY <1>1 DEF StateOf, EventStates
<1>3. PICK r \in Readings : r.ids = ids /\ event \in r.states
  <2> DEFINE here == [ids |-> ids,
                      states |-> {StatesOf(ids, l) : l \in EventLists}]
  <2>1. here \in Readings /\ here.ids = ids
    BY DEF Readings
  <2> HIDE DEF here
  <2> QED BY <2>1 DEF StatesRead
<1>4. r.states = {StatesOf(ids, l) : l \in EventLists}
  BY <1>3 DEF Readings
<1>5. PICK l \in EventLists : event = StatesOf(ids, l)
  BY <1>3, <1>4
<1> QED BY <1>2, <1>5 DEF StatesOf

LEMMA HandleQueueUpdateGood == UInv /\ HandleQueueUpdate => StepGood
<1> SUFFICES ASSUME UInv, HandleQueueUpdate PROVE StepGood
  OBVIOUS
<1>1. SessionInv /\ QueueTypeOK /\ \A k \in Jobs : JobInv(k)
  BY Types DEF UInv
<1> DEFINE Keys        == KeysOf(m_jobs)
           seen        == {q \in Keys : Valid(m_jobs[q])}
           left(e)     == {q \in seen : e[q] = "none"}
           fetch(e, f) == {m_jobs[q] : q \in {k \in left(e) : f[k] = "fetch"}}
           o           == [Idle EXCEPT !.at = "downloadUrl"]
<1> DEFINE Handled(event, fate) ==
            /\ m_jobs' = [q \in QueueIds |-> IF q \in left(event) THEN NoJob
                                             ELSE m_jobs[q]]
            /\ jobState' = [j \in Jobs |->
                 IF \E q \in seen : m_jobs[q] = j
                 THEN LET q == CHOOSE k \in seen : m_jobs[k] = j IN
                      IF q \notin left(event) THEN event[q]
                      ELSE IF fate[q] = "fetch" THEN jobState[j] ELSE fate[q]
                 ELSE jobState[j]]
            /\ op' = [j \in Jobs |-> IF j \in fetch(event, fate) THEN o ELSE op[j]]
            /\ req' = [r \in Requests |->
                         IF r = Update THEN Absent
                         ELSE IF \E j \in fetch(event, fate) : r = Op(j) THEN Sent
                         ELSE req[r]]
<1>0. PICK event \in StatesRead(Keys) :
         \E fate \in [{q \in Keys : event[q] = "none"} -> Fates] :
           Handled(event, fate)
  BY DEF HandleQueueUpdate
<1>2. PICK fate \in [{q \in Keys : event[q] = "none"} -> Fates] :
         Handled(event, fate)
  BY <1>0
<1>3. /\ m_isCheckingQueue' = FALSE
      /\ UNCHANGED <<Others, queueId, m_pendingSubmission, m_failureTracker>>
  BY DEF HandleQueueUpdate
<1> DEFINE L == left(event)
           F == fetch(event, fate)
<1>4. o \in OpSet /\ o.at = "downloadUrl"
  BY IdleFacts DEF Idle, OpSet, Downloading
<1>5. Shaped(o) /\ o # Idle
  BY <1>4, IdleFacts DEF Shaped
<1>6. Keys \subseteq QueueIds /\ \A q \in Keys : m_jobs[q] \in Jobs
  BY <1>1 DEF KeysOf, QueueTypeOK
<1>7. event \in [Keys -> EventStates]
  BY <1>6, StatesAreRead
<1>8. /\ L \subseteq seen /\ seen \subseteq Keys
      /\ \A q \in seen \ L : event[q] \in EventStates \ {"none"}
      /\ \A q \in L : fate[q] \in Fates
  BY <1>7
<1>9. \A k \in Jobs : Valid(k) =>
        \A p, q \in QueueIds : m_jobs[p] = k /\ m_jobs[q] = k => p = q
  BY <1>1 DEF JobInv, OnePlace
<1>10. /\ m_jobs' \in [QueueIds -> Jobs \cup {NoJob}]
       /\ \A q \in QueueIds : m_jobs'[q] = IF q \in L THEN NoJob ELSE m_jobs[q]
  BY <1>1, <1>2 DEF QueueTypeOK
<1>11. F = {m_jobs[q] : q \in {k \in L : fate[k] = "fetch"}}
  OBVIOUS
<1>12. /\ op' = [j \in Jobs |-> IF j \in F THEN o ELSE op[j]]
       /\ req' = [r \in Requests |->
                     IF r = Update THEN Absent
                     ELSE IF \E j \in F : r = Op(j) THEN Sent ELSE req[r]]
  BY <1>2
<1>13. \A k \in Jobs : (\A q \in seen : m_jobs[q] # k) =>
         jobState'[k] = jobState[k] /\ k \notin F
  BY <1>2, <1>8, <1>11
<1>14. ASSUME NEW q \in seen
       PROVE  jobState'[m_jobs[q]] =
                IF q \notin L THEN event[q]
                ELSE IF fate[q] = "fetch" THEN jobState[m_jobs[q]] ELSE fate[q]
  <2>1. m_jobs[q] \in Jobs /\ Valid(m_jobs[q])
    BY <1>6, <1>8
  <2>2. (CHOOSE k \in seen : m_jobs[k] = m_jobs[q]) = q
    BY <1>6, <1>8, <1>9, <2>1
  <2> QED BY <1>2, <2>1, <2>2
<1> HIDE DEF seen, L, F, o, Keys
<1>15. NoJob \notin Jobs
  BY UitQueueAssumption DEF UitQueueAssumption
<1>16. SessionInv'
  <2>1. /\ Sent \in Call /\ Sent.at # "waiting"
        /\ Absent \in Call /\ Absent.at # "waiting" /\ req \in [Requests -> Call]
    BY <1>1, CallTypes DEF SessionInv, Sent, Absent
  <2>2. /\ req' \in [Requests -> Call]
        /\ \A r \in Requests : req'[r] = req[r] \/ req'[r].at # "waiting"
    BY <1>12, <2>1
  <2> QED BY <1>1, <1>3, <2>2, Calls DEF Others
<1>17. /\ EventStates \ {"none"} \subseteq JobState
       /\ Fates \ {"fetch"} = FinalStates
  BY DEF EventStates, JobState, Fates, FinalStates
<1>18. jobState' \in [Jobs -> JobState \cup {NotCreated, Removed}]
  <2>1. DOMAIN jobState' = Jobs /\ jobState' = [k \in Jobs |-> jobState'[k]]
    BY <1>2
  <2>2. ASSUME NEW k \in Jobs
        PROVE  jobState'[k] \in JobState \cup {NotCreated, Removed}
    <3>1. CASE \A q \in seen : m_jobs[q] # k
      BY <1>1, <1>13, <3>1 DEF QueueTypeOK
    <3>2. CASE \E q \in seen : m_jobs[q] = k
      BY <1>1, <1>8, <1>14, <1>17, <3>2, StatesApart DEF QueueTypeOK
    <3> QED BY <3>1, <3>2
  <2> QED BY <2>1, <2>2
<1>19. QueueTypeOK'
  BY <1>1, <1>3, <1>4, <1>10, <1>12, <1>18 DEF QueueTypeOK, Others
<1>20. \A k \in Jobs : req'[Kill(k)] = req[Kill(k)]
  <2>1. F \subseteq Jobs
    BY <1>6, <1>8, <1>11
  <2> QED BY <1>12, <2>1, Names
<1>21. ASSUME NEW k \in Jobs
       PROVE  JobGood(k)
  <2>1. CASE \A q \in seen : m_jobs[q] # k
    <3>1. op'[k] = op[k] /\ jobState'[k] = jobState[k]
      BY <1>12, <1>13, <2>1
    <3>2. \A q \in QueueIds : m_jobs'[q] = k <=> m_jobs[q] = k
      BY <1>8, <1>10, <1>15, <2>1
    <3>3. Kept(k)
      BY <1>3, <1>20, <3>1, <3>2 DEF Kept, Listed, Others
    <3> QED BY <1>1, <3>3, KeptGood
  <2>2. ASSUME NEW q \in seen, m_jobs[q] = k
        PROVE  JobGood(k)
    <3>1. q \in QueueIds /\ Valid(k) /\ Listed(k)
      BY <1>6, <1>8, <2>2 DEF Listed, seen
    <3>2. op[k] = Idle /\ k \notin m_pendingSubmission
      BY <1>1, <3>1 DEF JobInv, OnePlace
    <3>3. \A p \in QueueIds : m_jobs[p] = k => p = q
      BY <1>9, <2>2, <3>1
    <3>4. Listed(k)' <=> q \notin L
      BY <1>10, <1>15, <2>2, <3>1, <3>3 DEF Listed
    <3>5. k \in F => q \in L
      BY <1>6, <1>8, <1>11, <3>3
    <3>6. op'[k] = IF k \in F THEN o ELSE Idle
      BY <1>12, <3>2
    <3>7. Shaped(op[k])'
      <4>1. Shaped(op'[k])
        BY <1>5, <3>6, IdleFacts
      <4> QED BY <4>1 DEF Shaped, Reached
    <3>8. (Valid(k) => OnePlace(k))'
      <4>1. \A p \in QueueIds : m_jobs'[p] = k => m_jobs[p] = k
        BY <1>10, <1>15
      <4> QED BY <1>3, <3>2, <3>3, <3>4, <3>5, <3>6, <4>1 DEF OnePlace
    <3>9. Followed(k)'
      <4>1. CASE q \notin L
        BY <3>4, <4>1 DEF Followed
      <4>2. CASE q \in L /\ fate[q] = "fetch"
        <5>1. k \in F
          BY <1>11, <2>2, <4>2
        <5> QED BY <1>5, <3>6, <5>1 DEF Followed
      <4>3. CASE q \in L /\ fate[q] # "fetch"
        BY <1>8, <1>14, <1>17, <2>2, <4>3, StatesApart DEF Followed
      <4> QED BY <4>1, <4>2, <4>3
    <3>10. Fresh(k)'
      <4>1. jobState'[k] # NotCreated
        BY <1>8, <1>14, <1>17, <2>2, <3>1, StatesApart DEF Valid
      <4> QED BY <4>1 DEF Fresh
    <3>11. Transferred(k)
      BY <1>4, <3>2, <3>6, IdleFacts DEF Transferred, Uploading, Downloading
    <3> QED BY <3>7, <3>8, <3>9, <3>10, <3>11 DEF JobGood, JobInv
  <2> QED BY <2>1, <2>2
<1> QED BY <1>16, <1>19, <1>21, Together

LEMMA KillJobGood ==
    ASSUME UInv, NEW j \in Jobs, KillJob(j)
    PROVE  StepGood
<1>1. SessionInv /\ QueueTypeOK /\ \A k \in Jobs : JobInv(k)
  BY Types DEF UInv
<1>2. /\ jobState[j] \in GuiKillable
      /\ UNCHANGED <<Others, queueId, m_failureTracker, m_isCheckingQueue, op>>
  BY DEF KillJob
<1>3. "Canceled" \in JobState \ (Active \cup {"Finished"})
  BY DEF JobState, Active
<1>4. jobState[j] # NotCreated /\ Valid(j)
  BY <1>2 DEF GuiKillable, RpcCancelable, NotCreated, Removed, Valid
<1>5. /\ UNCHANGED req \/ Submitted(Kill(j))
      /\ req' = req \/ EntryOf(j) = j
      /\ UNCHANGED jobState \/ SetStates({j}, "Canceled")
      /\ UNCHANGED m_jobs \/ (EntryOf(j) = j /\ m_jobs' = EntryRemoved(j))
      /\ m_pendingSubmission \ {j} \subseteq m_pendingSubmission'
      /\ m_pendingSubmission' \subseteq m_pendingSubmission
      /\ SetStates({j}, "Canceled") \/ Submitted(Kill(j))
  BY DEF KillJob
<1>6. SessionInv' /\ \A r \in Requests \ {Kill(j)} : req'[r] = req[r]
  <2>1. /\ req' \in [Requests -> Call]
        /\ \A s \in Requests : req'[s] = req[s] \/ req'[s].at # "waiting"
        /\ \A s \in Requests \ {Kill(j)} : req'[s] = req[s]
    BY <1>1, <1>5, OneCall, Names, CallTypes DEF SessionInv
  <2> QED BY <1>1, <1>2, <2>1, Calls DEF Others
<1>7. /\ jobState' \in [Jobs -> JobState \cup {NotCreated, Removed}]
      /\ \A k \in Jobs \ {j} : jobState'[k] = jobState[k]
      /\ jobState'[j] \in {jobState[j], "Canceled"}
  BY <1>1, <1>3, <1>5, SetStatesTypes DEF QueueTypeOK
<1>8. NoJob \notin Jobs
  BY UitQueueAssumption DEF UitQueueAssumption
<1>9. /\ m_jobs' \in [QueueIds -> Jobs \cup {NoJob}]
      /\ \A q \in QueueIds : m_jobs'[q] = m_jobs[q]
                             \/ (m_jobs[q] = j /\ m_jobs'[q] = NoJob)
  BY <1>1, <1>5, <1>8 DEF QueueTypeOK, EntryOf, EntryRemoved
<1>10. QueueTypeOK'
  BY <1>1, <1>2, <1>5, <1>7, <1>9 DEF QueueTypeOK, Others
<1>11. ASSUME NEW k \in Jobs \ {j}
       PROVE  JobGood(k)
  <2>1. req'[Kill(k)] = req[Kill(k)]
    BY <1>6, Names
  <2>2. \A q \in QueueIds : m_jobs'[q] = k <=> m_jobs[q] = k
    BY <1>8, <1>9
  <2>3. Kept(k)
    BY <1>2, <1>5, <1>7, <2>1, <2>2 DEF Kept, Listed, Others
  <2> QED BY <1>1, <2>3, KeptGood
<1>12. JobGood(j)
  <2>1. \A q \in QueueIds : m_jobs'[q] = j => m_jobs[q] = j
    BY <1>8, <1>9
  <2>2. Listed(j)' => Listed(j)
    BY <2>1 DEF Listed
  <2>3. Shaped(op[j])'
    BY <1>1, <1>2 DEF JobInv, Shaped, Reached
  <2>4. (Valid(j) => OnePlace(j))'
    BY <1>1, <1>2, <1>4, <1>5, <2>1, <2>2 DEF JobInv, OnePlace
  <2>5. Followed(j)'
    <3>1. CASE SetStates({j}, "Canceled")
      BY <1>1, <1>3, <1>4, <3>1, SetStatesTypes DEF Followed
    <3>2. CASE Submitted(Kill(j))
      BY <1>1, <3>2, OneCall, Names DEF Followed, Absent
    <3> QED BY <1>5, <3>1, <3>2
  <2>6. Fresh(j)'
    BY <1>3, <1>4, <1>7, StatesApart DEF Fresh
  <2>7. Transferred(j)
    BY <1>2, <1>3, <1>7 DEF Transferred, Uploading, Downloading
  <2> QED BY <2>3, <2>4, <2>5, <2>6, <2>7 DEF JobGood, JobInv
<1> QED BY <1>6, <1>10, <1>11, <1>12, Together

LEMMA EndKillJobGood ==
    ASSUME UInv, NEW j \in Jobs, EndKillJob(j)
    PROVE  StepGood
<1>1. SessionInv /\ QueueTypeOK /\ \A k \in Jobs : JobInv(k)
  BY Types DEF UInv
<1>2. /\ Ended(Kill(j))
      /\ SetStates({j}, "Canceled")
      /\ UNCHANGED <<Others, queueId, queueVars, op>>
  BY DEF EndKillJob
<1>3. "Canceled" \in JobState \ (Active \cup {"Finished"})
  BY DEF JobState, Active
<1>4. /\ req' \in [Requests -> Call]
      /\ \A s \in Requests : req'[s] = req[s] \/ req'[s].at # "waiting"
      /\ \A s \in Requests \ {Kill(j)} : req'[s] = req[s]
  BY <1>1, <1>2, OneCall, Names
<1>5. SessionInv'
  BY <1>1, <1>2, <1>4, Calls DEF Others
<1>6. /\ jobState' \in [Jobs -> JobState \cup {NotCreated, Removed}]
      /\ \A k \in Jobs : jobState'[k] = IF k = j /\ Valid(j) THEN "Canceled"
                                        ELSE jobState[k]
  BY <1>1, <1>2, <1>3, SetStatesTypes
<1>7. QueueTypeOK'
  BY <1>1, <1>2, <1>6 DEF QueueTypeOK, Others, queueVars
<1>8. ASSUME NEW k \in Jobs \ {j}
      PROVE  JobGood(k)
  <2>1. req'[Kill(k)] = req[Kill(k)]
    BY <1>4, Names
  <2>2. Kept(k)
    BY <1>2, <1>6, <2>1 DEF Kept, Listed, Others, queueVars
  <2> QED BY <1>1, <2>2, KeptGood
<1>9. JobGood(j)
  <2>1. UNCHANGED <<m_jobs, m_pendingSubmission, op>> /\ Listed(j)' = Listed(j)
    BY <1>2 DEF queueVars, Listed
  <2>2. Shaped(op[j])'
    BY <1>1, <2>1 DEF JobInv, Shaped, Reached
  <2>3. /\ Valid(j)' => Valid(j)
        /\ jobState'[j] = NotCreated => jobState[j] = NotCreated
    BY <1>6, <1>3, StatesApart DEF Valid
  <2>4. (Valid(j) => OnePlace(j))'
    BY <1>1, <2>1, <2>3 DEF JobInv, OnePlace
  <2>5. Followed(j)' /\ Fresh(j)'
    BY <1>1, <1>3, <1>6, <2>1, <2>3, StatesApart DEF JobInv, Followed, Fresh, Valid
  <2>6. Transferred(j)
    BY <1>3, <1>6, <2>1 DEF Transferred, Uploading, Downloading
  <2> QED BY <2>2, <2>4, <2>5, <2>6 DEF JobGood, JobInv
<1> QED BY <1>5, <1>7, <1>8, <1>9, Together

LEMMA RemoveJobGood ==
    ASSUME UInv, NEW j \in Jobs, RemoveJob(j)
    PROVE  StepGood
<1>1. SessionInv /\ QueueTypeOK /\ \A k \in Jobs : JobInv(k)
  BY Types DEF UInv
<1>2. /\ jobState' = [jobState EXCEPT ![j] = Removed]
      /\ m_pendingSubmission' = m_pendingSubmission \ {j}
      /\ m_failureTracker' = [m_failureTracker EXCEPT ![j] = 0]
      /\ m_jobs' = EntryRemoved(j)
      /\ forgotten' = forgotten \cup ({EntryOf(j)} \ {NoJob, j})
      /\ UNCHANGED <<sessionVars, queueId, m_isCheckingQueue, op>>
  BY DEF RemoveJob
<1>3. SessionInv'
  BY <1>1, <1>2, SessionAlone
<1>4. NoJob \notin Jobs
  BY UitQueueAssumption DEF UitQueueAssumption
<1>5. /\ m_jobs' \in [QueueIds -> Jobs \cup {NoJob}]
      /\ \A q \in QueueIds : m_jobs'[q] = IF q = queueId[j] THEN NoJob
                                          ELSE m_jobs[q]
  BY <1>1, <1>2 DEF QueueTypeOK, EntryRemoved
<1>6. EntryOf(j) \in Jobs \cup {NoJob}
  BY <1>1 DEF QueueTypeOK, EntryOf
<1>7. m_failureTracker' \in [Jobs -> 0 .. MaxRetries]
  BY <1>1, <1>2, UitQueueAssumption DEF QueueTypeOK, UitQueueAssumption
<1>8. QueueTypeOK'
  BY <1>1, <1>2, <1>5, <1>6, <1>7 DEF QueueTypeOK
<1>9. ASSUME NEW k \in Jobs \ {j}
      PROVE  JobGood(k)
  <2>1. k \notin forgotten' /\ Listed(k) => Listed(k)'
    BY <1>2, <1>4, <1>5 DEF Listed, EntryOf
  <2>2. \A q \in QueueIds : m_jobs'[q] = k => m_jobs[q] = k
    BY <1>4, <1>5
  <2>3. Kept(k)
    BY <1>1, <1>2, <2>1, <2>2 DEF Kept, QueueTypeOK, sessionVars
  <2> QED BY <1>1, <2>3, KeptGood
<1>10. JobGood(j)
  <2>1. jobState'[j] = Removed
    BY <1>1, <1>2 DEF QueueTypeOK
  <2>2. Shaped(op[j])'
    BY <1>1, <1>2 DEF JobInv, Shaped, Reached
  <2>3. (Valid(j) => OnePlace(j))' /\ Followed(j)' /\ Fresh(j)'
    BY <2>1, StatesApart DEF Valid, Followed, Fresh
  <2>4. Transferred(j)
    BY <1>2, <2>1 DEF Transferred, Removed, Uploading, Downloading
  <2> QED BY <2>2, <2>3, <2>4 DEF JobGood, JobInv
<1> QED BY <1>3, <1>8, <1>9, <1>10, Together

-----------------------------------------------------------------------------
(* The theorems.                                                           *)

LEMMA InitInv == Init => UInv
<1> SUFFICES ASSUME Init PROVE UInv
  OBVIOUS
<1>1. SessionInv
  BY SessionInitInv DEF Init
<1>2. QueueTypeOK
  <2>1. 0 \in 0 .. MaxRetries
    BY UitQueueAssumption DEF UitQueueAssumption
  <2>2. m_failureTracker \in [Jobs -> 0 .. MaxRetries]
    BY <2>1 DEF Init
  <2>3. op \in [Jobs -> OpSet]
    BY IdleFacts DEF Init
  <2> QED BY <2>2, <2>3 DEF Init, QueueTypeOK
<1>3. ASSUME NEW k \in Jobs
      PROVE  JobInv(k)
  <2>1. op[k] = Idle /\ ~Listed(k) /\ k \notin m_pendingSubmission
        /\ jobState[k] = NotCreated
    BY <1>3, UitQueueAssumption DEF Init, Listed, UitQueueAssumption
  <2>2. Shaped(op[k])
    BY <2>1, IdleFacts
  <2>3. ~Valid(k)
    BY <2>1 DEF Valid
  <2>4. Followed(k) /\ Fresh(k)
    BY <2>1, StatesApart DEF Followed, Fresh
  <2> QED BY <2>2, <2>3, <2>4 DEF JobInv
<1> QED BY <1>1, <1>2, <1>3, Types DEF UInv, SessionInv

LEMMA NextGood == UInv /\ Next => StepGood
<1> SUFFICES ASSUME UInv, Next PROVE StepGood
  OBVIOUS
<1>1. CASE SessionMoves
  BY <1>1, SessionMovesGood
<1>2. CASE \E r \in Requests : RequestFails(r)
  BY <1>2, FailsGood DEF RequestFails
<1>3. CASE LoginGivenUp \/ CloseErrorBox
  BY <1>3, LoginGivenUpGood, CloseErrorBoxGood
<1>4. CASE SubmitPendingJobs \/ UpdateTimer \/ HandleQueueUpdate
  BY <1>4, SubmitPendingJobsGood, UpdateTimerGood, HandleQueueUpdateGood
<1>5. CASE \E j \in Jobs : JobStep(j)
  BY <1>5, SubmitJobGood, MakingGood, UploadGood, UploadFailsGood,
     JobSubmittedGood, DownloadGood, KillJobGood, EndKillJobGood, RemoveJobGood
     DEF JobStep
<1> QED BY <1>1, <1>2, <1>3, <1>4, <1>5 DEF Next

LEMMA StutterGood == UInv /\ UNCHANGED vars => StepGood
<1> SUFFICES ASSUME UInv, UNCHANGED vars PROVE StepGood
  OBVIOUS
<1>1. SessionInv /\ QueueTypeOK /\ \A k \in Jobs : JobInv(k)
  BY Types DEF UInv
<1>2. UNCHANGED <<sessionVars, jobVars, queueVars, op, forgotten>>
  BY DEF vars
<1>3. SessionInv'
  BY <1>1, <1>2, SessionAlone
<1>4. QueueTypeOK'
  BY <1>1, <1>2 DEF QueueTypeOK, jobVars, queueVars
<1>5. \A k \in Jobs : Kept(k)
  BY <1>2 DEF Kept, Listed, jobVars, queueVars, sessionVars
<1> QED BY <1>1, <1>3, <1>4, <1>5, KeptGood, Together

\* The inductive invariant holds of every run of a UIT queue.
THEOREM Inductive == Spec => []UInv
<1>1. UInv /\ [Next]_vars => UInv'
  BY NextGood, StutterGood DEF StepGood
<1> QED BY InitInv, <1>1, PTL DEF Spec

\* No outcome of a login, and no message box in the middle of telling it,
\* leaves a request that waits for credentials behind (Session,
\* Authenticator).
THEOREM LoginsEndWaits == Spec => []NobodyWaitsForNothing
<1>1. UInv => NobodyWaitsForNothing
  BY DEF UInv, SessionInv
<1> QED BY Inductive, <1>1, PTL

\* A job is at one place of its way to the host at a time, and m_jobs has it
\* at no more than one id (QueueUit, QueueRemote).
THEOREM AtOnePlace == Spec => []OnePlaceAtATime
<1>1. UInv => OnePlaceAtATime
  BY DEF UInv, JobInv, OnePlace, OnePlaceAtATime, Listed
<1> QED BY Inductive, <1>1, PTL

\* A job that counts as on its way is pending, in an operation, being killed
\* or in m_jobs, unless one of the known errors left it (QueueUit).
THEOREM JobsAreFollowed == Spec => []OthersAreFollowed
<1>1. UInv => OthersAreFollowed
  BY DEF UInv, JobInv, Followed, Active, OthersAreFollowed, Listed
<1> QED BY Inductive, <1>1, PTL

\* Whatever tree the directory of a job is and in whatever order its entries
\* come, a submission follows the upload of all of it, and a job finishes by
\* a download only with all of it there (DirectoryUpload, DirectoryDownload).
THEOREM TransfersComplete == Spec => TransfersAreComplete
<1>1. UInv /\ [Next]_vars => [\A j \in Jobs : Transferred(j)]_vars
  BY NextGood DEF StepGood
<1>2. [\A j \in Jobs : Transferred(j)]_vars =>
        [\A j \in Jobs :
           /\ op[j].at \in Uploading /\ op'[j].at = "submit" =>
                op'[j].done = Entries
           /\ op[j].at \in Downloading /\ op'[j].at = "idle"
                /\ jobState'[j] = "Finished" /\ jobState[j] # "Finished" =>
                op[j].done \cup {op[j].cur} = Entries]_vars
  BY DEF Transferred
<1> QED BY Inductive, <1>1, <1>2, PTL DEF Spec, TransfersAreComplete
==============================================================================
