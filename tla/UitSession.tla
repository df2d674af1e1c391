------------------------------ MODULE UitSession ------------------------------
(***************************************************************************)
(* The requests of a UIT queue and the session that authenticates them:    *)
(* Uit::Request, Uit::Session, Uit::Authenticator, AuthResponseProcessor   *)
(* and the credentials dialog.  Every reply is a slot of the one Qt event  *)
(* loop; what is concurrent is the SOAP calls in flight, the user in front *)
(* of the dialog and the service that lets tokens expire.                  *)
(***************************************************************************)
EXTENDS UitReplies, FiniteSets

CONSTANTS
    Requests,    \* the requests that can be under way
    TestConnection, \* the member of Requests that is QueueUit::testConnection
    NoToken,     \* the service accepts no token
    MaxTokens,   \* bound: tokens handed out that differ
    MaxPrompts   \* bound: questions the service asks in one answer

ASSUME UitSessionAssumption ==
    /\ TestConnection \in Requests
    /\ MaxTokens \in Nat \ {0} /\ MaxPrompts \in Nat
    /\ NoToken \notin 0 .. MaxTokens

VARIABLES
    req,       \* each request: absent, sent with a token, or waiting for one
    auth,      \* what the Authenticator and its dialog wait for
    prompts,   \* questions of AuthResponseProcessor not yet answered
    token,     \* Session::m_token
    accepted,  \* the token the service accepts
    box,       \* the message box of testConnection that is open, if any
    program    \* the process "runs", is "deadlocked" or has "crashed"

sessionVars == <<req, auth, prompts, token, accepted, box, program>>

Absent  == [at |-> "absent", token |-> 0]
Waiting == [at |-> "waiting", token |-> 0]
Sent    == [at |-> "sent", token |-> token]

\* "deaf": the dialog is shown and nothing is connected to its `entered`.
\* "lost": no dialog is shown, no call is in flight, and m_authenticator is
\* still there.
AuthStates == {"none", "password", "kerberos", "deaf", "prompt", "cont",
               "lost"}

SessionTypeOK ==
    /\ req \in [Requests -> [at : {"absent", "sent", "waiting"},
                             token : 0 .. MaxTokens]]
    /\ auth \in AuthStates
    /\ prompts \in 0 .. MaxPrompts
    /\ token \in 0 .. MaxTokens
    /\ accepted \in 0 .. MaxTokens \cup {NoToken}
    /\ box \in {"none", "complete", "error"}
    /\ program \in {"runs", "deadlocked", "crashed"}

SessionInit ==
    /\ req = [r \in Requests |-> Absent]
    /\ auth = "none" /\ prompts = 0
    /\ token = 0 /\ accepted = NoToken
    /\ box = "none"
    /\ program = "runs"

Runs == program = "runs"

\* The requests connected to the session's two signals.
Waiters == {r \in Requests : req[r].at = "waiting"}

-----------------------------------------------------------------------------
(* Requests.                                                               *)

\* Request::submit: createJob puts the session's token into the call.
Submitted(r) == req' = [req EXCEPT ![r] = Sent]
Ended(r)     == req' = [req EXCEPT ![r] = Absent]

\* The service answers the call of a request: it refused the token, or took it.
Refused(r) == Runs /\ req[r].at = "sent" /\ req[r].token # accepted
Taken(r)   == Runs /\ req[r].at = "sent" /\ req[r].token = accepted
Answered(r) == Runs /\ req[r].at = "sent"

\* Session::authenticate: connect the request to the outcome, and start an
\* Authenticator if none is at work.  m_authMutex is not recursive and is
\* held while a message box of testConnection is open.
Authenticate(r) ==
    IF box # "none"
    THEN /\ program' = "deadlocked"
         /\ UNCHANGED <<req, auth>>
    ELSE /\ req' = [req EXCEPT ![r] = Waiting]
         /\ auth' = IF auth = "none" THEN "password" ELSE auth
         /\ UNCHANGED program

\* Request::finished with an "Invalid Token" fault.
TokenRefused(r) ==
    /\ Refused(r)
    /\ Authenticate(r)
    /\ UNCHANGED <<prompts, token, accepted, box>>

\* QueueUit::testConnection asks for credentials without any request.  The
\* button is out of reach while the message box of an earlier test is open.
StartTest ==
    /\ Runs /\ box = "none" /\ req[TestConnection] = Absent
    /\ Authenticate(TestConnection)
    /\ UNCHANGED <<prompts, token, accepted, box>>

\* The service stops accepting the token.
Expire ==
    /\ Runs /\ token < MaxTokens /\ accepted # NoToken
    /\ accepted' = NoToken
    /\ UNCHANGED <<req, auth, prompts, token, box, program>>

-----------------------------------------------------------------------------
(* The dialog.                                                             *)

\* CredentialsDialog::accept hides the dialog after `entered` was handled:
\* a next question shown meanwhile is hidden with it, and one that nothing
\* listens to leaves nobody waiting for an answer.
Enter ==
    /\ Runs /\ box = "none"
    /\ \/ auth = "password" /\ auth' = "kerberos" /\ UNCHANGED prompts
       \/ auth = "deaf" /\ auth' = "lost" /\ UNCHANGED prompts
       \/ auth = "prompt" /\ prompts' = prompts - 1
          /\ auth' = IF prompts = 1 THEN "cont" ELSE "lost"
    /\ UNCHANGED <<req, token, accepted, box, program>>

Shown == auth \in {"password", "deaf", "prompt"}

\* Escape closes the dialog; only the Cancel button emits canceled().
Escape ==
    /\ Runs /\ box = "none" /\ Shown
    /\ auth' = "lost"
    /\ UNCHANGED <<req, prompts, token, accepted, box, program>>

-----------------------------------------------------------------------------
(* The outcome of a login, as far as the session goes.  `heard` are the    *)
(* requests whose slots have run when the slot of testConnection opens its *)
(* message box; the others are told when it is closed.                     *)

Heard == IF TestConnection \in Waiters
         THEN {W \in SUBSET Waiters : TestConnection \in W} ELSE {Waiters}

\* disconnect() when a login fails, without and with a call to every waiter.
NobodyTold(W) == {}                                              \* variant
AllTold(W) == W
Told(W) == AllTold(W)

\* The message box is opened with the outcome it reports.
BoxAfter(W, outcome) == IF TestConnection \in W THEN outcome ELSE "none"

\* The waiters in W submit again, with the token of this very step.
Resubmitted(W, tok) ==
    [r \in Requests |->
        CASE r \in W /\ r = TestConnection -> Absent
          [] r \in W                       -> [at |-> "sent", token |-> tok]
          [] OTHER                         -> req[r]]

\* Session::authenticationCompleteInternal.
NextToken == IF token < MaxTokens THEN token + 1 ELSE token
AuthenticationComplete ==
    /\ \E W \in Heard :
         /\ req' = Resubmitted(W, NextToken)
         /\ box' = BoxAfter(W, "complete")
    /\ token' = NextToken /\ accepted' = NextToken
    /\ auth' = "none" /\ prompts' = 0
    /\ UNCHANGED program

\* The part of authenticationErrorInternal and authenticationCanceledInternal
\* that concerns the session; W hears the error.
AuthenticationError(W) ==
    /\ auth' = "none" /\ prompts' = 0
    /\ box' = BoxAfter(W, "error")
    /\ UNCHANGED <<token, accepted, program>>

\* The message box is closed: the rest of the emission.
CloseCompleteBox ==
    /\ Runs /\ box = "complete"
    /\ req' = Resubmitted(Waiters, token)
    /\ box' = "none"
    /\ UNCHANGED <<auth, prompts, token, accepted, program>>

\* What the service may answer to a login, and the valid ones as they are read.
LoginReplies ==
    [success : {"true", "false"}, error__message : {"", "text"},
     has__prompts : {"true", "false"}, prompts : 0 .. MaxPrompts]
LoginResponses ==
    {r \in {AuthenticateResponse(xml) : xml \in LoginReplies \cup {NotXml}} : r.valid}

\* AuthResponseProcessor: the first of n questions is shown; when there is
\* none the answers are sent at once.
ShowPrompts(n) ==
    /\ prompts' = n
    /\ auth' = IF n = 0 THEN "cont" ELSE "prompt"
    /\ UNCHANGED <<req, token, accepted, box, program>>
AskAgain ==
    /\ auth' = "password"
    /\ UNCHANGED <<req, prompts, token, accepted, box, program>>

\* Authenticator::authenticateResponse of one of the responses R, all valid.
Proceed(R) ==
    LET last == {r \in R : ~r.hasPrompts} IN
    \/ \E n \in {r.prompts : r \in R \ last} : ShowPrompts(n)
    \/ {r \in last : r.success} # {} /\ AuthenticationComplete
    \/ {r \in last : ~r.success /\ r.errorMessage # ""} # {} /\ AskAgain

\* Authenticator::authenticateKerberosResponse goes on only when the response
\* has an error message; without one the dialog is shown again, its `entered`
\* disconnected.
Silent == {r \in LoginResponses : r.errorMessage = ""}
KerberosResponse ==
    /\ Runs /\ auth = "kerberos"
    /\ \/ /\ Silent # {} /\ auth' = "deaf"
          /\ UNCHANGED <<req, prompts, token, accepted, box, program>>
       \/ Proceed(LoginResponses \ Silent)

\* Authenticator::authenticateResponse after the answers to the prompts.
ContResponse ==
    /\ Runs /\ auth = "cont"
    /\ Proceed(LoginResponses)

\* What makes the session give the login up: a fault, an invalid response, a
\* failure that says nothing, and the Cancel button.
LoginFails ==
    Runs /\ auth \in {"kerberos", "cont"}
LoginCanceled ==
    Runs /\ box = "none" /\ Shown

SessionStep ==
    \/ \E r \in Requests : TokenRefused(r)
    \/ StartTest
    \/ Expire
    \/ Enter
    \/ Escape
    \/ CloseCompleteBox
    \/ KerberosResponse
    \/ ContResponse
==============================================================================
