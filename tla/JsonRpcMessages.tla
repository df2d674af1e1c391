---------------------------- MODULE JsonRpcMessages ----------------------------
(***************************************************************************)
(* What Message makes of a JSON object and a JSON object of a message, what *)
(* JsonRpc and Server answer to it, and what the client library reads from  *)
(* the answer.  A JSON object is a function from the names of its members;  *)
(* a value is a pair of its type and what matters of its content.           *)
(***************************************************************************)
EXTENDS Integers, Sequences, FiniteSets

Flat == INSTANCE SequencesExt

JsonNull == <<"null", 0>>
Str(s) == <<"string", s>>
Num(n) == <<"double", n>>
Fraction == <<"fraction", 0>>     \* a number that is not integral
Obj(o) == <<"object", o>>
Arr(a) == <<"array", a>>
IsString(v) == v[1] = "string"

\* QJsonObject::value: a member that is missing is Undefined.
Undefined == <<"undefined", 0>>
Value(o, k) == IF k \in DOMAIN o THEN o[k] ELSE Undefined
Contains(o, k) == k \in DOMAIN o

\* Joined members; what is on the left wins.
Members(f, g) == [k \in DOMAIN f \cup DOMAIN g |-> IF k \in DOMAIN f THEN f[k] ELSE g[k]]

\* The codes of the errors that are sent.
InvalidRequestCode == -32600
MethodNotFoundCode == -32601
InvalidParamsCode  == -32602
ServerErrorCode    == -32000

\* A message; the members that its type does not use have these values.
Blank == [type |-> "Invalid", method |-> "", params |-> JsonNull, result |-> JsonNull,
          code |-> 0, message |-> "", data |-> JsonNull, id |-> JsonNull]
Request(m, p, i)   == [Blank EXCEPT !.type = "Request", !.method = m,
                                    !.params = p, !.id = i]
Notification(m, p) == [Blank EXCEPT !.type = "Notification", !.method = m,
                                    !.params = p]
Response(m, r, i)  == [Blank EXCEPT !.type = "Response", !.method = m,
                                    !.result = r, !.id = i]
Error(c, t, d, i)  == [Blank EXCEPT !.type = "Error", !.code = c,
                                    !.message = t, !.data = d, !.id = i]
ErrorFor(m, c, t, d, i) == [Error(c, t, d, i) EXCEPT !.method = m]

-----------------------------------------------------------------------------
(* Message::toJsonObject.                                                  *)

ObjectParams(m) == IF m.params = Obj("some") THEN [params |-> m.params] ELSE <<>>
Params(m) == IF m.params \in {Obj("some"), Arr("some")}
             THEN [params |-> m.params] ELSE <<>>

Head2 == [jsonrpc |-> Str("2.0")]
ErrorObject(m) ==
    Members([code |-> Num(m.code), message |-> Str(m.message)],
            IF m.data # JsonNull THEN [data |-> m.data] ELSE <<>>)

ToJsonObject(m) ==
    CASE m.type = "Request" ->
           Members(Members(Head2, [method |-> Str(m.method), id |-> m.id]), Params(m))
      [] m.type = "Notification" ->
           Members(Members(Head2, [method |-> Str(m.method)]), Params(m))
      [] m.type = "Response" ->
           Members(Head2, [result |-> m.result, id |-> m.id])
      [] m.type = "Error" ->
           Members(Head2, [error |-> Obj(ErrorObject(m)), id |-> m.id])

-----------------------------------------------------------------------------
(* Message::parse.                                                         *)

\* An error reply to a message that is still raw: its id has not been read.
InvalidRequest == Error(InvalidRequestCode, "Invalid request", Obj("some"), JsonNull)

WellFormed(o) ==
    /\ Contains(o, "jsonrpc") /\ o["jsonrpc"] = Str("2.0")
    /\ Contains(o, "id") \/ Contains(o, "method")
    /\ Contains(o, "method") => IsString(o["method"])

InterpretRequest(o) ==
    Request(o["method"][2], IF Contains(o, "params") THEN o["params"] ELSE JsonNull,
            o["id"])
RequestFits(o) ==
    /\ Contains(o, "method") /\ Contains(o, "id")
    /\ Contains(o, "params") => o["params"][1] \in {"array", "object"}

InterpretNotification(o) ==
    Notification(o["method"][2], IF Contains(o, "params") THEN o["params"] ELSE JsonNull)

\* interpretError: an error member that is malformed becomes a server error.
ErrorFits(e) ==
    /\ Contains(e, "code") /\ e["code"][1] = "double"
    /\ Contains(e, "message") /\ IsString(e["message"])
InterpretError(o, method) ==
    LET v == o["error"]
        m == IF v[1] = "object" /\ ErrorFits(v[2])
             THEN Error(v[2]["code"][2], v[2]["message"][2],
                        IF Contains(v[2], "data") THEN v[2]["data"] ELSE JsonNull,
                        Value(o, "id"))
             ELSE Error(ServerErrorCode, "Server error", Obj("some"), Value(o, "id"))
    IN [m EXCEPT !.method = method]

\* The message, or the error to send.  A response or an error has the method
\* that MessageIdManager has kept for its id.
Parse(o, kept) ==
    LET method == IF Contains(o, "method") THEN o["method"][2] ELSE kept IN
    CASE ~WellFormed(o)        -> [ok |-> FALSE, is |-> InvalidRequest]
      [] WellFormed(o) /\ Contains(o, "result") ->
           [ok |-> TRUE, is |-> Response(method, o["result"], Value(o, "id"))]
      [] WellFormed(o) /\ ~Contains(o, "result") /\ Contains(o, "error") ->
           [ok |-> TRUE, is |-> InterpretError(o, method)]
      [] WellFormed(o) /\ ~Contains(o, "result") /\ ~Contains(o, "error")
           /\ ~Contains(o, "id") ->
           [ok |-> TRUE, is |-> InterpretNotification(o)]
      [] OTHER -> IF RequestFits(o) THEN [ok |-> TRUE, is |-> InterpretRequest(o)]
                  ELSE [ok |-> FALSE, is |-> InvalidRequest]

-----------------------------------------------------------------------------
(* What is sent in return.                                                 *)

\* checkType: the members that a message has by its type.  A setter of another
\* member does nothing.
MembersOf(type) ==
    CASE type = "Request"      -> {"method", "params", "id"}
      [] type = "Notification" -> {"method", "params"}
      [] type = "Response"     -> {"method", "result", "id"}
      [] type = "Error"        -> {"method", "code", "message", "data", "id"}
      [] OTHER                 -> {}
Set(m, member, v) == IF member \in MembersOf(m.type) THEN [m EXCEPT ![member] = v]
                                                     ELSE m

\* generateResponse and generateErrorResponse, which take over method and id,
\* and what the handlers then set.
ReplyTo(m, type) == [Blank EXCEPT !.type = type, !.method = m.method, !.id = m.id]
GenerateResponse(m, r) ==
    IF m.type = "Request" THEN Set(ReplyTo(m, "Response"), "result", r) ELSE Blank
GenerateErrorResponse(m, c, t) ==
    Set(Set(Set(ReplyTo(m, "Error"), "code", c), "message", t), "data", Obj("some"))

\* Server::handleRequest: each handler sends a result or an error.
KnownMethods == {"listQueues", "submitJob", "cancelJob", "lookupJob",
                 "registerOpenWith", "listOpenWithNames", "unregisterOpenWith",
                 "rpcKill"}
HandleRequest(m) ==
    IF m.method \in KnownMethods
    THEN {GenerateResponse(m, Obj("some")),
          GenerateErrorResponse(m, InvalidParamsCode, "Invalid params")}
    ELSE {GenerateErrorResponse(m, MethodNotFoundCode, "Method not found")}

\* Server::handleMessage, which answers requests only.
HandleMessage(m) == IF m.type = "Request" THEN HandleRequest(m) ELSE {}

\* JsonRpc::handleJsonValue for an object: what may be sent for it.
Replies(o) ==
    LET p == Parse(o, "") IN
    CASE ~p.ok -> {p.is}
      [] p.ok /\ p.is.type = "Request" /\ p.is.method = "internalPing" ->
           {GenerateResponse(p.is, Str("pong"))}
      [] OTHER -> HandleMessage(p.is)

\* JsonRpc::handleJsonValue for any document: an array is a batch of values, which
\* may be arrays again; those that are none are answered one by one, in order.
\* What is not an object is not a request.
NestingLimit == 1024     \* QJsonDocument::fromJson reads no deeper document
Unnested(values) ==
    Flat!FlattenSeq([i \in DOMAIN values |->
        IF values[i][1] = "array" THEN values[i][2] ELSE <<values[i]>>])
Leaves(v) ==
    LET at[d \in 0..NestingLimit] == IF d = 0 THEN <<v>> ELSE Unnested(at[d - 1])
        Flattened(d) == \A i \in DOMAIN at[d] : at[d][i][1] # "array"
    IN at[CHOOSE d \in 0..NestingLimit : Flattened(d)]
NotAnObject == Error(InvalidRequestCode, "Invalid Request", JsonNull, JsonNull)
RepliesTo(v) ==
    [i \in DOMAIN Leaves(v) |->
        IF Leaves(v)[i][1] = "object" THEN Replies(Leaves(v)[i][2]) ELSE {NotAnObject}]

\* JsonRpcClient::readPacket: the signals the client library emits for an
\* object.  root["x"] is JsonNull for a member that is missing.
Get(o, k) == IF k \in DOMAIN o THEN o[k] ELSE JsonNull
ReadPacket(o) ==
    (IF Get(o, "method") = JsonNull THEN {}
     ELSE IF Get(o, "id") # JsonNull THEN {"badPacketReceived"}
     ELSE {"notificationReceived"})
    \cup (IF Get(o, "result") # JsonNull THEN {"resultReceived"}
          ELSE IF Get(o, "error") # JsonNull THEN {"errorReceived"} ELSE {})

-----------------------------------------------------------------------------
(* The inputs of the checks.                                               *)

Optional(k, S) == {<<>>} \cup {[x \in {k} |-> v] : v \in S}
Ids == {JsonNull, Num(1), Str("one")}
ErrorMembers ==
    {Members(c, m) : c \in Optional("code", {Num(7), Fraction, Str("7")}),
                     m \in Optional("message", {Str("text"), Num(1)})}
Objects ==
    {Members(Members(Members(v, i), Members(m, p)), r) :
        v \in Optional("jsonrpc", {Str("2.0"), Str("1.0"), Num(2)}),
        i \in Optional("id", Ids),
        m \in Optional("method", {Str("submitJob"), Str("internalPing"), Str("x"), Num(1)}),
        p \in Optional("params", {Obj("empty"), Obj("some"), Arr("some"), Str("x")}),
        r \in {<<>>} \cup {[result |-> v] : v \in {JsonNull, Obj("some")}}
              \cup {[error |-> v] : v \in {Str("x")} \cup {Obj(e) : e \in ErrorMembers}}}

\* What the server and its clients send.
Parameters == {JsonNull, Obj("empty"), Obj("some"), Arr("some")}
Texts == {"", "text"}
Sent ==
    {Request(m, p, i) : m \in {"submitJob", "x"}, p \in Parameters, i \in Ids}
    \cup {Notification("jobStateChanged", p) : p \in Parameters}
    \cup {Response("submitJob", r, i) : r \in {Obj("some"), Str("pong")}, i \in Ids}
    \cup {ErrorFor("submitJob", c, t, d, i) :
            c \in {-32700, 0}, t \in Texts, d \in {JsonNull, Obj("some")}, i \in Ids}

-----------------------------------------------------------------------------
(* Properties.                                                             *)

\* What one side sends the other reads as the same message, but for empty
\* params, which are not sent (toJsonObject, parse).
Normal(m) == IF m.params = Obj("empty") THEN [m EXCEPT !.params = JsonNull] ELSE m
SurvivesTheWire ==
    \A m \in Sent : Parse(ToJsonObject(m), m.method) = [ok |-> TRUE, is |-> Normal(m)]

\* Two peers never answer each other's answers: whatever is received, what is
\* sent for it, alone or in a batch, is answered by nothing ("Results, errors,
\* and notifications cannot return errors", Message::parse).
AnswersEndIt ==
    \A o \in Objects :
        \A r \in Replies(o) \cup {NotAnObject} : Replies(ToJsonObject(r)) = {}

\* A request that can be read is answered with its own id, and the client
\* library takes the answer for a result or an error, and for nothing else.
AnswerIsUnderstood ==
    \A o \in Objects :
        LET p == Parse(o, "") IN
        p.ok /\ p.is.type = "Request" =>
            /\ Replies(o) # {}
            /\ \A r \in Replies(o) :
                 /\ r.id = o["id"]
                 /\ ReadPacket(ToJsonObject(r)) \in {{"resultReceived"}, {"errorReceived"}}
==============================================================================
