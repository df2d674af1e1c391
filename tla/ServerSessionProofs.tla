-------------------------- MODULE ServerSessionProofs --------------------------
(***************************************************************************)
(* The safety of the server towards its clients for any clients, addresses,*)
(* jobs and requests.                                                      *)
(*                                                                         *)
(* What a connection carries is a sequence for each direction, and what    *)
(* must hold of it is said of sequences: Answered of the requests under    *)
(* way and their replies, Chained and Introduced of the notifications      *)
(* about a job.  The lemmas of the first part say what one more packet and *)
(* one packet less do to them; the actions then only say what they send    *)
(* and what they read.                                                     *)
(***************************************************************************)
EXTENDS ServerSession, SequenceTheorems, FiniteSetTheorems, TLAPS

-----------------------------------------------------------------------------
(* The inductive invariant.                                                *)

IsReply(p) == p.type # "notification"

\* The requests `asked` that are still to be read and the replies in `said`
\* are about the requests that wait, each about one of its own.
Answered(asked, said, waits) ==
    /\ \A i, k \in DOMAIN asked : asked[i].id = asked[k].id => i = k
    /\ \A i, k \in DOMAIN said :
         IsReply(said[i]) /\ IsReply(said[k]) /\ said[i].id = said[k].id => i = k
    /\ \A i \in DOMAIN asked, k \in DOMAIN said :
         IsReply(said[k]) => asked[i].id # said[k].id
    /\ \A r \in RequestIds :
         waits[r] = "waiting" <=>
           \/ \E i \in DOMAIN asked : asked[i].id = r
           \/ \E k \in DOMAIN said : IsReply(said[k]) /\ said[k].id = r

\* The reply that gives a client the id of job j; f is its m_requests.
Gives(f, p, j) == p.type = "result" /\ p.job = j /\ f[p.id] = "submitJob"

\* Before a client knows the id of j, only what follows that reply is about j.
Introduced(s, f, j) ==
    \A i \in DOMAIN s : s[i].type = "notification" /\ s[i].job = j =>
        \E k \in 1 .. i - 1 : Gives(f, s[k], j)
Awaited(s, f, j) == \E k \in DOMAIN s : Gives(f, s[k], j)

\* A request that is under way is one its client has made.
RequestOK(a, q) ==
    LET c == peer[a] IN
    /\ q = Garbage => ~whole[a]
    /\ q # Garbage =>
         /\ q \in Request
         /\ q.id < m_packetCounter[c] /\ m_requests[c][q.id] = q.method
         /\ q.method \in {"lookupJob", "cancelJob"} => q.job \in Ids

\* So is the one a reply is for, and what is said of a job is said of one
\* that was submitted, a notification to the client that did.
PacketOK(a, p) ==
    LET c == peer[a] IN
    /\ p.type = "notification" =>
         /\ p.job \in Ids /\ p.id = Null
         /\ p.old \in JobState /\ p.new \in JobState
         /\ submitter[p.job] = c
    /\ p.type = "result" =>
         /\ p.id \in RequestIds /\ p.id < m_packetCounter[c]
         /\ m_requests[c][p.id] = "lookupJob" =>
              p.job \in Ids /\ p.new \in JobState /\ p.old = p.new
         /\ m_requests[c][p.id] # "lookupJob" => p.new = Null
    /\ p.type = "error" =>
         /\ p.job = Null /\ p.new = Null
         /\ p.id = Null => ~whole[a]
         /\ p.id # Null => p.id < m_packetCounter[c]
    /\ p.new # Null => p.job \in Ids /\ submitter[p.job] # Null

Wire(a) ==
    /\ end[a] = "none" => toServer[a] = <<>>
    /\ ~open[a] => toClient[a] = <<>>
    /\ end[a] # "none" \/ open[a] => peer[a] \in Clients
    /\ \A i \in DOMAIN toServer[a] : RequestOK(a, toServer[a][i])
    /\ \A i \in DOMAIN toClient[a] : PacketOK(a, toClient[a][i])

\* A client has one open connection; only on one does a request wait.
OneOpen ==
    \A a, b \in Connections : open[a] /\ open[b] /\ peer[a] = peer[b] => a = b
WaitsOpen ==
    \A c \in Clients, r \in RequestIds : outcome[c][r] = "waiting" =>
        \E a \in Connections : open[a] /\ peer[a] = c
Exact(a) ==
    open[a] /\ whole[a] => Answered(toServer[a], toClient[a], outcome[peer[a]])

\* A server that is not running has no connections.
Process ==
    /\ listening => running
    /\ ~running => /\ \A a \in Connections : end[a] = "none"
                   /\ \A j \in Ids : m_connectionLUT[j] = Null
    /\ running => m_moleQueueIdCounter = savedCounter

Recorded(j) ==
    /\ submitter[j] = Null => /\ jobState[j] = NotCreated
                              /\ savedState[j] = NotCreated
                              /\ told[j] = NoId
                              /\ m_connectionLUT[j] = Null
    /\ submitter[j] # Null => /\ j =< savedCounter
                              /\ savedState[j] # NotCreated
                              /\ running => jobState[j] # NotCreated

Routed(j) ==
    LET a == m_connectionLUT[j] IN
    /\ a # Null => /\ end[a] = "open" /\ peer[a] = submitter[j]
                   /\ jobState[j] \in JobState
    /\ a # Null /\ open[a] =>
         /\ Chained(toClient[a], j, told[j], jobState[j])
         /\ told[j] = NoId => Awaited(toClient[a], m_requests[peer[a]], j)

Prepared(a, j) ==
    open[a] /\ told[j] = NoId => Introduced(toClient[a], m_requests[peer[a]], j)

SInv ==
    /\ TypeOK /\ Process /\ OneOpen /\ WaitsOpen
    /\ \A a \in Connections : Wire(a) /\ Exact(a)
    /\ \A j \in Ids : Recorded(j) /\ Routed(j)
    /\ \A a \in Connections, j \in Ids : Prepared(a, j)

-----------------------------------------------------------------------------
(* One packet more, one packet less.                                       *)

LEMMA Joined ==
    ASSUME NEW S, NEW s \in Seq(S), NEW u \in Seq(S)
    PROVE  /\ s \o u \in Seq(S) /\ Len(s) \in Nat /\ Len(u) \in Nat
           /\ DOMAIN s = 1 .. Len(s) /\ DOMAIN u = 1 .. Len(u)
           /\ DOMAIN (s \o u) = 1 .. Len(s) + Len(u)
           /\ \A i \in DOMAIN s : (s \o u)[i] = s[i]
           /\ \A i \in DOMAIN u : (s \o u)[Len(s) + i] = u[i]
           /\ \A i \in DOMAIN (s \o u) :
                i \in DOMAIN s \/ (i - Len(s) \in DOMAIN u /\ i \notin DOMAIN s
                                   /\ (s \o u)[i] = u[i - Len(s)])
<1>1. /\ Len(s) \in Nat /\ Len(u) \in Nat
      /\ DOMAIN s = 1 .. Len(s) /\ DOMAIN u = 1 .. Len(u)
  BY LenProperties
<1>2. /\ s \o u \in Seq(S) /\ Len(s \o u) = Len(s) + Len(u)
      /\ \A i \in 1 .. Len(s) + Len(u) :
           (s \o u)[i] = IF i <= Len(s) THEN s[i] ELSE u[i - Len(s)]
  BY ConcatProperties
<1>3. DOMAIN (s \o u) = 1 .. Len(s) + Len(u)
  BY <1>2, LenProperties
<1> QED BY <1>1, <1>2, <1>3

LEMMA Shortened ==
    ASSUME NEW S, NEW s \in Seq(S), s # <<>>
    PROVE  /\ Tail(s) \in Seq(S) /\ Len(s) \in Nat \ {0}
           /\ DOMAIN s = 1 .. Len(s) /\ DOMAIN Tail(s) = 1 .. Len(s) - 1
           /\ Head(s) = s[1] /\ s[1] \in S
           /\ \A i \in DOMAIN Tail(s) : i + 1 \in DOMAIN s /\ Tail(s)[i] = s[i + 1]
           /\ \A i \in DOMAIN s : i # 1 => i - 1 \in DOMAIN Tail(s)
                                          /\ Tail(s)[i - 1] = s[i]
<1>1. /\ Tail(s) \in Seq(S) /\ Len(Tail(s)) = Len(s) - 1
      /\ \A i \in 1 .. Len(Tail(s)) : Tail(s)[i] = s[i + 1]
      /\ Head(s) \in S
  BY HeadTailProperties
<1>2. Len(s) \in Nat \ {0} /\ DOMAIN s = 1 .. Len(s)
  BY EmptySeq, LenProperties
<1>3. DOMAIN Tail(s) = 1 .. Len(s) - 1
  BY <1>1, LenProperties
<1>4. Head(s) = s[1]
  OBVIOUS
<1> QED BY <1>1, <1>2, <1>3, <1>4

LEMMA Cut ==
    ASSUME NEW S, NEW s \in Seq(S), NEW n \in 0 .. Len(s)
    PROVE  /\ SubSeq(s, 1, n) \in Seq(S)
           /\ DOMAIN SubSeq(s, 1, n) = 1 .. n /\ 1 .. n \subseteq DOMAIN s
           /\ \A i \in 1 .. n : SubSeq(s, 1, n)[i] = s[i]
<1>1. Len(s) \in Nat /\ DOMAIN s = 1 .. Len(s) /\ \A i \in 1 .. Len(s) : s[i] \in S
  BY LenProperties, ElementOfSeq
<1>2. /\ SubSeq(s, 1, n) \in Seq(S)
      /\ Len(SubSeq(s, 1, n)) = IF 1 <= n THEN n - 1 + 1 ELSE 0
      /\ \A i \in 1 .. n - 1 + 1 : SubSeq(s, 1, n)[i] = s[1 + i - 1]
  BY <1>1, SubSeqProperties
<1>3. DOMAIN SubSeq(s, 1, n) = 1 .. n
  BY <1>2, LenProperties
<1> QED BY <1>1, <1>2, <1>3

LEMMA ChainedMore ==
    ASSUME NEW S, NEW s \in Seq(S), NEW u \in Seq(S), NEW j, NEW known,
           NEW last, NEW now, Chained(s, j, known, last),
           \/ About(u, j) = {} /\ now = last
           \/ \E m \in DOMAIN u :
                About(u, j) = {m} /\ u[m].old = last /\ u[m].new = now
    PROVE  Chained(s \o u, j, known, now)
<1>1. CASE About(u, j) = {} /\ now = last
  <2>1. About(s \o u, j) = About(s, j)
    BY <1>1, Joined DEF About
  <2>2. \A i \in About(s, j) : (s \o u)[i] = s[i]
    BY Joined DEF About
  <2> QED BY <1>1, <2>1, <2>2 DEF Chained
<1>2. ASSUME NEW m \in DOMAIN u,
             About(u, j) = {m}, u[m].old = last, u[m].new = now
      PROVE  Chained(s \o u, j, known, now)
  <2> DEFINE n == Len(s) + m
             at == About(s, j)
  <2>1. /\ n \in Nat /\ (s \o u)[n] = u[m]
        /\ \A i \in at : i \in Nat /\ i < n /\ (s \o u)[i] = s[i]
    BY Joined DEF About
  <2>2. About(s \o u, j) = at \cup {n}
    <3>1. n \in About(s \o u, j)
      BY <1>2, Joined DEF About
    <3>2. at \subseteq About(s \o u, j)
      BY Joined DEF About
    <3>3. About(s \o u, j) \subseteq at \cup {n}
      BY <1>2, Joined DEF About
    <3> QED BY <3>1, <3>2, <3>3
  <2> HIDE DEF n, at
  <2>3. /\ \A i, k \in at :
             i < k /\ (\A l \in at : l =< i \/ k =< l) => s[i].new = s[k].old
        /\ \A i \in at : (\A l \in at : l =< i) => s[i].new = last
        /\ known \in JobState => IF at = {} THEN known = last
             ELSE \A i \in at : (\A l \in at : i =< l) => s[i].old = known
    BY DEF Chained, at
  <2>4. ASSUME NEW i \in at \cup {n}, NEW k \in at \cup {n}, i < k,
               \A l \in at \cup {n} : l =< i \/ k =< l
        PROVE  (s \o u)[i].new = (s \o u)[k].old
    <3>1. i \in at
      <4>1. i # n
        BY <2>1, <2>4
      <4> QED BY <4>1
    <3>2. CASE k \in at
      <4>1. s[i].new = s[k].old
        BY <2>3, <2>4, <3>1, <3>2
      <4> QED BY <2>1, <3>1, <3>2, <4>1
    <3>3. CASE k = n
      <4>1. \A l \in at : l =< i
        BY <2>1, <2>4, <3>3
      <4>2. s[i].new = last
        BY <2>3, <3>1, <4>1
      <4> QED BY <1>2, <2>1, <3>1, <3>3, <4>2
    <3> QED BY <3>2, <3>3
  <2>5. ASSUME NEW i \in at \cup {n}, \A l \in at \cup {n} : l =< i
        PROVE  (s \o u)[i].new = now
    <3>1. i = n
      <4>1. n =< i
        BY <2>5
      <4> QED BY <2>1, <4>1
    <3> QED BY <1>2, <2>1, <3>1
  <2>6. ASSUME known \in JobState, NEW i \in at \cup {n},
               \A l \in at \cup {n} : i =< l
        PROVE  (s \o u)[i].old = known
    <3>1. CASE i = n
      <4>1. at = {}
        BY <2>1, <2>6, <3>1
      <4>2. known = last
        BY <2>3, <2>6, <4>1
      <4> QED BY <1>2, <2>1, <3>1, <4>2
    <3>2. CASE i \in at
      <4>1. s[i].old = known
        BY <2>3, <2>6, <3>2
      <4> QED BY <2>1, <3>2, <4>1
    <3> QED BY <3>1, <3>2
  <2> QED BY <2>2, <2>4, <2>5, <2>6 DEF Chained
<1> QED BY <1>1, <1>2

LEMMA ChainedLess ==
    ASSUME NEW S, NEW s \in Seq(S), s # <<>>, NEW j, NEW known, NEW last,
           Chained(s, j, known, last)
    PROVE  /\ 1 \notin About(s, j) => Chained(Tail(s), j, known, last)
           /\ 1 \in About(s, j) => Chained(Tail(s), j, s[1].new, last)
<1> DEFINE at == About(s, j)
           rest == About(Tail(s), j)
<1>1. /\ \A i \in rest : i \in Nat \ {0} /\ i + 1 \in at /\ Tail(s)[i] = s[i + 1]
      /\ \A i \in at : i \in Nat \ {0} /\ (i # 1 => i - 1 \in rest)
  BY Shortened DEF About
<1>2. /\ \A i, k \in at :
           i < k /\ (\A m \in at : m =< i \/ k =< m) => s[i].new = s[k].old
      /\ \A i \in at : (\A m \in at : m =< i) => s[i].new = last
      /\ known \in JobState => IF at = {} THEN known = last
           ELSE \A i \in at : (\A m \in at : i =< m) => s[i].old = known
  BY DEF Chained
<1> HIDE DEF at, rest
<1>3. ASSUME NEW i \in rest, NEW k \in rest, i < k,
             \A m \in rest : m =< i \/ k =< m
      PROVE  Tail(s)[i].new = Tail(s)[k].old
  <2>1. ASSUME NEW m \in at
        PROVE  m =< i + 1 \/ k + 1 =< m
    <3>1. CASE m = 1
      BY <1>1, <3>1
    <3>2. CASE m # 1
      <4>1. m - 1 \in rest
        BY <1>1, <3>2
      <4>2. m - 1 =< i \/ k =< m - 1
        BY <1>3, <4>1
      <4> QED BY <1>1, <4>2
    <3> QED BY <3>1, <3>2
  <2>2. i + 1 < k + 1 /\ i + 1 \in at /\ k + 1 \in at
    BY <1>1, <1>3
  <2>3. s[i + 1].new = s[k + 1].old
    BY <1>2, <2>1, <2>2
  <2> QED BY <1>1, <2>3
<1>4. ASSUME NEW i \in rest, \A m \in rest : m =< i
      PROVE  Tail(s)[i].new = last
  <2>1. \A m \in at : m =< i + 1
    BY <1>1, <1>4
  <2> QED BY <1>1, <1>2, <2>1
<1>5. ASSUME 1 \notin at, known \in JobState
      PROVE  IF rest = {} THEN known = last
             ELSE \A i \in rest : (\A m \in rest : i =< m) =>
                    Tail(s)[i].old = known
  <2>1. CASE rest = {}
    BY <1>1, <1>2, <1>5, <2>1
  <2>2. ASSUME NEW i \in rest, \A m \in rest : i =< m
        PROVE  Tail(s)[i].old = known
    <3>1. \A m \in at : i + 1 =< m
      BY <1>1, <1>5, <2>2
    <3> QED BY <1>1, <1>2, <1>5, <3>1
  <2> QED BY <2>1, <2>2
<1>6. ASSUME 1 \in at
      PROVE  IF rest = {} THEN s[1].new = last
             ELSE \A i \in rest : (\A m \in rest : i =< m) =>
                    Tail(s)[i].old = s[1].new
  <2>1. CASE rest = {}
    <3>1. \A m \in at : m =< 1
      BY <1>1, <2>1
    <3> QED BY <1>2, <1>6, <2>1, <3>1
  <2>2. ASSUME NEW i \in rest, \A m \in rest : i =< m
        PROVE  Tail(s)[i].old = s[1].new
    <3>1. \A m \in at : m =< 1 \/ i + 1 =< m
      BY <1>1, <2>2
    <3>2. 1 < i + 1 /\ i + 1 \in at
      BY <1>1
    <3>3. s[1].new = s[i + 1].old
      BY <1>2, <1>6, <3>1, <3>2
    <3> QED BY <1>1, <3>3
  <2> QED BY <2>1, <2>2
<1> QED BY <1>3, <1>4, <1>5, <1>6 DEF Chained, at, rest

LEMMA ChainedOther ==
    ASSUME NEW s, NEW j, NEW known, NEW last, Chained(s, j, known, last),
           NEW k, k \notin JobState
    PROVE  Chained(s, j, k, last)
BY DEF Chained

LEMMA ChainedNone ==
    ASSUME NEW s, NEW j, NEW known, NEW last, About(s, j) = {},
           known \notin JobState
    PROVE  Chained(s, j, known, last)
BY DEF Chained

LEMMA IntroducedMore ==
    ASSUME NEW S, NEW s \in Seq(S), NEW u \in Seq(S), NEW f, NEW j,
           Introduced(s, f, j),
           \A i \in DOMAIN u : u[i].type = "notification" /\ u[i].job = j =>
             Awaited(s, f, j) \/ \E k \in 1 .. i - 1 : Gives(f, u[k], j)
    PROVE  Introduced(s \o u, f, j)
<1> SUFFICES ASSUME NEW i \in DOMAIN (s \o u),
                    (s \o u)[i].type = "notification", (s \o u)[i].job = j
             PROVE  \E k \in 1 .. i - 1 : Gives(f, (s \o u)[k], j)
  BY DEF Introduced
<1>1. CASE i \in DOMAIN s
  <2>1. PICK k \in 1 .. i - 1 : Gives(f, s[k], j)
    BY <1>1, Joined DEF Introduced
  <2>2. k \in DOMAIN s
    BY <1>1, <2>1, Joined
  <2> QED BY <2>1, <2>2, Joined
<1>2. CASE i \notin DOMAIN s
  <2> DEFINE m == i - Len(s)
  <2>1. m \in DOMAIN u /\ (s \o u)[i] = u[m] /\ i = Len(s) + m
    BY <1>2, Joined
  <2>2. CASE Awaited(s, f, j)
    <3>1. PICK k \in DOMAIN s : Gives(f, s[k], j)
      BY <2>2 DEF Awaited
    <3>2. k \in 1 .. i - 1 /\ (s \o u)[k] = s[k]
      BY <1>2, <3>1, Joined
    <3> QED BY <3>1, <3>2
  <2>3. ASSUME NEW k \in 1 .. m - 1, Gives(f, u[k], j)
        PROVE  \E l \in 1 .. i - 1 : Gives(f, (s \o u)[l], j)
    <3>1. k \in DOMAIN u /\ Len(s) + k \in 1 .. i - 1
      BY <2>1, <2>3, Joined
    <3>2. (s \o u)[Len(s) + k] = u[k]
      BY <3>1, Joined
    <3> QED BY <2>3, <3>1, <3>2
  <2> HIDE DEF m
  <2> QED BY <2>1, <2>2, <2>3
<1> QED BY <1>1, <1>2

LEMMA AwaitedMore ==
    ASSUME NEW S, NEW s \in Seq(S), NEW u \in Seq(S), NEW f, NEW j,
           Awaited(s, f, j) \/ Awaited(u, f, j)
    PROVE  Awaited(s \o u, f, j)
<1>1. ASSUME NEW k \in DOMAIN s, Gives(f, s[k], j)
      PROVE  Awaited(s \o u, f, j)
  BY <1>1, Joined DEF Awaited
<1>2. ASSUME NEW k \in DOMAIN u, Gives(f, u[k], j)
      PROVE  Awaited(s \o u, f, j)
  <2>1. Len(s) + k \in DOMAIN (s \o u) /\ (s \o u)[Len(s) + k] = u[k]
    BY Joined
  <2> QED BY <1>2, <2>1 DEF Awaited
<1> QED BY <1>1, <1>2 DEF Awaited

LEMMA IntroducedLess ==
    ASSUME NEW S, NEW s \in Seq(S), s # <<>>, NEW f, NEW j,
           ~Gives(f, s[1], j)
    PROVE  /\ Introduced(s, f, j) => Introduced(Tail(s), f, j)
           /\ Awaited(s, f, j) => Awaited(Tail(s), f, j)
<1>1. ASSUME Introduced(s, f, j), NEW i \in DOMAIN Tail(s),
             Tail(s)[i].type = "notification", Tail(s)[i].job = j
      PROVE  \E k \in 1 .. i - 1 : Gives(f, Tail(s)[k], j)
  <2>1. i + 1 \in DOMAIN s /\ Tail(s)[i] = s[i + 1] /\ i \in Nat
    BY Shortened
  <2>2. PICK k \in 1 .. i : Gives(f, s[k], j)
    BY <1>1, <2>1 DEF Introduced
  <2>3. k # 1 /\ k \in DOMAIN s
    BY <2>1, <2>2, Shortened
  <2>4. k - 1 \in 1 .. i - 1 /\ Tail(s)[k - 1] = s[k]
    BY <2>1, <2>3, Shortened
  <2> QED BY <2>2, <2>4
<1>2. ASSUME NEW k \in DOMAIN s, Gives(f, s[k], j)
      PROVE  Awaited(Tail(s), f, j)
  <2>1. k - 1 \in DOMAIN Tail(s) /\ Tail(s)[k - 1] = s[k]
    BY <1>2, Shortened
  <2> QED BY <1>2, <2>1 DEF Awaited
<1> QED BY <1>1, <1>2 DEF Introduced, Awaited

LEMMA IntroducedCut ==
    ASSUME NEW S, NEW s \in Seq(S), NEW n \in 0 .. Len(s), NEW f, NEW j,
           Introduced(s, f, j)
    PROVE  Introduced(SubSeq(s, 1, n), f, j)
<1> DEFINE t == SubSeq(s, 1, n)
<1>1. /\ DOMAIN t = 1 .. n /\ 1 .. n \subseteq DOMAIN s
      /\ \A i \in 1 .. n : t[i] = s[i]
  BY Cut
<1> HIDE DEF t
<1>2. ASSUME NEW i \in 1 .. n, t[i].type = "notification", t[i].job = j
      PROVE  \E k \in 1 .. i - 1 : Gives(f, t[k], j)
  <2>1. PICK k \in 1 .. i - 1 : Gives(f, s[k], j)
    BY <1>1, <1>2 DEF Introduced
  <2>2. k \in 1 .. n
    BY <2>1, LenProperties
  <2> QED BY <1>1, <2>1, <2>2
<1>3. Introduced(t, f, j)
  BY <1>1, <1>2 DEF Introduced
<1> QED BY <1>3 DEF t

\* Two tables of requests that agree on what a sequence names.
LEMMA IntroducedSame ==
    ASSUME NEW s, NEW f, NEW g, NEW j,
           \A i \in DOMAIN s : s[i].type = "result" => g[s[i].id] = f[s[i].id],
           \A i \in DOMAIN s : \A k \in 1 .. i - 1 : k \in DOMAIN s
    PROVE  /\ Introduced(s, f, j) => Introduced(s, g, j)
           /\ Awaited(s, f, j) => Awaited(s, g, j)
BY DEF Introduced, Awaited, Gives

LEMMA AnsweredServe ==
    ASSUME NEW A, NEW S, NEW asked \in Seq(A), NEW said \in Seq(S),
           NEW out \in Seq(S), NEW waits, asked # <<>>,
           Answered(asked, said, waits),
           NEW m \in DOMAIN out, \A i \in DOMAIN out : IsReply(out[i]) <=> i = m,
           out[m].id = asked[1].id
    PROVE  Answered(Tail(asked), said \o out, waits)
<1> DEFINE rest == Tail(asked)
           both == said \o out
           n    == Len(said) + m
<1>1. /\ 1 \in DOMAIN asked
      /\ \A i \in DOMAIN rest : i + 1 \in DOMAIN asked /\ i + 1 # 1
                                /\ rest[i] = asked[i + 1]
      /\ \A i \in DOMAIN asked : i # 1 => i - 1 \in DOMAIN rest
                                          /\ rest[i - 1] = asked[i]
      /\ \A i, k \in DOMAIN rest : i + 1 = k + 1 => i = k
  BY Shortened
<1>2. /\ n \in DOMAIN both /\ IsReply(both[n]) /\ both[n].id = asked[1].id
      /\ \A i \in DOMAIN both : IsReply(both[i]) /\ i # n =>
           i \in DOMAIN said /\ both[i] = said[i]
      /\ \A i \in DOMAIN said : i \in DOMAIN both /\ both[i] = said[i] /\ i # n
  <2>1. n \in DOMAIN both /\ both[n] = out[m] /\ n \notin DOMAIN said
    BY Joined
  <2>2. \A i \in DOMAIN said : i \in DOMAIN both /\ both[i] = said[i]
    BY Joined
  <2>3. ASSUME NEW i \in DOMAIN both, i \notin DOMAIN said, IsReply(both[i])
        PROVE  i = n
    <3>1. i - Len(said) \in DOMAIN out /\ both[i] = out[i - Len(said)]
      BY <2>3, Joined
    <3>2. i - Len(said) = m
      BY <2>3, <3>1
    <3> QED BY <3>1, <3>2, Joined
  <2> QED BY <2>1, <2>2, <2>3
<1> HIDE DEF rest, both, n
<1>3. \A i, k \in DOMAIN rest : rest[i].id = rest[k].id => i = k
  BY <1>1 DEF Answered
<1>4. \A i, k \in DOMAIN both :
        IsReply(both[i]) /\ IsReply(both[k]) /\ both[i].id = both[k].id => i = k
  BY <1>1, <1>2 DEF Answered
<1>5. \A i \in DOMAIN rest, k \in DOMAIN both :
        IsReply(both[k]) => rest[i].id # both[k].id
  BY <1>1, <1>2 DEF Answered
<1>6. ASSUME NEW r \in RequestIds
      PROVE  waits[r] = "waiting" <=>
               \/ \E i \in DOMAIN rest : rest[i].id = r
               \/ \E k \in DOMAIN both : IsReply(both[k]) /\ both[k].id = r
  <2>1. (\E i \in DOMAIN asked : asked[i].id = r) <=>
          asked[1].id = r \/ \E i \in DOMAIN rest : rest[i].id = r
    BY <1>1
  <2>2. (\E k \in DOMAIN both : IsReply(both[k]) /\ both[k].id = r) <=>
          asked[1].id = r \/ \E k \in DOMAIN said : IsReply(said[k]) /\ said[k].id = r
    BY <1>2
  <2> QED BY <2>1, <2>2 DEF Answered
<1> QED BY <1>3, <1>4, <1>5, <1>6 DEF Answered, rest, both

LEMMA AnsweredNotices ==
    ASSUME NEW S, NEW asked, NEW said \in Seq(S), NEW out \in Seq(S), NEW waits,
           Answered(asked, said, waits), \A i \in DOMAIN out : ~IsReply(out[i])
    PROVE  Answered(asked, said \o out, waits)
<1> DEFINE both == said \o out
<1>1. /\ \A i \in DOMAIN said : i \in DOMAIN both /\ both[i] = said[i]
      /\ \A i \in DOMAIN both : IsReply(both[i]) => i \in DOMAIN said
  <2>1. ASSUME NEW i \in DOMAIN both, i \notin DOMAIN said
        PROVE  ~IsReply(both[i])
    BY <2>1, Joined
  <2> QED BY <2>1, Joined
<1> HIDE DEF both
<1>2. Answered(asked, both, waits)
  BY <1>1 DEF Answered
<1> QED BY <1>2 DEF both

LEMMA AnsweredAsk ==
    ASSUME NEW A, NEW asked \in Seq(A), NEW q \in A, NEW said, NEW r \in RequestIds,
           NEW waits \in [RequestIds -> {"none", "waiting", "lost", "answered"}],
           Answered(asked, said, waits), q.id = r,
           \A i \in DOMAIN asked : asked[i].id # r,
           \A k \in DOMAIN said : IsReply(said[k]) => said[k].id # r
    PROVE  Answered(Append(asked, q), said, [waits EXCEPT ![r] = "waiting"])
<1> DEFINE more == Append(asked, q)
           now  == [waits EXCEPT ![r] = "waiting"]
           n    == Len(asked) + 1
<1>1. /\ n \in DOMAIN more /\ more[n] = q /\ n \notin DOMAIN asked
      /\ \A i \in DOMAIN asked : i \in DOMAIN more /\ more[i] = asked[i]
      /\ \A i \in DOMAIN more : i = n \/ i \in DOMAIN asked
  <2>1. Len(asked) \in Nat /\ DOMAIN asked = 1 .. Len(asked)
    BY LenProperties
  <2>2. /\ more \in Seq(A) /\ Len(more) = n /\ more[n] = q
        /\ \A i \in 1 .. Len(asked) : more[i] = asked[i]
    BY AppendProperties
  <2>3. DOMAIN more = 1 .. n
    BY <2>2, LenProperties
  <2> QED BY <2>1, <2>2, <2>3
<1>2. now[r] = "waiting" /\ \A x \in RequestIds : x # r => now[x] = waits[x]
  OBVIOUS
<1> HIDE DEF more, now, n
<1>3. ASSUME NEW x \in RequestIds
      PROVE  now[x] = "waiting" <=>
               \/ \E i \in DOMAIN more : more[i].id = x
               \/ \E k \in DOMAIN said : IsReply(said[k]) /\ said[k].id = x
  BY <1>1, <1>2 DEF Answered
<1>4. Answered(more, said, now)
  BY <1>1, <1>3 DEF Answered
<1> QED BY <1>4 DEF more, now

LEMMA AnsweredRead ==
    ASSUME NEW S, NEW asked, NEW said \in Seq(S), said # <<>>,
           NEW waits \in [RequestIds -> {"none", "waiting", "lost", "answered"}],
           Answered(asked, said, waits)
    PROVE  /\ ~IsReply(said[1]) => Answered(asked, Tail(said), waits)
           /\ IsReply(said[1]) =>
                Answered(asked, Tail(said), [waits EXCEPT ![said[1].id] = "answered"])
<1> DEFINE rest == Tail(said)
           now  == [waits EXCEPT ![said[1].id] = "answered"]
<1>1. /\ 1 \in DOMAIN said
      /\ \A i \in DOMAIN rest : i + 1 \in DOMAIN said /\ i + 1 # 1
                                /\ rest[i] = said[i + 1]
      /\ \A i \in DOMAIN said : i # 1 => i - 1 \in DOMAIN rest
                                         /\ rest[i - 1] = said[i]
      /\ \A i, k \in DOMAIN rest : i + 1 = k + 1 => i = k
  BY Shortened
<1>2. \A x \in RequestIds :
        now[x] = IF x = said[1].id THEN "answered" ELSE waits[x]
  OBVIOUS
<1> HIDE DEF rest, now
<1>3. /\ \A i, k \in DOMAIN rest :
           IsReply(rest[i]) /\ IsReply(rest[k]) /\ rest[i].id = rest[k].id => i = k
      /\ \A i \in DOMAIN asked, k \in DOMAIN rest :
           IsReply(rest[k]) => asked[i].id # rest[k].id
  BY <1>1 DEF Answered
<1>4. ASSUME NEW x \in RequestIds
      PROVE  (\E k \in DOMAIN said : IsReply(said[k]) /\ said[k].id = x) <=>
               \/ IsReply(said[1]) /\ said[1].id = x
               \/ \E k \in DOMAIN rest : IsReply(rest[k]) /\ rest[k].id = x
  BY <1>1
<1>5. CASE ~IsReply(said[1])
  BY <1>3, <1>4, <1>5 DEF Answered, rest
<1>6. CASE IsReply(said[1])
  <2>1. ASSUME NEW x \in RequestIds
        PROVE  now[x] = "waiting" <=>
                 \/ \E i \in DOMAIN asked : asked[i].id = x
                 \/ \E k \in DOMAIN rest : IsReply(rest[k]) /\ rest[k].id = x
    <3>1. CASE x = said[1].id
      BY <1>1, <1>2, <1>6, <3>1 DEF Answered
    <3>2. CASE x # said[1].id
      BY <1>2, <1>4, <3>2 DEF Answered
    <3> QED BY <3>1, <3>2
  <2>2. Answered(asked, rest, now)
    BY <1>3, <2>1 DEF Answered
  <2> QED BY <1>6, <2>2 DEF rest, now
<1> QED BY <1>5, <1>6

LEMMA AnsweredCut ==
    ASSUME NEW asked, NEW said, NEW cut, NEW waits, NEW now,
           Answered(asked, said, waits),
           \A i \in DOMAIN cut : i \in DOMAIN said /\ cut[i] = said[i],
           \A r \in RequestIds : now[r] = "waiting" <=>
             /\ waits[r] = "waiting"
             /\ \E k \in DOMAIN cut : IsReply(cut[k]) /\ cut[k].id = r
    PROVE  Answered(<<>>, cut, now)
<1>1. DOMAIN <<>> = {}
  OBVIOUS
<1>2. ASSUME NEW r \in RequestIds
      PROVE  now[r] = "waiting" <=>
               \E k \in DOMAIN cut : IsReply(cut[k]) /\ cut[k].id = r
  BY DEF Answered
<1>3. \A i, k \in DOMAIN cut :
        IsReply(cut[i]) /\ IsReply(cut[k]) /\ cut[i].id = cut[k].id => i = k
  BY DEF Answered
<1> QED BY <1>1, <1>2, <1>3 DEF Answered

-----------------------------------------------------------------------------
(* What stays as it is.                                                    *)

LEMMA Names ==
    /\ NotCreated \notin JobState /\ Removed \notin JobState
    /\ NotCreated # Removed
    /\ NoId \notin JobState /\ Untold \notin JobState /\ NoId # Untold
    /\ "Accepted" \in JobState /\ "Canceled" \in JobState
    /\ Null \notin Clients /\ Null \notin Connections /\ Null \notin Nat
    /\ Null \notin Methods /\ Null \notin JobState
    /\ Null \notin Ids /\ Null \notin RequestIds
    /\ Ids \subseteq Nat /\ RequestIds \subseteq Nat
BY SessionAssumption DEF NotCreated, Removed, NoId, Untold, JobState, Ids,
   RequestIds

\* The connection is the same client's, who may have asked more, and ids may
\* have been given out.
Stays(a) ==
    LET c == peer[a] IN
    /\ peer'[a] = c /\ (whole'[a] => whole[a])
    /\ m_packetCounter[c] =< m_packetCounter'[c]
    /\ \A r \in RequestIds : r < m_packetCounter[c] =>
         m_requests'[c][r] = m_requests[c][r]
    /\ \A j \in Ids : submitter[j] # Null => submitter'[j] = submitter[j]

LEMMA RequestStays ==
    ASSUME TypeOK, TypeOK', NEW a \in Connections, peer[a] \in Clients,
           Stays(a), NEW q, RequestOK(a, q)
    PROVE  RequestOK(a, q)'
<1>1. CASE q = Garbage
  BY <1>1 DEF RequestOK, Stays
<1>2. CASE q # Garbage
  <2>1. /\ q \in Request /\ q.id < m_packetCounter[peer[a]]
        /\ m_requests[peer[a]][q.id] = q.method
        /\ q.method \in {"lookupJob", "cancelJob"} => q.job \in Ids
    BY <1>2 DEF RequestOK
  <2>2. q.id \in RequestIds /\ q.id \in Nat
    BY <2>1, Names DEF Request
  <2>3. /\ m_packetCounter[peer[a]] \in Nat /\ m_packetCounter'[peer[a]] \in Nat
    BY SessionAssumption DEF TypeOK
  <2>4. q.id < m_packetCounter'[peer[a]]
    BY <2>1, <2>2, <2>3 DEF Stays
  <2>5. m_requests'[peer[a]][q.id] = q.method
    BY <2>1, <2>2 DEF Stays
  <2>6. peer'[a] = peer[a]
    BY DEF Stays
  <2> QED BY <1>2, <2>1, <2>4, <2>5, <2>6 DEF RequestOK
<1> QED BY <1>1, <1>2

LEMMA PacketStays ==
    ASSUME TypeOK, TypeOK', NEW a \in Connections, peer[a] \in Clients,
           Stays(a), NEW p \in Packet, PacketOK(a, p)
    PROVE  PacketOK(a, p)'
<1>1. /\ m_packetCounter[peer[a]] \in Nat /\ m_packetCounter'[peer[a]] \in Nat
  BY SessionAssumption DEF TypeOK
<1>2. peer'[a] = peer[a] /\ (whole'[a] => whole[a])
  BY DEF Stays
<1>3. p.id # Null => p.id \in RequestIds /\ p.id \in Nat
  BY Names DEF Packet
<1>4. p.id # Null /\ p.id < m_packetCounter[peer[a]] =>
        /\ p.id < m_packetCounter'[peer[a]]
        /\ m_requests'[peer[a]][p.id] = m_requests[peer[a]][p.id]
  BY <1>1, <1>3 DEF Stays
<1>5. p.job \in Ids /\ submitter[p.job] # Null =>
        submitter'[p.job] = submitter[p.job]
  BY DEF Stays
<1>6. ASSUME p.type = "notification"
      PROVE  /\ p.job \in Ids /\ p.id = Null
             /\ p.old \in JobState /\ p.new \in JobState
             /\ submitter'[p.job] = peer[a]
  BY <1>5, <1>6, Names DEF PacketOK
<1>7. ASSUME p.type = "result"
      PROVE  /\ p.id \in RequestIds /\ p.id < m_packetCounter'[peer[a]]
             /\ m_requests'[peer[a]][p.id] = "lookupJob" =>
                  p.job \in Ids /\ p.new \in JobState /\ p.old = p.new
             /\ m_requests'[peer[a]][p.id] # "lookupJob" => p.new = Null
  BY <1>4, <1>7, Names DEF PacketOK
<1>8. ASSUME p.type = "error"
      PROVE  /\ p.job = Null /\ p.new = Null
             /\ p.id = Null => ~whole'[a]
             /\ p.id # Null => p.id < m_packetCounter'[peer[a]]
  BY <1>2, <1>4, <1>8 DEF PacketOK
<1>9. p.new # Null => p.job \in Ids /\ submitter'[p.job] # Null
  BY <1>5 DEF PacketOK
<1> QED BY <1>2, <1>6, <1>7, <1>8, <1>9 DEF PacketOK

\* The table of the requests a client has made may grow where no reply on the
\* connection reads it.
LEMMA TableStays ==
    ASSUME TypeOK, NEW a \in Connections, peer[a] \in Clients, Stays(a),
           \A i \in DOMAIN toClient[a] : PacketOK(a, toClient[a][i]),
           NEW j,
           NEW f, f = m_requests[peer[a]], NEW g, g = m_requests'[peer[a]]
    PROVE  /\ Introduced(toClient[a], f, j) => Introduced(toClient[a], g, j)
           /\ Awaited(toClient[a], f, j) => Awaited(toClient[a], g, j)
<1> DEFINE s == toClient[a]
<1>1. s \in Seq(Packet) /\ DOMAIN s = 1 .. Len(s) /\ Len(s) \in Nat
  BY LenProperties DEF TypeOK
<1>2. \A i \in DOMAIN s : s[i].type = "result" => g[s[i].id] = f[s[i].id]
  BY DEF PacketOK, Stays
<1>3. \A i \in DOMAIN s : \A k \in 1 .. i - 1 : k \in DOMAIN s
  BY <1>1
<1> HIDE DEF s
<1>4. /\ Introduced(s, f, j) => Introduced(s, g, j)
      /\ Awaited(s, f, j) => Awaited(s, g, j)
  BY <1>2, <1>3, IntroducedSame
<1> QED BY <1>4 DEF s

\* The types of what a connection carries.
LEMMA Carried ==
    ASSUME TypeOK, NEW a \in Connections
    PROVE  /\ toServer[a] \in Seq(Request \cup {Garbage})
           /\ toClient[a] \in Seq(Packet)
           /\ DOMAIN toServer[a] = 1 .. Len(toServer[a])
           /\ DOMAIN toClient[a] = 1 .. Len(toClient[a])
           /\ \A i \in DOMAIN toServer[a] : toServer[a][i] \in Request \cup {Garbage}
           /\ \A i \in DOMAIN toClient[a] : toClient[a][i] \in Packet
<1>1. toServer[a] \in Seq(Request \cup {Garbage}) /\ toClient[a] \in Seq(Packet)
  BY DEF TypeOK
<1> QED BY <1>1, LenProperties, ElementOfSeq

\* A connection on which nothing arrives and nothing is sent.
LEMMA WireStays ==
    ASSUME TypeOK, TypeOK', NEW a \in Connections, Wire(a),
           end[a] # "none" \/ open[a] => Stays(a),
           end'[a] = "none" <=> end[a] = "none", open'[a] = open[a],
           toServer'[a] = toServer[a], toClient'[a] = toClient[a]
    PROVE  Wire(a)'
<1>1. CASE end[a] # "none" \/ open[a]
  <2>1. peer[a] \in Clients /\ peer'[a] = peer[a]
    BY <1>1 DEF Wire, Stays
  <2>2. \A i \in DOMAIN toServer[a] : RequestOK(a, toServer[a][i])'
    <3>1. \A i \in DOMAIN toServer[a] : RequestOK(a, toServer[a][i])
      BY DEF Wire
    <3> QED BY <1>1, <2>1, <3>1, RequestStays
  <2>3. \A i \in DOMAIN toClient[a] : PacketOK(a, toClient[a][i])'
    BY <1>1, <2>1, PacketStays, Carried DEF Wire
  <2> QED BY <2>1, <2>2, <2>3 DEF Wire
<1>2. CASE end[a] = "none" /\ ~open[a]
  <2>1. toServer[a] = <<>> /\ toClient[a] = <<>>
    BY <1>2 DEF Wire
  <2> QED BY <1>2, <2>1 DEF Wire
<1> QED BY <1>1, <1>2

-----------------------------------------------------------------------------
(* What a step does that only sends.                                       *)

\* The part of the state no handler of the server touches.
Quiet == /\ UNCHANGED <<end, peer, open, m_packetCounter, m_requests, outcome, told>>
         /\ \A a \in Connections : whole'[a] => whole[a]
         /\ \A j \in Ids : submitter[j] # Null => submitter'[j] = submitter[j]

\* What one connection is sent.
Sent(a, u) == toClient'[a] = IF open[a] THEN toClient[a] \o u ELSE toClient[a]

LEMMA SendIs ==
    ASSUME TypeOK, NEW out \in [Connections -> Seq(Packet)], Send(out)
    PROVE  /\ toClient' \in [Connections -> Seq(Packet)]
           /\ \A a \in Connections : Sent(a, out[a]) /\ out[a] \in Seq(Packet)
<1>1. \A a \in Connections : Sent(a, out[a]) /\ out[a] \in Seq(Packet)
  BY DEF Send, Sent
<1>2. \A a \in Connections : toClient[a] \o out[a] \in Seq(Packet)
  BY Joined DEF TypeOK
<1> QED BY <1>1, <1>2 DEF Send, TypeOK

LEMMA QuietStays ==
    ASSUME TypeOK, Quiet, NEW a \in Connections, peer[a] \in Clients
    PROVE  Stays(a)
<1>1. m_packetCounter[peer[a]] \in Nat
  BY SessionAssumption DEF TypeOK
<1> QED BY <1>1 DEF Quiet, Stays

LEMMA QuietParts ==
    ASSUME SInv, Quiet
    PROVE  OneOpen' /\ WaitsOpen'
<1>1. OneOpen'
  BY DEF SInv, OneOpen, Quiet
<1>2. WaitsOpen'
  BY DEF SInv, WaitsOpen, Quiet
<1> QED BY <1>1, <1>2

LEMMA SentWire ==
    ASSUME TypeOK, TypeOK', Quiet, NEW a \in Connections, Wire(a),
           NEW u \in Seq(Packet), Sent(a, u),
           open[a] => \A i \in DOMAIN u : PacketOK(a, u[i])',
           (\A i \in DOMAIN toServer[a] : RequestOK(a, toServer[a][i]))',
           end[a] = "none" => toServer'[a] = <<>>
    PROVE  Wire(a)'
<1>1. end'[a] = end[a] /\ open'[a] = open[a] /\ peer'[a] = peer[a]
  BY DEF Quiet
<1>2. ASSUME open[a]
      PROVE  \A i \in DOMAIN toClient'[a] : PacketOK(a, toClient[a][i])'
  <2>1. peer[a] \in Clients /\ toClient[a] \in Seq(Packet)
    BY <1>2 DEF Wire, TypeOK
  <2>2. Stays(a)
    BY <2>1, QuietStays
  <2>3. \A i \in DOMAIN toClient[a] :
          toClient[a][i] \in Packet /\ PacketOK(a, toClient[a][i])
    BY Carried DEF Wire
  <2>4. \A p \in Packet : PacketOK(a, p) => PacketOK(a, p)'
    BY <2>1, <2>2, PacketStays
  <2>5. toClient'[a] = toClient[a] \o u
    BY <1>2 DEF Sent
  <2>6. ASSUME NEW i \in DOMAIN toClient'[a], NEW p, p = toClient'[a][i]
        PROVE  PacketOK(a, p)'
    <3>1. CASE i \in DOMAIN toClient[a]
      <4>1. p = toClient[a][i]
        BY <2>1, <2>5, <2>6, <3>1, Joined
      <4> QED BY <2>3, <2>4, <3>1, <4>1
    <3>2. CASE i - Len(toClient[a]) \in DOMAIN u
                 /\ p = u[i - Len(toClient[a])]
      BY <1>2, <3>2
    <3> QED BY <2>1, <2>5, <2>6, <3>1, <3>2, Joined
  <2> QED BY <2>6
<1>3. ~open[a] => toClient'[a] = <<>>
  BY DEF Sent, Wire
<1>4. \A i \in DOMAIN toClient'[a] : PacketOK(a, toClient[a][i])'
  BY <1>2, <1>3
<1> QED BY <1>1, <1>3, <1>4 DEF Wire

LEMMA SentPrepared ==
    ASSUME TypeOK, Quiet, NEW a \in Connections, NEW j \in Ids, Prepared(a, j),
           NEW u \in Seq(Packet), Sent(a, u),
           NEW f, f = m_requests[peer[a]],
           open[a] /\ told[j] = NoId =>
             \A i \in DOMAIN u : u[i].type = "notification" /\ u[i].job = j =>
               Awaited(toClient[a], f, j) \/ \E k \in 1 .. i - 1 : Gives(f, u[k], j)
    PROVE  Prepared(a, j)'
<1>1. open'[a] = open[a] /\ told'[j] = told[j] /\ m_requests'[peer'[a]] = f
  BY DEF Quiet
<1>2. ASSUME open[a], told[j] = NoId
      PROVE  Introduced(toClient'[a], f, j)
  <2>1. toClient[a] \in Seq(Packet) /\ toClient'[a] = toClient[a] \o u
    BY <1>2 DEF TypeOK, Sent
  <2>2. Introduced(toClient[a], f, j)
    BY <1>2 DEF Prepared
  <2>3. \A i \in DOMAIN u : u[i].type = "notification" /\ u[i].job = j =>
          Awaited(toClient[a], f, j) \/ \E k \in 1 .. i - 1 : Gives(f, u[k], j)
    BY <1>2
  <2> QED BY <2>1, <2>2, <2>3, IntroducedMore
<1> QED BY <1>1, <1>2 DEF Prepared

LEMMA SentRouted ==
    ASSUME TypeOK, Quiet, NEW j \in Ids, Routed(j),
           m_connectionLUT'[j] = m_connectionLUT[j],
           submitter'[j] = submitter[j],
           NEW a, a = m_connectionLUT[j],
           a # Null => jobState'[j] \in JobState,
           NEW u \in Seq(Packet), a # Null => Sent(a, u),
           a # Null /\ open[a] =>
             \/ About(u, j) = {} /\ jobState'[j] = jobState[j]
             \/ \E m \in DOMAIN u : /\ About(u, j) = {m}
                                    /\ u[m].old = jobState[j]
                                    /\ u[m].new = jobState'[j]
    PROVE  Routed(j)'
<1>1. a # Null => end'[a] = "open" /\ peer'[a] = submitter'[j]
  BY DEF Routed, Quiet
<1>2. ASSUME a # Null, open[a]
      PROVE  /\ Chained(toClient'[a], j, told[j], jobState'[j])
             /\ told[j] = NoId => Awaited(toClient'[a], m_requests[peer[a]], j)
  <2>1. /\ toClient[a] \in Seq(Packet)
        /\ toClient'[a] = toClient[a] \o u
    <3>1. a \in Connections
      BY <1>2 DEF TypeOK
    <3> QED BY <1>2, <3>1 DEF TypeOK, Sent
  <2>2. Chained(toClient[a], j, told[j], jobState[j])
    BY <1>2 DEF Routed
  <2>3. told[j] = NoId => Awaited(toClient[a], m_requests[peer[a]], j)
    BY <1>2 DEF Routed
  <2>4. Chained(toClient[a] \o u, j, told[j], jobState'[j])
    BY <1>2, <2>1, <2>2, ChainedMore
  <2>5. told[j] = NoId => Awaited(toClient[a] \o u, m_requests[peer[a]], j)
    BY <2>1, <2>3, AwaitedMore
  <2> QED BY <2>1, <2>4, <2>5
<1> QED BY <1>1, <1>2 DEF Routed, Quiet

LEMMA SentExact ==
    ASSUME TypeOK, Quiet, NEW a \in Connections, Exact(a),
           NEW u \in Seq(Packet), Sent(a, u), toServer'[a] = toServer[a],
           \A i \in DOMAIN u : ~IsReply(u[i])
    PROVE  Exact(a)'
<1>1. open'[a] = open[a] /\ (whole'[a] => whole[a])
      /\ outcome'[peer'[a]] = outcome[peer[a]]
  BY DEF Quiet
<1>2. ASSUME open[a], whole[a]
      PROVE  Answered(toServer[a], toClient'[a], outcome[peer[a]])
  <2>1. toClient[a] \in Seq(Packet) /\ toClient'[a] = toClient[a] \o u
    BY <1>2 DEF TypeOK, Sent
  <2>2. Answered(toServer[a], toClient[a], outcome[peer[a]])
    BY <1>2 DEF Exact
  <2> QED BY <2>1, <2>2, AnsweredNotices
<1> QED BY <1>1, <1>2 DEF Exact

LEMMA ServedExact ==
    ASSUME TypeOK, Quiet, NEW a \in Connections, Exact(a),
           NEW u \in Seq(Packet), Sent(a, u),
           toServer[a] # <<>>, toServer'[a] = Tail(toServer[a]),
           NEW m \in DOMAIN u, \A i \in DOMAIN u : IsReply(u[i]) <=> i = m,
           u[m].id = Head(toServer[a]).id
    PROVE  Exact(a)'
<1>1. open'[a] = open[a] /\ (whole'[a] => whole[a])
      /\ outcome'[peer'[a]] = outcome[peer[a]]
  BY DEF Quiet
<1>2. ASSUME open[a], whole[a]
      PROVE  Answered(Tail(toServer[a]), toClient'[a], outcome[peer[a]])
  <2>1. /\ toClient[a] \in Seq(Packet) /\ toClient'[a] = toClient[a] \o u
        /\ toServer[a] \in Seq(Request \cup {Garbage})
        /\ Head(toServer[a]) = toServer[a][1]
    BY <1>2 DEF TypeOK, Sent
  <2>2. Answered(toServer[a], toClient[a], outcome[peer[a]])
    BY <1>2 DEF Exact
  <2>3. u[m].id = toServer[a][1].id
    BY <2>1
  <2> QED BY <2>1, <2>2, <2>3, AnsweredServe
<1> QED BY <1>1, <1>2 DEF Exact

-----------------------------------------------------------------------------
(* The requests.                                                           *)

\* A request the server reads from a connection it has accepted.
LEMMA Served ==
    ASSUME SInv, NEW a \in Connections, NEW method, Request0(a, method),
           method # "garbage"
    PROVE  /\ running /\ end[a] = "open" /\ peer[a] \in Clients
           /\ toServer[a] # <<>>
           /\ toServer' \in [Connections -> Seq(Request \cup {Garbage})]
           /\ toServer'[a] = Tail(toServer[a])
           /\ \A b \in Connections : b # a => toServer'[b] = toServer[b]
           /\ Head(toServer[a]) \in Request
           /\ Head(toServer[a]).method = method
           /\ Head(toServer[a]).id \in RequestIds
           /\ Head(toServer[a]).id < m_packetCounter[peer[a]]
           /\ m_requests[peer[a]][Head(toServer[a]).id] = method
           /\ method \in {"lookupJob", "cancelJob"} => Head(toServer[a]).job \in Ids
<1>1. TypeOK /\ Wire(a)
  BY DEF SInv
<1>2. /\ running /\ end[a] = "open" /\ toServer[a] # <<>>
      /\ Head(toServer[a]).method = method
      /\ toServer' = [toServer EXCEPT ![a] = Tail(@)]
  BY DEF Request0
<1>3. /\ toServer[a] \in Seq(Request \cup {Garbage})
      /\ toServer \in [Connections -> Seq(Request \cup {Garbage})]
  BY <1>1 DEF TypeOK
<1>4. /\ 1 \in DOMAIN toServer[a] /\ Head(toServer[a]) = toServer[a][1]
      /\ toServer[a][1] \in Request \cup {Garbage}
      /\ Tail(toServer[a]) \in Seq(Request \cup {Garbage})
  BY <1>2, <1>3, Shortened
<1>5. Head(toServer[a]) # Garbage
  BY <1>2 DEF Garbage
<1>6. RequestOK(a, Head(toServer[a]))
  BY <1>1, <1>4 DEF Wire
<1>7. Head(toServer[a]).id \in RequestIds
  BY <1>4, <1>5 DEF Request
<1>8. toServer' \in [Connections -> Seq(Request \cup {Garbage})]
  BY <1>2, <1>3, <1>4
<1>9. peer[a] \in Clients
  BY <1>1, <1>2 DEF Wire
<1> QED BY <1>1, <1>2, <1>3, <1>4, <1>5, <1>6, <1>7, <1>8, <1>9 DEF RequestOK

LEMMA RequestsStay ==
    ASSUME TypeOK, TypeOK', Quiet, NEW a \in Connections, Wire(a),
           peer[a] \in Clients,
           \A i \in DOMAIN toServer'[a] :
             \E k \in DOMAIN toServer[a] : toServer'[a][i] = toServer[a][k]
    PROVE  (\A i \in DOMAIN toServer[a] : RequestOK(a, toServer[a][i]))'
<1>1. \A k \in DOMAIN toServer[a] : RequestOK(a, toServer[a][k])
  BY DEF Wire
<1>2. \A q : RequestOK(a, q) => RequestOK(a, q)'
  BY QuietStays, RequestStays
<1>3. ASSUME NEW i \in DOMAIN toServer'[a], NEW q, q = toServer'[a][i]
      PROVE  RequestOK(a, q)'
  <2>1. PICK k \in DOMAIN toServer[a] : q = toServer[a][k]
    BY <1>3
  <2> QED BY <1>1, <1>2, <2>1
<1> QED BY <1>3

\* The requests on a connection on which nothing is asked and nothing read, or
\* from which one request is read.
LEMMA FewerRequests ==
    ASSUME TypeOK, TypeOK', Quiet, NEW a \in Connections, Wire(a),
           \/ toServer'[a] = toServer[a]
           \/ toServer[a] # <<>> /\ toServer'[a] = Tail(toServer[a])
    PROVE  /\ (\A i \in DOMAIN toServer[a] : RequestOK(a, toServer[a][i]))'
           /\ end[a] = "none" => toServer'[a] = <<>>
<1>1. toServer[a] \in Seq(Request \cup {Garbage})
  BY DEF TypeOK
<1>2. CASE toServer[a] = <<>>
  BY <1>2
<1>3. CASE toServer[a] # <<>>
  <2>1. end[a] # "none" /\ peer[a] \in Clients
    BY <1>3 DEF Wire
  <2>2. CASE toServer'[a] = toServer[a]
    BY <2>1, <2>2, RequestsStay
  <2>3. CASE toServer'[a] = Tail(toServer[a])
    <3>1. \A i \in DOMAIN Tail(toServer[a]) :
            /\ i + 1 \in DOMAIN toServer[a]
            /\ Tail(toServer[a])[i] = toServer[a][i + 1]
      BY <1>1, <1>3, Shortened
    <3>2. \A i \in DOMAIN toServer'[a] :
            \E k \in DOMAIN toServer[a] : toServer'[a][i] = toServer[a][k]
      BY <2>3, <3>1
    <3> QED BY <2>1, <3>2, RequestsStay
  <2> QED BY <2>1, <2>2, <2>3
<1> QED BY <1>2, <1>3

LEMMA ToTyped ==
    ASSUME NEW a, NEW u \in Seq(Packet)
    PROVE  /\ To(a, u) \in [Connections -> Seq(Packet)]
           /\ \A b \in Connections : To(a, u)[b] = IF b = a THEN u ELSE <<>>
           /\ <<>> \in Seq(Packet)
BY EmptySeq DEF To

\* A handler that only replies, with something that leaves every submitter
\* where it was.
Untouched == UNCHANGED <<m_connectionLUT, m_moleQueueIdCounter, jobState,
                         savedCounter, savedState, submitter>>

LEMMA ReplyGood ==
    ASSUME SInv, NEW a \in Connections, NEW method, Request0(a, method),
           method # "garbage", Untouched,
           NEW p \in Packet, IsReply(p), p.id = Head(toServer[a]).id,
           PacketOK(a, p), Send(To(a, <<p>>)),
           \A j \in Ids : p.job = j /\ p.new # Null =>
             p.old = jobState[j] /\ p.new = jobState[j]
    PROVE  SInv'
<1> DEFINE out == To(a, <<p>>)
<1>1. TypeOK
  BY DEF SInv
<1>2. /\ running /\ peer[a] \in Clients /\ toServer[a] # <<>>
      /\ toServer' \in [Connections -> Seq(Request \cup {Garbage})]
      /\ toServer'[a] = Tail(toServer[a])
      /\ \A b \in Connections : b # a => toServer'[b] = toServer[b]
  BY Served
<1>3. <<p>> \in Seq(Packet) /\ DOMAIN <<p>> = {1} /\ <<p>>[1] = p
  OBVIOUS
<1>4. /\ out \in [Connections -> Seq(Packet)]
      /\ \A b \in Connections : out[b] = IF b = a THEN <<p>> ELSE <<>>
  BY <1>3, ToTyped
<1>5. Send(out)
  OBVIOUS
<1> HIDE DEF out
<1>6. /\ toClient' \in [Connections -> Seq(Packet)]
      /\ \A b \in Connections : Sent(b, out[b]) /\ out[b] \in Seq(Packet)
  BY <1>1, <1>4, <1>5, SendIs
<1>7. /\ Quiet
      /\ UNCHANGED <<running, listening, socketFile, starts, whole>>
  BY DEF Request0, Untouched, Quiet
<1>8. TypeOK'
  BY <1>1, <1>2, <1>6, <1>7 DEF TypeOK, Quiet, Untouched
<1>9. PacketOK(a, p)'
  BY <1>1, <1>2, <1>7, <1>8, QuietStays, PacketStays
<1>10. Process'
  BY <1>7 DEF SInv, Process, Untouched, Quiet
<1>11. OneOpen' /\ WaitsOpen'
  BY <1>7, QuietParts
<1>12. ASSUME NEW b \in Connections
       PROVE  Wire(b)'
  <2>1. Wire(b)
    BY DEF SInv
  <2>2. /\ (\A i \in DOMAIN toServer[b] : RequestOK(b, toServer[b][i]))'
        /\ end[b] = "none" => toServer'[b] = <<>>
    BY <1>1, <1>2, <1>7, <1>8, <2>1, FewerRequests
  <2>3. PICK u \in Seq(Packet) : u = out[b]
    BY <1>6
  <2>4. \A i \in DOMAIN u : PacketOK(b, u[i])'
    BY <1>3, <1>4, <1>9, <2>3
  <2>5. Sent(b, u)
    BY <1>6, <2>3
  <2> QED BY <1>1, <1>7, <1>8, <2>1, <2>2, <2>4, <2>5, SentWire
<1>13. ASSUME NEW b \in Connections
       PROVE  Exact(b)'
  <2>1. Exact(b) /\ Sent(b, out[b]) /\ out[b] \in Seq(Packet)
    BY <1>6 DEF SInv
  <2>2. CASE b = a
    <3>1. PICK u \in Seq(Packet) : u = <<p>>
      BY <1>3
    <3>2. /\ 1 \in DOMAIN u /\ u[1].id = Head(toServer[a]).id
          /\ \A i \in DOMAIN u : IsReply(u[i]) <=> i = 1
      BY <1>3, <3>1
    <3>3. Exact(a) /\ Sent(a, u)
      BY <1>4, <2>1, <2>2, <3>1
    <3> QED BY <1>1, <1>2, <1>7, <2>2, <3>2, <3>3, ServedExact
  <2>3. CASE b # a
    <3>1. \A i \in DOMAIN out[b] : ~IsReply(out[b][i])
      BY <1>4, <2>3
    <3>2. toServer'[b] = toServer[b]
      BY <1>2, <2>3
    <3> QED BY <1>1, <1>7, <2>1, <3>1, <3>2, SentExact
  <2> QED BY <2>2, <2>3
<1>14. ASSUME NEW j \in Ids
       PROVE  Recorded(j)'
  BY <1>7 DEF SInv, Recorded, Untouched, Quiet
<1>15. ASSUME NEW j \in Ids
       PROVE  Routed(j)'
  <2>1. PICK b : b = m_connectionLUT[j]
    OBVIOUS
  <2>2. Routed(j) /\ submitter'[j] = submitter[j] /\ jobState'[j] = jobState[j]
        /\ m_connectionLUT'[j] = m_connectionLUT[j]
    BY DEF SInv, Untouched
  <2>3. b # Null => b \in Connections
    BY <1>1, <2>1 DEF TypeOK
  <2>4. PICK u \in Seq(Packet) : u = IF b = a THEN <<p>> ELSE <<>>
    BY <1>3, EmptySeq
  <2>5. b # Null => Sent(b, u) /\ jobState'[j] \in JobState
    BY <1>4, <1>6, <2>1, <2>2, <2>3, <2>4 DEF Routed
  <2>6. \/ About(u, j) = {}
        \/ 1 \in DOMAIN u /\ About(u, j) = {1} /\ u[1].old = jobState[j]
           /\ u[1].new = jobState[j]
    <3>1. CASE u = <<>>
      BY <3>1 DEF About
    <3>2. CASE u = <<p>>
      BY <1>3, <3>2 DEF About
    <3> QED BY <2>4, <3>1, <3>2
  <2> QED BY <1>1, <1>7, <2>1, <2>2, <2>5, <2>6, SentRouted
<1>16. ASSUME NEW b \in Connections, NEW j \in Ids
       PROVE  Prepared(b, j)'
  <2>1. Prepared(b, j) /\ Sent(b, out[b]) /\ out[b] \in Seq(Packet)
    BY <1>6 DEF SInv
  <2>2. \A i \in DOMAIN out[b] : out[b][i].type # "notification"
    BY <1>3, <1>4 DEF IsReply
  <2> QED BY <1>1, <1>7, <2>1, <2>2, SentPrepared
<1> QED BY <1>8, <1>10, <1>11, <1>12, <1>13, <1>14, <1>15, <1>16 DEF SInv

\* The four handlers that only reply.
LEMMA RequestTypes ==
    ASSUME NEW r \in RequestIds, NEW j \in Ids, NEW s \in JobState, NEW t \in JobState
    PROVE  /\ Result(r, Null, Null) \in Packet /\ Result(r, j, Null) \in Packet
           /\ Result(r, j, s) \in Packet
           /\ ErrorReply(r) \in Packet /\ ErrorReply(Null) \in Packet
           /\ Notice(j, s, t) \in Packet
BY DEF Packet, Result, ErrorReply, Notice

LEMMA RefusalGood ==
    ASSUME SInv, NEW a \in Connections, NEW method, Request0(a, method),
           method # "garbage", Untouched,
           Send(To(a, Refusal(Head(toServer[a]))))
    PROVE  SInv'
<1>1. PICK p : p = ErrorReply(Head(toServer[a]).id)
  OBVIOUS
<1>2. /\ Head(toServer[a]).id \in RequestIds
      /\ Head(toServer[a]).id < m_packetCounter[peer[a]]
  BY Served
<1>3. p \in Packet /\ IsReply(p) /\ p.id = Head(toServer[a]).id
  BY <1>1, <1>2, Names DEF Packet, ErrorReply, IsReply
<1>4. PacketOK(a, p)
  BY <1>1, <1>2, Names DEF PacketOK, ErrorReply
<1>5. p.new = Null
  BY <1>1 DEF ErrorReply
<1>6. Send(To(a, <<p>>))
  BY <1>1 DEF Refusal
<1> QED BY <1>3, <1>4, <1>5, <1>6, ReplyGood

LEMMA HandleListQueuesRequestGood ==
    ASSUME SInv, NEW a \in Connections, HandleListQueuesRequest(a)
    PROVE  SInv'
<1>1. /\ Request0(a, "listQueues") /\ Untouched
      /\ Send(To(a, <<Result(Head(toServer[a]).id, Null, Null)>>))
  BY DEF HandleListQueuesRequest, Untouched
<1>2. PICK p : p = Result(Head(toServer[a]).id, Null, Null)
  OBVIOUS
<1>3. /\ Head(toServer[a]).id \in RequestIds
      /\ Head(toServer[a]).id < m_packetCounter[peer[a]]
      /\ m_requests[peer[a]][Head(toServer[a]).id] = "listQueues"
  BY <1>1, Served
<1>4. p \in Packet /\ IsReply(p) /\ p.id = Head(toServer[a]).id
  BY <1>2, <1>3 DEF Packet, Result, IsReply
<1>5. PacketOK(a, p) /\ p.new = Null
  BY <1>2, <1>3, Names DEF PacketOK, Result
<1>6. Send(To(a, <<p>>))
  BY <1>1, <1>2
<1> QED BY <1>1, <1>4, <1>5, <1>6, ReplyGood

LEMMA HandleLookupJobRequestGood ==
    ASSUME SInv, NEW a \in Connections, HandleLookupJobRequest(a)
    PROVE  SInv'
<1> DEFINE q == Head(toServer[a])
<1>1. /\ Request0(a, "lookupJob") /\ Untouched
      /\ Send(To(a, IF Known(q.job) THEN <<Result(q.id, q.job, jobState[q.job])>>
                    ELSE Refusal(q)))
  BY DEF HandleLookupJobRequest, Untouched
<1>2. /\ q.id \in RequestIds /\ q.id < m_packetCounter[peer[a]]
      /\ m_requests[peer[a]][q.id] = "lookupJob" /\ q.job \in Ids
  BY <1>1, Served
<1> HIDE DEF q
<1>3. CASE ~Known(q.job)
  BY <1>1, <1>3, RefusalGood DEF q
<1>4. CASE Known(q.job)
  <2>1. PICK p : p = Result(q.id, q.job, jobState[q.job])
    OBVIOUS
  <2>2. jobState[q.job] \in JobState /\ submitter[q.job] # Null
    BY <1>2, <1>4 DEF SInv, TypeOK, Known, Recorded
  <2>3. p \in Packet /\ IsReply(p) /\ p.id = Head(toServer[a]).id
    BY <1>2, <2>1, <2>2 DEF Packet, Result, IsReply, q
  <2>4. PacketOK(a, p)
    BY <1>2, <2>1, <2>2, Names DEF PacketOK, Result
  <2>5. p.job = q.job /\ p.old = jobState[q.job] /\ p.new = jobState[q.job]
    BY <2>1 DEF Result
  <2>6. Send(To(a, <<p>>))
    BY <1>1, <1>4, <2>1
  <2> QED BY <1>1, <2>3, <2>4, <2>5, <2>6, ReplyGood
<1> QED BY <1>3, <1>4

LEMMA RejectionsGood ==
    ASSUME SInv, NEW a \in Connections,
           RejectSubmitJobRequest(a) \/ RejectCancelJobRequest(a)
    PROVE  SInv'
<1>1. CASE RejectSubmitJobRequest(a)
  BY <1>1, RefusalGood DEF RejectSubmitJobRequest, Untouched
<1>2. CASE RejectCancelJobRequest(a)
  BY <1>2, RefusalGood DEF RejectCancelJobRequest, Untouched
<1> QED BY <1>1, <1>2

\* A handler that sends more than a reply.
LEMMA HandlerGood ==
    ASSUME SInv, TypeOK', Process', Quiet,
           NEW out \in [Connections -> Seq(Packet)], Send(out),
           \A b \in Connections : open[b] =>
             \A i \in DOMAIN out[b] : PacketOK(b, out[b][i])',
           \A b \in Connections :
             \/ /\ toServer'[b] = toServer[b]
                /\ \A i \in DOMAIN out[b] : ~IsReply(out[b][i])
             \/ /\ toServer[b] # <<>> /\ toServer'[b] = Tail(toServer[b])
                /\ \E m \in DOMAIN out[b] :
                     /\ out[b][m].id = Head(toServer[b]).id
                     /\ \A i \in DOMAIN out[b] : IsReply(out[b][i]) <=> i = m,
           \A b \in Connections, j \in Ids : open[b] /\ told[j] = NoId =>
             \A i \in DOMAIN out[b] :
               out[b][i].type = "notification" /\ out[b][i].job = j =>
                 \/ Awaited(toClient[b], m_requests[peer[b]], j)
                 \/ \E k \in 1 .. i - 1 : Gives(m_requests[peer[b]], out[b][k], j),
           \A j \in Ids : Recorded(j)' /\ Routed(j)'
    PROVE  SInv'
<1>1. TypeOK
  BY DEF SInv
<1>2. \A b \in Connections : Sent(b, out[b]) /\ out[b] \in Seq(Packet)
  BY <1>1, SendIs
<1>3. OneOpen' /\ WaitsOpen'
  BY QuietParts
<1>4. ASSUME NEW b \in Connections
      PROVE  Wire(b)' /\ Exact(b)'
  <2>1. PICK u \in Seq(Packet) : u = out[b]
    BY <1>2
  <2>2. Wire(b) /\ Exact(b) /\ Sent(b, u)
    BY <1>2, <2>1 DEF SInv
  <2>3. open[b] => \A i \in DOMAIN u : PacketOK(b, u[i])'
    BY <2>1
  <2>4. /\ (\A i \in DOMAIN toServer[b] : RequestOK(b, toServer[b][i]))'
        /\ end[b] = "none" => toServer'[b] = <<>>
    <3>1. \/ toServer'[b] = toServer[b]
          \/ toServer[b] # <<>> /\ toServer'[b] = Tail(toServer[b])
      OBVIOUS
    <3> QED BY <1>1, <2>2, <3>1, FewerRequests
  <2>5. Wire(b)'
    BY <1>1, <2>2, <2>3, <2>4, SentWire
  <2>6. ASSUME toServer'[b] = toServer[b], \A i \in DOMAIN u : ~IsReply(u[i])
        PROVE  Exact(b)'
    BY <1>1, <2>2, <2>6, SentExact
  <2>7. ASSUME toServer[b] # <<>>, toServer'[b] = Tail(toServer[b]),
               NEW m \in DOMAIN u, u[m].id = Head(toServer[b]).id,
               \A i \in DOMAIN u : IsReply(u[i]) <=> i = m
        PROVE  Exact(b)'
    BY <1>1, <2>2, <2>7, ServedExact
  <2>8. Exact(b)'
    BY <2>1, <2>6, <2>7
  <2> QED BY <2>5, <2>8
<1>5. ASSUME NEW b \in Connections, NEW j \in Ids
      PROVE  Prepared(b, j)'
  <2>1. PICK u \in Seq(Packet) : u = out[b]
    BY <1>2
  <2>2. PICK f : f = m_requests[peer[b]]
    OBVIOUS
  <2>3. Prepared(b, j) /\ Sent(b, u)
    BY <1>2, <2>1 DEF SInv
  <2>4. open[b] /\ told[j] = NoId =>
          \A i \in DOMAIN u : u[i].type = "notification" /\ u[i].job = j =>
            Awaited(toClient[b], f, j) \/ \E k \in 1 .. i - 1 : Gives(f, u[k], j)
    BY <2>1, <2>2
  <2> QED BY <1>1, <2>2, <2>3, <2>4, SentPrepared
<1> QED BY <1>3, <1>4, <1>5 DEF SInv

LEMMA NoticesAre ==
    ASSUME TypeOK, NEW j \in Ids, NEW s \in JobState, NEW t \in JobState,
           NEW lut \in [Ids -> Connections \cup {Null}]
    PROVE  /\ Notices(lut, j, s, t) \in [Connections -> Seq(Packet)]
           /\ \A b \in Connections : Notices(lut, j, s, t)[b] =
                IF s # t /\ b = lut[j] THEN <<Notice(j, s, t)>> ELSE <<>>
<1>1. Notice(j, s, t) \in Packet
  BY DEF Notice, Packet
<1> PICK n \in Packet : n = Notice(j, s, t)
  BY <1>1
<1> <<n>> \in Seq(Packet)
  OBVIOUS
<1>2. PICK u \in Seq(Packet) : u = <<Notice(j, s, t)>>
  OBVIOUS
<1> PICK e \in Seq(Packet) : e = <<>>
  BY EmptySeq
<1>3. CASE s = t \/ lut[j] = Null
  <2>1. Notices(lut, j, s, t) = To(Null, <<>>)
    BY <1>3 DEF Notices
  <2>2. \A b \in Connections : ~(s # t /\ b = lut[j])
    BY <1>3, Names
  <2>3. /\ To(Null, e) \in [Connections -> Seq(Packet)]
        /\ \A b \in Connections : To(Null, e)[b] = <<>>
    BY ToTyped
  <2> QED BY <2>1, <2>2, <2>3
<1>4. CASE s # t /\ lut[j] # Null
  <2>1. Notices(lut, j, s, t) = To(lut[j], <<Notice(j, s, t)>>)
    BY <1>4 DEF Notices
  <2>2. /\ To(lut[j], u) \in [Connections -> Seq(Packet)]
        /\ \A b \in Connections : To(lut[j], u)[b] = IF b = lut[j] THEN u ELSE <<>>
    BY ToTyped
  <2> QED BY <1>2, <1>4, <2>1, <2>2
<1> QED BY <1>3, <1>4

\* A notification that is sent is about a job of the client it is sent to.
LEMMA NoticeOK ==
    ASSUME SInv, NEW j \in Ids, m_connectionLUT[j] # Null,
           NEW s \in JobState, NEW t \in JobState,
           NEW b, b = m_connectionLUT[j], NEW p, p = Notice(j, s, t)
    PROVE  /\ b \in Connections /\ peer[b] \in Clients /\ p \in Packet
           /\ PacketOK(b, p) /\ ~IsReply(p)
           /\ p.type = "notification" /\ p.job = j /\ p.old = s /\ p.new = t
<1>1. b \in Connections
  BY DEF SInv, TypeOK
<1>2. end[b] = "open" /\ peer[b] = submitter[j] /\ Wire(b)
  BY <1>1 DEF SInv, Routed
<1>3. peer[b] \in Clients
  BY <1>2 DEF Wire
<1>4. /\ p.type = "notification" /\ p.job = j /\ p.old = s /\ p.new = t
      /\ p.id = Null
  BY DEF Notice
<1>5. p \in Packet
  BY DEF Packet, Notice
<1>6. PacketOK(b, p)
  BY <1>2, <1>3, <1>4, Names DEF PacketOK
<1> QED BY <1>1, <1>3, <1>4, <1>5, <1>6 DEF IsReply

\* The jobs' records when one job goes from one state to another.
LEMMA MovedRecords ==
    ASSUME SInv, NEW j \in Ids, NEW t \in JobState, jobState[j] \in JobState,
           jobState' = [jobState EXCEPT ![j] = t],
           UNCHANGED <<submitter, savedState, savedCounter, told,
                       m_connectionLUT, running>>,
           NEW k \in Ids
    PROVE  Recorded(k)'
<1>1. Recorded(k) /\ TypeOK
  BY DEF SInv
<1>2. jobState'[k] = IF k = j THEN t ELSE jobState[k]
  BY <1>1 DEF TypeOK
<1>3. submitter[k] = Null => k # j
  BY <1>1, Names DEF Recorded
<1> QED BY <1>1, <1>2, <1>3, Names DEF Recorded

LEMMA QueueProgressGood ==
    ASSUME SInv, NEW j \in Ids, QueueProgress(j)
    PROVE  SInv'
<1>1. TypeOK
  BY DEF SInv
<1>2. PICK s, t \in JobState :
        /\ jobState[j] = s /\ jobState' = [jobState EXCEPT ![j] = t]
        /\ Send(Notices(m_connectionLUT, j, s, t))
  <2>1. PICK step \in QueueSteps :
          /\ jobState[j] = step[1]
          /\ jobState' = [jobState EXCEPT ![j] = step[2]]
          /\ Send(Notices(m_connectionLUT, j, step[1], step[2]))
    BY DEF QueueProgress
  <2>2. step[1] \in JobState /\ step[2] \in JobState
    BY SessionAssumption
  <2> QED BY <2>1, <2>2
<1>3. PICK lut \in [Ids -> Connections \cup {Null}] : lut = m_connectionLUT
  BY <1>1 DEF TypeOK
<1>4. PICK p : p = Notice(j, s, t)
  OBVIOUS
<1>5. PICK out \in [Connections -> Seq(Packet)] :
        /\ Send(out)
        /\ \A b \in Connections :
             out[b] = IF s # t /\ b = lut[j] THEN <<p>> ELSE <<>>
  BY <1>1, <1>2, <1>3, <1>4, NoticesAre
<1>6. \A b \in Connections : Sent(b, out[b]) /\ out[b] \in Seq(Packet)
  BY <1>1, <1>5, SendIs
<1>7. toClient' \in [Connections -> Seq(Packet)]
  BY <1>1, <1>5, SendIs
<1>8. /\ Quiet
      /\ UNCHANGED <<running, listening, socketFile, m_connectionLUT, toServer,
                     m_moleQueueIdCounter, savedCounter, savedState, starts,
                     whole, submitter>>
  BY DEF QueueProgress, Quiet, fileVars, clientVars
<1>9. TypeOK'
  BY <1>1, <1>2, <1>7, <1>8 DEF TypeOK, Quiet
<1>10. Process'
  BY <1>8 DEF SInv, Process, Quiet
<1>11. ASSUME NEW b \in Connections, b = lut[j]
       PROVE  /\ PacketOK(b, p) /\ PacketOK(b, p)' /\ ~IsReply(p)
              /\ p.type = "notification" /\ p.job = j /\ p.old = s /\ p.new = t
  <2>1. /\ PacketOK(b, p) /\ ~IsReply(p) /\ p \in Packet /\ peer[b] \in Clients
        /\ p.type = "notification" /\ p.job = j /\ p.old = s /\ p.new = t
    BY <1>3, <1>4, <1>11, Names, NoticeOK
  <2>2. PacketOK(b, p)'
    BY <1>1, <1>8, <1>9, <2>1, QuietStays, PacketStays
  <2> QED BY <2>1, <2>2
<1>12. \A b \in Connections : open[b] =>
         \A i \in DOMAIN out[b] : PacketOK(b, out[b][i])'
  <2>1. ASSUME NEW b \in Connections, NEW i \in DOMAIN out[b]
        PROVE  b = lut[j] /\ out[b][i] = p
    BY <1>5
  <2>2. ASSUME NEW b \in Connections, NEW i \in DOMAIN out[b],
               NEW q, q = out[b][i]
        PROVE  PacketOK(b, q)'
    BY <1>11, <2>1, <2>2
  <2> QED BY <2>2
<1>13. \A b \in Connections :
         /\ toServer'[b] = toServer[b]
         /\ \A i \in DOMAIN out[b] : ~IsReply(out[b][i])
  BY <1>5, <1>8, <1>11
<1>14. ASSUME NEW b \in Connections, NEW k \in Ids, open[b], told[k] = NoId,
              NEW i \in DOMAIN out[b], out[b][i].job = k
       PROVE  Awaited(toClient[b], m_requests[peer[b]], k)
  <2>1. b = lut[j] /\ out[b][i] = p
    BY <1>5
  <2>2. k = j
    BY <1>11, <1>14, <2>1
  <2>3. Routed(j) /\ b # Null
    BY Names DEF SInv
  <2> QED BY <1>3, <1>14, <2>1, <2>2, <2>3 DEF Routed
<1>15. ASSUME NEW k \in Ids
       PROVE  Recorded(k)' /\ Routed(k)'
  <2>1. Recorded(k)'
    BY <1>2, <1>8, MovedRecords DEF Quiet
  <2>2. PICK b : b = m_connectionLUT[k]
    OBVIOUS
  <2>3. Routed(k) /\ submitter'[k] = submitter[k]
        /\ m_connectionLUT'[k] = m_connectionLUT[k]
    BY <1>8 DEF SInv
  <2>4. b # Null => b \in Connections
    BY <1>1, <2>2 DEF TypeOK
  <2>5. jobState'[k] = IF k = j THEN t ELSE jobState[k]
    BY <1>1, <1>2 DEF TypeOK
  <2>6. b # Null => jobState'[k] \in JobState
    BY <2>2, <2>3, <2>5 DEF Routed
  <2>7. PICK u \in Seq(Packet) : u = IF b # Null THEN out[b] ELSE <<>>
    BY <1>6, <2>4, EmptySeq
  <2>8. b # Null => Sent(b, u)
    BY <1>6, <2>4, <2>7
  <2>9. ASSUME b # Null
        PROVE  \/ About(u, k) = {} /\ jobState'[k] = jobState[k]
               \/ \E m \in DOMAIN u : /\ About(u, k) = {m}
                                      /\ u[m].old = jobState[k]
                                      /\ u[m].new = jobState'[k]
    <3>1. u = IF s # t /\ b = lut[j] THEN <<p>> ELSE <<>>
      BY <1>5, <2>4, <2>7, <2>9
    <3>2. CASE u = <<>>
      <4>1. About(u, k) = {}
        BY <3>2 DEF About
      <4>2. jobState'[k] = jobState[k]
        BY <1>2, <1>3, <2>2, <2>5, <3>1, <3>2
      <4> QED BY <4>1, <4>2
    <3>3. CASE u = <<p>> /\ s # t /\ b = lut[j]
      <4>1. p.job = j /\ p.old = s /\ p.new = t
        BY <1>11, <2>4, <2>9, <3>3
      <4>2. DOMAIN u = {1} /\ u[1] = p
        BY <3>3
      <4>3. CASE k = j
        <5>1. About(u, k) = {1}
          BY <4>1, <4>2, <4>3, Names DEF About
        <5> QED BY <1>2, <2>5, <4>1, <4>2, <4>3, <5>1
      <4>4. CASE k # j
        <5>1. About(u, k) = {}
          BY <4>1, <4>2, <4>4 DEF About
        <5> QED BY <2>5, <4>4, <5>1
      <4> QED BY <4>3, <4>4
    <3> QED BY <3>1, <3>2, <3>3
  <2>10. Routed(k)'
    BY <1>1, <1>8, <2>2, <2>3, <2>6, <2>8, <2>9, SentRouted
  <2> QED BY <2>1, <2>10
<1> QED BY <1>5, <1>8, <1>9, <1>10, <1>12, <1>13, <1>14, <1>15, HandlerGood

LEMMA Pairs ==
    ASSUME NEW p \in Packet, NEW r \in Packet
    PROVE  /\ <<p>> \o <<r>> = <<p, r>> /\ <<>> \o <<r>> = <<r>>
           /\ <<p>> \o <<>> = <<p>> /\ <<>> \o <<>> = <<>>
           /\ <<p, r>> \in Seq(Packet) /\ <<p>> \in Seq(Packet)
           /\ DOMAIN <<p, r>> = {1, 2} /\ DOMAIN <<p>> = {1}
<1>1. <<p, r>> \in Seq(Packet) /\ <<p>> \in Seq(Packet) /\ <<r>> \in Seq(Packet)
  OBVIOUS
<1>2. DOMAIN <<p, r>> = {1, 2} /\ DOMAIN <<p>> = {1} /\ Len(<<p>>) = 1
  OBVIOUS
<1>3. <<>> \o <<r>> = <<r>> /\ <<p>> \o <<>> = <<p>> /\ <<>> \o <<>> = <<>>
  BY <1>1, ConcatEmptySeq, EmptySeq
<1>4. <<p>> \o <<r>> = <<p, r>>
  <2>1. /\ <<p>> \o <<r>> \in Seq(Packet) /\ Len(<<p>> \o <<r>>) = 2
        /\ \A i \in 1 .. 2 :
             (<<p>> \o <<r>>)[i] = IF i <= 1 THEN <<p>>[i] ELSE <<r>>[i - 1]
    BY <1>1, ConcatProperties
  <2>2. /\ <<p, r>> \in Seq(Packet) /\ Len(<<p, r>>) = 2
        /\ \A i \in 1 .. 2 :
             <<p, r>>[i] = IF i <= 1 THEN <<p>>[i] ELSE <<r>>[i - 1]
    OBVIOUS
  <2> QED BY <2>1, <2>2, SeqEqual
<1> QED BY <1>1, <1>2, <1>3, <1>4

LEMMA HandleCancelJobRequestGood ==
    ASSUME SInv, NEW a \in Connections, HandleCancelJobRequest(a)
    PROVE  SInv'
<1> DEFINE q == Head(toServer[a])
<1>1. TypeOK
  BY DEF SInv
<1>2. Request0(a, "cancelJob")
  BY DEF HandleCancelJobRequest
<1>3. /\ running /\ peer[a] \in Clients /\ toServer[a] # <<>>
      /\ toServer' \in [Connections -> Seq(Request \cup {Garbage})]
      /\ toServer'[a] = Tail(toServer[a])
      /\ \A b \in Connections : b # a => toServer'[b] = toServer[b]
      /\ q.id \in RequestIds /\ q.id < m_packetCounter[peer[a]]
      /\ m_requests[peer[a]][q.id] = "cancelJob" /\ q.job \in Ids
  BY <1>2, Served
<1>4. PICK j \in Ids : j = q.job
  BY <1>3
<1>5. PICK t \in {jobState[j], "Canceled"} :
        /\ jobState[j] \in RpcCancelable
        /\ jobState' = [jobState EXCEPT ![j] = t]
        /\ Send([b \in Connections |->
                   Notices(m_connectionLUT, j, jobState[j], t)[b]
                   \o To(a, <<Result(q.id, j, Null)>>)[b]])
  BY <1>4 DEF HandleCancelJobRequest
<1>6. PICK s : s = jobState[j]
  OBVIOUS
<1>7. s \in JobState /\ t \in JobState
  BY <1>5, <1>6 DEF JobState, RpcCancelable
<1>8. PICK lut \in [Ids -> Connections \cup {Null}] : lut = m_connectionLUT
  BY <1>1 DEF TypeOK
<1>9. PICK p \in Packet : p = Notice(j, s, t)
  BY <1>3, <1>7, RequestTypes
<1>10. PICK r \in Packet : r = Result(q.id, j, Null)
  BY <1>3, <1>7, RequestTypes
<1> HIDE DEF q
<1> DEFINE sent == [b \in Connections |->
                      IF s # t /\ b = lut[j]
                      THEN IF b = a THEN <<p, r>> ELSE <<p>>
                      ELSE IF b = a THEN <<r>> ELSE <<>>]
<1>11. sent \in [Connections -> Seq(Packet)]
  BY Pairs, EmptySeq
<1>12. Send(sent)
  <2>1. ASSUME NEW b \in Connections
        PROVE  Notices(m_connectionLUT, j, s, t)[b]
                 \o To(a, <<Result(q.id, j, Null)>>)[b] = sent[b]
    <3>1. Notices(m_connectionLUT, j, s, t)[b] =
            IF s # t /\ b = lut[j] THEN <<p>> ELSE <<>>
      BY <1>1, <1>7, <1>8, <1>9, NoticesAre
    <3>2. To(a, <<Result(q.id, j, Null)>>)[b] = IF b = a THEN <<r>> ELSE <<>>
      BY <1>10 DEF To
    <3> QED BY <3>1, <3>2, Pairs
  <2> QED BY <1>5, <1>6, <2>1 DEF Send
<1>13. PICK out \in [Connections -> Seq(Packet)] : out = sent
  BY <1>11
<1>14. \A b \in Connections : out[b] =
         IF s # t /\ b = lut[j]
         THEN IF b = a THEN <<p, r>> ELSE <<p>>
         ELSE IF b = a THEN <<r>> ELSE <<>>
  BY <1>13
<1>15. Send(out)
  BY <1>12, <1>13
<1> HIDE DEF sent
<1>16. /\ toClient' \in [Connections -> Seq(Packet)]
       /\ \A b \in Connections : Sent(b, out[b]) /\ out[b] \in Seq(Packet)
  BY <1>1, <1>15, SendIs
<1>17. /\ Quiet
       /\ UNCHANGED <<running, listening, socketFile, m_connectionLUT,
                      m_moleQueueIdCounter, savedCounter, savedState, starts,
                      whole, submitter>>
  BY DEF HandleCancelJobRequest, Request0, Quiet
<1>18. TypeOK'
  BY <1>1, <1>3, <1>5, <1>7, <1>16, <1>17 DEF TypeOK, Quiet
<1>19. Process'
  BY <1>17 DEF SInv, Process, Quiet
<1>20. \A b \in Connections, x \in Packet :
         peer[b] \in Clients /\ PacketOK(b, x) => PacketOK(b, x)'
  BY <1>1, <1>17, <1>18, QuietStays, PacketStays
<1>21. ASSUME NEW b \in Connections, b = lut[j]
       PROVE  /\ PacketOK(b, p)' /\ ~IsReply(p)
              /\ p.type = "notification" /\ p.job = j /\ p.old = s /\ p.new = t
  BY <1>7, <1>8, <1>9, <1>20, <1>21, Names, NoticeOK
<1>22. /\ PacketOK(a, r)' /\ IsReply(r) /\ r.id = q.id /\ r.new = Null
       /\ r.type # "notification"
  <2>1. PacketOK(a, r)
    BY <1>3, <1>10, Names DEF PacketOK, Result
  <2> QED BY <1>3, <1>10, <1>20, <2>1 DEF IsReply, Result
<1>23. \A b \in Connections : \A i \in DOMAIN out[b] :
         \/ i = 1 /\ s # t /\ b = lut[j] /\ out[b][i] = p
         \/ b = a /\ out[b][i] = r
  BY <1>14, Pairs
<1>24. ASSUME NEW b \in Connections, NEW i \in DOMAIN out[b], NEW x, x = out[b][i]
       PROVE  PacketOK(b, x)'
  BY <1>21, <1>22, <1>23, <1>24
<1>25. ASSUME NEW b \in Connections
       PROVE  \/ /\ toServer'[b] = toServer[b]
                 /\ \A i \in DOMAIN out[b] : ~IsReply(out[b][i])
              \/ /\ toServer[b] # <<>> /\ toServer'[b] = Tail(toServer[b])
                 /\ \E m \in DOMAIN out[b] :
                      /\ out[b][m].id = Head(toServer[b]).id
                      /\ \A i \in DOMAIN out[b] : IsReply(out[b][i]) <=> i = m
  <2>1. CASE b # a
    BY <1>3, <1>21, <1>23, <2>1
  <2>2. CASE b = a /\ s # t /\ b = lut[j]
    <3>1. out[b] = <<p, r>>
      BY <1>14, <2>2
    <3>2. ~IsReply(p)
      BY <1>21, <2>2
    <3>3. /\ 2 \in DOMAIN out[b] /\ out[b][2].id = Head(toServer[b]).id
          /\ \A i \in DOMAIN out[b] : IsReply(out[b][i]) <=> i = 2
      BY <1>22, <2>2, <3>1, <3>2, Pairs DEF q
    <3> QED BY <1>3, <2>2, <3>3
  <2>3. CASE b = a /\ ~(s # t /\ b = lut[j])
    <3>1. out[b] = <<r>>
      BY <1>14, <2>3
    <3>2. /\ 1 \in DOMAIN out[b] /\ out[b][1].id = Head(toServer[b]).id
          /\ \A i \in DOMAIN out[b] : IsReply(out[b][i]) <=> i = 1
      BY <1>22, <2>3, <3>1, Pairs DEF q
    <3> QED BY <1>3, <2>3, <3>2
  <2> QED BY <2>1, <2>2, <2>3
<1>26. ASSUME NEW b \in Connections, NEW k \in Ids, open[b], told[k] = NoId,
              NEW i \in DOMAIN out[b],
              out[b][i].type = "notification", out[b][i].job = k
       PROVE  Awaited(toClient[b], m_requests[peer[b]], k)
  <2>1. b = lut[j] /\ out[b][i] = p
    BY <1>22, <1>23, <1>26
  <2>2. k = j
    BY <1>21, <1>26, <2>1
  <2>3. Routed(j) /\ b # Null
    BY Names DEF SInv
  <2> QED BY <1>8, <1>26, <2>1, <2>2, <2>3 DEF Routed
<1>27. ASSUME NEW k \in Ids
       PROVE  Recorded(k)' /\ Routed(k)'
  <2>1. Recorded(k)'
    BY <1>5, <1>6, <1>7, <1>17, MovedRecords DEF Quiet
  <2>2. PICK b : b = m_connectionLUT[k]
    OBVIOUS
  <2>3. Routed(k) /\ submitter'[k] = submitter[k]
        /\ m_connectionLUT'[k] = m_connectionLUT[k]
    BY <1>17 DEF SInv
  <2>4. b # Null => b \in Connections
    BY <1>1, <2>2 DEF TypeOK
  <2>5. jobState'[k] = IF k = j THEN t ELSE jobState[k]
    BY <1>1, <1>5 DEF TypeOK
  <2>6. b # Null => jobState'[k] \in JobState
    BY <1>7, <2>2, <2>3, <2>5 DEF Routed
  <2>7. PICK u \in Seq(Packet) : u = IF b # Null THEN out[b] ELSE <<>>
    BY <1>16, <2>4, EmptySeq
  <2>8. b # Null => Sent(b, u)
    BY <1>16, <2>4, <2>7
  <2>9. ASSUME b # Null
        PROVE  \/ About(u, k) = {} /\ jobState'[k] = jobState[k]
               \/ \E m \in DOMAIN u : /\ About(u, k) = {m}
                                      /\ u[m].old = jobState[k]
                                      /\ u[m].new = jobState'[k]
    <3>1. \A i \in DOMAIN u :
            \/ i = 1 /\ s # t /\ b = lut[j] /\ u[i] = p
            \/ u[i].new = Null
      BY <1>22, <1>23, <2>4, <2>7, <2>9
    <3>2. CASE s # t /\ b = lut[j] /\ k = j
      <4>1. p.job = j /\ p.old = s /\ p.new = t
        BY <1>21, <2>4, <2>9, <3>2
      <4>2. 1 \in DOMAIN u /\ u[1] = p
        BY <1>14, <2>4, <2>7, <2>9, <3>2, Pairs
      <4>3. About(u, k) = {1}
        BY <1>7, <3>1, <3>2, <4>1, <4>2, Names DEF About
      <4> QED BY <1>6, <2>5, <3>2, <4>1, <4>2, <4>3
    <3>3. CASE ~(s # t /\ b = lut[j] /\ k = j)
      <4>1. About(u, k) = {}
        BY <1>21, <2>4, <2>9, <3>1, <3>3 DEF About
      <4>2. jobState'[k] = jobState[k]
        BY <1>6, <1>8, <2>2, <2>5, <3>3
      <4> QED BY <4>1, <4>2
    <3> QED BY <3>2, <3>3
  <2>10. Routed(k)'
    BY <1>1, <1>17, <2>2, <2>3, <2>6, <2>8, <2>9, SentRouted
  <2> QED BY <2>1, <2>10
<1> QED BY <1>15, <1>17, <1>18, <1>19, <1>24, <1>25, <1>26, <1>27, HandlerGood

\* The next id is one nobody has heard of.
LEMMA NextIsFresh ==
    ASSUME SInv, running, NEW j \in Ids, j = m_moleQueueIdCounter + 1
    PROVE  /\ submitter[j] = Null /\ told[j] = NoId /\ m_connectionLUT[j] = Null
           /\ jobState[j] = NotCreated
           /\ \A b \in Connections : \A i \in DOMAIN toClient[b] :
                toClient[b][i].job = j =>
                  toClient[b][i].type # "notification" /\ toClient[b][i].new = Null
<1>1. j \in Nat /\ savedCounter \in Nat /\ j > savedCounter
  BY SessionAssumption DEF SInv, TypeOK, Process, Ids
<1>2. submitter[j] = Null
  BY <1>1 DEF SInv, Recorded
<1>3. told[j] = NoId /\ m_connectionLUT[j] = Null /\ jobState[j] = NotCreated
  BY <1>2 DEF SInv, Recorded
<1>4. ASSUME NEW b \in Connections, NEW i \in DOMAIN toClient[b],
             toClient[b][i].job = j
      PROVE  toClient[b][i].type # "notification" /\ toClient[b][i].new = Null
  <2>1. Wire(b) /\ toClient[b] # <<>>
    BY <1>4 DEF SInv
  <2>2. peer[b] \in Clients /\ PacketOK(b, toClient[b][i])
    BY <2>1 DEF Wire
  <2> QED BY <1>2, <1>4, <2>2, Names DEF PacketOK
<1> QED BY <1>2, <1>3, <1>4

LEMMA HandleSubmitJobRequestGood ==
    ASSUME SInv, NEW a \in Connections, HandleSubmitJobRequest(a)
    PROVE  SInv'
<1> DEFINE q == Head(toServer[a])
<1>1. TypeOK
  BY DEF SInv
<1>2. Request0(a, "submitJob")
  BY DEF HandleSubmitJobRequest
<1>3. /\ running /\ peer[a] \in Clients /\ toServer[a] # <<>>
      /\ end[a] = "open"
      /\ toServer' \in [Connections -> Seq(Request \cup {Garbage})]
      /\ toServer'[a] = Tail(toServer[a])
      /\ \A b \in Connections : b # a => toServer'[b] = toServer[b]
      /\ q.id \in RequestIds /\ q.id < m_packetCounter[peer[a]]
      /\ m_requests[peer[a]][q.id] = "submitJob" /\ q \in Request
  BY <1>2, Served
<1>4. PICK j \in Ids : j = m_moleQueueIdCounter + 1
  BY DEF HandleSubmitJobRequest
<1>5. PICK s : s = q.given
  OBVIOUS
<1>6. s \in JobState
  BY <1>3, <1>5, SessionAssumption DEF Request
<1>7. PICK lut : lut = [m_connectionLUT EXCEPT ![j] = a]
  OBVIOUS
<1>8. /\ lut \in [Ids -> Connections \cup {Null}] /\ lut[j] = a
      /\ \A k \in Ids : k # j => lut[k] = m_connectionLUT[k]
  BY <1>1, <1>7 DEF TypeOK
<1>9. /\ m_moleQueueIdCounter' = j /\ savedCounter' = j
      /\ savedState' = [Saved EXCEPT ![j] = s]
      /\ jobState' = [jobState EXCEPT ![j] = "Accepted"]
      /\ m_connectionLUT' = lut
      /\ submitter' = [submitter EXCEPT ![j] = peer[a]]
      /\ Send(To(a, <<Result(q.id, j, Null)>> \o Notices(lut, j, s, "Accepted")[a]))
  BY <1>4, <1>5, <1>7
     DEF HandleSubmitJobRequest, CounterStored, Synced, ResponseFirst
<1>10. PICK p \in Packet : p = Notice(j, s, "Accepted")
  BY <1>3, <1>6, Names, RequestTypes
<1>11. PICK r \in Packet : r = Result(q.id, j, Null)
  BY <1>3, <1>6, RequestTypes
<1> HIDE DEF q
<1>12. PICK u \in Seq(Packet) : u = IF s # "Accepted" THEN <<r, p>> ELSE <<r>>
  BY Pairs
<1>13. Send(To(a, u))
  <2>1. Notices(lut, j, s, "Accepted")[a] = IF s # "Accepted" THEN <<p>> ELSE <<>>
    BY <1>1, <1>6, <1>8, <1>10, Names, NoticesAre
  <2>2. <<r>> \o Notices(lut, j, s, "Accepted")[a] = u
    BY <1>12, <2>1, Pairs
  <2> QED BY <1>9, <1>11, <2>2
<1>14. PICK out \in [Connections -> Seq(Packet)] :
         /\ out = To(a, u)
         /\ \A b \in Connections : out[b] = IF b = a THEN u ELSE <<>>
  BY ToTyped
<1>15. Send(out)
  BY <1>13, <1>14
<1>16. /\ toClient' \in [Connections -> Seq(Packet)]
       /\ \A b \in Connections : Sent(b, out[b]) /\ out[b] \in Seq(Packet)
  BY <1>1, <1>15, SendIs
<1>17. /\ submitter[j] = Null /\ told[j] = NoId /\ m_connectionLUT[j] = Null
       /\ jobState[j] = NotCreated
       /\ \A i \in DOMAIN toClient[a] : toClient[a][i].job = j =>
            toClient[a][i].type # "notification" /\ toClient[a][i].new = Null
  BY <1>3, <1>4, NextIsFresh
<1>18. /\ submitter'[j] = peer[a]
       /\ \A k \in Ids : k # j => submitter'[k] = submitter[k]
  BY <1>1, <1>9 DEF TypeOK
<1>19. /\ Quiet
       /\ UNCHANGED <<running, listening, socketFile, starts, whole>>
  BY <1>2, <1>17, <1>18 DEF Request0, Quiet
<1>20. /\ jobState'[j] = "Accepted" /\ savedState'[j] = s
       /\ \A k \in Ids : k # j =>
            /\ jobState'[k] = jobState[k]
            /\ savedState'[k] = IF jobState[k] = NotCreated THEN savedState[k]
                                ELSE jobState[k]
       /\ jobState' \in [Ids -> JobState \cup {NotCreated, Removed}]
       /\ savedState' \in [Ids -> JobState \cup {NotCreated, Removed}]
  BY <1>1, <1>6, <1>9, Names DEF TypeOK, Saved
<1>21. TypeOK'
  <2>1. j \in 0 .. MaxJobs
    BY SessionAssumption DEF Ids
  <2>2. submitter' \in [Ids -> Clients \cup {Null}]
    BY <1>1, <1>3, <1>9 DEF TypeOK
  <2> QED BY <1>1, <1>3, <1>8, <1>9, <1>16, <1>19, <1>20, <2>1, <2>2
          DEF TypeOK, Quiet
<1>22. Process'
  BY <1>3, <1>9, <1>19 DEF SInv, Process
<1>23. /\ p.type = "notification" /\ p.job = j /\ p.new = "Accepted"
       /\ p.old = s /\ p.id = Null /\ ~IsReply(p)
       /\ r.type = "result" /\ r.job = j /\ r.new = Null /\ r.id = q.id /\ IsReply(r)
  BY <1>10, <1>11 DEF Notice, Result, IsReply
<1>24. /\ peer'[a] = peer[a] /\ m_requests' = m_requests
       /\ m_packetCounter' = m_packetCounter
  BY <1>19 DEF Quiet
<1>25. PacketOK(a, p)' /\ PacketOK(a, r)'
  <2>1. PacketOK(a, p)'
    BY <1>3, <1>6, <1>18, <1>23, <1>24, Names DEF PacketOK
  <2>2. PacketOK(a, r)'
    BY <1>3, <1>23, <1>24, Names DEF PacketOK
  <2> QED BY <2>1, <2>2
<1>26. /\ 1 \in DOMAIN u /\ u[1] = r
       /\ \A i \in DOMAIN u : i = 1 \/ (i = 2 /\ u[i] = p /\ s # "Accepted")
       /\ s # "Accepted" => 2 \in DOMAIN u /\ u[2] = p
  BY <1>12, Pairs
<1>27. ASSUME NEW b \in Connections, NEW i \in DOMAIN out[b], NEW x, x = out[b][i]
       PROVE  PacketOK(b, x)'
  <2>1. b = a /\ (x = p \/ x = r)
    BY <1>14, <1>26, <1>27
  <2> QED BY <1>25, <2>1
<1>28. ASSUME NEW b \in Connections
       PROVE  \/ /\ toServer'[b] = toServer[b]
                 /\ \A i \in DOMAIN out[b] : ~IsReply(out[b][i])
              \/ /\ toServer[b] # <<>> /\ toServer'[b] = Tail(toServer[b])
                 /\ \E m \in DOMAIN out[b] :
                      /\ out[b][m].id = Head(toServer[b]).id
                      /\ \A i \in DOMAIN out[b] : IsReply(out[b][i]) <=> i = m
  <2>1. CASE b # a
    BY <1>3, <1>14, <2>1
  <2>2. CASE b = a
    <3>1. /\ 1 \in DOMAIN u /\ u[1].id = Head(toServer[a]).id
          /\ \A i \in DOMAIN u : IsReply(u[i]) <=> i = 1
      BY <1>23, <1>26 DEF q
    <3>2. out[a] = u
      BY <1>14
    <3>3. \E m \in DOMAIN u :
            /\ u[m].id = Head(toServer[a]).id
            /\ \A i \in DOMAIN u : IsReply(u[i]) <=> i = m
      BY <3>1
    <3> QED BY <1>3, <2>2, <3>2, <3>3
  <2> QED BY <2>1, <2>2
<1>29. Gives(m_requests[peer[a]], r, j)
  BY <1>3, <1>23 DEF Gives
<1>30. ASSUME NEW b \in Connections, NEW k \in Ids, NEW i \in DOMAIN out[b],
              out[b][i].type = "notification", out[b][i].job = k
       PROVE  \E l \in 1 .. i - 1 : Gives(m_requests[peer[b]], out[b][l], k)
  <2>1. b = a /\ out[b] = u
    BY <1>14, <1>30
  <2>2. i = 2 /\ k = j
    BY <1>23, <1>26, <1>30, <2>1
  <2> QED BY <1>26, <1>29, <2>1, <2>2
<1>31. ASSUME NEW k \in Ids
       PROVE  Recorded(k)'
  <2>1. CASE k = j
    <3>1. submitter'[k] # Null /\ savedState'[k] # NotCreated
          /\ jobState'[k] # NotCreated
      BY <1>3, <1>6, <1>18, <1>20, <2>1, Names
    <3>2. k =< savedCounter'
      BY <1>9, <2>1, Names
    <3> QED BY <3>1, <3>2 DEF Recorded
  <2>2. CASE k # j
    <3>1. Recorded(k) /\ submitter'[k] = submitter[k]
          /\ jobState'[k] = jobState[k] /\ told'[k] = told[k]
          /\ m_connectionLUT'[k] = m_connectionLUT[k]
      BY <1>8, <1>9, <1>18, <1>19, <1>20, <2>2 DEF SInv, Quiet
    <3>2. k =< savedCounter => k =< savedCounter'
      BY <1>3, <1>4, <1>9, Names, SessionAssumption DEF SInv, Process, TypeOK
    <3> QED BY <1>3, <1>20, <2>2, <3>1, <3>2 DEF Recorded
  <2> QED BY <2>1, <2>2
<1>32. ASSUME NEW k \in Ids
       PROVE  Routed(k)'
  <2>1. CASE k # j
    <3>1. PICK b : b = m_connectionLUT[k]
      OBVIOUS
    <3>2. /\ Routed(k) /\ submitter'[k] = submitter[k]
          /\ m_connectionLUT'[k] = m_connectionLUT[k]
          /\ jobState'[k] = jobState[k]
      BY <1>8, <1>9, <1>18, <1>20, <2>1 DEF SInv
    <3>3. b # Null => b \in Connections
      BY <1>1, <3>1 DEF TypeOK
    <3>4. PICK v \in Seq(Packet) : v = IF b = a THEN u ELSE <<>>
      BY EmptySeq
    <3>5. b # Null => Sent(b, v) /\ jobState'[k] \in JobState
      BY <1>14, <1>16, <3>1, <3>2, <3>3, <3>4 DEF Routed
    <3>6. About(v, k) = {}
      <4>1. \A i \in DOMAIN u : u[i].job = j
        BY <1>23, <1>26
      <4>2. About(u, k) = {} /\ About(<<>>, k) = {}
        BY <2>1, <4>1 DEF About
      <4> QED BY <3>4, <4>2
    <3> QED BY <1>1, <1>19, <3>1, <3>2, <3>5, <3>6, SentRouted
  <2>2. CASE k = j
    <3>1. /\ m_connectionLUT'[k] = a /\ end'[a] = "open"
          /\ peer'[a] = submitter'[k] /\ jobState'[k] = "Accepted"
          /\ told'[k] = NoId /\ open'[a] = open[a]
      BY <1>3, <1>8, <1>9, <1>17, <1>18, <1>19, <1>20, <2>2 DEF Quiet
    <3>2. ASSUME open[a]
          PROVE  /\ Chained(toClient'[a], k, NoId, "Accepted")
                 /\ Awaited(toClient'[a], m_requests[peer[a]], k)
      <4>1. toClient[a] \in Seq(Packet) /\ toClient'[a] = toClient[a] \o u
        BY <1>1, <1>14, <1>16, <3>2 DEF TypeOK, Sent
      <4>2. About(toClient[a], k) = {}
        BY <1>17, <2>2 DEF About
      <4>3. Chained(toClient[a], k, NoId, s)
        BY <4>2, Names, ChainedNone
      <4>4. \/ About(u, k) = {} /\ "Accepted" = s
            \/ \E m \in DOMAIN u :
                 About(u, k) = {m} /\ u[m].old = s /\ u[m].new = "Accepted"
        <5>1. CASE s = "Accepted"
          <6>1. About(u, k) = {}
            BY <1>23, <1>26, <5>1 DEF About
          <6> QED BY <5>1, <6>1
        <5>2. CASE s # "Accepted"
          <6>1. About(u, k) = {2}
            BY <1>23, <1>26, <2>2, <5>2, Names DEF About
          <6> QED BY <1>23, <1>26, <5>2, <6>1
        <5> QED BY <5>1, <5>2
      <4>5. Chained(toClient[a] \o u, k, NoId, "Accepted")
        BY <4>1, <4>3, <4>4, ChainedMore
      <4>6. Awaited(u, m_requests[peer[a]], k)
        BY <1>26, <1>29, <2>2 DEF Awaited
      <4>7. Awaited(toClient[a] \o u, m_requests[peer[a]], k)
        BY <4>1, <4>6, AwaitedMore
      <4> QED BY <4>1, <4>5, <4>7
    <3> QED BY <1>24, <3>1, <3>2, Names DEF Routed
  <2> QED BY <2>1, <2>2
<1> QED BY <1>15, <1>19, <1>21, <1>22, <1>27, <1>28, <1>30, <1>31, <1>32,
        HandlerGood

\* A packet of which a part was read: from then on nothing is said of the
\* requests on the connection.
LEMMA MisreadGood ==
    ASSUME SInv, NEW a \in Connections, end[a] = "open",
           whole' \in [Connections -> BOOLEAN], ~whole'[a],
           \A b \in Connections : b # a => whole'[b] = whole[b]
                                           /\ toServer'[b] = toServer[b],
           toServer' \in [Connections -> Seq(Request \cup {Garbage})],
           \A i \in DOMAIN toServer'[a] :
             \/ toServer'[a][i] = Garbage
             \/ \E k \in DOMAIN toServer[a] : toServer'[a][i] = toServer[a][k],
           Send(To(a, <<ErrorReply(Null)>>)),
           UNCHANGED <<serverVars, fileVars, peer, open, clientVars>>
    PROVE  SInv'
<1>1. TypeOK
  BY DEF SInv
<1>2. PICK p : p = ErrorReply(Null)
  OBVIOUS
<1>3. /\ p \in Packet /\ IsReply(p) /\ p.type = "error" /\ p.job = Null
      /\ p.new = Null /\ p.id = Null
  BY <1>2 DEF Packet, ErrorReply, IsReply
<1>4. PICK e \in Seq(Packet) : e = <<p>> /\ DOMAIN e = {1} /\ e[1] = p
  <2>1. <<p>> \in Seq(Packet) /\ DOMAIN <<p>> = {1} /\ <<p>>[1] = p
    BY <1>3
  <2> QED BY <2>1
<1>5. PICK out \in [Connections -> Seq(Packet)] :
        /\ out = To(a, e)
        /\ \A b \in Connections : out[b] = IF b = a THEN e ELSE <<>>
  BY ToTyped
<1>6. Send(out)
  BY <1>2, <1>4, <1>5
<1>7. \A b \in Connections : \A i \in DOMAIN out[b] : b = a /\ out[b][i] = p
  BY <1>4, <1>5
<1>8. /\ toClient' \in [Connections -> Seq(Packet)]
      /\ \A b \in Connections : Sent(b, out[b]) /\ out[b] \in Seq(Packet)
  BY <1>1, <1>6, SendIs
<1>9. /\ Quiet
      /\ UNCHANGED <<running, listening, socketFile, m_connectionLUT, jobState,
                     m_moleQueueIdCounter, savedCounter, savedState, starts,
                     submitter>>
  BY DEF Quiet, serverVars, fileVars, clientVars
<1>10. TypeOK'
  BY <1>1, <1>8, <1>9 DEF TypeOK, Quiet
<1>11. Process'
  BY <1>9 DEF SInv, Process, Quiet
<1>12. OneOpen' /\ WaitsOpen'
  BY <1>9, QuietParts
<1>13. peer[a] \in Clients
  BY DEF SInv, Wire
<1>14. PacketOK(a, p)'
  BY <1>3, <1>9 DEF PacketOK
<1>15. ASSUME NEW b \in Connections
       PROVE  Wire(b)'
  <2>1. Wire(b)
    BY DEF SInv
  <2>2. PICK u \in Seq(Packet) : u = out[b]
    BY <1>8
  <2>3. \A i \in DOMAIN u : PacketOK(b, u[i])'
    BY <1>14, <1>7, <2>2
  <2>4. Sent(b, u)
    BY <1>8, <2>2
  <2>5. /\ (\A i \in DOMAIN toServer[b] : RequestOK(b, toServer[b][i]))'
        /\ end[b] = "none" => toServer'[b] = <<>>
    <3>1. CASE b # a
      BY <1>1, <1>9, <1>10, <2>1, <3>1, FewerRequests
    <3>2. CASE b = a
      <4>1. \A q : RequestOK(a, q) => RequestOK(a, q)'
        BY <1>1, <1>9, <1>10, <1>13, QuietStays, RequestStays
      <4>2. \A q : q = Garbage => RequestOK(a, q)'
        BY DEF RequestOK
      <4>3. ASSUME NEW i \in DOMAIN toServer'[a], NEW q, q = toServer'[a][i]
            PROVE  RequestOK(a, q)'
        <5>1. CASE q = Garbage
          BY <4>2, <5>1
        <5>2. ASSUME NEW k \in DOMAIN toServer[a], q = toServer[a][k]
              PROVE  RequestOK(a, q)'
          BY <2>1, <3>2, <4>1, <5>2 DEF Wire
        <5> QED BY <4>3, <5>1, <5>2
      <4> QED BY <3>2, <4>3
    <3> QED BY <3>1, <3>2
  <2> QED BY <1>1, <1>9, <1>10, <2>1, <2>3, <2>4, <2>5, SentWire
<1>16. ASSUME NEW b \in Connections
       PROVE  Exact(b)'
  <2>1. CASE b = a
    BY <2>1 DEF Exact
  <2>2. CASE b # a
    <3>1. Exact(b) /\ Sent(b, out[b]) /\ out[b] \in Seq(Packet)
      BY <1>8 DEF SInv
    <3>2. \A i \in DOMAIN out[b] : ~IsReply(out[b][i])
      BY <1>7, <2>2
    <3> QED BY <1>1, <1>9, <2>2, <3>1, <3>2, SentExact
  <2> QED BY <2>1, <2>2
<1>17. ASSUME NEW j \in Ids
       PROVE  Recorded(j)'
  BY <1>9 DEF SInv, Recorded, Quiet
<1>18. ASSUME NEW j \in Ids
       PROVE  Routed(j)'
  <2>1. PICK b : b = m_connectionLUT[j]
    OBVIOUS
  <2>2. Routed(j) /\ submitter'[j] = submitter[j] /\ jobState'[j] = jobState[j]
        /\ m_connectionLUT'[j] = m_connectionLUT[j]
    BY <1>9 DEF SInv
  <2>3. b # Null => b \in Connections
    BY <1>1, <2>1 DEF TypeOK
  <2>4. PICK u \in Seq(Packet) : u = IF b = a THEN e ELSE <<>>
    BY <1>4, EmptySeq
  <2>5. b # Null => Sent(b, u) /\ jobState'[j] \in JobState
    BY <1>5, <1>8, <2>1, <2>2, <2>3, <2>4 DEF Routed
  <2>6. About(u, j) = {}
    BY <1>3, <1>4, <2>4 DEF About
  <2> QED BY <1>1, <1>9, <2>1, <2>2, <2>5, <2>6, SentRouted
<1>19. ASSUME NEW b \in Connections, NEW j \in Ids
       PROVE  Prepared(b, j)'
  <2>1. PICK u \in Seq(Packet) : u = out[b]
    BY <1>8
  <2>2. PICK f : f = m_requests[peer[b]]
    OBVIOUS
  <2>3. Prepared(b, j) /\ Sent(b, u)
    BY <1>8, <2>1 DEF SInv
  <2>4. \A i \in DOMAIN u : u[i].type # "notification"
    BY <1>3, <1>7, <2>1
  <2> QED BY <1>1, <1>9, <2>2, <2>3, <2>4, SentPrepared
<1> QED BY <1>10, <1>11, <1>12, <1>15, <1>16, <1>17, <1>18, <1>19 DEF SInv

LEMMA MisreadingsGood ==
    ASSUME SInv, NEW a \in Connections, ReadPartOfPacket(a) \/ ReadGarbage(a)
    PROVE  SInv'
<1> DEFINE G == Request \cup {Garbage}
<1>1. TypeOK /\ Wire(a)
  BY DEF SInv
<1>2. toServer \in [Connections -> Seq(G)] /\ toServer[a] \in Seq(G)
  BY <1>1 DEF TypeOK
<1>3. toServer[a] # <<>> /\ end[a] = "open"
  BY DEF ReadPartOfPacket, ReadGarbage
<1>4. Garbage \in G
  OBVIOUS
<1> HIDE DEF G
<1>5. CASE ReadPartOfPacket(a)
  <2>1. /\ toServer' = [toServer EXCEPT ![a] = <<Garbage>> \o Tail(@)]
        /\ whole' = [whole EXCEPT ![a] = FALSE]
        /\ Send(To(a, <<ErrorReply(Null)>>))
        /\ UNCHANGED <<serverVars, fileVars, peer, open, clientVars>>
    BY <1>5 DEF ReadPartOfPacket
  <2>2. <<Garbage>> \in Seq(G) /\ DOMAIN <<Garbage>> = {1} /\ <<Garbage>>[1] = Garbage
    BY <1>4
  <2>3. Tail(toServer[a]) \in Seq(G)
    BY <1>2, <1>3, Shortened
  <2>4. <<Garbage>> \o Tail(toServer[a]) \in Seq(G)
    BY <2>2, <2>3, Joined
  <2>5. /\ toServer' \in [Connections -> Seq(G)]
        /\ toServer'[a] = <<Garbage>> \o Tail(toServer[a])
        /\ \A b \in Connections : b # a => toServer'[b] = toServer[b]
    BY <1>2, <2>1, <2>4
  <2>6. ASSUME NEW i \in DOMAIN toServer'[a]
        PROVE  \/ toServer'[a][i] = Garbage
               \/ \E k \in DOMAIN toServer[a] : toServer'[a][i] = toServer[a][k]
    <3>1. CASE i \in DOMAIN <<Garbage>>
      BY <2>2, <2>3, <2>5, <3>1, Joined
    <3>2. ASSUME NEW k \in DOMAIN Tail(toServer[a]),
                 toServer'[a][i] = Tail(toServer[a])[k]
          PROVE  \E l \in DOMAIN toServer[a] : toServer'[a][i] = toServer[a][l]
      BY <1>2, <1>3, <3>2, Shortened
    <3> QED BY <2>2, <2>3, <2>5, <3>1, <3>2, Joined
  <2>7. /\ whole' \in [Connections -> BOOLEAN] /\ ~whole'[a]
        /\ \A b \in Connections : b # a => whole'[b] = whole[b]
    BY <1>1, <2>1 DEF TypeOK
  <2> QED BY <1>3, <2>1, <2>5, <2>6, <2>7, MisreadGood DEF G
<1>6. CASE ReadGarbage(a)
  <2>1. PICK n \in 1 .. Len(toServer[a]) :
          toServer' = [toServer EXCEPT ![a] = SubSeq(@, n + 1, Len(@))]
    BY <1>6 DEF ReadGarbage
  <2>2. /\ Head(toServer[a]) = Garbage /\ whole' = whole
        /\ Send(To(a, <<ErrorReply(Null)>>))
        /\ UNCHANGED <<serverVars, fileVars, peer, open, clientVars>>
    BY <1>6 DEF ReadGarbage
  <2>3. Len(toServer[a]) \in Nat /\ DOMAIN toServer[a] = 1 .. Len(toServer[a])
        /\ 1 \in DOMAIN toServer[a] /\ Head(toServer[a]) = toServer[a][1]
    BY <1>2, <1>3, LenProperties, Shortened
  <2>4. ~whole[a]
    BY <1>1, <2>2, <2>3 DEF Wire, RequestOK
  <2> DEFINE s == toServer[a]
             t == SubSeq(s, n + 1, Len(s))
  <2>5. /\ t \in Seq(G) /\ DOMAIN t = 1 .. Len(s) - n
        /\ \A i \in 1 .. Len(s) - n : t[i] = s[n + i]
    <3>1. /\ n + 1 \in 1 .. Len(s) + 1 /\ Len(s) \in n .. Len(s)
          /\ \A i \in n + 1 .. Len(s) : s[i] \in G
      BY <1>2, <2>3, ElementOfSeq
    <3>2. /\ t \in Seq(G)
          /\ Len(t) = IF n + 1 <= Len(s) THEN Len(s) - (n + 1) + 1 ELSE 0
          /\ \A i \in 1 .. Len(s) - (n + 1) + 1 : t[i] = s[n + 1 + i - 1]
      BY <1>2, <2>3, <3>1, SubSeqProperties
    <3>3. Len(t) = Len(s) - n
      BY <2>3, <3>2
    <3>4. DOMAIN t = 1 .. Len(s) - n
      BY <3>2, <3>3, LenProperties
    <3>5. \A i \in 1 .. Len(s) - n : t[i] = s[n + i]
      BY <2>3, <3>2
    <3> QED BY <3>2, <3>4, <3>5
  <2>6. /\ toServer' \in [Connections -> Seq(G)] /\ toServer'[a] = t
        /\ \A b \in Connections : b # a => toServer'[b] = toServer[b]
    BY <1>2, <2>1, <2>5
  <2>7. \A i \in DOMAIN t : n + i \in DOMAIN s /\ t[i] = s[n + i]
    BY <2>3, <2>5
  <2>8. \A i \in DOMAIN toServer'[a] :
          \E k \in DOMAIN toServer[a] : toServer'[a][i] = toServer[a][k]
    BY <2>6, <2>7
  <2>9. whole' \in [Connections -> BOOLEAN] /\ ~whole'[a]
    BY <1>1, <2>2, <2>4 DEF TypeOK
  <2> QED BY <1>3, <2>2, <2>6, <2>8, <2>9, MisreadGood DEF G
<1> QED BY <1>5, <1>6

-----------------------------------------------------------------------------
(* The client.                                                             *)

\* What a client takes from the packet it reads.
LEMMA ReadGood ==
    ASSUME SInv, NEW a \in Connections, Reading(a), Read(a),
           NEW p, p = Head(toClient[a]), NEW c, c = peer[a],
           NEW f, f = m_requests[c],
           told' \in [Ids -> JobState \cup {NoId, Untold}],
           \A j \in Ids : told'[j] =
             IF submitter[j] = c /\ p.job = j /\ p.new # Null THEN p.new
             ELSE IF submitter[j] = c /\ Gives(f, p, j) THEN Untold
             ELSE told[j],
           outcome' \in [Clients ->
             [RequestIds -> {"none", "waiting", "lost", "answered"}]],
           \A d \in Clients : d # c => outcome'[d] = outcome[d],
           \A r \in RequestIds :
             outcome'[c][r] = "waiting" => outcome[c][r] = "waiting",
           whole[a] => outcome'[c] =
             IF IsReply(p) THEN [outcome[c] EXCEPT ![p.id] = "answered"]
             ELSE outcome[c]
    PROVE  SInv'
<1> DEFINE s == toClient[a]
<1>1. TypeOK /\ Wire(a)
  BY DEF SInv
<1>2. open[a] /\ s # <<>> /\ s \in Seq(Packet)
  BY <1>1 DEF Reading, TypeOK
<1>3. c \in Clients
  BY <1>1, <1>2 DEF Wire
<1>4. /\ Tail(s) \in Seq(Packet) /\ 1 \in DOMAIN s /\ p = s[1] /\ p \in Packet
      /\ \A i \in DOMAIN Tail(s) : i + 1 \in DOMAIN s /\ Tail(s)[i] = s[i + 1]
  BY <1>2, Shortened
<1>5. PacketOK(a, p)
  BY <1>1, <1>4 DEF Wire
<1>6. /\ UNCHANGED <<running, listening, socketFile, end, m_connectionLUT,
                     m_moleQueueIdCounter, jobState, savedCounter, savedState,
                     starts, peer, open, whole, toServer, m_packetCounter,
                     m_requests, submitter>>
      /\ toClient' = [toClient EXCEPT ![a] = Tail(@)]
  BY DEF Read, serverVars, fileVars
<1>7. /\ toClient' \in [Connections -> Seq(Packet)] /\ toClient'[a] = Tail(s)
      /\ \A b \in Connections : b # a => toClient'[b] = toClient[b]
  BY <1>1, <1>4, <1>6 DEF TypeOK
<1>8. TypeOK'
  BY <1>1, <1>6, <1>7 DEF TypeOK
<1> HIDE DEF s
<1>9. Process' /\ OneOpen'
  BY <1>6 DEF SInv, Process, OneOpen
<1>10. WaitsOpen'
  <2>1. ASSUME NEW d \in Clients, NEW r \in RequestIds, outcome'[d][r] = "waiting"
        PROVE  outcome[d][r] = "waiting"
    BY <2>1
  <2> QED BY <1>6, <2>1 DEF SInv, WaitsOpen
<1>11. \A b \in Connections : open[b] /\ b # a => peer[b] # c
  BY <1>2 DEF SInv, OneOpen
<1>12. \A b \in Connections : peer[b] \in Clients => Stays(b)
  BY <1>1, <1>6, SessionAssumption DEF Stays, TypeOK
<1>13. ASSUME NEW b \in Connections
       PROVE  Wire(b)'
  <2>1. Wire(b)
    BY DEF SInv
  <2>2. CASE b # a
    <3>1. end[b] # "none" \/ open[b] => Stays(b)
      BY <1>12, <2>1 DEF Wire
    <3> QED BY <1>1, <1>6, <1>7, <1>8, <2>1, <2>2, <3>1, WireStays
  <2>3. CASE b = a
    <3>1. \A i \in DOMAIN Tail(s) : PacketOK(a, Tail(s)[i])
      BY <1>1, <1>4 DEF Wire, s
    <3>2. (\A i \in DOMAIN toServer[a] : RequestOK(a, toServer[a][i]))'
      <4>1. \A q : RequestOK(a, q) => RequestOK(a, q)'
        BY <1>6 DEF RequestOK
      <4>2. ASSUME NEW i \in DOMAIN toServer'[a], NEW q, q = toServer'[a][i]
            PROVE  RequestOK(a, q)'
        BY <1>1, <1>6, <4>1, <4>2 DEF Wire
      <4> QED BY <4>2
    <3>3. \A i \in DOMAIN toClient'[a] : PacketOK(a, toClient[a][i])'
      <4>1. \A q : PacketOK(a, q) => PacketOK(a, q)'
        BY <1>6 DEF PacketOK
      <4>2. ASSUME NEW i \in DOMAIN toClient'[a], NEW q, q = toClient'[a][i]
            PROVE  PacketOK(a, q)'
        BY <1>7, <3>1, <4>1, <4>2
      <4> QED BY <4>2
    <3> QED BY <1>2, <1>6, <2>1, <2>3, <3>2, <3>3 DEF Wire
  <2> QED BY <2>2, <2>3
<1>14. ASSUME NEW b \in Connections
       PROVE  Exact(b)'
  <2>1. SUFFICES ASSUME open[b], whole[b]
                 PROVE  Answered(toServer[b], toClient'[b], outcome'[peer[b]])
    BY <1>6 DEF Exact
  <2>2. Answered(toServer[b], toClient[b], outcome[peer[b]])
    BY <2>1 DEF SInv, Exact
  <2>3. CASE b # a
    <3>1. peer[b] \in Clients
      BY <2>1 DEF SInv, Wire
    <3> QED BY <1>7, <1>11, <2>1, <2>2, <2>3, <3>1
  <2>4. CASE b = a
    <3>1. outcome[c] \in [RequestIds -> {"none", "waiting", "lost", "answered"}]
      BY <1>1, <1>3 DEF TypeOK
    <3>2. Answered(toServer[a], s, outcome[c])
      BY <2>2, <2>4 DEF s
    <3>3. /\ ~IsReply(s[1]) => Answered(toServer[a], Tail(s), outcome[c])
          /\ IsReply(s[1]) =>
               Answered(toServer[a], Tail(s),
                        [outcome[c] EXCEPT ![s[1].id] = "answered"])
      BY <1>2, <3>1, <3>2, AnsweredRead
    <3> QED BY <1>4, <1>7, <2>1, <2>4, <3>3
  <2> QED BY <2>3, <2>4
<1>15. ASSUME NEW j \in Ids
       PROVE  Recorded(j)'
  <2>1. submitter[j] = Null => told'[j] = told[j]
    BY <1>3, Names
  <2> QED BY <1>6, <2>1 DEF SInv, Recorded
<1>16. \A j \in Ids : told'[j] = NoId => told[j] = NoId
  <2>1. p.new # Null => p.new # NoId
    BY <1>4, Names DEF Packet
  <2> QED BY <2>1, Names
<1>17. ASSUME NEW j \in Ids
       PROVE  Routed(j)'
  <2>1. PICK b : b = m_connectionLUT[j]
    OBVIOUS
  <2>2. /\ b # Null => /\ b \in Connections /\ end[b] = "open"
                       /\ peer[b] = submitter[j] /\ jobState[j] \in JobState
        /\ b # Null /\ open[b] =>
             /\ Chained(toClient[b], j, told[j], jobState[j])
             /\ told[j] = NoId => Awaited(toClient[b], m_requests[peer[b]], j)
    BY <1>1, <2>1 DEF SInv, TypeOK, Routed
  <2>3. ASSUME b # Null, open[b], b # a
        PROVE  /\ Chained(toClient'[b], j, told'[j], jobState[j])
               /\ told'[j] = NoId => Awaited(toClient'[b], m_requests[peer[b]], j)
    <3>1. submitter[j] # c
      BY <1>11, <2>2, <2>3
    <3>2. told'[j] = told[j]
      BY <3>1
    <3> QED BY <1>7, <2>2, <2>3, <3>2
  <2>4. ASSUME b # Null, b = a
        PROVE  /\ Chained(Tail(s), j, told'[j], jobState[j])
               /\ told'[j] = NoId => Awaited(Tail(s), f, j)
    <3>1. /\ submitter[j] = c /\ Chained(s, j, told[j], jobState[j])
          /\ told[j] = NoId => Awaited(s, f, j)
      BY <1>2, <2>2, <2>4 DEF s
    <3>2. /\ 1 \notin About(s, j) => Chained(Tail(s), j, told[j], jobState[j])
          /\ 1 \in About(s, j) => Chained(Tail(s), j, s[1].new, jobState[j])
      BY <1>2, <3>1, ChainedLess
    <3>3. 1 \in About(s, j) <=> p.job = j /\ p.new # Null
      BY <1>4 DEF About
    <3>4. CASE p.job = j /\ p.new # Null
      <4>1. told'[j] = s[1].new
        BY <1>4, <3>1, <3>4
      <4>2. told'[j] # NoId
        BY <1>4, <3>4, <4>1, Names DEF Packet
      <4> QED BY <3>2, <3>3, <3>4, <4>1, <4>2
    <3>5. CASE ~(p.job = j /\ p.new # Null) /\ Gives(f, p, j)
      <4>1. told'[j] = Untold
        BY <3>1, <3>5
      <4>2. Chained(Tail(s), j, Untold, jobState[j])
        BY <3>2, <3>3, <3>5, Names, ChainedOther
      <4> QED BY <4>1, <4>2, Names
    <3>6. CASE ~(p.job = j /\ p.new # Null) /\ ~Gives(f, p, j)
      <4>1. told'[j] = told[j]
        BY <3>6
      <4>2. Awaited(s, f, j) => Awaited(Tail(s), f, j)
        BY <1>2, <1>4, <3>6, IntroducedLess
      <4> QED BY <3>1, <3>2, <3>3, <3>6, <4>1, <4>2
    <3> QED BY <3>4, <3>5, <3>6
  <2> QED BY <1>6, <1>7, <2>1, <2>2, <2>3, <2>4 DEF Routed
<1>18. ASSUME NEW b \in Connections, NEW j \in Ids
       PROVE  Prepared(b, j)'
  <2>1. SUFFICES ASSUME open[b], told'[j] = NoId
                 PROVE  Introduced(toClient'[b], m_requests[peer[b]], j)
    BY <1>6 DEF Prepared
  <2>2. told[j] = NoId /\ Introduced(toClient[b], m_requests[peer[b]], j)
    BY <1>16, <2>1 DEF SInv, Prepared
  <2>3. CASE b # a
    BY <1>7, <2>2, <2>3
  <2>4. CASE b = a /\ ~Gives(f, p, j)
    <3>1. Introduced(s, f, j)
      BY <2>2, <2>4 DEF s
    <3>2. Introduced(Tail(s), f, j)
      BY <1>2, <1>4, <2>4, <3>1, IntroducedLess
    <3> QED BY <1>7, <2>4, <3>2
  <2>5. CASE b = a /\ Gives(f, p, j)
    <3>1. submitter[j] # c
      BY <1>4, <2>1, <2>5, Names DEF Packet
    <3>2. \A i \in DOMAIN s : ~(s[i].type = "notification" /\ s[i].job = j)
      BY <1>1, <3>1 DEF Wire, PacketOK, s
    <3>3. Introduced(Tail(s), f, j)
      BY <1>4, <3>2 DEF Introduced
    <3> QED BY <1>7, <2>5, <3>3
  <2> QED BY <2>3, <2>4, <2>5
<1> QED BY <1>8, <1>9, <1>10, <1>13, <1>14, <1>15, <1>17, <1>18 DEF SInv

LEMMA HearsIs ==
    ASSUME TypeOK, NEW c, NEW j \in Ids \cup {Null}, NEW s \in JobState \cup {Untold},
           Hears(c, j, s)
    PROVE  /\ told' \in [Ids -> JobState \cup {NoId, Untold}]
           /\ \A k \in Ids : told'[k] =
                IF submitter[k] = c /\ j = k THEN s ELSE told[k]
<1>1. told \in [Ids -> JobState \cup {NoId, Untold}]
  BY DEF TypeOK
<1>2. CASE j # Null /\ submitter[j] = c
  <2>1. j \in Ids /\ told' = [told EXCEPT ![j] = s]
    BY <1>2 DEF Hears
  <2> QED BY <1>1, <1>2, <2>1
<1>3. CASE ~(j # Null /\ submitter[j] = c)
  <2>1. told' = told
    BY <1>3 DEF Hears
  <2> QED BY <1>1, <1>3, <2>1, Names
<1> QED BY <1>2, <1>3

LEMMA ReadFacts ==
    ASSUME SInv, NEW a \in Connections, Reading(a)
    PROVE  /\ Head(toClient[a]) \in Packet /\ PacketOK(a, Head(toClient[a]))
           /\ peer[a] \in Clients
<1>1. TypeOK /\ Wire(a) /\ open[a] /\ toClient[a] # <<>>
  BY DEF SInv, Reading
<1>2. toClient[a] \in Seq(Packet)
  BY <1>1 DEF TypeOK
<1>3. 1 \in DOMAIN toClient[a] /\ Head(toClient[a]) = toClient[a][1]
      /\ toClient[a][1] \in Packet
  BY <1>1, <1>2, Shortened
<1> QED BY <1>1, <1>3 DEF Wire

LEMMA ProcessNotificationGood ==
    ASSUME SInv, NEW a \in Connections, ProcessNotification(a)
    PROVE  SInv'
<1>1. PICK p, c, f : p = Head(toClient[a]) /\ c = peer[a] /\ f = m_requests[c]
  OBVIOUS
<1>2. /\ TypeOK /\ Reading(a) /\ Read(a) /\ p.type = "notification"
      /\ Hears(c, p.job, p.new) /\ outcome' = outcome
  BY <1>1 DEF SInv, ProcessNotification
<1>3. p.job \in Ids /\ p.new \in JobState /\ ~IsReply(p)
  BY <1>1, <1>2, ReadFacts DEF PacketOK, IsReply
<1>4. /\ told' \in [Ids -> JobState \cup {NoId, Untold}]
      /\ \A k \in Ids : told'[k] =
           IF submitter[k] = c /\ p.job = k THEN p.new ELSE told[k]
  BY <1>2, <1>3, HearsIs
<1>5. \A j \in Ids : told'[j] =
        IF submitter[j] = c /\ p.job = j /\ p.new # Null THEN p.new
        ELSE IF submitter[j] = c /\ Gives(f, p, j) THEN Untold
        ELSE told[j]
  BY <1>2, <1>3, <1>4, Names DEF Gives
<1>6. /\ outcome' \in [Clients ->
           [RequestIds -> {"none", "waiting", "lost", "answered"}]]
      /\ \A d \in Clients : d # c => outcome'[d] = outcome[d]
      /\ \A r \in RequestIds :
           outcome'[c][r] = "waiting" => outcome[c][r] = "waiting"
      /\ whole[a] => outcome'[c] =
           IF IsReply(p) THEN [outcome[c] EXCEPT ![p.id] = "answered"]
           ELSE outcome[c]
  BY <1>2, <1>3 DEF TypeOK
<1> QED BY <1>1, <1>2, <1>4, <1>5, <1>6, ReadGood

\* The reply to request r of client c is read.
LEMMA AnswerIs ==
    ASSUME TypeOK, NEW c \in Clients, NEW r,
           outcome' = [outcome EXCEPT ![c][r] = "answered"]
    PROVE  /\ outcome' \in [Clients ->
                [RequestIds -> {"none", "waiting", "lost", "answered"}]]
           /\ \A d \in Clients : d # c => outcome'[d] = outcome[d]
           /\ \A x \in RequestIds :
                outcome'[c][x] = "waiting" => outcome[c][x] = "waiting"
           /\ outcome'[c] = [outcome[c] EXCEPT ![r] = "answered"]
<1>1. outcome \in [Clients ->
        [RequestIds -> {"none", "waiting", "lost", "answered"}]]
  BY DEF TypeOK
<1>2. /\ outcome'[c] = [outcome[c] EXCEPT ![r] = "answered"]
      /\ \A d \in Clients : d # c => outcome'[d] = outcome[d]
  BY <1>1
<1>3. /\ outcome'[c] \in [RequestIds -> {"none", "waiting", "lost", "answered"}]
      /\ \A x \in RequestIds :
           outcome'[c][x] = "waiting" => outcome[c][x] = "waiting"
  BY <1>1, <1>2
<1>4. outcome' \in [Clients ->
        [RequestIds -> {"none", "waiting", "lost", "answered"}]]
  BY <1>1, <1>3
<1> QED BY <1>2, <1>3, <1>4

LEMMA ProcessResultGood ==
    ASSUME SInv, NEW a \in Connections, ProcessResult(a)
    PROVE  SInv'
<1>1. PICK p, c : p = Head(toClient[a]) /\ c = peer[a]
  OBVIOUS
<1>2. PICK f : f = m_requests[c]
  OBVIOUS
<1>3. /\ TypeOK /\ Reading(a) /\ Read(a) /\ p.type = "result"
      /\ outcome' = [outcome EXCEPT ![c][p.id] = "answered"]
      /\ CASE f[p.id] = "submitJob" -> Hears(c, p.job, Untold)
           [] f[p.id] = "lookupJob" -> Hears(c, p.job, p.new)
           [] OTHER -> UNCHANGED told
  BY <1>1, <1>2 DEF SInv, ProcessResult
<1>4. p \in Packet /\ PacketOK(a, p) /\ c \in Clients /\ TypeOK
  BY <1>1, <1>3, ReadFacts
<1>5. /\ f[p.id] = "lookupJob" => p.job \in Ids /\ p.new \in JobState
      /\ f[p.id] # "lookupJob" => p.new = Null
      /\ p.job \in Ids \cup {Null} /\ IsReply(p)
  BY <1>1, <1>2, <1>3, <1>4 DEF PacketOK, Packet, IsReply
<1>6. /\ told' \in [Ids -> JobState \cup {NoId, Untold}]
      /\ \A j \in Ids : told'[j] =
           IF submitter[j] = c /\ p.job = j /\ p.new # Null THEN p.new
           ELSE IF submitter[j] = c /\ Gives(f, p, j) THEN Untold
           ELSE told[j]
  <2>1. CASE f[p.id] = "submitJob"
    <3>1. PICK s \in JobState \cup {Untold}, j \in Ids \cup {Null} :
            s = Untold /\ j = p.job
      BY <1>5
    <3>2. Hears(c, j, s)
      BY <1>3, <2>1, <3>1
    <3>3. /\ told' \in [Ids -> JobState \cup {NoId, Untold}]
          /\ \A k \in Ids : told'[k] =
               IF submitter[k] = c /\ j = k THEN s ELSE told[k]
      BY <1>4, <3>2, HearsIs
    <3>4. p.new = Null
      BY <1>5, <2>1
    <3> QED BY <1>3, <2>1, <3>1, <3>3, <3>4 DEF Gives
  <2>2. CASE f[p.id] = "lookupJob"
    <3>1. PICK s \in JobState \cup {Untold}, j \in Ids \cup {Null} :
            s = p.new /\ j = p.job
      BY <1>5, <2>2
    <3>2. Hears(c, j, s)
      BY <1>3, <2>2, <3>1
    <3>3. /\ told' \in [Ids -> JobState \cup {NoId, Untold}]
          /\ \A k \in Ids : told'[k] =
               IF submitter[k] = c /\ j = k THEN s ELSE told[k]
      BY <1>4, <3>2, HearsIs
    <3>4. p.new # Null /\ \A k : ~Gives(f, p, k)
      BY <1>5, <2>2, Names DEF Gives
    <3> QED BY <3>1, <3>3, <3>4
  <2>3. CASE f[p.id] \notin {"submitJob", "lookupJob"}
    <3>1. told' = told
      BY <1>3, <2>3
    <3>2. p.new = Null /\ \A k : ~Gives(f, p, k)
      BY <1>5, <2>3 DEF Gives
    <3> QED BY <1>3, <3>1, <3>2 DEF TypeOK
  <2> QED BY <2>1, <2>2, <2>3
<1>7. /\ outcome' \in [Clients ->
           [RequestIds -> {"none", "waiting", "lost", "answered"}]]
      /\ \A d \in Clients : d # c => outcome'[d] = outcome[d]
      /\ \A x \in RequestIds :
           outcome'[c][x] = "waiting" => outcome[c][x] = "waiting"
      /\ outcome'[c] = [outcome[c] EXCEPT ![p.id] = "answered"]
  BY <1>3, <1>4, AnswerIs
<1> QED BY <1>1, <1>2, <1>3, <1>5, <1>6, <1>7, ReadGood

LEMMA ProcessErrorGood ==
    ASSUME SInv, NEW a \in Connections, ProcessError(a)
    PROVE  SInv'
<1>1. PICK p, c : p = Head(toClient[a]) /\ c = peer[a]
  OBVIOUS
<1>2. PICK f, r : f = m_requests[c] /\ r = IF p.id = Null THEN 0 ELSE p.id
  OBVIOUS
<1>3. /\ TypeOK /\ Reading(a) /\ Read(a) /\ p.type = "error"
      /\ outcome' = [outcome EXCEPT ![c][r] = "answered"] /\ told' = told
  BY <1>1, <1>2 DEF SInv, ProcessError
<1>4. PacketOK(a, p) /\ c \in Clients
  BY <1>1, <1>3, ReadFacts
<1>5. /\ p.new = Null /\ IsReply(p) /\ (whole[a] => r = p.id)
      /\ \A j : ~Gives(f, p, j)
  BY <1>2, <1>3, <1>4 DEF PacketOK, IsReply, Gives
<1>6. /\ told' \in [Ids -> JobState \cup {NoId, Untold}]
      /\ \A j \in Ids : told'[j] =
           IF submitter[j] = c /\ p.job = j /\ p.new # Null THEN p.new
           ELSE IF submitter[j] = c /\ Gives(f, p, j) THEN Untold
           ELSE told[j]
  BY <1>3, <1>5 DEF TypeOK
<1>7. /\ outcome' \in [Clients ->
           [RequestIds -> {"none", "waiting", "lost", "answered"}]]
      /\ \A d \in Clients : d # c => outcome'[d] = outcome[d]
      /\ \A x \in RequestIds :
           outcome'[c][x] = "waiting" => outcome[c][x] = "waiting"
      /\ outcome'[c] = [outcome[c] EXCEPT ![r] = "answered"]
  BY <1>3, <1>4, AnswerIs
<1>8. whole[a] => outcome'[c] =
        IF IsReply(p) THEN [outcome[c] EXCEPT ![p.id] = "answered"]
        ELSE outcome[c]
  BY <1>5, <1>7
<1> QED BY <1>1, <1>2, <1>3, <1>6, <1>7, <1>8, ReadGood

LEMMA AnsweredLost ==
    ASSUME NEW asked, NEW said, NEW r \in RequestIds, NEW s, s # "waiting",
           NEW waits \in [RequestIds -> {"none", "waiting", "lost", "answered"}],
           Answered(asked, said, waits), waits[r] # "waiting"
    PROVE  Answered(asked, said, [waits EXCEPT ![r] = s])
<1> DEFINE now == [waits EXCEPT ![r] = s]
<1>1. \A x \in RequestIds : now[x] = "waiting" <=> waits[x] = "waiting"
  OBVIOUS
<1> HIDE DEF now
<1>2. Answered(asked, said, now)
  BY <1>1 DEF Answered
<1> QED BY <1>2 DEF now

LEMMA RequestIs ==
    ASSUME NEW r \in RequestIds, NEW q \in Requests(r)
    PROVE  /\ q \in Request /\ q.id = r /\ q.method \in Methods /\ q # Garbage
           /\ q.method \in {"lookupJob", "cancelJob"} => q.job \in Ids
<1>1. AnyState \in GivenStates
  BY SessionAssumption DEF AnyState
<1>2. q.method \in Methods /\ q.id = r
  BY DEF Requests
<1>3. q \in Request
  BY <1>1 DEF Requests, Request
<1>4. q.method \in {"lookupJob", "cancelJob"} => q.job \in Ids
  BY DEF Requests
<1>5. q # Garbage
  BY <1>2, SessionAssumption DEF Garbage
<1> QED BY <1>2, <1>3, <1>4, <1>5

LEMMA SendRequestGood ==
    ASSUME SInv, NEW c \in Clients, SendRequest(c)
    PROVE  SInv'
<1> DEFINE G == Request \cup {Garbage}
<1>1. TypeOK
  BY DEF SInv
<1>2. PICK r : r = m_packetCounter[c]
  OBVIOUS
<1>3. r \in RequestIds /\ r \in Nat /\ r < MaxRequests
  BY <1>1, <1>2, SessionAssumption DEF TypeOK, SendRequest, RequestIds
<1> DEFINE A == {a \in Connections : peer[a] = c /\ open[a] /\ end[a] # "none"}
<1>4. \A a \in Connections :
        a \in A <=> peer[a] = c /\ open[a] /\ end[a] # "none"
  OBVIOUS
<1>5. PICK q \in Requests(r) :
        /\ m_requests' = [m_requests EXCEPT ![c][r] = q.method]
        /\ toServer' = [a \in Connections |->
                          IF a \in A THEN Append(toServer[a], q) ELSE toServer[a]]
  BY <1>2 DEF SendRequest
<1>6. PICK o : o = IF A = {} THEN "lost" ELSE "waiting"
  OBVIOUS
<1>7. /\ m_packetCounter' = [m_packetCounter EXCEPT ![c] = r + 1]
      /\ outcome' = [outcome EXCEPT ![c][r] = o]
      /\ UNCHANGED <<running, listening, socketFile, end, m_connectionLUT,
                     m_moleQueueIdCounter, jobState, savedCounter, savedState,
                     starts, peer, open, whole, toClient, told, submitter>>
      /\ \E a \in Connections : peer[a] = c /\ open[a]
  BY <1>2, <1>6 DEF SendRequest, serverVars, fileVars
<1>8. A \subseteq Connections
  OBVIOUS
<1> HIDE DEF A
<1>9. /\ q \in Request /\ q.id = r /\ q.method \in Methods /\ q # Garbage
      /\ q.method \in {"lookupJob", "cancelJob"} => q.job \in Ids
  BY <1>3, RequestIs
<1>10. q \in G
  BY <1>9
<1>11. \A a \in Connections : toServer[a] \in Seq(G)
  BY <1>1 DEF TypeOK
<1> HIDE DEF G
<1>12. \A a \in Connections :
         /\ Append(toServer[a], q) \in Seq(G)
         /\ \A i \in DOMAIN Append(toServer[a], q) :
              \/ Append(toServer[a], q)[i] = q
              \/ i \in DOMAIN toServer[a] /\ Append(toServer[a], q)[i] = toServer[a][i]
  <2>1. ASSUME NEW s \in Seq(G)
        PROVE  /\ Append(s, q) \in Seq(G)
               /\ \A i \in DOMAIN Append(s, q) :
                    \/ Append(s, q)[i] = q
                    \/ i \in DOMAIN s /\ Append(s, q)[i] = s[i]
    <3>1. Len(s) \in Nat /\ DOMAIN s = 1 .. Len(s)
      BY LenProperties
    <3>2. /\ Append(s, q) \in Seq(G) /\ Len(Append(s, q)) = Len(s) + 1
          /\ Append(s, q)[Len(s) + 1] = q
          /\ \A i \in 1 .. Len(s) : Append(s, q)[i] = s[i]
      BY <1>10, AppendProperties
    <3>3. DOMAIN Append(s, q) = 1 .. Len(s) + 1
      BY <3>2, LenProperties
    <3> QED BY <3>1, <3>2, <3>3
  <2> QED BY <1>11, <2>1
<1>13. toServer' \in [Connections -> Seq(G)]
  BY <1>5, <1>11, <1>12
<1>14. /\ m_packetCounter' \in [Clients -> 0 .. MaxRequests]
       /\ m_packetCounter'[c] = r + 1
       /\ \A d \in Clients : d # c => m_packetCounter'[d] = m_packetCounter[d]
       /\ \A d \in Clients : m_packetCounter[d] \in Nat
  BY <1>1, <1>3, <1>7, SessionAssumption DEF TypeOK
<1>15. /\ m_requests' \in [Clients -> [RequestIds -> Methods \cup {Null}]]
       /\ m_requests'[c][r] = q.method
       /\ \A d \in Clients, x \in RequestIds :
            d # c \/ x # r => m_requests'[d][x] = m_requests[d][x]
       /\ \A d \in Clients : d # c => m_requests'[d] = m_requests[d]
  BY <1>1, <1>3, <1>5, <1>9 DEF TypeOK
<1>16. /\ outcome' \in [Clients ->
            [RequestIds -> {"none", "waiting", "lost", "answered"}]]
       /\ outcome'[c] = [outcome[c] EXCEPT ![r] = o]
       /\ outcome[c] \in [RequestIds -> {"none", "waiting", "lost", "answered"}]
       /\ \A d \in Clients : d # c => outcome'[d] = outcome[d]
  <2>1. outcome \in [Clients ->
          [RequestIds -> {"none", "waiting", "lost", "answered"}]]
    BY <1>1 DEF TypeOK
  <2>2. o \in {"none", "waiting", "lost", "answered"}
    BY <1>6
  <2> QED BY <1>3, <1>7, <2>1, <2>2
<1>17. TypeOK'
  BY <1>1, <1>7, <1>13, <1>14, <1>15, <1>16 DEF TypeOK, G
<1>18. Process' /\ OneOpen'
  BY <1>7 DEF SInv, Process, OneOpen
<1>19. WaitsOpen'
  <2>1. ASSUME NEW d \in Clients, NEW x \in RequestIds, outcome'[d][x] = "waiting"
        PROVE  \E a \in Connections : open[a] /\ peer[a] = d
    <3>1. CASE d = c
      BY <1>7, <3>1
    <3>2. CASE d # c
      BY <1>16, <2>1, <3>2 DEF SInv, WaitsOpen
    <3> QED BY <3>1, <3>2
  <2> QED BY <1>7, <2>1 DEF WaitsOpen
<1>20. \A a \in Connections : peer[a] \in Clients => Stays(a)
  <2>1. ASSUME NEW a \in Connections, peer[a] \in Clients
        PROVE  /\ m_packetCounter[peer[a]] =< m_packetCounter'[peer[a]]
               /\ \A x \in RequestIds : x < m_packetCounter[peer[a]] =>
                    m_requests'[peer[a]][x] = m_requests[peer[a]][x]
    <3>1. CASE peer[a] = c
      <4>1. m_packetCounter[c] =< m_packetCounter'[c]
        BY <1>2, <1>3, <1>14
      <4>2. \A x \in RequestIds : x < r => x # r
        BY <1>3, Names
      <4> QED BY <1>2, <1>15, <2>1, <3>1, <4>1, <4>2
    <3>2. CASE peer[a] # c
      BY <1>14, <1>15, <2>1, <3>2
    <3> QED BY <3>1, <3>2
  <2> QED BY <1>7, <2>1 DEF Stays
<1>21. ASSUME NEW a \in Connections
       PROVE  Wire(a)'
  <2>1. Wire(a)
    BY DEF SInv
  <2>2. CASE a \notin A
    <3>1. toServer'[a] = toServer[a] /\ toClient'[a] = toClient[a]
      BY <1>5, <1>7, <2>2
    <3>2. end[a] # "none" \/ open[a] => Stays(a)
      BY <1>20, <2>1 DEF Wire
    <3> QED BY <1>1, <1>7, <1>17, <2>1, <3>1, <3>2, WireStays
  <2>3. CASE a \in A
    <3>1. /\ peer[a] = c /\ open[a] /\ end[a] # "none" /\ Stays(a)
          /\ toServer'[a] = Append(toServer[a], q)
      BY <1>4, <1>5, <1>20, <2>3
    <3>2. \A x : RequestOK(a, x) => RequestOK(a, x)'
      BY <1>1, <1>17, <3>1, RequestStays
    <3>3. \A x : x = q => RequestOK(a, x)'
      <4>1. peer'[a] = c /\ r < m_packetCounter'[c]
        BY <1>3, <1>7, <1>14, <3>1
      <4> QED BY <1>9, <1>15, <4>1 DEF RequestOK
    <3>4. ASSUME NEW i \in DOMAIN toServer'[a], NEW x, x = toServer'[a][i]
          PROVE  RequestOK(a, x)'
      <4>1. x = q \/ (i \in DOMAIN toServer[a] /\ x = toServer[a][i])
        BY <1>12, <3>1, <3>4
      <4> QED BY <2>1, <3>2, <3>3, <4>1 DEF Wire
    <3>5. (\A i \in DOMAIN toClient[a] : PacketOK(a, toClient[a][i]))'
      <4>1. peer[a] \in Clients /\ \A i \in DOMAIN toClient[a] :
              toClient[a][i] \in Packet /\ PacketOK(a, toClient[a][i])
        BY <1>1, <2>1, <3>1, Carried DEF Wire
      <4>2. \A x \in Packet : PacketOK(a, x) => PacketOK(a, x)'
        BY <1>1, <1>17, <3>1, <4>1, PacketStays
      <4>3. ASSUME NEW i \in DOMAIN toClient'[a], NEW x, x = toClient'[a][i]
            PROVE  PacketOK(a, x)'
        BY <1>7, <4>1, <4>2, <4>3
      <4> QED BY <4>3
    <3> QED BY <1>7, <3>1, <3>4, <3>5 DEF Wire
  <2> QED BY <2>2, <2>3
<1>22. ASSUME NEW a \in Connections
       PROVE  Exact(a)'
  <2>1. SUFFICES ASSUME open[a], whole[a]
                 PROVE  Answered(toServer'[a], toClient[a], outcome'[peer[a]])
    BY <1>7 DEF Exact
  <2>2. Answered(toServer[a], toClient[a], outcome[peer[a]]) /\ Wire(a)
        /\ peer[a] \in Clients
    BY <2>1 DEF SInv, Exact, Wire
  <2>3. CASE peer[a] # c
    <3>1. toServer'[a] = toServer[a] /\ outcome'[peer[a]] = outcome[peer[a]]
      BY <1>4, <1>5, <1>16, <2>2, <2>3
    <3> QED BY <2>2, <3>1
  <2>4. CASE peer[a] = c
    <3>1. \A i \in DOMAIN toServer[a] : toServer[a][i].id # r
      <4>1. ASSUME NEW i \in DOMAIN toServer[a]
            PROVE  toServer[a][i] \in Request /\ toServer[a][i].id < r
        BY <1>2, <2>1, <2>2, <2>4 DEF Wire, RequestOK
      <4>2. \A x \in Request : x.id \in Nat
        BY Names DEF Request
      <4> QED BY <1>3, <4>1, <4>2
    <3>2. \A k \in DOMAIN toClient[a] :
            IsReply(toClient[a][k]) => toClient[a][k].id # r
      <4>1. ASSUME NEW k \in DOMAIN toClient[a], IsReply(toClient[a][k])
            PROVE  toClient[a][k].id \in Nat /\ toClient[a][k].id < r
        <5>1. toClient[a][k] \in Packet /\ PacketOK(a, toClient[a][k])
          BY <1>1, <2>2, Carried DEF Wire
        <5> QED BY <1>2, <2>1, <2>4, <4>1, <5>1, Names
                DEF PacketOK, Packet, IsReply
      <4> QED BY <1>3, <4>1
    <3>3. Answered(toServer[a], toClient[a], outcome[c])
      BY <2>2, <2>4
    <3>4. CASE A = {}
      <4>1. toServer'[a] = toServer[a] /\ o = "lost"
        BY <1>5, <1>6, <3>4
      <4>2. outcome[c][r] # "waiting"
        BY <1>3, <3>1, <3>2, <3>3 DEF Answered
      <4>3. Answered(toServer[a], toClient[a], [outcome[c] EXCEPT ![r] = o])
        BY <1>3, <1>16, <3>3, <4>1, <4>2, AnsweredLost
      <4> QED BY <1>16, <2>4, <4>1, <4>3
    <3>5. CASE A # {}
      <4>1. o = "waiting" /\ a \in A
        <5>1. PICK b \in Connections : b \in A
          BY <1>8, <3>5
        <5>2. b = a
          BY <1>4, <2>1, <2>4, <5>1 DEF SInv, OneOpen
        <5> QED BY <1>6, <3>5, <5>1, <5>2
      <4>2. toServer'[a] = Append(toServer[a], q)
        BY <1>5, <4>1
      <4>3. Answered(Append(toServer[a], q), toClient[a],
                     [outcome[c] EXCEPT ![r] = "waiting"])
        BY <1>3, <1>9, <1>10, <1>11, <1>16, <3>1, <3>2, <3>3, AnsweredAsk
      <4> QED BY <1>16, <2>4, <4>1, <4>2, <4>3
    <3> QED BY <3>4, <3>5
  <2> QED BY <2>3, <2>4
<1>23. ASSUME NEW j \in Ids
       PROVE  Recorded(j)'
  BY <1>7 DEF SInv, Recorded
<1>24. ASSUME NEW a \in Connections, peer[a] \in Clients, NEW j \in Ids
       PROVE  /\ Introduced(toClient[a], m_requests[peer[a]], j) =>
                   Introduced(toClient[a], m_requests'[peer[a]], j)
              /\ Awaited(toClient[a], m_requests[peer[a]], j) =>
                   Awaited(toClient[a], m_requests'[peer[a]], j)
  <2>1. Stays(a) /\ \A i \in DOMAIN toClient[a] : PacketOK(a, toClient[a][i])
    BY <1>20, <1>24 DEF SInv, Wire
  <2> QED BY <1>1, <1>24, <2>1, TableStays
<1>25. ASSUME NEW j \in Ids
       PROVE  Routed(j)'
  <2>1. Routed(j)
    BY DEF SInv
  <2>2. ASSUME m_connectionLUT[j] # Null
        PROVE  m_connectionLUT[j] \in Connections
               /\ peer[m_connectionLUT[j]] \in Clients
    BY <1>1, <2>1, <2>2 DEF SInv, TypeOK, Routed, Wire
  <2> QED BY <1>7, <1>24, <2>1, <2>2 DEF Routed
<1>26. ASSUME NEW a \in Connections, NEW j \in Ids
       PROVE  Prepared(a, j)'
  <2>1. Prepared(a, j) /\ (open[a] => peer[a] \in Clients)
    BY DEF SInv, Wire
  <2> QED BY <1>7, <1>24, <2>1 DEF Prepared
<1> QED BY <1>17, <1>18, <1>19, <1>21, <1>22, <1>23, <1>25, <1>26 DEF SInv

-----------------------------------------------------------------------------
(* The server process, while the connections stay as they are.             *)

LEMMA StillWires ==
    ASSUME SInv, UNCHANGED <<end, wireVars, m_packetCounter, m_requests, outcome,
                             submitter, told>>
    PROVE  /\ OneOpen' /\ WaitsOpen'
           /\ \A a \in Connections : Wire(a)' /\ Exact(a)'
           /\ \A a \in Connections, j \in Ids : Prepared(a, j)'
<1>1. UNCHANGED <<end, peer, open, whole, toServer, toClient, m_packetCounter,
                  m_requests, outcome, submitter, told>>
  BY DEF wireVars
<1>2. OneOpen' /\ WaitsOpen'
  BY <1>1 DEF SInv, OneOpen, WaitsOpen
<1>3. ASSUME NEW a \in Connections
      PROVE  Wire(a)' /\ Exact(a)'
  <2>1. Wire(a) /\ Exact(a)
    BY DEF SInv
  <2>2. Wire(a)'
    BY <1>1, <2>1 DEF Wire, RequestOK, PacketOK
  <2>3. Exact(a)'
    BY <1>1, <2>1 DEF Exact
  <2> QED BY <2>2, <2>3
<1>4. ASSUME NEW a \in Connections, NEW j \in Ids
      PROVE  Prepared(a, j)'
  BY <1>1 DEF SInv, Prepared
<1> QED BY <1>2, <1>3, <1>4

LEMMA SyncJobStateGood ==
    ASSUME SInv, SyncJobState
    PROVE  SInv'
<1>1. /\ running /\ TypeOK /\ savedState' = Saved
      /\ UNCHANGED <<serverVars, savedCounter, starts, wireVars, clientVars>>
  BY DEF SInv, SyncJobState
<1>2. /\ UNCHANGED <<running, listening, socketFile, end, m_connectionLUT,
                     m_moleQueueIdCounter, jobState, savedCounter, starts, wireVars,
                     m_packetCounter, m_requests, outcome, told, submitter>>
      /\ UNCHANGED <<peer, open, whole, toServer, toClient>>
  BY <1>1 DEF serverVars, wireVars, clientVars
<1>3. Saved \in [Ids -> JobState \cup {NotCreated, Removed}]
  BY <1>1 DEF Saved, TypeOK
<1>4. TypeOK'
  BY <1>1, <1>2, <1>3 DEF TypeOK
<1>5. Process'
  BY <1>2 DEF SInv, Process
<1>6. ASSUME NEW j \in Ids
      PROVE  Recorded(j)' /\ Routed(j)'
  <2>1. savedState'[j] = IF jobState[j] = NotCreated THEN savedState[j]
                         ELSE jobState[j]
    BY <1>1 DEF Saved
  <2>2. Recorded(j)'
    BY <1>1, <1>2, <2>1 DEF SInv, Recorded
  <2>3. Routed(j)'
    BY <1>2 DEF SInv, Routed
  <2> QED BY <2>2, <2>3
<1> QED BY <1>2, <1>4, <1>5, <1>6, StillWires DEF SInv

LEMMA RemoveJobGood ==
    ASSUME SInv, NEW j \in Ids, RemoveJob(j)
    PROVE  SInv'
<1>1. /\ running /\ TypeOK /\ jobState[j] \notin {NotCreated, Removed}
      /\ jobState' = [jobState EXCEPT ![j] = Removed]
      /\ savedState' = [savedState EXCEPT ![j] = Removed]
      /\ m_connectionLUT' = [m_connectionLUT EXCEPT ![j] = Null]
  BY DEF SInv, RemoveJob
<1>2. /\ UNCHANGED <<running, listening, socketFile, end, m_moleQueueIdCounter,
                     savedCounter, starts, wireVars,
                     m_packetCounter, m_requests, outcome, told, submitter>>
      /\ UNCHANGED <<peer, open, whole, toServer, toClient>>
  BY DEF RemoveJob, wireVars, clientVars
<1>3. TypeOK'
  BY <1>1, <1>2 DEF TypeOK
<1>4. Process'
  BY <1>1, <1>2 DEF SInv, Process
<1>5. ASSUME NEW k \in Ids
      PROVE  Recorded(k)' /\ Routed(k)'
  <2>1. Recorded(k) /\ Routed(k)
    BY DEF SInv
  <2>2. CASE k # j
    <3>1. /\ jobState'[k] = jobState[k] /\ savedState'[k] = savedState[k]
          /\ m_connectionLUT'[k] = m_connectionLUT[k]
      BY <1>1, <2>2 DEF TypeOK
    <3> QED BY <1>2, <2>1, <3>1 DEF Recorded, Routed
  <2>3. CASE k = j
    <3>1. /\ jobState'[k] = Removed /\ savedState'[k] = Removed
          /\ m_connectionLUT'[k] = Null
      BY <1>1, <2>3 DEF TypeOK
    <3>2. submitter[k] # Null
      BY <1>1, <2>1, <2>3 DEF Recorded
    <3>3. Recorded(k)'
      BY <1>2, <2>1, <3>1, <3>2, Names DEF Recorded
    <3>4. Routed(k)'
      BY <3>1 DEF Routed
    <3> QED BY <3>3, <3>4
  <2> QED BY <2>2, <2>3
<1> QED BY <1>2, <1>3, <1>4, <1>5, StillWires DEF SInv

LEMMA StartServerGood ==
    ASSUME SInv, StartServer
    PROVE  SInv'
<1>1. /\ ~running /\ TypeOK /\ Process /\ starts < MaxRestarts
      /\ starts' = starts + 1 /\ running' = TRUE
      /\ m_moleQueueIdCounter' = savedCounter /\ jobState' = savedState
      /\ listening' = ~socketFile /\ socketFile' = TRUE
  BY DEF SInv, StartServer
<1>2. /\ UNCHANGED <<end, m_connectionLUT, savedCounter, savedState, wireVars,
                     m_packetCounter, m_requests, outcome, told, submitter>>
      /\ UNCHANGED <<peer, open, whole, toServer, toClient>>
  BY DEF StartServer, wireVars, clientVars
<1>3. TypeOK'
  <2>1. starts' \in 0 .. MaxRestarts
    BY <1>1, SessionAssumption DEF TypeOK
  <2> QED BY <1>1, <1>2, <2>1 DEF TypeOK
<1>4. Process'
  BY <1>1, <1>2 DEF Process
<1>5. ASSUME NEW j \in Ids
      PROVE  Recorded(j)' /\ Routed(j)'
  <2>1. m_connectionLUT'[j] = Null
    BY <1>1, <1>2 DEF Process
  <2>2. Recorded(j)'
    BY <1>1, <1>2 DEF SInv, Recorded
  <2>3. Routed(j)'
    BY <2>1 DEF Routed
  <2> QED BY <2>2, <2>3
<1> QED BY <1>2, <1>3, <1>4, <1>5, StillWires DEF SInv

LEMMA ForceStartGood ==
    ASSUME SInv, ForceStart
    PROVE  SInv'
<1>1. /\ running /\ listening' = TRUE /\ TypeOK
  BY DEF SInv, ForceStart
<1>2. /\ UNCHANGED <<running, socketFile, end, m_connectionLUT,
                     m_moleQueueIdCounter, jobState, savedCounter, savedState,
                     starts, wireVars, m_packetCounter, m_requests, outcome,
                     told, submitter>>
      /\ UNCHANGED <<peer, open, whole, toServer, toClient>>
  BY DEF ForceStart, fileVars, wireVars, clientVars
<1>3. TypeOK'
  BY <1>1, <1>2 DEF TypeOK
<1>4. Process'
  BY <1>1, <1>2 DEF SInv, Process
<1>5. ASSUME NEW j \in Ids
      PROVE  Recorded(j)' /\ Routed(j)'
  BY <1>2 DEF SInv, Recorded, Routed
<1> QED BY <1>2, <1>3, <1>4, <1>5, StillWires DEF SInv

LEMMA NewConnectionGood ==
    ASSUME SInv, NEW a \in Connections, NewConnection(a)
    PROVE  SInv'
<1>1. /\ running /\ TypeOK /\ end[a] = "backlog"
      /\ end' = [end EXCEPT ![a] = "open"]
  BY DEF SInv, NewConnection
<1>2. UNCHANGED <<running, listening, socketFile, m_connectionLUT,
                  m_moleQueueIdCounter, jobState, savedCounter, savedState, starts,
                  peer, open, whole, toServer, toClient, m_packetCounter,
                  m_requests, outcome, told, submitter>>
  BY DEF NewConnection, fileVars, wireVars, clientVars
<1>3. /\ \A b \in Connections : end'[b] = IF b = a THEN "open" ELSE end[b]
      /\ end' \in [Connections -> {"none", "backlog", "open"}]
  BY <1>1 DEF TypeOK
<1>4. TypeOK'
  BY <1>1, <1>2, <1>3 DEF TypeOK
<1>5. Process' /\ OneOpen' /\ WaitsOpen'
  BY <1>1, <1>2 DEF SInv, Process, OneOpen, WaitsOpen
<1>6. ASSUME NEW b \in Connections
      PROVE  Wire(b)' /\ Exact(b)'
  <2>1. Wire(b) /\ Exact(b)
    BY DEF SInv
  <2>2. Wire(b)'
    <3>1. end'[b] = "none" <=> end[b] = "none"
      BY <1>1, <1>3
    <3> QED BY <1>2, <2>1, <3>1 DEF Wire, RequestOK, PacketOK
  <2>3. Exact(b)'
    BY <1>2, <2>1 DEF Exact
  <2> QED BY <2>2, <2>3
<1>7. ASSUME NEW j \in Ids
      PROVE  Recorded(j)' /\ Routed(j)'
  <2>1. Recorded(j)'
    BY <1>2 DEF SInv, Recorded
  <2>2. m_connectionLUT[j] # Null => end'[m_connectionLUT[j]] = "open"
    BY <1>1, <1>3 DEF SInv, Routed, TypeOK
  <2>3. Routed(j)'
    BY <1>2, <2>2 DEF SInv, Routed
  <2> QED BY <2>1, <2>3
<1>8. ASSUME NEW b \in Connections, NEW j \in Ids
      PROVE  Prepared(b, j)'
  BY <1>2 DEF SInv, Prepared
<1> QED BY <1>4, <1>5, <1>6, <1>7, <1>8 DEF SInv

-----------------------------------------------------------------------------
(* Connections that come and go.                                           *)

\* The requests a connection takes with it are those that wait and whose
\* replies are not among what can still be read.
LEMMA LoseIs ==
    ASSUME TypeOK, NEW A \in SUBSET Connections, Lose(A)
    PROVE  /\ outcome' \in [Clients ->
                [RequestIds -> {"none", "waiting", "lost", "answered"}]]
           /\ \A c \in Clients, r \in RequestIds :
                outcome'[c][r] = "waiting" <=>
                  /\ outcome[c][r] = "waiting"
                  /\ \A a \in A : peer[a] = c /\ open[a] => ReplyOnTheWay(a, r)
           /\ \A c \in Clients : (\A a \in A : open[a] => peer[a] # c) =>
                outcome'[c] = outcome[c]
<1> DEFINE Gone(c, r) == \E a \in A : peer[a] = c /\ open[a] /\ ~ReplyOnTheWay(a, r)
<1>1. outcome' = [c \in Clients |-> [r \in RequestIds |->
        IF outcome[c][r] = "waiting" /\ Gone(c, r) THEN "lost" ELSE outcome[c][r]]]
  BY DEF Lose
<1>2. \A c \in Clients, r \in RequestIds : Gone(c, r) <=>
        ~(\A a \in A : peer[a] = c /\ open[a] => ReplyOnTheWay(a, r))
  OBVIOUS
<1>3. \A c \in Clients : (\A a \in A : open[a] => peer[a] # c) =>
        \A r \in RequestIds : ~Gone(c, r)
  OBVIOUS
<1> HIDE DEF Gone
<1>4. outcome \in [Clients ->
        [RequestIds -> {"none", "waiting", "lost", "answered"}]]
  BY DEF TypeOK
<1>5. \A c \in Clients, r \in RequestIds : outcome'[c][r] =
        IF outcome[c][r] = "waiting" /\ Gone(c, r) THEN "lost" ELSE outcome[c][r]
  BY <1>1
<1>6. outcome' \in [Clients ->
        [RequestIds -> {"none", "waiting", "lost", "answered"}]]
  BY <1>1, <1>4
<1>7. ASSUME NEW c \in Clients, \A r \in RequestIds : ~Gone(c, r)
      PROVE  outcome'[c] = outcome[c]
  BY <1>4, <1>5, <1>6, <1>7
<1> QED BY <1>2, <1>3, <1>5, <1>6, <1>7

\* What remains of a connection when one side or both have let go of it.
LEMMA LeavingGood ==
    ASSUME SInv, TypeOK', Process', WaitsOpen', Release,
           UNCHANGED <<whole, m_packetCounter, m_requests, told, submitter>>,
           \A j \in Ids : Recorded(j)',
           \A a \in Connections : open'[a] => open[a],
           \A a \in Connections : end'[a] # "none" => end'[a] = end[a],
           \A a \in Connections : ~open'[a] => toClient'[a] = <<>>,
           \A a \in Connections : open'[a] =>
             \E n \in 0 .. Len(toClient[a]) :
               toClient'[a] = SubSeq(toClient[a], 1, n),
           \A a \in Connections : open'[a] /\ whole[a] =>
             Answered(toServer'[a], toClient'[a], outcome'[peer[a]]),
           \A j \in Ids : m_connectionLUT'[j] # Null =>
             /\ m_connectionLUT'[j] = m_connectionLUT[j]
             /\ end'[m_connectionLUT[j]] = "open" /\ jobState'[j] = jobState[j]
             /\ open'[m_connectionLUT[j]] =>
                  toClient'[m_connectionLUT[j]] = toClient[m_connectionLUT[j]]
    PROVE  SInv'
<1>1. TypeOK
  BY DEF SInv
<1>2. \A a \in Connections :
        /\ peer'[a] = IF end'[a] = "none" /\ ~open'[a] THEN Null ELSE peer[a]
        /\ toServer'[a] = IF end'[a] = "none" THEN <<>> ELSE toServer[a]
  BY DEF Release, Freed
<1>3. \A a \in Connections :
        end'[a] # "none" \/ open'[a] => peer'[a] = peer[a] /\ peer[a] \in Clients
  BY <1>2 DEF SInv, Wire
<1>4. ASSUME NEW a \in Connections, end'[a] # "none" \/ open'[a]
      PROVE  Stays(a)
  <2>1. peer'[a] = peer[a] /\ m_packetCounter[peer[a]] \in Nat
    BY <1>1, <1>3, <1>4, SessionAssumption DEF TypeOK
  <2> QED BY <2>1 DEF Stays
<1>5. OneOpen'
  <2>1. ASSUME NEW a \in Connections, NEW b \in Connections, open'[a], open'[b],
               peer'[a] = peer'[b]
        PROVE  a = b
    <3>1. open[a] /\ open[b] /\ peer[a] = peer[b]
      BY <1>3, <2>1
    <3> QED BY <3>1 DEF SInv, OneOpen
  <2> QED BY <2>1 DEF OneOpen
<1>6. \A a \in Connections : toClient[a] \in Seq(Packet)
  BY <1>1 DEF TypeOK
<1>7. ASSUME NEW a \in Connections
      PROVE  Wire(a)' /\ Exact(a)'
  <2>1. Wire(a)
    BY DEF SInv
  <2>2. (\A i \in DOMAIN toServer[a] : RequestOK(a, toServer[a][i]))'
    <3>1. CASE end'[a] = "none"
      BY <1>2, <3>1
    <3>2. CASE end'[a] # "none"
      <4>1. \A q : RequestOK(a, q) => RequestOK(a, q)'
        BY <1>1, <1>3, <1>4, <3>2, RequestStays
      <4>2. ASSUME NEW i \in DOMAIN toServer'[a], NEW q, q = toServer'[a][i]
            PROVE  RequestOK(a, q)'
        BY <1>2, <2>1, <3>2, <4>1, <4>2 DEF Wire
      <4> QED BY <4>2
    <3> QED BY <3>1, <3>2
  <2>3. (\A i \in DOMAIN toClient[a] : PacketOK(a, toClient[a][i]))'
    <3>1. CASE ~open'[a]
      BY <3>1
    <3>2. CASE open'[a]
      <4>1. \A q \in Packet : PacketOK(a, q) => PacketOK(a, q)'
        BY <1>1, <1>3, <1>4, <3>2, PacketStays
      <4>2. \A i \in DOMAIN toClient'[a] :
              i \in DOMAIN toClient[a] /\ toClient'[a][i] = toClient[a][i]
        <5>1. PICK n \in 0 .. Len(toClient[a]) :
                toClient'[a] = SubSeq(toClient[a], 1, n)
          BY <3>2
        <5> QED BY <1>6, <5>1, Cut
      <4>3. ASSUME NEW i \in DOMAIN toClient'[a], NEW q, q = toClient'[a][i]
            PROVE  PacketOK(a, q)'
        <5>1. q \in Packet /\ PacketOK(a, q)
          BY <1>1, <2>1, <4>2, <4>3, Carried DEF Wire
        <5> QED BY <4>1, <5>1
      <4> QED BY <4>3
    <3> QED BY <3>1, <3>2
  <2>4. Wire(a)'
    BY <1>2, <1>3, <2>2, <2>3 DEF Wire
  <2>5. Exact(a)'
    BY <1>3 DEF Exact
  <2> QED BY <2>4, <2>5
<1>8. ASSUME NEW j \in Ids
      PROVE  Routed(j)'
  <2>1. SUFFICES ASSUME m_connectionLUT'[j] # Null
                 PROVE  Routed(j)'
    BY DEF Routed
  <2>2. PICK a : a = m_connectionLUT[j]
    OBVIOUS
  <2>3. /\ m_connectionLUT'[j] = a /\ end'[a] = "open"
        /\ jobState'[j] = jobState[j] /\ (open'[a] => toClient'[a] = toClient[a])
    BY <2>1, <2>2
  <2>4. Routed(j) /\ a # Null /\ a \in Connections
    BY <1>1, <2>1, <2>2, <2>3 DEF SInv, TypeOK
  <2>5. peer'[a] = peer[a] /\ (open'[a] => open[a])
    BY <1>3, <2>3, <2>4
  <2> QED BY <2>2, <2>3, <2>4, <2>5 DEF Routed
<1>9. ASSUME NEW a \in Connections, NEW j \in Ids
      PROVE  Prepared(a, j)'
  <2>1. SUFFICES ASSUME open'[a], told[j] = NoId
                 PROVE  Introduced(toClient'[a], m_requests[peer[a]], j)
    BY <1>3 DEF Prepared
  <2>2. Introduced(toClient[a], m_requests[peer[a]], j)
    BY <2>1 DEF SInv, Prepared
  <2>3. PICK n \in 0 .. Len(toClient[a]) :
          toClient'[a] = SubSeq(toClient[a], 1, n)
    BY <2>1
  <2> QED BY <1>6, <2>2, <2>3, IntroducedCut
<1> QED BY <1>5, <1>7, <1>8, <1>9 DEF SInv

\* A connection that is left alone carries on.
LEMMA WholeIsCut ==
    ASSUME NEW S, NEW s \in Seq(S)
    PROVE  Len(s) \in 0 .. Len(s) /\ s = SubSeq(s, 1, Len(s))
BY LenProperties, SubSeqFull

LEMMA ReleaseTypes ==
    ASSUME TypeOK, Release
    PROVE  /\ peer' \in [Connections -> Clients \cup {Null}]
           /\ toServer' \in [Connections -> Seq(Request \cup {Garbage})]
<1>1. <<>> \in Seq(Request \cup {Garbage})
  BY EmptySeq
<1> QED BY <1>1 DEF TypeOK, Release

LEMMA CloseSocketGood ==
    ASSUME SInv, NEW a \in Connections, CloseSocket(a)
    PROVE  SInv'
<1>1. /\ TypeOK /\ open[a] /\ open' = [open EXCEPT ![a] = FALSE]
      /\ toClient' = [toClient EXCEPT ![a] = <<>>]
      /\ end' = end /\ Release /\ Lose({a})
  BY DEF SInv, CloseSocket
<1>2. UNCHANGED <<whole, running, listening, socketFile, m_connectionLUT,
                  m_moleQueueIdCounter, jobState, savedCounter, savedState, starts,
                  m_packetCounter, m_requests, told, submitter>>
  BY DEF CloseSocket, fileVars
<1>3. /\ open' \in [Connections -> BOOLEAN] /\ ~open'[a]
      /\ toClient' \in [Connections -> Seq(Packet)] /\ toClient'[a] = <<>>
      /\ \A b \in Connections : b # a =>
           open'[b] = open[b] /\ toClient'[b] = toClient[b]
  <2>1. <<>> \in Seq(Packet)
    BY EmptySeq
  <2> QED BY <1>1, <2>1 DEF TypeOK
<1>4. {a} \in SUBSET Connections
  OBVIOUS
<1>5. /\ outcome' \in [Clients ->
           [RequestIds -> {"none", "waiting", "lost", "answered"}]]
      /\ \A c \in Clients, r \in RequestIds : outcome'[c][r] = "waiting" =>
           outcome[c][r] = "waiting" /\ (peer[a] = c => ReplyOnTheWay(a, r))
      /\ \A c \in Clients : peer[a] # c => outcome'[c] = outcome[c]
  BY <1>1, <1>4, LoseIs
<1>6. TypeOK'
  BY <1>1, <1>2, <1>3, <1>5, ReleaseTypes DEF TypeOK
<1>7. Process'
  BY <1>1, <1>2 DEF SInv, Process
<1>8. \A r : ~ReplyOnTheWay(a, r)
  BY <1>3 DEF ReplyOnTheWay
<1>9. \A b \in Connections : end[b] # "none" \/ open[b] => peer[b] \in Clients
  BY DEF SInv, Wire
<1>10. \A b \in Connections : open[b] /\ b # a => peer[b] # peer[a]
  BY <1>1 DEF SInv, OneOpen
<1>11. \A b \in Connections : open'[b] => peer'[b] = peer[b]
  BY <1>1 DEF Release, Freed
<1>12. WaitsOpen'
  <2>1. ASSUME NEW c \in Clients, NEW r \in RequestIds, outcome'[c][r] = "waiting"
        PROVE  \E b \in Connections : open'[b] /\ peer'[b] = c
    <3>1. outcome[c][r] = "waiting" /\ peer[a] # c
      BY <1>5, <1>8, <2>1
    <3>2. PICK b \in Connections : open[b] /\ peer[b] = c
      BY <3>1 DEF SInv, WaitsOpen
    <3> QED BY <1>3, <1>11, <3>1, <3>2
  <2> QED BY <2>1 DEF WaitsOpen
<1>13. \A j \in Ids : Recorded(j)'
  BY <1>2 DEF SInv, Recorded
<1>14. ASSUME NEW b \in Connections, open'[b]
       PROVE  /\ b # a /\ open[b] /\ toClient'[b] = toClient[b]
              /\ toServer'[b] = toServer[b] /\ outcome'[peer[b]] = outcome[peer[b]]
  <2>1. b # a /\ open[b] /\ toClient'[b] = toClient[b]
    BY <1>3, <1>14
  <2>2. toServer'[b] = toServer[b]
    BY <1>1 DEF SInv, Wire, Release
  <2> QED BY <1>5, <1>9, <1>10, <2>1, <2>2
<1>15. \A b \in Connections : open'[b] =>
         \E n \in 0 .. Len(toClient[b]) : toClient'[b] = SubSeq(toClient[b], 1, n)
  BY <1>1, <1>14, WholeIsCut DEF TypeOK
<1>16. \A b \in Connections : open'[b] /\ whole[b] =>
         Answered(toServer'[b], toClient'[b], outcome'[peer[b]])
  BY <1>14 DEF SInv, Exact
<1>17. ASSUME NEW j \in Ids, m_connectionLUT'[j] # Null
       PROVE  /\ m_connectionLUT'[j] = m_connectionLUT[j]
              /\ end'[m_connectionLUT[j]] = "open" /\ jobState'[j] = jobState[j]
              /\ open'[m_connectionLUT[j]] =>
                   toClient'[m_connectionLUT[j]] = toClient[m_connectionLUT[j]]
  <2>1. m_connectionLUT[j] \in Connections
    BY <1>1, <1>2, <1>17 DEF TypeOK
  <2> QED BY <1>1, <1>2, <1>14, <1>17, <2>1 DEF SInv, Routed
<1>18. \A b \in Connections : ~open'[b] => toClient'[b] = <<>>
  BY <1>3 DEF SInv, Wire
<1>19. \A b \in Connections : end'[b] # "none" => end'[b] = end[b]
  BY <1>1
<1>20. \A b \in Connections : open'[b] => open[b]
  BY <1>14
<1> QED BY <1>1, <1>2, <1>6, <1>7, <1>12, <1>13, <1>15, <1>16, <1>17, <1>18,
        <1>19, <1>20, LeavingGood

LEMMA ClientDisconnectedGood ==
    ASSUME SInv, NEW a \in Connections, ClientDisconnected(a)
    PROVE  SInv'
<1>1. /\ TypeOK /\ running /\ end[a] = "open" /\ ~open[a]
      /\ end' = [end EXCEPT ![a] = "none"]
      /\ m_connectionLUT' = Disconnected(m_connectionLUT, {a})
      /\ open' = open /\ Release
  BY DEF SInv, ClientDisconnected
<1>2. UNCHANGED <<whole, running, listening, socketFile, toClient, outcome,
                  m_moleQueueIdCounter, jobState, savedCounter, savedState, starts,
                  m_packetCounter, m_requests, told, submitter>>
  BY DEF ClientDisconnected, fileVars, clientVars
<1>3. /\ end' \in [Connections -> {"none", "backlog", "open"}]
      /\ \A b \in Connections : end'[b] = IF b = a THEN "none" ELSE end[b]
  BY <1>1 DEF TypeOK
<1>4. /\ m_connectionLUT' \in [Ids -> Connections \cup {Null}]
      /\ \A j \in Ids : m_connectionLUT'[j] =
           IF m_connectionLUT[j] = a THEN Null ELSE m_connectionLUT[j]
  BY <1>1 DEF TypeOK, Disconnected
<1>5. TypeOK'
  BY <1>1, <1>2, <1>3, <1>4, ReleaseTypes DEF TypeOK
<1>6. Process'
  BY <1>1, <1>2 DEF SInv, Process
<1>7. \A b \in Connections : open[b] => peer'[b] = peer[b]
                                        /\ toServer'[b] = toServer[b]
  BY <1>1, <1>3 DEF Release, Freed, SInv, Wire
<1>8. WaitsOpen'
  BY <1>1, <1>2, <1>7 DEF SInv, WaitsOpen
<1>9. \A j \in Ids : Recorded(j)'
  BY <1>2, <1>4 DEF SInv, Recorded
<1>10. \A b \in Connections : open'[b] =>
         \E n \in 0 .. Len(toClient[b]) : toClient'[b] = SubSeq(toClient[b], 1, n)
  BY <1>1, <1>2, WholeIsCut DEF TypeOK
<1>11. \A b \in Connections : open'[b] /\ whole[b] =>
         Answered(toServer'[b], toClient'[b], outcome'[peer[b]])
  BY <1>1, <1>2, <1>7 DEF SInv, Exact
<1>12. ASSUME NEW j \in Ids, m_connectionLUT'[j] # Null
       PROVE  /\ m_connectionLUT'[j] = m_connectionLUT[j]
              /\ end'[m_connectionLUT[j]] = "open" /\ jobState'[j] = jobState[j]
              /\ open'[m_connectionLUT[j]] =>
                   toClient'[m_connectionLUT[j]] = toClient[m_connectionLUT[j]]
  <2>1. m_connectionLUT'[j] = m_connectionLUT[j] /\ m_connectionLUT[j] # a
        /\ m_connectionLUT[j] \in Connections
    BY <1>1, <1>4, <1>12 DEF TypeOK
  <2> QED BY <1>2, <1>3, <1>12, <2>1 DEF SInv, Routed
<1>13. \A b \in Connections : ~open'[b] => toClient'[b] = <<>>
  BY <1>1, <1>2 DEF SInv, Wire
<1>14. /\ \A b \in Connections : end'[b] # "none" => end'[b] = end[b]
       /\ \A b \in Connections : open'[b] => open[b]
  BY <1>1, <1>3
<1> QED BY <1>1, <1>2, <1>5, <1>6, <1>8, <1>9, <1>10, <1>11, <1>12, <1>13,
        <1>14, LeavingGood

\* The server ends: what it has written so far can still be read.
LEMMA DropConnectionsGood ==
    ASSUME SInv, ~running', ~listening', DropConnections,
           socketFile' \in BOOLEAN,
           savedCounter' \in 0 .. MaxJobs, savedCounter' = savedCounter,
           savedState' \in [Ids -> JobState \cup {NotCreated, Removed}],
           running' \in BOOLEAN, listening' \in BOOLEAN,
           UNCHANGED <<whole, m_moleQueueIdCounter, jobState, starts,
                       m_packetCounter, m_requests, told, submitter>>,
           toClient' \in [Connections -> Seq(Packet)],
           \A a \in Connections : \E n \in 0 .. Len(toClient[a]) :
             toClient'[a] = SubSeq(toClient[a], 1, n),
           \A j \in Ids :
             /\ submitter[j] = Null => savedState'[j] = NotCreated
             /\ submitter[j] # Null => savedState'[j] # NotCreated
    PROVE  SInv'
<1>1. /\ TypeOK /\ end' = [a \in Connections |-> "none"]
      /\ m_connectionLUT' = [j \in Ids |-> Null] /\ open' = open
      /\ Release /\ Lose(Connections)
  BY DEF SInv, DropConnections
<1>2. /\ outcome' \in [Clients ->
           [RequestIds -> {"none", "waiting", "lost", "answered"}]]
      /\ \A c \in Clients, r \in RequestIds : outcome'[c][r] = "waiting" <=>
           /\ outcome[c][r] = "waiting"
           /\ \A a \in Connections : peer[a] = c /\ open[a] => ReplyOnTheWay(a, r)
  <2>1. Connections \in SUBSET Connections
    OBVIOUS
  <2> QED BY <1>1, <2>1, LoseIs
<1>3. TypeOK'
  BY <1>1, <1>2, ReleaseTypes DEF TypeOK
<1>4. Process'
  BY <1>1 DEF Process
<1>5. \A a \in Connections : open[a] => peer'[a] = peer[a] /\ peer[a] \in Clients
  BY <1>1 DEF Release, Freed, SInv, Wire
<1>6. WaitsOpen'
  <2>1. ASSUME NEW c \in Clients, NEW r \in RequestIds, outcome'[c][r] = "waiting"
        PROVE  \E a \in Connections : open'[a] /\ peer'[a] = c
    BY <1>1, <1>2, <1>5, <2>1 DEF SInv, WaitsOpen
  <2> QED BY <2>1 DEF WaitsOpen
<1>7. ASSUME NEW j \in Ids
      PROVE  Recorded(j)'
  BY <1>1 DEF SInv, Recorded
<1>8. ASSUME NEW a \in Connections, open[a], whole[a]
      PROVE  Answered(toServer'[a], toClient'[a], outcome'[peer[a]])
  <2>1. toServer'[a] = <<>>
    BY <1>1 DEF Release
  <2>2. PICK n \in 0 .. Len(toClient[a]) : toClient'[a] = SubSeq(toClient[a], 1, n)
    OBVIOUS
  <2>3. Answered(toServer[a], toClient[a], outcome[peer[a]])
    BY <1>8 DEF SInv, Exact
  <2>4. toClient[a] \in Seq(Packet)
    BY <1>1 DEF TypeOK
  <2>5. \A b \in Connections : peer[b] = peer[a] /\ open[b] => b = a
    BY <1>8 DEF SInv, OneOpen
  <2>6. \A r \in RequestIds : outcome'[peer[a]][r] = "waiting" <=>
          outcome[peer[a]][r] = "waiting" /\ ReplyOnTheWay(a, r)
    BY <1>2, <1>5, <1>8, <2>5
  <2>7. \A r : ReplyOnTheWay(a, r) <=>
          \E k \in DOMAIN toClient'[a] :
            IsReply(toClient'[a][k]) /\ toClient'[a][k].id = r
    BY DEF ReplyOnTheWay, IsReply
  <2>8. \A r \in RequestIds : outcome'[peer[a]][r] = "waiting" <=>
          /\ outcome[peer[a]][r] = "waiting"
          /\ \E k \in DOMAIN SubSeq(toClient[a], 1, n) :
               /\ IsReply(SubSeq(toClient[a], 1, n)[k])
               /\ SubSeq(toClient[a], 1, n)[k].id = r
    BY <2>2, <2>6, <2>7
  <2>9. Answered(<<>>, SubSeq(toClient[a], 1, n), outcome'[peer[a]])
    <3>1. PICK now : now = outcome'[peer[a]]
      OBVIOUS
    <3>2. PICK said, asked, waits, cut :
            /\ said = toClient[a] /\ asked = toServer[a]
            /\ waits = outcome[peer[a]] /\ cut = SubSeq(said, 1, n)
      OBVIOUS
    <3>3. Answered(asked, said, waits)
      BY <2>3, <3>2
    <3>4. \A i \in DOMAIN cut : i \in DOMAIN said /\ cut[i] = said[i]
      BY <2>2, <2>4, <3>2, Cut
    <3>5. \A r \in RequestIds : now[r] = "waiting" <=>
            /\ waits[r] = "waiting"
            /\ \E k \in DOMAIN cut : IsReply(cut[k]) /\ cut[k].id = r
      BY <2>8, <3>1, <3>2
    <3>6. Answered(<<>>, cut, now)
      BY <3>3, <3>4, <3>5, AnsweredCut
    <3> QED BY <3>1, <3>2, <3>6
  <2> QED BY <2>1, <2>2, <2>9
<1>9. \A a \in Connections : ~open'[a] => toClient'[a] = <<>>
  <2>1. ASSUME NEW a \in Connections, ~open'[a]
        PROVE  toClient'[a] = <<>>
    <3>1. toClient[a] = <<>>
      BY <1>1, <2>1 DEF SInv, Wire
    <3>2. PICK n \in 0 .. Len(toClient[a]) :
            toClient'[a] = SubSeq(toClient[a], 1, n)
      OBVIOUS
    <3>3. n = 0
      BY <3>1, <3>2
    <3> QED BY <3>2, <3>3, SubSeqEmpty
  <2> QED BY <2>1
<1>10. /\ \A a \in Connections : end'[a] # "none" => end'[a] = end[a]
       /\ \A a \in Connections : open'[a] => open[a]
       /\ \A j \in Ids : m_connectionLUT'[j] = Null
  BY <1>1
<1> QED BY <1>1, <1>3, <1>4, <1>6, <1>7, <1>8, <1>9, <1>10, LeavingGood

LEMMA CrashGood ==
    ASSUME SInv, Crash
    PROVE  SInv'
<1>1. /\ TypeOK /\ ~running' /\ ~listening' /\ DropConnections
      /\ running' \in BOOLEAN /\ listening' \in BOOLEAN
      /\ UNCHANGED <<whole, socketFile, m_moleQueueIdCounter, jobState,
                     savedCounter, savedState, starts,
                     m_packetCounter, m_requests, told, submitter>>
  BY DEF SInv, Crash, fileVars
<1>2. /\ \A a \in Connections : toClient'[a] \in Prefixes(toClient[a])
      /\ \E S : toClient' \in [Connections -> S]
  BY DEF Crash
<1>3. ASSUME NEW a \in Connections
      PROVE  /\ toClient'[a] \in Seq(Packet)
             /\ \E n \in 0 .. Len(toClient[a]) :
                  toClient'[a] = SubSeq(toClient[a], 1, n)
  <2>1. \E n \in 0 .. Len(toClient[a]) : toClient'[a] = SubSeq(toClient[a], 1, n)
    BY <1>2 DEF Prefixes
  <2>2. toClient[a] \in Seq(Packet)
    BY <1>1 DEF TypeOK
  <2> QED BY <2>1, <2>2, Cut
<1>4. toClient' \in [Connections -> Seq(Packet)]
  BY <1>2, <1>3
<1>5. /\ socketFile' \in BOOLEAN /\ savedCounter' \in 0 .. MaxJobs
      /\ savedState' \in [Ids -> JobState \cup {NotCreated, Removed}]
  BY <1>1 DEF TypeOK
<1>6. \A j \in Ids :
        /\ submitter[j] = Null => savedState'[j] = NotCreated
        /\ submitter[j] # Null => savedState'[j] # NotCreated
  BY <1>1 DEF SInv, Recorded
<1> QED BY <1>1, <1>3, <1>4, <1>5, <1>6, DropConnectionsGood

LEMMA QuitGood ==
    ASSUME SInv, Quit
    PROVE  SInv'
<1>1. /\ TypeOK /\ Process /\ running
      /\ ~running' /\ ~listening' /\ DropConnections
      /\ running' \in BOOLEAN /\ listening' \in BOOLEAN
      /\ socketFile' = (socketFile /\ ~listening)
      /\ savedCounter' = m_moleQueueIdCounter /\ savedState' = Saved
      /\ toClient' = toClient
      /\ UNCHANGED <<whole, m_moleQueueIdCounter, jobState, starts,
                     m_packetCounter, m_requests, told, submitter>>
  BY DEF SInv, Quit
<1>2. savedCounter' = savedCounter /\ savedCounter' \in 0 .. MaxJobs
      /\ socketFile' \in BOOLEAN
  BY <1>1 DEF Process, TypeOK
<1>3. /\ savedState' \in [Ids -> JobState \cup {NotCreated, Removed}]
      /\ \A j \in Ids : savedState'[j] =
           IF jobState[j] = NotCreated THEN savedState[j] ELSE jobState[j]
  BY <1>1 DEF Saved, TypeOK
<1>4. \A j \in Ids :
        /\ submitter[j] = Null => savedState'[j] = NotCreated
        /\ submitter[j] # Null => savedState'[j] # NotCreated
  BY <1>1, <1>3 DEF SInv, Recorded
<1>5. \A a \in Connections : \E n \in 0 .. Len(toClient[a]) :
        toClient'[a] = SubSeq(toClient[a], 1, n)
  BY <1>1, WholeIsCut DEF TypeOK
<1>6. toClient' \in [Connections -> Seq(Packet)]
  BY <1>1 DEF TypeOK
<1> QED BY <1>1, <1>2, <1>3, <1>4, <1>5, <1>6, DropConnectionsGood

LEMMA ConnectToServerGood ==
    ASSUME SInv, NEW c \in Clients, ConnectToServer(c)
    PROVE  SInv'
<1> DEFINE old == {a \in Connections : peer[a] = c /\ open[a]}
<1>1. /\ TypeOK /\ listening /\ running
      /\ \A a \in old : end[a] = "none"
      /\ UNCHANGED <<running, listening, socketFile, m_connectionLUT,
                     m_moleQueueIdCounter, jobState, savedCounter, savedState,
                     starts, toServer, m_packetCounter, m_requests, told, submitter>>
  BY DEF SInv, ConnectToServer, Process, fileVars
<1>2. PICK b \in Connections :
        /\ end[b] = "none"
        /\ ~open[b] \/ b \in old
        /\ end' = [end EXCEPT ![b] = "backlog"]
        /\ open' = [a \in Connections |-> a = b \/ (open[a] /\ a \notin old)]
        /\ peer' = [a \in Connections |->
                       IF a = b THEN c ELSE IF a \in old THEN Null ELSE peer[a]]
        /\ toClient' = [a \in Connections |->
                           IF a \in old \cup {b} THEN <<>> ELSE toClient[a]]
        /\ whole' = [whole EXCEPT ![b] = TRUE]
        /\ Lose(old)
  BY DEF ConnectToServer
<1>3. /\ old \in SUBSET Connections
      /\ \A a \in Connections : a \in old <=> peer[a] = c /\ open[a]
  OBVIOUS
<1> HIDE DEF old
<1>4. \A a \in Connections :
        /\ end'[a] = IF a = b THEN "backlog" ELSE end[a]
        /\ open'[a] <=> a = b \/ (open[a] /\ a \notin old)
        /\ peer'[a] = IF a = b THEN c ELSE IF a \in old THEN Null ELSE peer[a]
        /\ toClient'[a] = IF a \in old \/ a = b THEN <<>> ELSE toClient[a]
        /\ whole'[a] = IF a = b THEN TRUE ELSE whole[a]
  BY <1>1, <1>2 DEF TypeOK
<1>5. /\ outcome' \in [Clients ->
           [RequestIds -> {"none", "waiting", "lost", "answered"}]]
      /\ \A d \in Clients, r \in RequestIds : outcome'[d][r] = "waiting" =>
           /\ outcome[d][r] = "waiting"
           /\ \A a \in old : peer[a] = d /\ open[a] => ReplyOnTheWay(a, r)
      /\ \A d \in Clients : d # c => outcome'[d] = outcome[d]
  BY <1>1, <1>2, <1>3, LoseIs
<1>6. \A r \in RequestIds : outcome'[c][r] # "waiting"
  <2>1. SUFFICES ASSUME NEW r \in RequestIds, outcome'[c][r] = "waiting"
                 PROVE  FALSE
    OBVIOUS
  <2>2. outcome[c][r] = "waiting"
    BY <1>5, <2>1
  <2>3. PICK a \in Connections : open[a] /\ peer[a] = c
    BY <2>2 DEF SInv, WaitsOpen
  <2>4. ReplyOnTheWay(a, r)
    BY <1>3, <1>5, <2>1, <2>3
  <2>5. toClient'[a] = <<>>
    BY <1>3, <1>4, <2>3
  <2> QED BY <2>4, <2>5 DEF ReplyOnTheWay
<1>7. TypeOK'
  <2>1. <<>> \in Seq(Packet)
    BY EmptySeq
  <2>2. /\ end' \in [Connections -> {"none", "backlog", "open"}]
        /\ open' \in [Connections -> BOOLEAN]
        /\ peer' \in [Connections -> Clients \cup {Null}]
        /\ whole' \in [Connections -> BOOLEAN]
    BY <1>1, <1>2 DEF TypeOK
  <2>3. toClient' \in [Connections -> Seq(Packet)]
    BY <1>1, <1>2, <2>1 DEF TypeOK
  <2> QED BY <1>1, <1>5, <2>2, <2>3 DEF TypeOK
<1>8. Process'
  BY <1>1 DEF SInv, Process
<1>9. ASSUME NEW a \in Connections, a # b
      PROVE  /\ open'[a] => open[a] /\ a \notin old /\ peer[a] # c
             /\ a \notin old => /\ open'[a] = open[a] /\ end'[a] = end[a]
                                /\ peer'[a] = peer[a] /\ whole'[a] = whole[a]
                                /\ toClient'[a] = toClient[a]
             /\ a \in old => /\ end'[a] = "none" /\ ~open'[a]
                             /\ toClient'[a] = <<>> /\ toServer'[a] = <<>>
  <2>1. open'[a] <=> open[a] /\ a \notin old
    BY <1>4, <1>9
  <2>2. ASSUME a \in old
        PROVE  end'[a] = "none" /\ toClient'[a] = <<>> /\ toServer'[a] = <<>>
    <3>1. end[a] = "none" /\ end'[a] = end[a] /\ toClient'[a] = <<>>
      BY <1>1, <1>4, <1>9, <2>2
    <3>2. toServer[a] = <<>>
      BY <3>1 DEF SInv, Wire
    <3> QED BY <1>1, <3>1, <3>2
  <2>3. open'[a] \in BOOLEAN /\ open[a] \in BOOLEAN
    BY <1>1, <1>7 DEF TypeOK
  <2> QED BY <1>3, <1>4, <1>9, <2>1, <2>2, <2>3
<1>10. /\ end'[b] = "backlog" /\ open'[b] /\ peer'[b] = c /\ whole'[b]
       /\ toClient'[b] = <<>> /\ toServer'[b] = <<>>
  <2>1. toServer[b] = <<>>
    BY <1>2 DEF SInv, Wire
  <2> QED BY <1>1, <1>4, <2>1
<1>11. OneOpen'
  <2>1. ASSUME NEW a \in Connections, NEW e \in Connections, open'[a], open'[e],
               peer'[a] = peer'[e]
        PROVE  a = e
    <3>1. \A x \in {a, e} : x # b => open[x] /\ peer'[x] = peer[x] /\ peer[x] # c
      BY <1>9, <2>1
    <3> QED BY <1>10, <2>1, <3>1 DEF SInv, OneOpen
  <2> QED BY <2>1 DEF OneOpen
<1>12. WaitsOpen'
  <2>1. ASSUME NEW d \in Clients, NEW r \in RequestIds, outcome'[d][r] = "waiting"
        PROVE  \E a \in Connections : open'[a] /\ peer'[a] = d
    <3>1. d # c /\ outcome[d][r] = "waiting"
      BY <1>5, <1>6, <2>1
    <3>2. PICK a \in Connections : open[a] /\ peer[a] = d
      BY <3>1 DEF SInv, WaitsOpen
    <3>3. a \notin old /\ a # b
      BY <1>2, <1>3, <3>1, <3>2
    <3> QED BY <1>9, <3>2, <3>3
  <2> QED BY <2>1 DEF WaitsOpen
<1>13. DOMAIN <<>> = {}
  OBVIOUS
<1>14. ASSUME NEW a \in Connections, a # b, a \notin old,
              end[a] # "none" \/ open[a]
       PROVE  Stays(a)
  <2>1. /\ peer'[a] = peer[a] /\ whole'[a] = whole[a]
        /\ m_packetCounter' = m_packetCounter /\ m_requests' = m_requests
        /\ submitter' = submitter
    BY <1>1, <1>9, <1>14
  <2>2. m_packetCounter[peer[a]] \in Nat
    BY <1>1, <1>14, SessionAssumption DEF TypeOK, SInv, Wire
  <2> QED BY <2>1, <2>2 DEF Stays
<1>15. ASSUME NEW a \in Connections
       PROVE  Wire(a)'
  <2>1. Wire(a)
    BY DEF SInv
  <2>2. CASE a # b /\ a \notin old
    BY <1>1, <1>7, <1>9, <1>14, <2>1, <2>2, WireStays
  <2>3. CASE a # b /\ a \in old
    BY <1>9, <1>13, <2>3 DEF Wire
  <2>4. CASE a = b
    BY <1>10, <1>13, <2>4 DEF Wire
  <2> QED BY <2>2, <2>3, <2>4
<1>16. ASSUME NEW a \in Connections
       PROVE  Exact(a)'
  <2>1. CASE a # b /\ a \notin old
    <3>1. SUFFICES ASSUME open[a], whole[a], open'[a]
                   PROVE  Answered(toServer[a], toClient[a], outcome'[peer[a]])
      BY <1>1, <1>9, <2>1 DEF Exact
    <3>2. peer[a] \in Clients /\ peer[a] # c
      BY <1>9, <2>1, <3>1 DEF SInv, Wire
    <3> QED BY <1>5, <3>1, <3>2 DEF SInv, Exact
  <2>2. CASE a # b /\ a \in old
    BY <1>9, <2>2 DEF Exact
  <2>3. CASE a = b
    <3>1. Answered(<<>>, <<>>, outcome'[c])
      BY <1>6, <1>13 DEF Answered
    <3> QED BY <1>10, <2>3, <3>1 DEF Exact
  <2> QED BY <2>1, <2>2, <2>3
<1>17. ASSUME NEW j \in Ids
       PROVE  Recorded(j)' /\ Routed(j)'
  <2>1. Recorded(j)'
    BY <1>1 DEF SInv, Recorded
  <2>2. ASSUME m_connectionLUT[j] = Null
        PROVE  Routed(j)'
    BY <1>1, <2>2 DEF Routed
  <2>3. ASSUME NEW a \in Connections, a = m_connectionLUT[j]
        PROVE  Routed(j)'
    <3>1. end[a] = "open" /\ Routed(j)
      BY <1>1, <2>3, Names DEF SInv, Routed
    <3>2. a # b /\ a \notin old
      BY <1>1, <1>2, <3>1
    <3>3. /\ end'[a] = end[a] /\ open'[a] = open[a] /\ peer'[a] = peer[a]
          /\ toClient'[a] = toClient[a]
      BY <1>9, <3>2
    <3> QED BY <1>1, <2>3, <3>1, <3>3 DEF Routed
  <2> QED BY <1>1, <2>1, <2>2, <2>3 DEF TypeOK
<1>18. ASSUME NEW a \in Connections, NEW j \in Ids
       PROVE  Prepared(a, j)'
  <2>1. CASE a # b /\ a \notin old
    BY <1>1, <1>9, <2>1 DEF SInv, Prepared
  <2>2. CASE a # b /\ a \in old
    BY <1>9, <2>2 DEF Prepared
  <2>3. CASE a = b
    <3>1. \A f : Introduced(<<>>, f, j)
      BY <1>13 DEF Introduced
    <3> QED BY <1>10, <2>3, <3>1 DEF Prepared
  <2> QED BY <2>1, <2>2, <2>3
<1> QED BY <1>7, <1>8, <1>11, <1>12, <1>15, <1>16, <1>17, <1>18 DEF SInv

-----------------------------------------------------------------------------
(* The invariant.                                                          *)

LEMMA InitGood ==
    ASSUME Init
    PROVE  SInv
<1>1. DOMAIN <<>> = {}
  OBVIOUS
<1>2. /\ <<>> \in Seq(Packet) /\ <<>> \in Seq(Request \cup {Garbage})
  BY EmptySeq
<1>3. TypeOK
  <2>1. 0 \in 0 .. MaxJobs /\ 0 \in 0 .. MaxRestarts /\ 0 \in 0 .. MaxRequests
    BY SessionAssumption
  <2>2. /\ toServer \in [Connections -> Seq(Request \cup {Garbage})]
        /\ toClient \in [Connections -> Seq(Packet)]
    BY <1>2 DEF Init
  <2>3. /\ m_requests \in [Clients -> [RequestIds -> Methods \cup {Null}]]
        /\ outcome \in [Clients ->
             [RequestIds -> {"none", "waiting", "lost", "answered"}]]
    BY DEF Init
  <2> QED BY <2>1, <2>2, <2>3 DEF TypeOK, Init
<1>4. Process /\ OneOpen /\ WaitsOpen
  BY DEF Init, Process, OneOpen, WaitsOpen
<1>5. ASSUME NEW a \in Connections
      PROVE  Wire(a) /\ Exact(a)
  BY <1>1 DEF Init, Wire, Exact
<1>6. ASSUME NEW j \in Ids
      PROVE  Recorded(j) /\ Routed(j)
  BY DEF Init, Recorded, Routed
<1>7. ASSUME NEW a \in Connections, NEW j \in Ids
      PROVE  Prepared(a, j)
  BY DEF Init, Prepared
<1> QED BY <1>3, <1>4, <1>5, <1>6, <1>7 DEF SInv

LEMMA NextGood ==
    ASSUME SInv, Next
    PROVE  SInv'
<1>1. ASSUME NEW c \in Clients, ConnectToServer(c) \/ SendRequest(c)
      PROVE  SInv'
  BY <1>1, ConnectToServerGood, SendRequestGood
<1>2. ASSUME NEW a \in Connections,
             NewConnection(a) \/ CloseSocket(a) \/ ClientDisconnected(a)
      PROVE  SInv'
  BY <1>2, NewConnectionGood, CloseSocketGood, ClientDisconnectedGood
<1>3. ASSUME NEW a \in Connections, ServerReads(a) \/ ReadPartOfPacket(a)
      PROVE  SInv'
  BY <1>3, HandleListQueuesRequestGood, HandleLookupJobRequestGood,
     RejectionsGood, HandleSubmitJobRequestGood, HandleCancelJobRequestGood,
     MisreadingsGood DEF ServerReads
<1>4. ASSUME NEW a \in Connections, ClientReads(a)
      PROVE  SInv'
  BY <1>4, ProcessNotificationGood, ProcessResultGood, ProcessErrorGood
     DEF ClientReads
<1>5. ASSUME NEW j \in Ids, QueueProgress(j) \/ RemoveJob(j)
      PROVE  SInv'
  BY <1>5, QueueProgressGood, RemoveJobGood
<1>6. ASSUME SyncJobState \/ Crash \/ Quit \/ StartServer \/ ForceStart
      PROVE  SInv'
  BY <1>6, SyncJobStateGood, CrashGood, QuitGood, StartServerGood, ForceStartGood
<1> QED BY <1>1, <1>2, <1>3, <1>4, <1>5, <1>6 DEF Next

LEMMA NothingGood ==
    ASSUME SInv, UNCHANGED vars
    PROVE  SInv'
<1>1. UNCHANGED <<running, listening, socketFile, end, m_connectionLUT,
                  m_moleQueueIdCounter, jobState, savedCounter, savedState, starts,
                  peer, open, whole, toServer, toClient, m_packetCounter,
                  m_requests, outcome, told, submitter>>
  BY DEF vars, serverVars, fileVars, wireVars, clientVars
<1>2. TypeOK' /\ Process'
  BY <1>1 DEF SInv, TypeOK, Process
<1>3. /\ OneOpen' /\ WaitsOpen'
      /\ \A a \in Connections : Wire(a)' /\ Exact(a)'
      /\ \A a \in Connections, j \in Ids : Prepared(a, j)'
  BY <1>1, StillWires DEF wireVars
<1>4. \A j \in Ids : Recorded(j)' /\ Routed(j)'
  BY <1>1 DEF SInv, Recorded, Routed
<1> QED BY <1>2, <1>3, <1>4 DEF SInv

\* The invariant the properties below are read off: it holds of every
\* behaviour of the server, its clients and the sockets between them.
THEOREM Inductive == Spec => []SInv
<1>1. Init => SInv
  BY InitGood
<1>2. SInv /\ [Next]_vars => SInv'
  BY NextGood, NothingGood
<1> QED BY <1>1, <1>2, PTL DEF Spec

-----------------------------------------------------------------------------
(* What the runs check.                                                    *)

\* The look-up table names live connections, and for each job the one of the
\* client that submitted it, although addresses are used again.
THEOREM RoutesStayLive == Spec => []RoutesLive
<1>1. SInv => RoutesLive
  BY DEF SInv, RoutesLive, Routed
<1> QED BY <1>1, Inductive, PTL

\* A client that stays connected can follow its job: no notification is lost,
\* repeated or out of order, whatever the queues, lookups and cancels do.
THEOREM JobsCanBeFollowed == Spec => []ChainUnbroken
<1>1. SInv => ChainUnbroken
  BY DEF SInv, ChainUnbroken, Routed
<1> QED BY <1>1, Inductive, PTL

\* A client has been given the id of a job when it is notified about it.
THEOREM IdsComeFirst == Spec => []IdBeforeNotice
<1>1. ASSUME SInv
      PROVE  IdBeforeNotice
  <2>1. SUFFICES ASSUME NEW a \in Connections, NEW i \in DOMAIN toClient[a],
                        open[a], toClient[a][i].type = "notification",
                        told[toClient[a][i].job] = NoId
                 PROVE  \E k \in 1 .. i - 1 :
                          /\ toClient[a][k].type = "result"
                          /\ toClient[a][k].job = toClient[a][i].job
    BY DEF IdBeforeNotice
  <2> DEFINE j == toClient[a][i].job
  <2>2. j \in Ids
    BY <1>1, <2>1 DEF SInv, Wire, PacketOK
  <2>3. Introduced(toClient[a], m_requests[peer[a]], j)
    BY <1>1, <2>1, <2>2 DEF SInv, Prepared
  <2>4. PICK k \in 1 .. i - 1 : Gives(m_requests[peer[a]], toClient[a][k], j)
    BY <2>1, <2>3 DEF Introduced
  <2> QED BY <2>4 DEF Gives
<1> QED BY <1>1, Inductive, PTL

\* A job whose id a client was given survives the end of the server.
THEOREM AcknowledgedJobsAreKept == Spec => []AcknowledgedIsKept
<1>1. SInv => AcknowledgedIsKept
  BY DEF SInv, AcknowledgedIsKept, Recorded
<1> QED BY <1>1, Inductive, PTL

\* An id is given out once: the server counts on from the last one, and what
\* a server that starts reads of the counter is no less.
THEOREM IdsStayFresh == Spec => IdsAreFresh
<1>1. ASSUME SInv, Next, m_moleQueueIdCounter' # m_moleQueueIdCounter, running
      PROVE  submitter[m_moleQueueIdCounter'] = Null
  <2>1. ASSUME NEW a \in Connections, HandleSubmitJobRequest(a)
        PROVE  submitter[m_moleQueueIdCounter'] = Null
    <3>1. PICK j \in Ids : j = m_moleQueueIdCounter + 1
      BY <2>1 DEF HandleSubmitJobRequest
    <3>2. m_moleQueueIdCounter' = j
      BY <2>1, <3>1 DEF HandleSubmitJobRequest
    <3> QED BY <1>1, <3>1, <3>2, NextIsFresh
  <2>2. ASSUME NEW c \in Clients, ConnectToServer(c) \/ SendRequest(c)
        PROVE  FALSE
    BY <1>1, <2>2 DEF ConnectToServer, SendRequest, serverVars
  <2>3. ASSUME NEW a \in Connections,
               NewConnection(a) \/ CloseSocket(a) \/ ClientDisconnected(a)
        PROVE  FALSE
    BY <1>1, <2>3 DEF NewConnection, CloseSocket, ClientDisconnected
  <2>4. ASSUME NEW a \in Connections, ReadPartOfPacket(a) \/ ClientReads(a)
        PROVE  FALSE
    BY <1>1, <2>4 DEF ReadPartOfPacket, ClientReads, ProcessNotification,
       ProcessResult, ProcessError, Read, serverVars
  <2>5. ASSUME NEW a \in Connections, ServerReads(a), ~HandleSubmitJobRequest(a)
        PROVE  FALSE
    BY <1>1, <2>5 DEF ServerReads, HandleListQueuesRequest,
       RejectSubmitJobRequest, HandleLookupJobRequest, RejectCancelJobRequest,
       HandleCancelJobRequest, ReadGarbage, serverVars
  <2>6. ASSUME NEW j \in Ids, QueueProgress(j) \/ RemoveJob(j)
        PROVE  FALSE
    BY <1>1, <2>6 DEF QueueProgress, RemoveJob
  <2>7. ASSUME SyncJobState \/ Crash \/ Quit \/ StartServer \/ ForceStart
        PROVE  FALSE
    BY <1>1, <2>7 DEF SyncJobState, Crash, Quit, StartServer, ForceStart, serverVars
  <2> QED BY <1>1, <2>1, <2>2, <2>3, <2>4, <2>5, <2>6, <2>7 DEF Next
<1>2. SInv /\ [Next]_vars =>
        [m_moleQueueIdCounter' # m_moleQueueIdCounter /\ running =>
           submitter[m_moleQueueIdCounter'] = Null]_vars
  BY <1>1
<1> QED BY <1>2, Inductive, PTL DEF Spec, IdsAreFresh

\* The places where Copies finds request r and the replies to it.
Mine(c) == {a \in Connections : peer[a] = c /\ open[a]}
Asks(a, r) ==
    {k \in DOMAIN toServer[a] : toServer[a][k] # Garbage /\ toServer[a][k].id = r}
Replies(a, r) ==
    {k \in DOMAIN toClient[a] :
        /\ toClient[a][k].type # "notification"
        /\ r = IF toClient[a][k].id = Null THEN 0 ELSE toClient[a][k].id}

LEMMA CopiesIs ==
    ASSUME NEW c, NEW r
    PROVE  Copies(c, r) =
             Cardinality(UNION {{<<a, i>> : i \in Asks(a, r)} : a \in Mine(c)})
             + Cardinality(UNION {{<<a, i>> : i \in Replies(a, r)} : a \in Mine(c)})
BY DEF Copies, Asks, Replies, Mine

\* On a connection whose packets arrive whole, every place names a request.
LEMMA PlacesAre ==
    ASSUME SInv, NEW a \in Connections, open[a], whole[a], NEW r \in RequestIds
    PROVE  /\ \A k : k \in Asks(a, r) <=>
                k \in DOMAIN toServer[a] /\ toServer[a][k].id = r
           /\ \A k : k \in Replies(a, r) <=>
                /\ k \in DOMAIN toClient[a]
                /\ IsReply(toClient[a][k]) /\ toClient[a][k].id = r
<1>1. Wire(a) /\ TypeOK
  BY DEF SInv
<1>2. \A k \in DOMAIN toServer[a] : toServer[a][k] # Garbage
  BY <1>1 DEF Wire, RequestOK
<1>3. ASSUME NEW k \in DOMAIN toClient[a], IsReply(toClient[a][k])
      PROVE  toClient[a][k].id # Null
  <2>1. PICK p \in Packet : p = toClient[a][k]
    BY <1>1, Carried
  <2>2. PacketOK(a, p)
    BY <1>1, <2>1 DEF Wire
  <2>3. p.type \in {"result", "error"}
    BY <1>3, <2>1 DEF IsReply, Packet
  <2> QED BY <2>1, <2>2, <2>3, Names DEF PacketOK
<1> QED BY <1>2, <1>3 DEF Asks, Replies, IsReply

LEMMA OnePlace ==
    ASSUME NEW a, NEW i, NEW S, S = {i}
    PROVE  Cardinality({<<a, k>> : k \in S}) = 1
<1>1. {<<a, k>> : k \in S} = {<<a, i>>}
  OBVIOUS
<1> QED BY <1>1, FS_Singleton

\* As long as its connection lasts and its packets arrive whole, a request
\* that waits is in exactly one place, itself or as one reply, and one that
\* does not wait is nowhere.
THEOREM OneAnswerEach == Spec => []OneAnswer
<1>1. ASSUME SInv, NEW c \in Clients, NEW r \in RequestIds, AllWhole(c)
      PROVE  Copies(c, r) = IF outcome[c][r] = "waiting" THEN 1 ELSE 0
  <2> DEFINE asks    == UNION {{<<a, i>> : i \in Asks(a, r)} : a \in Mine(c)}
             replies == UNION {{<<a, i>> : i \in Replies(a, r)} : a \in Mine(c)}
  <2>1. Copies(c, r) = Cardinality(asks) + Cardinality(replies)
    BY CopiesIs
  <2>2. ASSUME NEW a \in Mine(c)
        PROVE  /\ a \in Connections /\ open[a] /\ whole[a] /\ peer[a] = c
               /\ Answered(toServer[a], toClient[a], outcome[c])
    <3>1. a \in Connections /\ open[a] /\ whole[a] /\ peer[a] = c
      BY <1>1, <2>2 DEF Mine, AllWhole
    <3> QED BY <1>1, <3>1 DEF SInv, Exact
  <2>3. ASSUME NEW a \in Mine(c), NEW k
        PROVE  /\ k \in Asks(a, r) <=>
                    k \in DOMAIN toServer[a] /\ toServer[a][k].id = r
               /\ k \in Replies(a, r) <=>
                    /\ k \in DOMAIN toClient[a]
                    /\ IsReply(toClient[a][k]) /\ toClient[a][k].id = r
    BY <1>1, <2>2, PlacesAre
  <2>4. CASE outcome[c][r] # "waiting"
    <3>1. \A a \in Mine(c) : Asks(a, r) = {} /\ Replies(a, r) = {}
      BY <1>1, <2>2, <2>3, <2>4 DEF Answered
    <3>2. asks = {} /\ replies = {}
      BY <3>1
    <3> HIDE DEF asks, replies
    <3>3. Cardinality(asks) = 0 /\ Cardinality(replies) = 0
      BY <3>2, FS_EmptySet
    <3> QED BY <2>1, <2>4, <3>3
  <2>5. CASE outcome[c][r] = "waiting"
    <3>1. PICK a \in Connections : open[a] /\ peer[a] = c
      BY <1>1, <2>5 DEF SInv, WaitsOpen
    <3>2. Mine(c) = {a}
      BY <1>1, <3>1 DEF SInv, OneOpen, Mine
    <3>3. asks = {<<a, i>> : i \in Asks(a, r)}
      BY <3>2
    <3>4. replies = {<<a, i>> : i \in Replies(a, r)}
      BY <3>2
    <3> HIDE DEF asks, replies
    <3>5. a \in Mine(c) /\ Answered(toServer[a], toClient[a], outcome[c])
      BY <2>2, <3>2
    <3>6. \/ \E i : i \in Asks(a, r)
          \/ \E i : i \in Replies(a, r)
      BY <2>3, <2>5, <3>5 DEF Answered
    <3>7. ASSUME NEW i \in Asks(a, r)
          PROVE  Asks(a, r) = {i} /\ Replies(a, r) = {}
      BY <2>3, <3>5, <3>7 DEF Answered
    <3>8. ASSUME NEW i \in Replies(a, r)
          PROVE  Replies(a, r) = {i} /\ Asks(a, r) = {}
      BY <2>3, <3>5, <3>8 DEF Answered
    <3>9. ASSUME NEW i \in Asks(a, r)
          PROVE  Cardinality(asks) = 1 /\ Cardinality(replies) = 0
      <4>1. replies = {}
        BY <3>4, <3>7
      <4> QED BY <3>3, <3>7, <4>1, OnePlace, FS_EmptySet
    <3>10. ASSUME NEW i \in Replies(a, r)
           PROVE  Cardinality(asks) = 0 /\ Cardinality(replies) = 1
      <4>1. asks = {}
        BY <3>3, <3>8
      <4> QED BY <3>4, <3>8, <4>1, OnePlace, FS_EmptySet
    <3> QED BY <2>1, <2>5, <3>6, <3>9, <3>10
  <2> QED BY <2>4, <2>5
<1>2. SInv => OneAnswer
  BY <1>1 DEF OneAnswer
<1> QED BY <1>2, Inductive, PTL

-----------------------------------------------------------------------------
(* The messages that the packets stand for.  The first lemmas say what is  *)
(* in a message and in the JSON object written of it, the next ones what   *)
(* an object is read as, the last ones what is sent for it.  Nothing is    *)
(* assumed of the members of an object nor of the values they have.        *)

\* What the members of a message of each type are, and that the params of the
\* same message can be others.
LEMMA RequestFields ==
  ASSUME NEW m, NEW p, NEW i
  PROVE  LET r == Messages!Request(m, p, i) IN
     r.type = "Request" /\ r.method = m /\ r.params = p /\ r.id = i
BY DEF Messages!Request, Messages!Blank

LEMMA RequestParams ==
  ASSUME NEW m, NEW p, NEW i, NEW q
  PROVE  [Messages!Request(m, p, i) EXCEPT !.params = q] = Messages!Request(m, q, i)
BY DEF Messages!Request, Messages!Blank

LEMMA ResponseFields ==
  ASSUME NEW m, NEW x, NEW i
  PROVE  LET r == Messages!Response(m, x, i) IN
     r.type = "Response" /\ r.method = m /\ r.result = x /\ r.id = i
BY DEF Messages!Response, Messages!Blank

\* What every message starts with.
LEMMA HeadFields ==
    DOMAIN Messages!Head2 = {"jsonrpc"} /\ Messages!Head2["jsonrpc"] = Messages!Str("2.0")
BY DEF Messages!Head2

LEMMA NotificationFields ==
  ASSUME NEW m, NEW p
  PROVE  LET r == Messages!Notification(m, p) IN
     r.type = "Notification" /\ r.method = m /\ r.params = p
BY DEF Messages!Notification, Messages!Blank

LEMMA NotificationParams ==
  ASSUME NEW m, NEW p, NEW q
  PROVE  [Messages!Notification(m, p) EXCEPT !.params = q] = Messages!Notification(m, q)
BY DEF Messages!Notification, Messages!Blank

LEMMA ErrorForFields ==
  ASSUME NEW m, NEW c, NEW t, NEW d, NEW i
  PROVE  LET r == Messages!ErrorFor(m, c, t, d, i) IN
     r.type = "Error" /\ r.code = c /\ r.message = t /\ r.data = d
     /\ r.id = i /\ r.method = m
BY DEF Messages!ErrorFor, Messages!Error, Messages!Blank

\* What is written of the params.
LEMMA ParamsFacts ==
    ASSUME NEW m
    PROVE  /\ DOMAIN Messages!Params(m) =
                IF m.params \in {Messages!Obj("some"), Messages!Arr("some")}
                THEN {"params"} ELSE {}
           /\ m.params \in {Messages!Obj("some"), Messages!Arr("some")} =>
                Messages!Params(m)["params"] = m.params
<1>1. CASE m.params \in {Messages!Obj("some"), Messages!Arr("some")}
  <2>1. Messages!Params(m) = [params |-> m.params]
    BY <1>1 DEF Messages!Params
  <2> QED
    BY <1>1, <2>1
<1>2. CASE m.params \notin {Messages!Obj("some"), Messages!Arr("some")}
  <2>1. Messages!Params(m) = << >>
    BY <1>2 DEF Messages!Params
  <2> QED
    BY <1>2, <2>1
<1> QED
  BY <1>1, <1>2

\* The objects written of the four types of messages.
LEMMA RequestObject ==
    ASSUME NEW m, m.type = "Request"
    PROVE  LET o == Messages!ToJsonObject(m)
               given == m.params \in {Messages!Obj("some"), Messages!Arr("some")}
           IN /\ DOMAIN o = {"jsonrpc", "method", "id"} \cup IF given THEN {"params"} ELSE {}
              /\ o["jsonrpc"] = Messages!Str("2.0") /\ o["method"] = Messages!Str(m.method)
              /\ o["id"] = m.id
              /\ given => o["params"] = m.params
<1> DEFINE h == [method |-> Messages!Str(m.method), id |-> m.id]
           f == Messages!Members(Messages!Head2, h)
<1>1. Messages!ToJsonObject(m) = Messages!Members(f, Messages!Params(m))
  BY DEF Messages!ToJsonObject
<1>2. DOMAIN h = {"method", "id"} /\ h["method"] = Messages!Str(m.method) /\ h["id"] = m.id
  OBVIOUS
<1> HIDE DEF h
<1>3. /\ DOMAIN f = {"jsonrpc", "method", "id"} /\ f["jsonrpc"] = Messages!Str("2.0")
      /\ f["method"] = Messages!Str(m.method) /\ f["id"] = m.id
  BY <1>2, HeadFields DEF Messages!Members
<1> HIDE DEF f
<1> QED
  BY <1>1, <1>3, ParamsFacts DEF Messages!Members

LEMMA NotificationObject ==
    ASSUME NEW m, m.type = "Notification"
    PROVE  LET o == Messages!ToJsonObject(m)
               given == m.params \in {Messages!Obj("some"), Messages!Arr("some")}
           IN /\ DOMAIN o = {"jsonrpc", "method"} \cup IF given THEN {"params"} ELSE {}
              /\ o["jsonrpc"] = Messages!Str("2.0") /\ o["method"] = Messages!Str(m.method)
              /\ given => o["params"] = m.params
<1> DEFINE h == [method |-> Messages!Str(m.method)]
           f == Messages!Members(Messages!Head2, h)
<1>1. Messages!ToJsonObject(m) = Messages!Members(f, Messages!Params(m))
  BY DEF Messages!ToJsonObject
<1>2. DOMAIN h = {"method"} /\ h["method"] = Messages!Str(m.method)
  OBVIOUS
<1> HIDE DEF h
<1>3. /\ DOMAIN f = {"jsonrpc", "method"} /\ f["jsonrpc"] = Messages!Str("2.0")
      /\ f["method"] = Messages!Str(m.method)
  BY <1>2, HeadFields DEF Messages!Members
<1> HIDE DEF f
<1> QED
  BY <1>1, <1>3, ParamsFacts DEF Messages!Members

LEMMA ResponseObject ==
    ASSUME NEW m, m.type = "Response"
    PROVE  LET o == Messages!ToJsonObject(m)
           IN /\ DOMAIN o = {"jsonrpc", "result", "id"}
              /\ o["jsonrpc"] = Messages!Str("2.0") /\ o["result"] = m.result /\ o["id"] = m.id
<1> DEFINE h == [result |-> m.result, id |-> m.id]
<1>1. Messages!ToJsonObject(m) = Messages!Members(Messages!Head2, h)
  BY DEF Messages!ToJsonObject
<1>2. DOMAIN h = {"result", "id"} /\ h["result"] = m.result /\ h["id"] = m.id
  OBVIOUS
<1> HIDE DEF h
<1> QED
  BY <1>1, <1>2, HeadFields DEF Messages!Members

LEMMA ErrorObjectFacts ==
    ASSUME NEW m
    PROVE  LET e == Messages!ErrorObject(m)
           IN /\ DOMAIN e = {"code", "message"}
                              \cup IF m.data # Messages!JsonNull THEN {"data"} ELSE {}
              /\ e["code"] = Messages!Num(m.code) /\ e["message"] = Messages!Str(m.message)
              /\ m.data # Messages!JsonNull => e["data"] = m.data
<1> DEFINE h == [code |-> Messages!Num(m.code), message |-> Messages!Str(m.message)]
           d == IF m.data # Messages!JsonNull THEN [data |-> m.data] ELSE << >>
<1>1. Messages!ErrorObject(m) = Messages!Members(h, d)
  BY DEF Messages!ErrorObject
<1>2. /\ DOMAIN h = {"code", "message"} /\ h["code"] = Messages!Num(m.code)
      /\ h["message"] = Messages!Str(m.message)
  OBVIOUS
<1>3. CASE m.data # Messages!JsonNull
  <2>1. DOMAIN d = {"data"} /\ d["data"] = m.data
    BY <1>3
  <2> HIDE DEF h, d
  <2> QED
    BY <1>1, <1>2, <1>3, <2>1 DEF Messages!Members
<1>4. CASE m.data = Messages!JsonNull
  <2>1. DOMAIN d = {}
    BY <1>4
  <2> HIDE DEF h, d
  <2> QED
    BY <1>1, <1>2, <1>4, <2>1 DEF Messages!Members
<1> QED
  BY <1>3, <1>4

LEMMA ErrorWire ==
    ASSUME NEW m, m.type = "Error"
    PROVE  LET o == Messages!ToJsonObject(m)
           IN /\ DOMAIN o = {"jsonrpc", "error", "id"}
              /\ o["jsonrpc"] = Messages!Str("2.0")
              /\ o["error"] = Messages!Obj(Messages!ErrorObject(m)) /\ o["id"] = m.id
<1> DEFINE h == [error |-> Messages!Obj(Messages!ErrorObject(m)), id |-> m.id]
<1>1. Messages!ToJsonObject(m) = Messages!Members(Messages!Head2, h)
  BY DEF Messages!ToJsonObject
<1>2. /\ DOMAIN h = {"error", "id"} /\ h["error"] = Messages!Obj(Messages!ErrorObject(m))
      /\ h["id"] = m.id
  OBVIOUS
<1> HIDE DEF h
<1> QED
  BY <1>1, <1>2, HeadFields DEF Messages!Members

\* What is read of a JSON object, by the members it has.
LEMMA ParseNone ==
    ASSUME NEW o, NEW kept, ~Messages!WellFormed(o)
    PROVE  Messages!Parse(o, kept) = [ok |-> FALSE, is |-> Messages!InvalidRequest]
BY DEF Messages!Parse

LEMMA ParseResult ==
    ASSUME NEW o, NEW kept, Messages!WellFormed(o), "result" \in DOMAIN o
    PROVE  LET method == IF Messages!Contains(o, "method") THEN o["method"][2]
                         ELSE kept IN
           Messages!Parse(o, kept) =
             [ok |-> TRUE,
              is |-> Messages!Response(method, o["result"], Messages!Value(o, "id"))]
BY DEF Messages!Parse, Messages!Contains

LEMMA ParseError ==
    ASSUME NEW o, NEW kept, Messages!WellFormed(o),
           "result" \notin DOMAIN o, "error" \in DOMAIN o
    PROVE  LET method == IF Messages!Contains(o, "method") THEN o["method"][2]
                         ELSE kept IN
           Messages!Parse(o, kept) = [ok |-> TRUE, is |-> Messages!InterpretError(o, method)]
BY DEF Messages!Parse, Messages!Contains

LEMMA ParseNotification ==
    ASSUME NEW o, NEW kept, Messages!WellFormed(o),
           "result" \notin DOMAIN o, "error" \notin DOMAIN o,
           "id" \notin DOMAIN o
    PROVE  Messages!Parse(o, kept) = [ok |-> TRUE, is |-> Messages!InterpretNotification(o)]
BY DEF Messages!Parse, Messages!Contains

LEMMA ParseRequest ==
    ASSUME NEW o, NEW kept, Messages!WellFormed(o),
           "result" \notin DOMAIN o, "error" \notin DOMAIN o,
           "id" \in DOMAIN o
    PROVE  Messages!Parse(o, kept) =
             IF Messages!RequestFits(o)
             THEN [ok |-> TRUE, is |-> Messages!InterpretRequest(o)]
             ELSE [ok |-> FALSE, is |-> Messages!InvalidRequest]
BY DEF Messages!Parse, Messages!Contains

ReadsBack(m) ==
    Messages!Parse(Messages!ToJsonObject(m), m.method) =
      [ok |-> TRUE, is |-> Messages!Normal(m)]

\* Each type of message reads as what it was, whatever its members are.
LEMMA RequestSurvives ==
    ASSUME NEW t, NEW p \in Messages!Parameters, NEW i
    PROVE  LET m == Messages!Request(t, p, i) IN
           ReadsBack(m)
<1> DEFINE m == Messages!Request(t, p, i)
           o == Messages!ToJsonObject(m)
           n == IF p = Messages!Obj("empty") THEN Messages!JsonNull ELSE p
<1>1. m.type = "Request" /\ m.method = t /\ m.params = p /\ m.id = i
  BY RequestFields
<1>2. Messages!Normal(m) = Messages!Request(t, n, i)
  BY <1>1, RequestParams DEF Messages!Normal
<1> DEFINE given == p \in {Messages!Obj("some"), Messages!Arr("some")}
<1>3. /\ DOMAIN o = {"jsonrpc", "method", "id"} \cup IF given THEN {"params"} ELSE {}
      /\ o["jsonrpc"] = Messages!Str("2.0") /\ o["method"] = Messages!Str(t) /\ o["id"] = i
      /\ given => o["params"] = p
  BY <1>1, RequestObject
<1>4. n = IF given THEN p ELSE Messages!JsonNull
  BY DEF Messages!Parameters, Messages!JsonNull, Messages!Obj, Messages!Arr
<1> HIDE DEF m, o, n
<1>5. Messages!WellFormed(o)
  BY <1>3 DEF Messages!WellFormed, Messages!Contains, Messages!IsString, Messages!Str
<1>6. Messages!RequestFits(o)
  BY <1>3 DEF Messages!RequestFits, Messages!Contains, Messages!Obj, Messages!Arr
<1>7. Messages!Parse(o, t) = [ok |-> TRUE, is |-> Messages!InterpretRequest(o)]
  BY <1>3, <1>5, <1>6, ParseRequest
<1>8. Messages!InterpretRequest(o) = Messages!Request(t, n, i)
  <2>1. o["method"][2] = t
    BY <1>3 DEF Messages!Str
  <2>2. (IF Messages!Contains(o, "params") THEN o["params"] ELSE Messages!JsonNull) = n
    BY <1>3, <1>4 DEF Messages!Contains
  <2> QED
    BY <1>3, <2>1, <2>2 DEF Messages!InterpretRequest
<1> QED
  BY <1>1, <1>2, <1>7, <1>8 DEF m, o, ReadsBack

LEMMA NotificationSurvives ==
    ASSUME NEW t, NEW p \in Messages!Parameters
    PROVE  LET m == Messages!Notification(t, p) IN
           ReadsBack(m)
<1> DEFINE m == Messages!Notification(t, p)
           o == Messages!ToJsonObject(m)
           n == IF p = Messages!Obj("empty") THEN Messages!JsonNull ELSE p
<1>1. m.type = "Notification" /\ m.method = t /\ m.params = p
  BY NotificationFields
<1>2. Messages!Normal(m) = Messages!Notification(t, n)
  BY <1>1, NotificationParams DEF Messages!Normal
<1> DEFINE given == p \in {Messages!Obj("some"), Messages!Arr("some")}
<1>3. /\ DOMAIN o = {"jsonrpc", "method"} \cup IF given THEN {"params"} ELSE {}
      /\ o["jsonrpc"] = Messages!Str("2.0") /\ o["method"] = Messages!Str(t)
      /\ given => o["params"] = p
  BY <1>1, NotificationObject
<1>4. n = IF given THEN p ELSE Messages!JsonNull
  BY DEF Messages!Parameters, Messages!JsonNull, Messages!Obj, Messages!Arr
<1> HIDE DEF m, o, n
<1>5. Messages!WellFormed(o)
  BY <1>3 DEF Messages!WellFormed, Messages!Contains, Messages!IsString, Messages!Str
<1>7. Messages!Parse(o, t) = [ok |-> TRUE, is |-> Messages!InterpretNotification(o)]
  BY <1>3, <1>5, ParseNotification
<1>8. Messages!InterpretNotification(o) = Messages!Notification(t, n)
  <2>1. o["method"][2] = t
    BY <1>3 DEF Messages!Str
  <2>2. (IF Messages!Contains(o, "params") THEN o["params"] ELSE Messages!JsonNull) = n
    BY <1>3, <1>4 DEF Messages!Contains
  <2> QED
    BY <2>1, <2>2 DEF Messages!InterpretNotification
<1> QED
  BY <1>1, <1>2, <1>7, <1>8 DEF m, o, ReadsBack

LEMMA ResponseSurvives ==
    ASSUME NEW t, NEW r, NEW i
    PROVE  LET m == Messages!Response(t, r, i) IN
           ReadsBack(m)
<1> DEFINE m == Messages!Response(t, r, i)
           o == Messages!ToJsonObject(m)
<1>1. m.type = "Response" /\ m.method = t /\ m.result = r /\ m.id = i
  BY ResponseFields
<1>2. m.params = Messages!JsonNull
  BY DEF Messages!Response, Messages!Blank
<1>3. Messages!Normal(m) = m
  BY <1>2 DEF Messages!Normal, Messages!JsonNull, Messages!Obj
<1>4. /\ DOMAIN o = {"jsonrpc", "result", "id"}
      /\ o["jsonrpc"] = Messages!Str("2.0") /\ o["result"] = r /\ o["id"] = i
  BY <1>1, ResponseObject
<1> HIDE DEF o
<1>5. Messages!WellFormed(o)
  BY <1>4 DEF Messages!WellFormed, Messages!Contains
<1>6. Messages!Value(o, "id") = i /\ ~Messages!Contains(o, "method")
  BY <1>4 DEF Messages!Value, Messages!Contains
<1>7. Messages!Parse(o, t) = [ok |-> TRUE, is |-> Messages!Response(t, o["result"], i)]
  BY <1>4, <1>5, <1>6, ParseResult
<1> QED
  BY <1>1, <1>3, <1>4, <1>7 DEF o, ReadsBack

LEMMA ErrorSurvives ==
    ASSUME NEW c, NEW t, NEW d, NEW i, NEW k
    PROVE  LET m == Messages!ErrorFor(k, c, t, d, i) IN
           ReadsBack(m)
<1> DEFINE m == Messages!ErrorFor(k, c, t, d, i)
           o == Messages!ToJsonObject(m)
           e == Messages!ErrorObject(m)
<1>1. /\ m.type = "Error" /\ m.code = c /\ m.message = t /\ m.data = d
      /\ m.id = i /\ m.method = k
  BY ErrorForFields
<1>2. m.params = Messages!JsonNull
  BY DEF Messages!ErrorFor, Messages!Error, Messages!Blank
<1>3. Messages!Normal(m) = m
  BY <1>2 DEF Messages!Normal, Messages!JsonNull, Messages!Obj
<1>4. /\ DOMAIN o = {"jsonrpc", "error", "id"}
      /\ o["jsonrpc"] = Messages!Str("2.0") /\ o["error"] = Messages!Obj(e) /\ o["id"] = i
  BY <1>1, ErrorWire
<1>5. /\ DOMAIN e = {"code", "message"} \cup IF d # Messages!JsonNull THEN {"data"} ELSE {}
      /\ e["code"] = Messages!Num(c) /\ e["message"] = Messages!Str(t)
      /\ d # Messages!JsonNull => e["data"] = d
  BY <1>1, ErrorObjectFacts
<1> HIDE DEF o, e
<1>6. Messages!WellFormed(o)
  BY <1>4 DEF Messages!WellFormed, Messages!Contains
<1>7. Messages!Value(o, "id") = i /\ ~Messages!Contains(o, "method")
  BY <1>4 DEF Messages!Value, Messages!Contains
<1>8. Messages!ErrorFits(e)
  BY <1>5 DEF Messages!ErrorFits, Messages!Contains, Messages!IsString,
              Messages!Num, Messages!Str
<1>9. (IF Messages!Contains(e, "data") THEN e["data"] ELSE Messages!JsonNull) = d
  BY <1>5 DEF Messages!Contains
<1>10. e["code"][2] = c /\ e["message"][2] = t
  BY <1>5 DEF Messages!Num, Messages!Str
<1>11. o["error"][1] = "object" /\ o["error"][2] = e
  BY <1>4 DEF Messages!Obj
<1>12. Messages!InterpretError(o, k) = Messages!ErrorFor(k, c, t, d, i)
  BY <1>7, <1>8, <1>9, <1>10, <1>11 DEF Messages!InterpretError, Messages!ErrorFor
<1>13. Messages!Parse(o, k) = [ok |-> TRUE, is |-> Messages!InterpretError(o, k)]
  BY <1>4, <1>6, <1>7, ParseError
<1> QED
  BY <1>1, <1>3, <1>12, <1>13 DEF o, ReadsBack

\* Together: what is written is read back.
LEMMA TheWireKeepsMessages ==
    Messages!SurvivesTheWire
<1> SUFFICES ASSUME NEW m \in Messages!Sent
             PROVE  ReadsBack(m)
  BY DEF ReadsBack, Messages!SurvivesTheWire
<1> DEFINE R == {Messages!Request(t, p, i) : t \in {"submitJob", "x"},
                    p \in Messages!Parameters, i \in Messages!Ids}
           N == {Messages!Notification("jobStateChanged", p) : p \in Messages!Parameters}
           A == {Messages!Response("submitJob", r, i) :
                    r \in {Messages!Obj("some"), Messages!Str("pong")}, i \in Messages!Ids}
           E == {Messages!ErrorFor("submitJob", c, t, d, i) :
                    c \in {-32700, 0}, t \in Messages!Texts,
                    d \in {Messages!JsonNull, Messages!Obj("some")}, i \in Messages!Ids}
<1>1. CASE m \in R
  BY <1>1, RequestSurvives
<1>2. CASE m \in N
  BY <1>2, NotificationSurvives
<1>3. CASE m \in A
  BY <1>3, ResponseSurvives
<1>4. CASE m \in E
  BY <1>4, ErrorSurvives
<1>5. Messages!Sent = R \cup N \cup A \cup E
  BY DEF Messages!Sent
<1> HIDE DEF R, N, A, E
<1> QED
  BY <1>1, <1>2, <1>3, <1>4, <1>5

\* An error is read as an error, one that is malformed too.
LEMMA ErrorsAreErrors ==
    \A c, t, d, i : /\ Messages!Error(c, t, d, i).type = "Error"
                    /\ "type" \in DOMAIN Messages!Error(c, t, d, i)
BY DEF Messages!Error, Messages!Blank

LEMMA ErrorIsRead ==
    ASSUME NEW o, NEW method
    PROVE  Messages!InterpretError(o, method).type = "Error"
<1> DEFINE v == o["error"]
           fits == v[1] = "object" /\ Messages!ErrorFits(v[2])
           d == IF Messages!Contains(v[2], "data") THEN v[2]["data"]
                ELSE Messages!JsonNull
           e == IF fits THEN Messages!Error(v[2]["code"][2], v[2]["message"][2], d,
                                            Messages!Value(o, "id"))
                ELSE Messages!Error(Messages!ServerErrorCode, "Server error",
                                    Messages!Obj("some"), Messages!Value(o, "id"))
<1>1. Messages!InterpretError(o, method) = [e EXCEPT !.method = method]
  BY DEF Messages!InterpretError
<1>2. e.type = "Error" /\ "type" \in DOMAIN e
  BY ErrorsAreErrors
<1> HIDE DEF e
<1> QED
  BY <1>1, <1>2

\* What a JSON object is read as.
LEMMA ParseKinds ==
    ASSUME NEW o, NEW kept
    PROVE  LET p == Messages!Parse(o, kept) IN
           /\ p.ok \in BOOLEAN
           /\ ~p.ok => p.is = Messages!InvalidRequest
           /\ p.ok /\ p.is.type = "Request" => p.is.id = o["id"]
<1> DEFINE p == Messages!Parse(o, kept)
           method == IF Messages!Contains(o, "method") THEN o["method"][2] ELSE kept
<1>1. CASE ~Messages!WellFormed(o)
  <2>1. p = [ok |-> FALSE, is |-> Messages!InvalidRequest]
    BY <1>1, ParseNone
  <2> HIDE DEF p
  <2> QED
    BY <2>1 DEF p
<1>2. CASE Messages!WellFormed(o) /\ "result" \in DOMAIN o
  <2>1. p = [ok |-> TRUE,
             is |-> Messages!Response(method, o["result"], Messages!Value(o, "id"))]
    BY <1>2, ParseResult
  <2> HIDE DEF p, method
  <2>2. p.ok /\ p.is.type = "Response"
    BY <2>1, ResponseFields
  <2> QED
    BY <2>2 DEF p
<1>3. CASE Messages!WellFormed(o) /\ "result" \notin DOMAIN o /\ "error" \in DOMAIN o
  <2>1. p = [ok |-> TRUE, is |-> Messages!InterpretError(o, method)]
    BY <1>3, ParseError
  <2> HIDE DEF p, method
  <2>2. Messages!InterpretError(o, method).type = "Error"
    BY ErrorIsRead
  <2> QED
    BY <2>1, <2>2 DEF p
<1>4. CASE Messages!WellFormed(o) /\ "result" \notin DOMAIN o /\ "error" \notin DOMAIN o
           /\ "id" \notin DOMAIN o
  <2>1. p = [ok |-> TRUE, is |-> Messages!InterpretNotification(o)]
    BY <1>4, ParseNotification
  <2>2. Messages!InterpretNotification(o).type = "Notification"
    BY NotificationFields DEF Messages!InterpretNotification
  <2> HIDE DEF p
  <2> QED
    BY <2>1, <2>2 DEF p
<1>5. CASE Messages!WellFormed(o) /\ "result" \notin DOMAIN o /\ "error" \notin DOMAIN o
           /\ "id" \in DOMAIN o
  <2>1. p = IF Messages!RequestFits(o)
             THEN [ok |-> TRUE, is |-> Messages!InterpretRequest(o)]
             ELSE [ok |-> FALSE, is |-> Messages!InvalidRequest]
    BY <1>5, ParseRequest
  <2>2. Messages!InterpretRequest(o).id = o["id"]
    BY RequestFields DEF Messages!InterpretRequest
  <2> HIDE DEF p
  <2>3. CASE Messages!RequestFits(o)
    BY <2>1, <2>2, <2>3 DEF p
  <2>4. CASE ~Messages!RequestFits(o)
    BY <2>1, <2>4 DEF p
  <2> QED
    BY <2>3, <2>4
<1> QED
  BY <1>1, <1>2, <1>3, <1>4, <1>5

\* The reply with a result and the one with an error have the id of what they
\* answer.
LEMMA ResultFacts ==
    ASSUME NEW m, NEW r, m.type = "Request"
    PROVE  LET a == Messages!GenerateResponse(m, r) IN
           a.type = "Response" /\ a.id = m.id /\ a.result = r
<1> DEFINE b == Messages!ReplyTo(m, "Response")
<1>1. b.type = "Response" /\ b.id = m.id /\ {"type", "id", "result"} \subseteq DOMAIN b
  BY DEF Messages!ReplyTo, Messages!Blank
<1> HIDE DEF b
<1>2. Messages!GenerateResponse(m, r) = [b EXCEPT !["result"] = r]
  BY <1>1 DEF b, Messages!GenerateResponse, Messages!Set, Messages!MembersOf
<1> QED
  BY <1>1, <1>2

\* A member that is set leaves type and id alone.
LEMMA SetError ==
    ASSUME NEW b, NEW k \in {"code", "message", "data"}, NEW v,
           b.type = "Error", {"type", "id"} \subseteq DOMAIN b
    PROVE  LET a == Messages!Set(b, k, v) IN
           a.type = "Error" /\ a.id = b.id /\ {"type", "id"} \subseteq DOMAIN a
<1>1. Messages!Set(b, k, v) = [b EXCEPT ![k] = v]
  BY DEF Messages!Set, Messages!MembersOf
<1> QED
  BY <1>1

LEMMA RefusalFacts ==
    ASSUME NEW m, NEW c, NEW t
    PROVE  LET a == Messages!GenerateErrorResponse(m, c, t) IN
           a.type = "Error" /\ a.id = m.id
<1> DEFINE b == Messages!ReplyTo(m, "Error")
           b1 == Messages!Set(b, "code", c)
           b2 == Messages!Set(b1, "message", t)
           b3 == Messages!Set(b2, "data", Messages!Obj("some"))
<1>1. b.type = "Error" /\ b.id = m.id /\ {"type", "id"} \subseteq DOMAIN b
  BY DEF Messages!ReplyTo, Messages!Blank
<1> HIDE DEF b
<1>2. b1.type = "Error" /\ b1.id = m.id /\ {"type", "id"} \subseteq DOMAIN b1
  BY <1>1, SetError
<1> HIDE DEF b1
<1>3. b2.type = "Error" /\ b2.id = m.id /\ {"type", "id"} \subseteq DOMAIN b2
  BY <1>2, SetError
<1> HIDE DEF b2
<1>4. b3.type = "Error" /\ b3.id = m.id
  BY <1>3, SetError
<1> QED
  BY <1>4 DEF b, b1, b2, b3, Messages!GenerateErrorResponse

\* What is sent for a request; and what is sent for anything.
IsAnswer(r, i) ==
    /\ r.id = i
    /\ \/ r.type = "Response" /\ r.result # Messages!JsonNull
       \/ r.type = "Error"

LEMMA RequestReplies ==
    ASSUME NEW m, m.type = "Request"
    PROVE  /\ Messages!HandleMessage(m) # {}
           /\ \A r \in Messages!HandleMessage(m) : IsAnswer(r, m.id)
<1>1. Messages!HandleMessage(m) = Messages!HandleRequest(m)
  BY DEF Messages!HandleMessage
<1>2. IsAnswer(Messages!GenerateResponse(m, Messages!Obj("some")), m.id)
  BY ResultFacts DEF IsAnswer, Messages!Obj, Messages!JsonNull
<1>3. IsAnswer(Messages!GenerateErrorResponse(m, Messages!InvalidParamsCode,
                                               "Invalid params"), m.id)
  BY RefusalFacts DEF IsAnswer
<1>4. IsAnswer(Messages!GenerateErrorResponse(m, Messages!MethodNotFoundCode,
                                               "Method not found"), m.id)
  BY RefusalFacts DEF IsAnswer
<1> QED
  BY <1>1, <1>2, <1>3, <1>4 DEF Messages!HandleRequest

LEMMA RepliesFacts ==
    ASSUME NEW o
    PROVE  LET p == Messages!Parse(o, "") IN
           /\ \A r \in Messages!Replies(o) : IsAnswer(r, r.id)
           /\ p.ok /\ p.is.type = "Request" =>
                /\ Messages!Replies(o) # {}
                /\ \A r \in Messages!Replies(o) : IsAnswer(r, o["id"])
           /\ p.ok /\ p.is.type # "Request" => Messages!Replies(o) = {}
<1> DEFINE p == Messages!Parse(o, "")
<1>1. /\ p.ok \in BOOLEAN
      /\ ~p.ok => p.is = Messages!InvalidRequest
      /\ p.ok /\ p.is.type = "Request" => p.is.id = o["id"]
  BY ParseKinds
<1>2. Messages!Replies(o) =
        CASE ~p.ok -> {p.is}
          [] p.ok /\ p.is.type = "Request" /\ p.is.method = "internalPing" ->
               {Messages!GenerateResponse(p.is, Messages!Str("pong"))}
          [] OTHER -> Messages!HandleMessage(p.is)
  BY DEF Messages!Replies
<1> HIDE DEF p
<1>3. CASE ~p.ok
  <2>1. Messages!InvalidRequest.type = "Error"
    BY ErrorsAreErrors DEF Messages!InvalidRequest
  <2>2. Messages!Replies(o) = {Messages!InvalidRequest}
    BY <1>1, <1>2, <1>3
  <2> QED
    BY <1>3, <2>1, <2>2 DEF IsAnswer, p
<1>4. CASE p.ok /\ p.is.type = "Request"
  <2>1. CASE p.is.method = "internalPing"
    <3>1. Messages!Replies(o) = {Messages!GenerateResponse(p.is, Messages!Str("pong"))}
      BY <1>2, <1>4, <2>1
    <3>2. IsAnswer(Messages!GenerateResponse(p.is, Messages!Str("pong")), o["id"])
      BY <1>1, <1>4, ResultFacts DEF IsAnswer, Messages!Str, Messages!JsonNull
    <3> QED
      BY <1>4, <3>1, <3>2 DEF IsAnswer, p
  <2>2. CASE p.is.method # "internalPing"
    <3>1. Messages!Replies(o) = Messages!HandleMessage(p.is)
      BY <1>2, <1>4, <2>2
    <3> QED
      BY <1>1, <1>4, <3>1, RequestReplies DEF IsAnswer, p
  <2> QED
    BY <2>1, <2>2
<1>5. CASE p.ok /\ p.is.type # "Request"
  <2>1. Messages!Replies(o) = {}
    BY <1>2, <1>5 DEF Messages!HandleMessage
  <2> QED
    BY <1>5, <2>1 DEF p
<1> QED
  BY <1>1, <1>3, <1>4, <1>5

\* What the other side makes of it.
LEMMA AnswerFacts ==
    ASSUME NEW r, NEW i, IsAnswer(r, i)
    PROVE  /\ Messages!Replies(Messages!ToJsonObject(r)) = {}
           /\ Messages!ReadPacket(Messages!ToJsonObject(r))
                \in {{"resultReceived"}, {"errorReceived"}}
<1> DEFINE o == Messages!ToJsonObject(r)
           p == Messages!Parse(o, "")
<1>1. CASE r.type = "Response" /\ r.result # Messages!JsonNull
  <2>1. /\ DOMAIN o = {"jsonrpc", "result", "id"}
        /\ o["jsonrpc"] = Messages!Str("2.0") /\ o["result"] = r.result /\ o["id"] = r.id
    BY <1>1, ResponseObject
  <2> HIDE DEF o
  <2>2. Messages!WellFormed(o)
    BY <2>1 DEF Messages!WellFormed, Messages!Contains
  <2>3. p.ok /\ p.is.type = "Response"
    <3> DEFINE method == IF Messages!Contains(o, "method") THEN o["method"][2] ELSE ""
    <3>1. p = [ok |-> TRUE,
               is |-> Messages!Response(method, o["result"], Messages!Value(o, "id"))]
      BY <2>1, <2>2, ParseResult
    <3> HIDE DEF p, method
    <3> QED
      BY <3>1, ResponseFields
  <2>4. Messages!Replies(o) = {}
    BY <2>3, RepliesFacts
  <2>5. Messages!ReadPacket(o) = {"resultReceived"}
    BY <1>1, <2>1 DEF Messages!ReadPacket, Messages!Get
  <2> QED
    BY <2>4, <2>5 DEF o
<1>2. CASE r.type = "Error"
  <2>1. /\ DOMAIN o = {"jsonrpc", "error", "id"}
        /\ o["jsonrpc"] = Messages!Str("2.0")
        /\ o["error"] = Messages!Obj(Messages!ErrorObject(r)) /\ o["id"] = r.id
    BY <1>2, ErrorWire
  <2> HIDE DEF o
  <2>2. Messages!WellFormed(o)
    BY <2>1 DEF Messages!WellFormed, Messages!Contains
  <2>3. p.ok /\ p.is.type = "Error"
    <3> DEFINE method == IF Messages!Contains(o, "method") THEN o["method"][2] ELSE ""
    <3>1. p = [ok |-> TRUE, is |-> Messages!InterpretError(o, method)]
      BY <2>1, <2>2, ParseError
    <3> HIDE DEF p, method
    <3> QED
      BY <3>1, ErrorIsRead
  <2>4. Messages!Replies(o) = {}
    BY <2>3, RepliesFacts
  <2>5. o["error"] # Messages!JsonNull
    BY <2>1 DEF Messages!Obj, Messages!JsonNull
  <2>6. Messages!ReadPacket(o) = {"errorReceived"}
    BY <2>1, <2>5 DEF Messages!ReadPacket, Messages!Get
  <2> QED
    BY <2>4, <2>6 DEF o
<1> QED
  BY <1>1, <1>2 DEF IsAnswer

\* Whatever JSON object one peer receives, with any members and values, or what
\* else in a batch, what it sends for it is answered by nothing (Message::parse,
\* JsonRpc::handleJsonValue, Server::handleMessage).
THEOREM AnswersAreFinal ==
    \A o : \A r \in Messages!Replies(o) \cup {Messages!NotAnObject} :
        Messages!Replies(Messages!ToJsonObject(r)) = {}
<1>1. Messages!NotAnObject.type = "Error"
  BY ErrorsAreErrors DEF Messages!NotAnObject
<1>2. IsAnswer(Messages!NotAnObject, Messages!NotAnObject.id)
  BY <1>1 DEF IsAnswer
<1> QED
  BY <1>2, RepliesFacts, AnswerFacts

\* Whatever request it is that can be read, there is an answer, every answer
\* has the id of the request, and the client library takes it for a result or
\* for an error, and for one of them only (Server::handleRequest,
\* JsonRpcClient::readPacket).
THEOREM AnswersAreUnderstood ==
    \A o : LET p == Messages!Parse(o, "") IN
           p.ok /\ p.is.type = "Request" =>
             /\ Messages!Replies(o) # {}
             /\ \A r \in Messages!Replies(o) :
                  /\ r.id = o["id"]
                  /\ Messages!ReadPacket(Messages!ToJsonObject(r))
                       \in {{"resultReceived"}, {"errorReceived"}}
<1> SUFFICES ASSUME NEW o, Messages!Parse(o, "").ok,
                    Messages!Parse(o, "").is.type = "Request"
             PROVE  /\ Messages!Replies(o) # {}
                    /\ \A r \in Messages!Replies(o) :
                         /\ r.id = o["id"]
                         /\ Messages!ReadPacket(Messages!ToJsonObject(r))
                              \in {{"resultReceived"}, {"errorReceived"}}
  OBVIOUS
<1>1. /\ Messages!Replies(o) # {}
      /\ \A r \in Messages!Replies(o) : IsAnswer(r, o["id"])
  BY RepliesFacts
<1>2. \A r \in Messages!Replies(o) : r.id = o["id"]
  BY <1>1 DEF IsAnswer
<1> QED
  BY <1>1, <1>2, AnswerFacts

\* Both sides of every connection make the same of what is sent on it
\* (Message::toJsonObject, Message::parse).
THEOREM MessagesAreRead == Spec => []MessagesAreUnderstood
<1>1. Messages!AnswersEndIt
  BY AnswersAreFinal DEF Messages!AnswersEndIt
<1>2. Messages!AnswerIsUnderstood
  BY AnswersAreUnderstood DEF Messages!AnswerIsUnderstood
<1>3. MessagesAreUnderstood
  BY <1>1, <1>2, TheWireKeepsMessages DEF MessagesAreUnderstood
<1> QED
  BY <1>3, PTL
==============================================================================
