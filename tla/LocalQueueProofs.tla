--------------------------- MODULE LocalQueueProofs ---------------------------
(***************************************************************************)
(* Theorems of LocalQueue for any number of jobs and cores: its type, the  *)
(* order in which jobs are started, that those started fit the cores, and, *)
(* where the program does not crash, that a job shown as over is held no   *)
(* more and that a job shown as queued or running is held.                 *)
(*                                                                         *)
(* FifoOrder needs IInv: a new job goes behind the others because ids are  *)
(* given in order (IdsInOrder) and everything known has an id that has     *)
(* been given (OnlyCreated); a restart takes the order from the file, so   *)
(* the list in the file must be in order too.                              *)
(*                                                                         *)
(* The cores are sums over sets of jobs, which a recursive fold defines.   *)
(* What holds of every sum is proved by the least set for which it would   *)
(* not: LeastNumber stands where an induction over its size would.         *)
(***************************************************************************)
EXTENDS LocalQueue, SequenceTheorems, FiniteSetTheorems,
        WellFoundedInduction, TLAPS

(* Sequences in ascending order.                                           *)

\* A larger entry at the end.
LEMMA AscendingAppend ==
    ASSUME NEW s \in Seq(Nat), NEW n \in Nat, Ascending(s),
           \A i \in 1 .. Len(s) : s[i] < n
    PROVE  Ascending(Append(s, n))
<1>1. \A i \in 1 .. Len(s) : Append(s, n)[i] = s[i]
  BY AppendProperties
<1>2. Len(Append(s, n)) = Len(s) + 1 /\ Append(s, n)[Len(s) + 1] = n
  BY AppendProperties
<1> QED
  BY <1>1, <1>2 DEF Ascending

\* Taking n entries from the front of a queue.
LEMMA RestProperties ==
    ASSUME NEW S, NEW s \in Seq(S), NEW n \in 0 .. Len(s)
    PROVE  LET t == SubSeq(s, n + 1, Len(s)) IN
           /\ t \in Seq(S)
           /\ Len(t) = Len(s) - n
           /\ \A i \in 1 .. Len(s) - n : t[i] = s[n + i]
<1>1. Len(s) \in Nat /\ \A i \in 1 .. Len(s) : s[i] \in S
  BY ElementOfSeq
<1>2. n + 1 \in Int /\ Len(s) \in Int /\ \A i \in n + 1 .. Len(s) : s[i] \in S
  BY <1>1
<1>3. /\ SubSeq(s, n + 1, Len(s)) \in Seq(S)
      /\ Len(SubSeq(s, n + 1, Len(s))) =
           IF n + 1 <= Len(s) THEN Len(s) - (n + 1) + 1 ELSE 0
      /\ \A i \in 1 .. Len(s) - (n + 1) + 1 :
           SubSeq(s, n + 1, Len(s))[i] = s[n + 1 + i - 1]
  BY <1>2, SubSeqProperties
<1> QED
  BY <1>1, <1>3

\* Taking the first i entries and putting them aside.
LEMMA FrontProperties ==
    ASSUME NEW S, NEW s \in Seq(S), NEW i \in 1 .. Len(s)
    PROVE  LET t == SubSeq(s, 1, i - 1) IN
           /\ t \in Seq(S)
           /\ Len(t) = i - 1
           /\ \A k \in 1 .. i - 1 : t[k] = s[k]
<1>1. Len(s) \in Nat /\ \A k \in 1 .. Len(s) : s[k] \in S
  BY ElementOfSeq
<1>2. 1 \in Int /\ i - 1 \in Int /\ \A k \in 1 .. i - 1 : s[k] \in S
  BY <1>1
<1>3. /\ SubSeq(s, 1, i - 1) \in Seq(S)
      /\ Len(SubSeq(s, 1, i - 1)) = IF 1 <= i - 1 THEN i - 1 - 1 + 1 ELSE 0
      /\ \A k \in 1 .. i - 1 - 1 + 1 : SubSeq(s, 1, i - 1)[k] = s[1 + k - 1]
  BY <1>2, SubSeqProperties
<1> QED
  BY <1>1, <1>3

\* Taking the entry at i out.
LEMMA RemoveAtProperties ==
    ASSUME NEW S, NEW s \in Seq(S), NEW i \in 1 .. Len(s)
    PROVE  /\ RemoveAt(s, i) \in Seq(S)
           /\ Len(RemoveAt(s, i)) = Len(s) - 1
           /\ \A k \in 1 .. Len(s) - 1 :
                RemoveAt(s, i)[k] = IF k < i THEN s[k] ELSE s[k + 1]
<1> DEFINE f == SubSeq(s, 1, i - 1)
           r == SubSeq(s, i + 1, Len(s))
<1>1. Len(s) \in Nat /\ i \in 0 .. Len(s) /\ i \in 1 .. Len(s)
  BY LenProperties
<1>2. f \in Seq(S) /\ Len(f) = i - 1 /\ \A k \in 1 .. i - 1 : f[k] = s[k]
  BY FrontProperties
<1>3. /\ r \in Seq(S) /\ Len(r) = Len(s) - i
      /\ \A k \in 1 .. Len(s) - i : r[k] = s[i + k]
  BY <1>1, RestProperties
<1> HIDE DEF f, r
<1>4. /\ f \o r \in Seq(S)
      /\ Len(f \o r) = Len(f) + Len(r)
      /\ \A k \in 1 .. Len(f) + Len(r) :
           (f \o r)[k] = IF k <= Len(f) THEN f[k] ELSE r[k - Len(f)]
  BY <1>2, <1>3, ConcatProperties
<1>5. RemoveAt(s, i) = f \o r
  BY DEF RemoveAt, f, r
<1>6. ASSUME NEW k \in 1 .. Len(s) - 1
      PROVE  (f \o r)[k] = IF k < i THEN s[k] ELSE s[k + 1]
  <2>1. CASE k < i
    BY <1>1, <1>2, <1>3, <1>4, <2>1
  <2>2. CASE ~(k < i)
    <3>1. k - (i - 1) \in 1 .. Len(s) - i /\ i + (k - (i - 1)) = k + 1
      BY <1>1, <2>2
    <3>2. k \in 1 .. Len(f) + Len(r) /\ ~(k <= Len(f))
      BY <1>1, <1>2, <1>3, <2>2
    <3>3. (f \o r)[k] = r[k - (i - 1)]
      BY <1>2, <1>4, <3>2
    <3>4. r[k - (i - 1)] = s[i + (k - (i - 1))]
      BY <1>3, <3>1
    <3> QED
      BY <2>2, <3>1, <3>3, <3>4
  <2> QED
    BY <2>1, <2>2
<1>7. Len(f \o r) = Len(s) - 1
  BY <1>1, <1>2, <1>3, <1>4
<1> QED
  BY <1>4, <1>5, <1>6, <1>7

\* What is left after n entries is in order.
LEMMA AscendingRest ==
    ASSUME NEW s \in Seq(Nat), NEW n \in 0 .. Len(s), Ascending(s)
    PROVE  Ascending(SubSeq(s, n + 1, Len(s)))
<1> DEFINE t == SubSeq(s, n + 1, Len(s))
<1>1. Len(s) \in Nat
  BY LenProperties
<1>2. Len(t) = Len(s) - n /\ \A i \in 1 .. Len(s) - n : t[i] = s[n + i]
  BY RestProperties
<1> HIDE DEF t
<1>3. ASSUME NEW a \in 1 .. Len(t), NEW b \in 1 .. Len(t), a < b
      PROVE  t[a] < t[b]
  <2>1. a \in 1 .. Len(s) - n /\ b \in 1 .. Len(s) - n
    BY <1>2
  <2>2. /\ n + a \in 1 .. Len(s) /\ n + b \in 1 .. Len(s)
        /\ n + a < n + b
    BY <1>1, <1>3, <2>1
  <2>3. s[n + a] < s[n + b]
    BY <2>2 DEF Ascending
  <2> QED
    BY <1>2, <2>1, <2>3
<1> QED
  BY <1>3 DEF Ascending, t

\* One list after the other, each in order.
LEMMA AscendingConcat ==
    ASSUME NEW s \in Seq(Nat), NEW t \in Seq(Nat), Ascending(s), Ascending(t),
           \A i \in 1 .. Len(s), k \in 1 .. Len(t) : s[i] < t[k]
    PROVE  Ascending(s \o t)
<1>1. Len(s) \in Nat /\ Len(t) \in Nat
  BY LenProperties
<1>2. /\ Len(s \o t) = Len(s) + Len(t)
      /\ \A i \in 1 .. Len(s) + Len(t) : (s \o t)[i] =
                     IF i <= Len(s) THEN s[i] ELSE t[i - Len(s)]
  BY ConcatProperties
<1>3. SUFFICES ASSUME NEW a \in 1 .. Len(s) + Len(t),
                      NEW b \in 1 .. Len(s) + Len(t), a < b
               PROVE  (s \o t)[a] < (s \o t)[b]
  BY <1>2 DEF Ascending
<1>4. CASE b <= Len(s)
  BY <1>1, <1>2, <1>3, <1>4 DEF Ascending
<1>5. CASE a <= Len(s) /\ ~(b <= Len(s))
  <2>1. b - Len(s) \in 1 .. Len(t)
    BY <1>1, <1>5
  <2> QED
    BY <1>1, <1>2, <1>3, <1>5, <2>1
<1>6. CASE ~(a <= Len(s))
  <2>1. /\ a - Len(s) \in 1 .. Len(t)
        /\ b - Len(s) \in 1 .. Len(t)
        /\ a - Len(s) < b - Len(s)
        /\ ~(b <= Len(s))
    BY <1>1, <1>3, <1>6
  <2>2. t[a - Len(s)] < t[b - Len(s)]
    BY <2>1 DEF Ascending
  <2> QED
    BY <1>2, <1>6, <2>1, <2>2
<1> QED
  BY <1>1, <1>3, <1>4, <1>5, <1>6

\* Taking an entry out keeps the order.
LEMMA AscendingRemoveAt ==
    ASSUME NEW s \in Seq(Nat), NEW i \in 1 .. Len(s), Ascending(s)
    PROVE  Ascending(RemoveAt(s, i))
<1> DEFINE t == RemoveAt(s, i)
<1>1. Len(s) \in Nat /\ \A k \in 1 .. Len(s) : s[k] \in Nat
  BY ElementOfSeq, LenProperties
<1>2. /\ Len(t) = Len(s) - 1
      /\ \A k \in 1 .. Len(s) - 1 : t[k] = IF k < i THEN s[k] ELSE s[k + 1]
  BY RemoveAtProperties
<1> HIDE DEF t
<1>3. ASSUME NEW a \in 1 .. Len(t), NEW b \in 1 .. Len(t), a < b
      PROVE  t[a] < t[b]
  <2>1. /\ a \in 1 .. Len(s) /\ a + 1 \in 1 .. Len(s)
        /\ b \in 1 .. Len(s) /\ b + 1 \in 1 .. Len(s)
    BY <1>1, <1>2
  <2>2. s[a] < s[b] /\ s[a + 1] < s[b + 1] /\ s[a] < s[b + 1]
    BY <1>3, <2>1 DEF Ascending
  <2>3. /\ t[a] = IF a < i THEN s[a] ELSE s[a + 1]
        /\ t[b] = IF b < i THEN s[b] ELSE s[b + 1]
    BY <1>2
  <2>4. b < i => a < i
    BY <1>1, <1>3, <2>1
  <2> QED
    BY <2>2, <2>3, <2>4
<1> QED
  BY <1>3 DEF Ascending, t

-----------------------------------------------------------------------------
(* The inductive invariant.                                                *)

Created(j) == jobState[j] # NotCreated

\* The server counts its ids up.
IdsInOrder ==
    \A j, k \in Jobs : j < k /\ ~Created(j) => ~Created(k)

\* Everything the queue, its processes and the files name has been created.
OnlyCreated ==
    /\ \A i \in 1 .. Len(m_pendingJobQueue) : Created(m_pendingJobQueue[i])
    /\ \A i \in 1 .. Len(queueFile.jobsToResume) :
          Created(queueFile.jobsToResume[i])
    /\ \A j \in Jobs : savedState[j] # NotCreated => Valid(j)
    /\ \A r \in Running : Created(r)

IInv ==
    /\ TypeOK
    /\ FifoOrder
    /\ IdsInOrder
    /\ OnlyCreated
    /\ Ascending(queueFile.jobsToResume)

\* The pending queue as a sequence of numbers, which the order is about.
LEMMA QueueOfIds ==
    ASSUME TypeOK
    PROVE  /\ Jobs \subseteq Nat
           /\ m_pendingJobQueue \in Seq(Nat)
           /\ Len(m_pendingJobQueue) \in Nat
           /\ \A i \in 1 .. Len(m_pendingJobQueue) :
                 m_pendingJobQueue[i] \in Jobs
<1>1. m_pendingJobQueue \in Seq(Jobs) /\ Jobs \subseteq Nat
  BY LocalQueueAssumption DEF TypeOK
<1>2. \A i \in 1 .. Len(m_pendingJobQueue) : m_pendingJobQueue[i] \in Jobs
  BY <1>1, ElementOfSeq
<1>3. Len(m_pendingJobQueue) \in Nat
  BY <1>1, LenProperties
<1>4. m_pendingJobQueue \in Seq(Nat)
  BY <1>1, SeqMonotonic
<1> QED
  BY <1>1, <1>2, <1>3, <1>4

\* A state that differs from one with the invariant in no more than which
\* created jobs have a process, a state file and what state they are in.
LEMMA Settles ==
    ASSUME IInv, TypeOK',
           UNCHANGED <<m_pendingJobQueue, queueFile>>,
           Running' \subseteq Running,
           \A j \in Jobs : Created(j)' <=> Created(j),
           \A j \in Jobs : savedState'[j] # NotCreated => Valid(j)'
    PROVE  IInv'
<1>1. FifoOrder'
  <2>1. m_pendingJobQueue' = m_pendingJobQueue
    OBVIOUS
  <2>2. Ascending(m_pendingJobQueue)'
    BY <2>1 DEF IInv, FifoOrder, Ascending
  <2>3. \A r \in Running', i \in 1 .. Len(m_pendingJobQueue) :
           r < m_pendingJobQueue[i]
    BY DEF IInv, FifoOrder
  <2> QED
    BY <2>1, <2>2, <2>3 DEF FifoOrder
<1>2. IdsInOrder'
  BY DEF IInv, IdsInOrder
<1>3. OnlyCreated'
  <2>1. \A i \in 1 .. Len(m_pendingJobQueue) : m_pendingJobQueue[i] \in Jobs
    BY QueueOfIds DEF IInv
  <2>2. queueFile.jobsToResume \in Seq(Jobs)
    BY DEF IInv, TypeOK
  <2>3. \A i \in 1 .. Len(queueFile.jobsToResume) :
           queueFile.jobsToResume[i] \in Jobs
    BY <2>2, ElementOfSeq
  <2>4. \A r \in Running' : r \in Jobs /\ r \in Running
    BY DEF Running
  <2> QED
    BY <2>1, <2>3, <2>4 DEF IInv, OnlyCreated
<1>4. Ascending(queueFile.jobsToResume)'
  BY DEF IInv, Ascending
<1> QED
  BY <1>1, <1>2, <1>3, <1>4 DEF IInv

\* Setting the state of a job makes none and takes none away.
LEMMA SetStateKeeps ==
    ASSUME TypeOK, NEW j \in Jobs, NEW s \in JobState, SetState(j, s)
    PROVE  /\ jobState' \in [Jobs -> JobState \cup {NotCreated, Removed}]
           /\ \A k \in Jobs : Created(k)' <=> Created(k)
           /\ \A k \in Jobs : Valid(k)' <=> Valid(k)
           /\ \A k \in Jobs \ {j} : jobState'[k] = jobState[k]
           /\ Valid(j) => jobState'[j] = s
           /\ ~Valid(j) => jobState'[j] = jobState[j]
BY DEF TypeOK, SetState, Valid, Created, JobState, NotCreated, Removed

\* Taking a job from m_runningJobs ends its process and no other.
LEMMA TakenProperties ==
    ASSUME TypeOK, NEW j \in Jobs, m_runningJobs' = Taken(j)
    PROVE  /\ m_runningJobs' \in [Jobs -> ProcessState]
           /\ Running' = Running \ {j}
           /\ \A k \in Jobs \ {j} : m_runningJobs'[k] = m_runningJobs[k]
           /\ m_runningJobs'[j] = "none"
BY DEF TypeOK, Taken, Running, ProcessState

\* A queue without jobs has the invariant.
LEMMA InitIInv == ASSUME Init PROVE IInv
<1>1. TypeOK
  BY LocalQueueAssumption, EmptySeq
  DEF Init, TypeOK, CoreSetting, ProcessState, JobState
<1>2. /\ m_pendingJobQueue = <<>> /\ queueFile.jobsToResume = <<>>
      /\ Running = {}
      /\ \A j \in Jobs : ~Created(j) /\ savedState[j] = NotCreated
  BY DEF Init, Running, Created
<1> QED
  BY <1>1, <1>2, EmptySeq DEF IInv, FifoOrder, IdsInOrder, OnlyCreated, Ascending

-----------------------------------------------------------------------------
(* The actions.                                                            *)

\* submitJob appends the new id, which is above all others.
LEMMA SubmitStep ==
    ASSUME IInv, NEW j \in Jobs, SubmitJob(j)
    PROVE  IInv'
<1> DEFINE q == m_pendingJobQueue
<1>1. /\ Jobs \subseteq Nat /\ q \in Seq(Nat) /\ Len(q) \in Nat
      /\ \A i \in 1 .. Len(q) : q[i] \in Jobs
  BY QueueOfIds DEF IInv
<1>2. /\ ~Created(j)
      /\ \A k \in Jobs : k < j => Created(k)
      /\ savedState' = [k \in Jobs |-> IF k = j THEN "None"
                                       ELSE IF Valid(k) THEN jobState[k]
                                       ELSE savedState[k]]
      /\ UNCHANGED <<numberOfCores, m_runningJobs, userVars, queueFile>>
  BY DEF SubmitJob, NewJob, Created
<1>3. /\ \E s \in {"QueuedLocal", "Error"} :
            jobState' = [jobState EXCEPT ![j] = s]
      /\ q' = q \/ q' = Append(q, j)
  BY DEF SubmitJob
<1>4. \A k \in Jobs : Created(k)' <=> (Created(k) \/ k = j)
  BY <1>2, <1>3 DEF IInv, TypeOK, Created, NotCreated
<1>5. TypeOK'
  <2>1. q' \in Seq(Jobs)
    <3>1. q \in Seq(Jobs)
      BY DEF IInv, TypeOK
    <3>2. Append(q, j) \in Seq(Jobs)
      BY <3>1, AppendProperties
    <3> QED
      BY <1>3, <3>1, <3>2
  <2>2. savedState' \in [Jobs -> JobState \cup {NotCreated}]
    BY <1>2 DEF IInv, TypeOK, Valid, JobState
  <2>3. jobState' \in [Jobs -> JobState \cup {NotCreated, Removed}]
    BY <1>3 DEF IInv, TypeOK, JobState
  <2> QED
    BY <1>2, <2>1, <2>2, <2>3 DEF IInv, TypeOK, userVars
<1>6. Running' = Running
  BY <1>2 DEF Running
\* Ids are given in order, so the new one is above all that are known.
<1>7. \A k \in Jobs : Created(k) => k < j
  BY <1>1, <1>2 DEF IInv, IdsInOrder
<1>8. \A i \in 1 .. Len(q) : Created(q[i]) /\ q[i] < j
  BY <1>1, <1>7 DEF IInv, OnlyCreated
<1>9. /\ Ascending(q)'
      /\ \A i \in 1 .. Len(q)' : q'[i] = j \/ \E k \in 1 .. Len(q) : q'[i] = q[k]
  <2>1. CASE q' = q
    BY <2>1 DEF IInv, FifoOrder, Ascending
  <2>2. CASE q' = Append(q, j)
    <3>1. Ascending(Append(q, j))
      BY <1>1, <1>8, AscendingAppend DEF IInv, FifoOrder
    <3>2. /\ Len(Append(q, j)) = Len(q) + 1
          /\ \A i \in 1 .. Len(q) : Append(q, j)[i] = q[i]
          /\ Append(q, j)[Len(q) + 1] = j
      BY <1>1, AppendProperties
    <3>3. \A i \in 1 .. Len(q) + 1 : i \in 1 .. Len(q) \/ i = Len(q) + 1
      BY <1>1
    <3> QED
      BY <2>2, <3>1, <3>2, <3>3 DEF Ascending
  <2> QED
    BY <1>3, <2>1, <2>2
<1>10. FifoOrder'
  <2>1. \A r \in Running : r < j /\ \A k \in 1 .. Len(q) : r < q[k]
    BY <1>7 DEF IInv, FifoOrder, OnlyCreated, Running
  <2> QED
    BY <1>6, <1>9, <2>1 DEF FifoOrder
<1>11. IdsInOrder'
  BY <1>1, <1>2, <1>4 DEF IInv, IdsInOrder
<1>12. OnlyCreated'
  <2>1. \A i \in 1 .. Len(q)' : Created(q[i])'
    BY <1>1, <1>4, <1>8, <1>9
  <2>2. /\ queueFile' = queueFile
        /\ queueFile.jobsToResume \in Seq(Jobs)
    BY <1>2 DEF IInv, TypeOK
  <2>3. \A i \in 1 .. Len(queueFile.jobsToResume) :
           /\ queueFile.jobsToResume[i] \in Jobs
           /\ Created(queueFile.jobsToResume[i])
    BY <2>2, ElementOfSeq DEF IInv, OnlyCreated
  <2>4. \A k \in Jobs : savedState'[k] # NotCreated => Valid(k)'
    BY <1>2, <1>3
    DEF IInv, TypeOK, OnlyCreated, Valid, Created, NotCreated, Removed
  <2>5. \A r \in Running : r \in Jobs /\ Created(r)
    BY DEF IInv, OnlyCreated, Running
  <2> QED
    BY <1>4, <1>6, <2>1, <2>2, <2>3, <2>4, <2>5 DEF OnlyCreated
<1>13. Ascending(queueFile.jobsToResume)'
  BY <1>2 DEF IInv, Ascending
<1> QED
  BY <1>5, <1>10, <1>11, <1>12, <1>13 DEF IInv

\* checkJobQueue takes a front part of the queue: what is left stays in order.
LEMMA CheckStep ==
    ASSUME IInv, CheckJobQueue
    PROVE  IInv'
<1> DEFINE q == m_pendingJobQueue
<1>1. /\ Jobs \subseteq Nat /\ q \in Seq(Nat) /\ Len(q) \in Nat
      /\ \A i \in 1 .. Len(q) : q[i] \in Jobs
  BY QueueOfIds DEF IInv
<1>2. PICK n \in 1 .. Len(q) :
        /\ q' = Rest(n)
        /\ m_runningJobs' =
             [j \in Jobs |->
                IF \E i \in 1 .. n : q[i] = j /\ Starts(i)
                THEN "starting" ELSE m_runningJobs[j]]
  BY DEF CheckJobQueue
<1>3. UNCHANGED <<jobVars, userVars, fileVars>>
  BY DEF CheckJobQueue
<1>4. n \in 0 .. Len(q) /\ n \in Nat
  BY <1>1
<1>5. /\ q' \in Seq(Jobs)
      /\ Len(q') = Len(q) - n
      /\ \A i \in 1 .. Len(q) - n : q'[i] = q[n + i]
      /\ \A i \in 1 .. Len(q) - n : n + i \in 1 .. Len(q)
  <2>1. q \in Seq(Jobs)
    BY DEF IInv, TypeOK
  <2> QED
    BY <1>1, <1>2, <1>4, <2>1, RestProperties DEF Rest
<1>6. TypeOK'
  BY <1>2, <1>3, <1>5
  DEF IInv, TypeOK, jobVars, userVars, fileVars, ProcessState
<1>7. Ascending(q)'
  <2>1. Ascending(Rest(n))
    BY <1>1, <1>4, AscendingRest DEF IInv, FifoOrder, Rest
  <2> QED
    BY <1>2, <2>1 DEF Ascending
\* A process runs a job that ran before or one of the entries taken.
<1>8. \A r \in Running' : r \in Running \/ \E i \in 1 .. n : r = q[i]
  BY <1>2 DEF Running
<1>9. FifoOrder'
  <2>1. ASSUME NEW r \in Running', NEW i \in 1 .. Len(q')
        PROVE  r < q'[i]
    <3>1. n + i \in 1 .. Len(q) /\ q'[i] = q[n + i]
      BY <1>5
    <3>2. CASE r \in Running
      BY <3>1, <3>2 DEF IInv, FifoOrder
    <3>3. CASE \E k \in 1 .. n : r = q[k]
      <4>1. PICK k \in 1 .. n : r = q[k]
        BY <3>3
      <4>2. k \in 1 .. Len(q) /\ k < n + i
        BY <1>1, <1>5, <2>1
      <4> QED
        BY <3>1, <4>1, <4>2 DEF IInv, FifoOrder, Ascending
    <3> QED
      BY <1>8, <3>2, <3>3
  <2> QED
    BY <1>7, <2>1 DEF FifoOrder
<1>10. \A j \in Jobs : Created(j)' <=> Created(j)
  BY <1>3 DEF Created, jobVars
<1>11. OnlyCreated'
  <2>1. \A i \in 1 .. Len(q') : q'[i] \in Jobs /\ Created(q'[i])
    BY <1>1, <1>5 DEF IInv, OnlyCreated
  <2>2. queueFile' = queueFile /\ queueFile.jobsToResume \in Seq(Jobs)
    BY <1>3 DEF IInv, TypeOK, fileVars
  <2>3. \A i \in 1 .. Len(queueFile.jobsToResume) :
           /\ queueFile.jobsToResume[i] \in Jobs
           /\ Created(queueFile.jobsToResume[i])
    BY <2>2, ElementOfSeq DEF IInv, OnlyCreated
  <2>4. \A j \in Jobs : savedState'[j] # NotCreated => Valid(j)'
    BY <1>3 DEF IInv, OnlyCreated, Valid, jobVars, fileVars
  <2>5. \A r \in Running' : r \in Jobs /\ Created(r)
    <3>1. \A i \in 1 .. n : i \in 1 .. Len(q)
      BY <1>1, <1>4
    <3>2. /\ \A i \in 1 .. Len(q) : q[i] \in Jobs /\ Created(q[i])
          /\ \A r \in Running : r \in Jobs /\ Created(r)
      BY <1>1 DEF IInv, OnlyCreated, Running
    <3> HIDE DEF q
    <3> QED
      BY <1>8, <3>1, <3>2
  <2> QED
    BY <1>10, <2>1, <2>2, <2>3, <2>4, <2>5 DEF OnlyCreated
<1>12. IdsInOrder' /\ Ascending(queueFile.jobsToResume)'
  BY <1>3, <1>10 DEF IInv, IdsInOrder, Ascending, fileVars
<1> QED
  BY <1>6, <1>9, <1>11, <1>12 DEF IInv

\* The started signal changes a state only.
LEMMA ProcessStartedStep ==
    ASSUME IInv, NEW j \in Jobs, ProcessStarted(j)
    PROVE  IInv'
<1>1. /\ TypeOK /\ SetState(j, "RunningLocal")
      /\ m_runningJobs[j] = "starting"
      /\ m_runningJobs' = [m_runningJobs EXCEPT ![j] = "running"]
      /\ UNCHANGED <<numberOfCores, m_pendingJobQueue, userVars, fileVars>>
  BY DEF IInv, ProcessStarted
<1>2. /\ jobState' \in [Jobs -> JobState \cup {NotCreated, Removed}]
      /\ \A k \in Jobs : Created(k)' <=> Created(k)
      /\ \A k \in Jobs : Valid(k)' <=> Valid(k)
  BY <1>1, SetStateKeeps DEF JobState
<1>3. TypeOK'
  BY <1>1, <1>2 DEF TypeOK, ProcessState, userVars, fileVars
<1>4. Running' \subseteq Running
  BY <1>1 DEF TypeOK, Running
<1>5. \A k \in Jobs : savedState'[k] # NotCreated => Valid(k)'
  BY <1>1, <1>2 DEF IInv, OnlyCreated, fileVars
<1> QED
  BY <1>1, <1>2, <1>3, <1>4, <1>5, Settles DEF fileVars

\* What the ends of a process have in common.
LEMMA TakenStep ==
    ASSUME IInv, NEW j \in Jobs, NEW s \in JobState, SetState(j, s),
           m_runningJobs' = Taken(j),
           savedState' \in [Jobs -> JobState \cup {NotCreated}],
           \A k \in Jobs : savedState'[k] # NotCreated =>
                              savedState[k] # NotCreated,
           UNCHANGED <<numberOfCores, m_pendingJobQueue, userVars, queueFile>>
    PROVE  IInv'
<1>1. TypeOK
  BY DEF IInv
<1>2. /\ jobState' \in [Jobs -> JobState \cup {NotCreated, Removed}]
      /\ \A k \in Jobs : Created(k)' <=> Created(k)
      /\ \A k \in Jobs : Valid(k)' <=> Valid(k)
  BY <1>1, SetStateKeeps
<1>3. m_runningJobs' \in [Jobs -> ProcessState] /\ Running' \subseteq Running
  BY <1>1, TakenProperties
<1>4. TypeOK'
  BY <1>1, <1>2, <1>3 DEF TypeOK, userVars
<1>5. \A k \in Jobs : savedState'[k] # NotCreated => Valid(k)'
  BY <1>2 DEF IInv, OnlyCreated
<1> QED
  BY <1>2, <1>3, <1>4, <1>5, Settles

\* The finished signal ends a process.
LEMMA ProcessFinishedStep ==
    ASSUME IInv, NEW j \in Jobs, ProcessFinished(j)
    PROVE  IInv'
<1>1. PICK s \in {"Error", "Finished"} : SetState(j, s)
  BY DEF ProcessFinished
<1>2. savedState' = savedState \/ savedState' = Cleaned(j)
  BY DEF ProcessFinished
<1>3. /\ savedState' \in [Jobs -> JobState \cup {NotCreated}]
      /\ \A k \in Jobs : savedState'[k] # NotCreated =>
                            savedState[k] # NotCreated
  BY <1>2 DEF IInv, TypeOK, Cleaned
<1>4. /\ m_runningJobs' = Taken(j) /\ s \in JobState
      /\ UNCHANGED <<numberOfCores, m_pendingJobQueue, userVars, queueFile>>
  BY DEF ProcessFinished, JobState
<1> QED
  BY <1>1, <1>3, <1>4, TakenStep

\* So does the error signal.
LEMMA ProcessErrorStep ==
    ASSUME IInv, NEW j \in Jobs, ProcessError(j)
    PROVE  IInv'
<1>1. /\ SetState(j, "Error") /\ "Error" \in JobState
      /\ m_runningJobs' = Taken(j)
      /\ UNCHANGED <<numberOfCores, m_pendingJobQueue, userVars, fileVars>>
  BY DEF ProcessError, JobState
<1>2. /\ savedState' = savedState
      /\ savedState \in [Jobs -> JobState \cup {NotCreated}]
      /\ UNCHANGED <<numberOfCores, m_pendingJobQueue, userVars, queueFile>>
  BY <1>1 DEF IInv, TypeOK, fileVars
<1> QED
  BY <1>1, <1>2, TakenStep

\* Removing a job from the pending queue, which holds it once.
LEMMA PendingWithoutProperties ==
    ASSUME IInv, NEW j \in Jobs, PendingWithout(j)
    PROVE  /\ m_pendingJobQueue' \in Seq(Jobs)
           /\ Ascending(m_pendingJobQueue')
           /\ \A i \in 1 .. Len(m_pendingJobQueue') :
                 m_pendingJobQueue'[i] # j
                 /\ \E k \in 1 .. Len(m_pendingJobQueue) :
                       m_pendingJobQueue'[i] = m_pendingJobQueue[k]
           /\ \A k \in 1 .. Len(m_pendingJobQueue) :
                 m_pendingJobQueue[k] # j =>
                   \E i \in 1 .. Len(m_pendingJobQueue') :
                      m_pendingJobQueue'[i] = m_pendingJobQueue[k]
<1> DEFINE q == m_pendingJobQueue
<1>1. /\ Jobs \subseteq Nat /\ q \in Seq(Nat) /\ Len(q) \in Nat
      /\ \A i \in 1 .. Len(q) : q[i] \in Jobs
  BY QueueOfIds DEF IInv
<1>2. PICK n \in 1 .. Len(q) : q[n] = j /\ q' = RemoveAt(q, n)
  BY DEF PendingWithout
<1>3. q \in Seq(Jobs)
  BY DEF IInv, TypeOK
<1>4. /\ q' \in Seq(Jobs)
      /\ Len(q') = Len(q) - 1
      /\ \A i \in 1 .. Len(q) - 1 :
           q'[i] = IF i < n THEN q[i] ELSE q[i + 1]
  BY <1>2, <1>3, RemoveAtProperties
<1>5. Ascending(q')
  BY <1>1, <1>2, AscendingRemoveAt DEF IInv, FifoOrder
<1>6. ASSUME NEW i \in 1 .. Len(q')
      PROVE  q'[i] # j /\ \E k \in 1 .. Len(q) : q'[i] = q[k]
  <2>1. /\ i \in 1 .. Len(q) /\ i + 1 \in 1 .. Len(q)
        /\ n \in 1 .. Len(q) /\ i \in Nat /\ n \in Nat
    BY <1>1, <1>4
  <2>2. \A a, b \in 1 .. Len(q) : a < b => q[a] < q[b]
    BY DEF IInv, FifoOrder, Ascending
  <2>3. i \in 1 .. Len(q) - 1 /\ \A a \in 1 .. Len(q) : q[a] \in Nat
    BY <1>1, <1>4
  <2>4. CASE i < n
    <3>1. q'[i] = q[i]
      BY <1>4, <2>3, <2>4
    <3>2. q[i] < q[n] /\ q[i] \in Nat /\ q[n] \in Nat
      BY <2>1, <2>2, <2>3, <2>4
    <3> HIDE DEF q
    <3> QED
      BY <1>2, <2>1, <3>1, <3>2
  <2>5. CASE ~(i < n)
    <3>1. q'[i] = q[i + 1]
      BY <1>4, <2>3, <2>5
    <3>2. n < i + 1
      BY <2>1, <2>5
    <3>3. q[n] < q[i + 1] /\ q[n] \in Nat /\ q[i + 1] \in Nat
      BY <2>1, <2>2, <2>3, <3>2
    <3> HIDE DEF q
    <3> QED
      BY <1>2, <2>1, <3>1, <3>3
  <2> QED
    BY <2>4, <2>5
<1>7. ASSUME NEW k \in 1 .. Len(q), q[k] # j
      PROVE  \E i \in 1 .. Len(q') : q'[i] = q[k]
  <2>1. k # n /\ k \in Nat /\ n \in Nat
    BY <1>1, <1>2, <1>7
  <2>2. CASE k < n
    <3>1. k \in 1 .. Len(q')
      BY <1>1, <1>4, <2>2
    <3> QED
      BY <1>4, <2>2, <3>1
  <2>3. CASE n < k
    <3>1. k - 1 \in 1 .. Len(q') /\ ~(k - 1 < n) /\ k - 1 + 1 = k
      BY <1>1, <1>4, <2>1, <2>3
    <3> QED
      BY <1>4, <3>1
  <2> QED
    BY <2>1, <2>2, <2>3
<1> QED
  BY <1>4, <1>5, <1>6, <1>7

\* KillJob with whatever becomes of the dialog.
LEMMA KillStep ==
    ASSUME IInv, NEW j \in Jobs, KillJob(j), dialog' \in Jobs \cup {NoJob}
    PROVE  IInv'
<1> DEFINE q == m_pendingJobQueue
<1>1. /\ TypeOK /\ SetState(j, "Canceled") /\ "Canceled" \in JobState
      /\ UNCHANGED <<numberOfCores, m_cores, hasProgram, savedState, queueFile>>
  BY DEF IInv, KillJob, JobState, fileVars
<1>2. /\ jobState' \in [Jobs -> JobState \cup {NotCreated, Removed}]
      /\ \A k \in Jobs : Created(k)' <=> Created(k)
      /\ \A k \in Jobs : Valid(k)' <=> Valid(k)
  BY <1>1, SetStateKeeps
<1>3. \A k \in Jobs : savedState'[k] # NotCreated => Valid(k)'
  BY <1>1, <1>2 DEF IInv, OnlyCreated
<1>4. CASE IsPending(j)
  <2>1. PendingWithout(j) /\ m_runningJobs' = m_runningJobs
    BY <1>4 DEF KillJob
  <2>2. /\ q' \in Seq(Jobs) /\ Ascending(q')
        /\ \A i \in 1 .. Len(q') : \E k \in 1 .. Len(q) : q'[i] = q[k]
    BY <2>1, PendingWithoutProperties
  <2>3. TypeOK'
    BY <1>1, <1>2, <2>1, <2>2 DEF TypeOK
  <2>4. Running' = Running
    BY <2>1 DEF Running
  <2>5. FifoOrder'
    BY <2>2, <2>4 DEF IInv, FifoOrder
  <2>6. \A i \in 1 .. Len(q) : q[i] \in Jobs /\ Created(q[i])
    BY <1>1, QueueOfIds DEF IInv, OnlyCreated
  <2>7. \A i \in 1 .. Len(queueFile.jobsToResume) :
           /\ queueFile.jobsToResume[i] \in Jobs
           /\ Created(queueFile.jobsToResume[i])
    <3>1. queueFile.jobsToResume \in Seq(Jobs)
      BY <1>1 DEF TypeOK
    <3> QED
      BY <3>1, ElementOfSeq DEF IInv, OnlyCreated
  <2>8. \A r \in Running : r \in Jobs /\ Created(r)
    BY DEF IInv, OnlyCreated, Running
  <2>9. OnlyCreated'
    BY <1>1, <1>2, <1>3, <2>2, <2>4, <2>6, <2>7, <2>8 DEF OnlyCreated
  <2>10. IdsInOrder' /\ Ascending(queueFile.jobsToResume)'
    BY <1>1, <1>2 DEF IInv, IdsInOrder, Ascending
  <2> QED
    BY <2>3, <2>5, <2>9, <2>10 DEF IInv
<1>5. CASE ~IsPending(j)
  <2>1. m_runningJobs' = Taken(j) /\ q' = q
    BY <1>5 DEF KillJob
  <2>2. m_runningJobs' \in [Jobs -> ProcessState] /\ Running' \subseteq Running
    BY <1>1, <2>1, TakenProperties
  <2>3. TypeOK'
    BY <1>1, <1>2, <2>1, <2>2 DEF TypeOK
  <2> QED
    BY <1>1, <1>2, <1>3, <2>1, <2>2, <2>3, Settles
<1> QED
  BY <1>4, <1>5

\* The cancelJob request.
LEMMA CancelStep ==
    ASSUME IInv, NEW j \in Jobs, CancelJob(j)
    PROVE  IInv'
BY KillStep DEF CancelJob, IInv, TypeOK

\* The cancel dialog, opened or answered.
LEMMA DialogStep ==
    ASSUME IInv, (\E j \in Jobs : OpenKillDialog(j)) \/ AnswerKillDialog
    PROVE  IInv'
<1>1. dialog' \in Jobs \cup {NoJob}
  BY DEF OpenKillDialog, AnswerKillDialog
<1>2. CASE UNCHANGED <<jobVars, queueVars, m_cores, hasProgram, fileVars>>
  <2>1. TypeOK'
    BY <1>1, <1>2 DEF IInv, TypeOK, jobVars, queueVars, fileVars
  <2>2. /\ Running' = Running
        /\ UNCHANGED <<m_pendingJobQueue, queueFile>>
        /\ \A j \in Jobs : Created(j)' <=> Created(j)
        /\ \A j \in Jobs : savedState'[j] # NotCreated => Valid(j)'
    BY <1>2 DEF Running, Created, Valid, IInv, OnlyCreated,
                jobVars, queueVars, fileVars
  <2> QED
    BY <2>1, <2>2, Settles
<1>3. CASE dialog \in Jobs /\ KillJob(dialog)
  BY <1>1, <1>3, KillStep
<1> QED
  BY <1>2, <1>3 DEF OpenKillDialog, AnswerKillDialog, IInv, TypeOK

\* removeJob leaves the queue alone.
LEMMA RemoveStep ==
    ASSUME IInv, NEW j \in Jobs, RemoveJob(j)
    PROVE  IInv'
<1>1. /\ Valid(j)
      /\ jobState' = [jobState EXCEPT ![j] = Removed]
      /\ savedState' = [savedState EXCEPT ![j] = NotCreated]
      /\ UNCHANGED <<numberOfCores, queueVars, userVars, queueFile>>
  BY DEF RemoveJob
<1>2. TypeOK'
  BY <1>1 DEF IInv, TypeOK, queueVars, userVars
<1>3. /\ Running' = Running
      /\ UNCHANGED <<m_pendingJobQueue, queueFile>>
      /\ \A k \in Jobs : Created(k)' <=> Created(k)
      /\ \A k \in Jobs : savedState'[k] # NotCreated => Valid(k)'
  BY <1>1 DEF Running, Created, Valid, NotCreated, Removed, IInv, TypeOK,
              OnlyCreated, queueVars
<1> QED
  BY <1>2, <1>3, Settles

\* syncJobState writes the state of every job there is.
LEMMA SyncedState ==
    ASSUME IInv, SyncJobState
    PROVE  /\ savedState' \in [Jobs -> JobState \cup {NotCreated}]
           /\ \A j \in Jobs : savedState'[j] # NotCreated => Valid(j)
           /\ \A j \in Jobs : Valid(j) => savedState'[j] = jobState[j]
BY DEF IInv, TypeOK, OnlyCreated, SyncJobState, Valid, Created

\* New cores, or the 20 s timer.
LEMMA SettingsStep ==
    ASSUME IInv, SetCores \/ SyncTimer
    PROVE  IInv'
<1>1. /\ savedState' \in [Jobs -> JobState \cup {NotCreated}]
      /\ \A j \in Jobs : savedState'[j] # NotCreated => Valid(j)
  BY SyncedState
  DEF SetCores, SyncTimer, IInv, TypeOK, OnlyCreated, fileVars
<1>2. m_cores' \in CoreSetting
  BY DEF SetCores, SyncTimer, IInv, TypeOK, CoreSetting, userVars
<1>3. UNCHANGED <<jobVars, queueVars, hasProgram, dialog, queueFile>>
  BY DEF SetCores, SyncTimer, userVars, fileVars
<1>4. TypeOK'
  BY <1>1, <1>2, <1>3 DEF IInv, TypeOK, jobVars, queueVars
<1>5. /\ Running' = Running
      /\ UNCHANGED <<m_pendingJobQueue, queueFile>>
      /\ \A j \in Jobs : Created(j)' <=> Created(j)
      /\ \A j \in Jobs : savedState'[j] # NotCreated => Valid(j)'
  BY <1>1, <1>3 DEF Running, Created, Valid, jobVars, queueVars
<1> QED
  BY <1>1, <1>4, <1>5, Settles

-----------------------------------------------------------------------------
(* Files.                                                                  *)

\* The list QMap::keys gives of a set of jobs.
LEMMA KeysProperties ==
    ASSUME NEW S \in SUBSET Jobs, NEW keys \in Keys(S)
    PROVE  /\ keys \in Seq(Jobs) /\ keys \in Seq(Nat)
           /\ Len(keys) = Cardinality(S)
           /\ Ascending(keys)
           /\ \A i \in 1 .. Len(keys) : keys[i] \in S
<1>1. IsFiniteSet(S) /\ Jobs \subseteq Nat
  BY LocalQueueAssumption, FS_Subset
<1>2. Cardinality(S) \in Nat
  BY <1>1, FS_CardinalityType
<1>3. /\ keys \in [1 .. Cardinality(S) -> S]
      /\ \A a, b \in DOMAIN keys : a < b => keys[a] < keys[b]
  BY DEF Keys
<1>4. keys \in Seq(S)
  BY <1>2, <1>3, SeqDef
<1>5. Len(keys) = Cardinality(S) /\ DOMAIN keys = 1 .. Len(keys)
  BY <1>2, <1>3
<1>6. keys \in Seq(Jobs)
  BY <1>4, SeqMonotonic
<1>7. keys \in Seq(Nat)
  BY <1>1, <1>6, SeqMonotonic
<1>8. Ascending(keys)
  BY <1>3, <1>5 DEF Ascending
<1> QED
  BY <1>3, <1>5, <1>6, <1>7, <1>8

\* What the queue writes to its file.
LEMMA WrittenFile ==
    ASSUME IInv, NEW programs \in BOOLEAN, WriteQueueFile(programs)
    PROVE  /\ queueFile' \in [jobsToResume : Seq(Jobs), cores : CoreSetting,
                              programs : BOOLEAN]
           /\ queueFile'.programs = programs
           /\ Ascending(queueFile'.jobsToResume)
           /\ \A i \in 1 .. Len(queueFile'.jobsToResume) :
                 /\ queueFile'.jobsToResume[i] \in Jobs
                 /\ Created(queueFile'.jobsToResume[i])
                 /\ Held(queueFile'.jobsToResume[i])
<1> DEFINE q == m_pendingJobQueue
<1>1. PICK keys \in Keys(Running) :
        queueFile' = [jobsToResume |-> JobsToResume(keys),
                      cores |-> m_cores, programs |-> programs]
  BY DEF WriteQueueFile
<1>2. Running \in SUBSET Jobs
  BY DEF Running
<1>3. /\ keys \in Seq(Jobs) /\ keys \in Seq(Nat) /\ Ascending(keys)
      /\ \A i \in 1 .. Len(keys) : keys[i] \in Running
  BY <1>2, KeysProperties
<1>4. /\ q \in Seq(Jobs) /\ q \in Seq(Nat) /\ Ascending(q)
      /\ \A i \in 1 .. Len(q) : q[i] \in Jobs
  BY QueueOfIds DEF IInv, TypeOK, FifoOrder
<1>5. \A i \in 1 .. Len(keys), k \in 1 .. Len(q) : keys[i] < q[k]
  BY <1>3 DEF IInv, FifoOrder
<1>6. Ascending(keys \o q)
  BY <1>3, <1>4, <1>5, AscendingConcat
<1>7. /\ keys \o q \in Seq(Jobs)
      /\ Len(keys \o q) = Len(keys) + Len(q)
      /\ \A i \in 1 .. Len(keys) + Len(q) : (keys \o q)[i] =
            IF i <= Len(keys) THEN keys[i] ELSE q[i - Len(keys)]
  BY <1>3, <1>4, ConcatProperties
<1>8. Len(keys) \in Nat /\ Len(q) \in Nat
  BY <1>3, <1>4, LenProperties
<1>9. ASSUME NEW i \in 1 .. Len(keys \o q)
      PROVE  /\ (keys \o q)[i] \in Jobs
             /\ Created((keys \o q)[i])
             /\ Held((keys \o q)[i])
  <2>1. CASE i <= Len(keys)
    <3>1. (keys \o q)[i] = keys[i] /\ keys[i] \in Running
      BY <1>3, <1>7, <1>8, <2>1
    <3> QED
      BY <1>2, <3>1 DEF IInv, OnlyCreated, Held, Running
  <2>2. CASE ~(i <= Len(keys))
    <3>1. i - Len(keys) \in 1 .. Len(q)
      BY <1>7, <1>8, <2>2
    <3>2. (keys \o q)[i] = q[i - Len(keys)]
      BY <1>7, <2>2
    <3> QED
      BY <1>4, <3>1, <3>2 DEF IInv, OnlyCreated, Held, IsPending
  <2> QED
    BY <2>1, <2>2
<1>10. queueFile'.jobsToResume = keys \o q
  BY <1>1 DEF JobsToResume
<1>11. queueFile' \in [jobsToResume : Seq(Jobs), cores : CoreSetting,
                       programs : BOOLEAN]
  BY <1>1, <1>7 DEF JobsToResume, IInv, TypeOK
<1> QED
  BY <1>1, <1>6, <1>9, <1>10, <1>11

\* What the program reads when it starts.
LEMMA LoadProperties ==
    ASSUME IInv, Load(savedState', queueFile'),
           savedState' \in [Jobs -> JobState \cup {NotCreated}],
           \A j \in Jobs : savedState'[j] # NotCreated => Valid(j),
           queueFile' \in [jobsToResume : Seq(Jobs), cores : CoreSetting,
                           programs : BOOLEAN],
           Ascending(queueFile'.jobsToResume),
           \A i \in 1 .. Len(queueFile'.jobsToResume) :
               /\ queueFile'.jobsToResume[i] \in Jobs
               /\ Created(queueFile'.jobsToResume[i])
    PROVE  IInv'
<1>1. /\ m_pendingJobQueue' = queueFile'.jobsToResume
      /\ m_cores' = CoresRead(queueFile') /\ hasProgram' = queueFile'.programs
      /\ m_runningJobs' = [j \in Jobs |-> "none"]
      /\ dialog' = NoJob /\ numberOfCores' = numberOfCores
      /\ jobState' = [j \in Jobs |->
                        IF savedState'[j] # NotCreated THEN savedState'[j]
                        ELSE IF jobState[j] = NotCreated
                        THEN NotCreated ELSE Removed]
  BY DEF Load
<1>2. \A j \in Jobs : Created(j)' <=> Created(j)
  BY <1>1 DEF Created, Valid, NotCreated, Removed
<1>3. TypeOK'
  BY <1>1 DEF IInv, TypeOK, ProcessState, CoresRead
<1>4. Running' = {}
  BY <1>1 DEF Running
<1>5. FifoOrder' /\ Ascending(queueFile.jobsToResume)'
  BY <1>1, <1>4 DEF FifoOrder, Ascending
<1>6. OnlyCreated'
  <2>1. \A j \in Jobs : savedState'[j] # NotCreated => Valid(j)'
    BY <1>1 DEF Valid, JobState, NotCreated, Removed
  <2> QED
    BY <1>1, <1>2, <1>4, <2>1 DEF OnlyCreated
<1>7. IdsInOrder'
  BY <1>2 DEF IInv, IdsInOrder
<1> QED
  BY <1>3, <1>5, <1>6, <1>7 DEF IInv

\* A clean exit and the next start.
LEMMA ExitStep ==
    ASSUME IInv, ExitAndRestart
    PROVE  IInv'
<1>1. /\ SyncJobState /\ WriteQueueFile(hasProgram)
      /\ Load(savedState', queueFile') /\ hasProgram \in BOOLEAN
  BY DEF ExitAndRestart, IInv, TypeOK
<1> QED
  BY <1>1, SyncedState, WrittenFile, LoadProperties

\* A crash and the next start.
LEMMA CrashStep ==
    ASSUME IInv, CrashAndRestart
    PROVE  IInv'
<1>1. savedState' = savedState /\ queueFile' = queueFile
  BY DEF CrashAndRestart, fileVars
<1>2. Load(savedState', queueFile')
  BY <1>1 DEF CrashAndRestart
<1>3. /\ savedState \in [Jobs -> JobState \cup {NotCreated}]
      /\ \A j \in Jobs : savedState[j] # NotCreated => Valid(j)
      /\ queueFile \in [jobsToResume : Seq(Jobs), cores : CoreSetting,
                        programs : BOOLEAN]
      /\ queueFile.jobsToResume \in Seq(Jobs)
      /\ Ascending(queueFile.jobsToResume)
  BY DEF IInv, TypeOK, OnlyCreated
<1>4. \A i \in 1 .. Len(queueFile.jobsToResume) :
         /\ queueFile.jobsToResume[i] \in Jobs
         /\ Created(queueFile.jobsToResume[i])
  BY <1>3, ElementOfSeq DEF IInv, OnlyCreated
<1> QED
  BY <1>1, <1>2, <1>3, <1>4, LoadProperties

\* The program the jobs name is changed.
LEMMA ProgramStep ==
    ASSUME IInv, ChangeProgram
    PROVE  IInv'
<1>1. /\ hasProgram' = ~hasProgram /\ hasProgram' \in BOOLEAN
      /\ UNCHANGED <<jobVars, queueVars, m_cores, dialog, savedState>>
  BY DEF ChangeProgram, IInv, TypeOK
<1>2. CASE UNCHANGED queueFile
  <2>1. TypeOK'
    BY <1>1, <1>2 DEF IInv, TypeOK, jobVars, queueVars
  <2>2. /\ Running' = Running
        /\ m_pendingJobQueue' = m_pendingJobQueue
        /\ \A j \in Jobs : Created(j)' <=> Created(j)
        /\ \A j \in Jobs : savedState'[j] # NotCreated => Valid(j)'
    BY <1>1 DEF Running, Created, Valid, IInv, OnlyCreated, jobVars, queueVars
  <2> QED
    BY <1>2, <2>1, <2>2, Settles
<1>3. CASE WriteQueueFile(~hasProgram)
  <2>1. /\ queueFile' \in [jobsToResume : Seq(Jobs), cores : CoreSetting,
                           programs : BOOLEAN]
        /\ Ascending(queueFile'.jobsToResume)
        /\ \A i \in 1 .. Len(queueFile'.jobsToResume) :
              Created(queueFile'.jobsToResume[i])
    BY <1>3, WrittenFile
  <2>2. TypeOK'
    BY <1>1, <2>1 DEF IInv, TypeOK, jobVars, queueVars
  <2>3. FifoOrder' /\ IdsInOrder'
    BY <1>1 DEF IInv, FifoOrder, IdsInOrder, Ascending, Running, Created,
                jobVars, queueVars
  <2>4. OnlyCreated' /\ Ascending(queueFile.jobsToResume)'
    BY <1>1, <2>1 DEF IInv, OnlyCreated, Created, Valid, Running, Ascending,
                      jobVars, queueVars
  <2> QED
    BY <2>2, <2>3, <2>4 DEF IInv
<1> QED
  BY <1>1, <1>2, <1>3 DEF ChangeProgram

\* A step of something else.
LEMMA StutterStep == ASSUME IInv, UNCHANGED vars PROVE IInv'
BY DEF IInv, TypeOK, FifoOrder, IdsInOrder, OnlyCreated, Ascending, Running,
       Created, Valid, vars, jobVars, queueVars, userVars, fileVars

\* The queue's order, the files and the processes stay consistent under every
\* action, whatever events are admitted.
THEOREM Inductive == Spec => []IInv
<1>1. Init => IInv
  BY InitIInv
<1>2. IInv /\ [Next]_vars => IInv'
  BY SubmitStep, ProcessStartedStep, ProcessFinishedStep, ProcessErrorStep,
     CancelStep, DialogStep, RemoveStep, CheckStep, SettingsStep, ProgramStep,
     ExitStep, CrashStep, StutterStep
  DEF Next
<1> QED
  BY <1>1, <1>2, PTL DEF Spec

\* Every variable keeps its type, the files included.
THEOREM TypeCorrect == Spec => []TypeOK
<1>1. IInv => TypeOK
  BY DEF IInv
<1> QED
  BY <1>1, Inductive, PTL

\* Jobs are started in the order of their submission, across restarts and
\* crashes, for any number of jobs and cores.
THEOREM FifoSafe == Spec => []FifoOrder
<1>1. IInv => FifoOrder
  BY DEF IInv
<1> QED
  BY <1>1, Inductive, PTL

-----------------------------------------------------------------------------
(* Jobs that are over.                                                     *)

Ended  == {"Finished", "Canceled", "Error"}
Active == {"QueuedLocal", "RunningLocal"}

\* A job waits, or has a process, or neither.
LEMMA WaitsOrRuns ==
    ASSUME IInv, NEW j \in Jobs, IsPending(j)
    PROVE  /\ m_runningJobs[j] = "none"
           /\ Created(j)
<1>1. PICK i \in 1 .. Len(m_pendingJobQueue) : m_pendingJobQueue[i] = j
  BY DEF IsPending
<1>2. j \in Nat
  BY LocalQueueAssumption
<1>3. j \notin Running
  BY <1>1, <1>2 DEF IInv, FifoOrder
<1> QED
  BY <1>1, <1>3 DEF IInv, OnlyCreated, Running

\* A step concerns one job alone, which it leaves held if it is shown as
\* active and let go if it is shown as over.
Concerns(j) ==
    /\ \A k \in Jobs \ {j} :
          jobState'[k] = jobState[k] /\ (Held(k)' <=> Held(k))
    /\ jobState'[j] \in Ended => ~Held(j)'
    /\ jobState'[j] \in Active => Held(j)'

\* A submission concerns the new job.
LEMMA SubmitConcerns ==
    ASSUME IInv, NEW j \in Jobs, SubmitJob(j)
    PROVE  Concerns(j)
<1> DEFINE q == m_pendingJobQueue
<1>1. /\ ~Created(j) /\ m_runningJobs' = m_runningJobs
      /\ q \in Seq(Jobs)
      /\ jobState \in [Jobs -> JobState \cup {NotCreated, Removed}]
  BY DEF SubmitJob, NewJob, Created, IInv, TypeOK
<1>2. ~Held(j)
  BY <1>1, WaitsOrRuns DEF Held, IInv, OnlyCreated, Running
<1>3. CASE q' = Append(q, j) /\ jobState' = [jobState EXCEPT ![j] = "QueuedLocal"]
  <2>1. /\ Len(Append(q, j)) = Len(q) + 1 /\ Len(q) \in Nat
        /\ \A i \in 1 .. Len(q) : Append(q, j)[i] = q[i]
        /\ Append(q, j)[Len(q) + 1] = j
    BY <1>1, AppendProperties, LenProperties
  <2>2. \A i \in 1 .. Len(q) + 1 : i \in 1 .. Len(q) \/ i = Len(q) + 1
    BY <2>1
  <2>3. \A k \in Jobs \ {j} : IsPending(k)' <=> IsPending(k)
    BY <1>3, <2>1, <2>2 DEF IsPending
  <2>4. Len(q) + 1 \in 1 .. Len(q')
    BY <1>3, <2>1
  <2>5. IsPending(j)'
    BY <1>3, <2>1, <2>4 DEF IsPending
  <2> QED
    BY <1>1, <1>3, <2>3, <2>5 DEF Concerns, Held, Ended
<1>4. CASE q' = q /\ jobState' = [jobState EXCEPT ![j] = "Error"]
  <2>1. \A k \in Jobs : Held(k)' <=> Held(k)
    BY <1>1, <1>4 DEF Held, IsPending
  <2> QED
    BY <1>1, <1>2, <1>4, <2>1 DEF Concerns, Active
<1> QED
  BY <1>3, <1>4 DEF SubmitJob

\* The entries of the queue are there before and after checkJobQueue, or have
\* a process, or were taken and could not be started.
LEMMA CheckHeld ==
    ASSUME IInv, CheckJobQueue, NEW j \in Jobs
    PROVE  /\ Held(j)' => Held(j)
           /\ Held(j) /\ Valid(j) /\ hasProgram => Held(j)'
<1> DEFINE q == m_pendingJobQueue
<1>1. PICK n \in 1 .. Len(q) :
        /\ q' = Rest(n)
        /\ m_runningJobs' =
             [k \in Jobs |->
                IF \E i \in 1 .. n : q[i] = k /\ Starts(i)
                THEN "starting" ELSE m_runningJobs[k]]
  BY DEF CheckJobQueue
<1>2. q \in Seq(Jobs) /\ Len(q) \in Nat /\ n \in 0 .. Len(q) /\ n \in Nat
  BY LenProperties DEF IInv, TypeOK
<1>3. /\ Len(q') = Len(q) - n
      /\ \A i \in 1 .. Len(q) - n : q'[i] = q[n + i]
  BY <1>1, <1>2, RestProperties DEF Rest
<1>4. ASSUME Held(j)' PROVE Held(j)
  <2>1. CASE IsPending(j)'
    <3>1. PICK i \in 1 .. Len(q) - n : q'[i] = j
      BY <1>3, <2>1 DEF IsPending
    <3>2. n + i \in 1 .. Len(q) /\ q[n + i] = j
      BY <1>2, <1>3, <3>1
    <3> QED
      BY <3>2 DEF Held, IsPending
  <2>2. CASE m_runningJobs'[j] # "none"
    <3>1. (\E i \in 1 .. n : q[i] = j) \/ m_runningJobs[j] # "none"
      BY <1>1, <2>2
    <3>2. \A i \in 1 .. n : i \in 1 .. Len(q)
      BY <1>2
    <3> QED
      BY <3>1, <3>2 DEF Held, IsPending
  <2> QED
    BY <1>4, <2>1, <2>2 DEF Held
<1>5. ASSUME Held(j), Valid(j), hasProgram PROVE Held(j)'
  <2>1. CASE m_runningJobs[j] # "none"
    BY <1>1, <2>1 DEF Held
  <2>2. CASE IsPending(j)
    <3>1. PICK i \in 1 .. Len(q) : q[i] = j
      BY <2>2 DEF IsPending
    <3>2. CASE i \in 1 .. n
      BY <1>1, <1>5, <3>1, <3>2 DEF Held, Starts
    <3>3. CASE i \notin 1 .. n
      <4>1. i - n \in 1 .. Len(q') /\ n + (i - n) = i /\ i - n \in 1 .. Len(q) - n
        BY <1>2, <1>3, <3>3
      <4>2. q'[i - n] = j
        BY <1>3, <3>1, <4>1
      <4> QED
        BY <4>1, <4>2 DEF Held, IsPending
    <3> QED
      BY <3>2, <3>3
  <2> QED
    BY <1>5, <2>1, <2>2 DEF Held
<1> QED
  BY <1>4, <1>5

\* A signal of a process concerns its job.
LEMMA ProcessConcerns ==
    ASSUME IInv, NEW j \in Jobs,
           ProcessStarted(j) \/ ProcessFinished(j) \/ ProcessError(j)
    PROVE  Concerns(j) /\ m_pendingJobQueue' = m_pendingJobQueue
<1>1. TypeOK /\ j \in Running /\ Created(j)
  BY DEF ProcessStarted, ProcessFinished, ProcessError, IInv, OnlyCreated, Running
<1>2. ~Valid(j) => jobState[j] = Removed
  BY <1>1 DEF Valid, Created
<1>3. m_pendingJobQueue' = m_pendingJobQueue
  BY DEF ProcessStarted, ProcessFinished, ProcessError
<1>4. \A k \in Jobs : IsPending(k)' <=> IsPending(k)
  BY <1>3 DEF IsPending
<1>5. ~IsPending(j)
  BY <1>1, WaitsOrRuns DEF Running
<1>6. CASE ProcessStarted(j)
  <2>1. /\ SetState(j, "RunningLocal")
        /\ m_runningJobs' = [m_runningJobs EXCEPT ![j] = "running"]
    BY <1>6 DEF ProcessStarted
  <2>2. /\ \A k \in Jobs \ {j} : jobState'[k] = jobState[k]
        /\ jobState'[j] \in {"RunningLocal", Removed}
    BY <1>1, <1>2, <2>1, SetStateKeeps DEF JobState
  <2>3. Held(j)' /\ \A k \in Jobs \ {j} : Held(k)' <=> Held(k)
    BY <1>1, <1>4, <2>1 DEF Held, TypeOK
  <2> QED
    BY <1>3, <2>2, <2>3 DEF Concerns, Ended, Removed
<1>7. CASE ProcessFinished(j) \/ ProcessError(j)
  <2>1. /\ m_runningJobs' = Taken(j)
        /\ \E s \in {"Error", "Finished"} : SetState(j, s)
    BY <1>7 DEF ProcessFinished, ProcessError
  <2>2. /\ \A k \in Jobs \ {j} : jobState'[k] = jobState[k]
        /\ jobState'[j] \in {"Error", "Finished", Removed}
    BY <1>1, <1>2, <2>1, SetStateKeeps DEF JobState
  <2>3. ~Held(j)' /\ \A k \in Jobs \ {j} : Held(k)' <=> Held(k)
    BY <1>1, <1>4, <1>5, <2>1, TakenProperties DEF Held
  <2> QED
    BY <1>3, <2>2, <2>3 DEF Concerns, Active, Removed
<1> QED
  BY <1>6, <1>7

\* killJob concerns the job it kills.
LEMMA KillConcerns ==
    ASSUME IInv, NEW j \in Jobs, Valid(j), KillJob(j)
    PROVE  Concerns(j)
<1>1. TypeOK /\ SetState(j, "Canceled") /\ "Canceled" \in JobState
  BY DEF IInv, KillJob, JobState
<1>2. jobState'[j] = "Canceled" /\ \A k \in Jobs \ {j} : jobState'[k] = jobState[k]
  BY <1>1, SetStateKeeps
<1>3. ~Held(j)' /\ \A k \in Jobs \ {j} : Held(k)' <=> Held(k)
  <2>1. CASE IsPending(j)
    <3>1. PendingWithout(j) /\ m_runningJobs' = m_runningJobs
      BY <2>1 DEF KillJob
    <3>2. ~IsPending(j)' /\ \A k \in Jobs \ {j} : IsPending(k)' <=> IsPending(k)
      BY <3>1, PendingWithoutProperties DEF IsPending
    <3>3. m_runningJobs[j] = "none"
      BY <2>1, WaitsOrRuns
    <3> QED
      BY <3>1, <3>2, <3>3 DEF Held
  <2>2. CASE ~IsPending(j)
    <3>1. m_runningJobs' = Taken(j) /\ m_pendingJobQueue' = m_pendingJobQueue
      BY <2>2 DEF KillJob
    <3> QED
      BY <1>1, <2>2, <3>1, TakenProperties DEF Held, IsPending
  <2> QED
    BY <2>1, <2>2
<1> QED
  BY <1>2, <1>3 DEF Concerns, Active

\* removeJob concerns the job it removes.
LEMMA RemoveConcerns ==
    ASSUME IInv, NEW j \in Jobs, RemoveJob(j)
    PROVE  Concerns(j)
BY DEF RemoveJob, IInv, TypeOK, Concerns, Held, IsPending, Ended, Active,
       Removed, queueVars

\* The steps that change neither states, nor the queue, nor its processes.
LEMMA Idle ==
    ASSUME IInv, [Next]_vars,
           \A j \in Jobs : /\ ~SubmitJob(j) /\ ~ProcessStarted(j)
                           /\ ~ProcessFinished(j) /\ ~ProcessError(j)
                           /\ ~RemoveJob(j) /\ ~(Valid(j) /\ KillJob(j)),
           ~CheckJobQueue, ~ExitAndRestart, ~CrashAndRestart
    PROVE  UNCHANGED <<jobState, m_pendingJobQueue, m_runningJobs>>
<1>1. \A j \in Jobs : ~CancelJob(j)
  BY DEF CancelJob, RpcCancelable, Valid, NotCreated, Removed
<1>2. dialog \in Jobs \cup {NoJob}
  BY DEF IInv, TypeOK
<1> QED
  BY <1>1, <1>2
  DEF Next, OpenKillDialog, AnswerKillDialog, SetCores, ChangeProgram,
      SyncTimer, vars, jobVars, queueVars

\* Every job of a set is among its keys.
LEMMA KeysComplete ==
    ASSUME NEW S \in SUBSET Jobs, NEW keys \in Keys(S), NEW j \in S
    PROVE  \E i \in 1 .. Len(keys) : keys[i] = j
<1>1. IsFiniteSet(S) /\ Jobs \subseteq Nat
  BY LocalQueueAssumption, FS_Subset
<1>2. Cardinality(S) \in Nat
  BY <1>1, FS_CardinalityType
<1> DEFINE I == 1 .. Cardinality(S)
<1>3. keys \in [I -> S] /\ \A a, b \in I : a < b => keys[a] < keys[b]
  BY DEF Keys
<1>4. IsFiniteSet(I) /\ Cardinality(I) = Cardinality(S)
  BY <1>2, FS_Interval
<1>5. \A a, b \in I : a # b => keys[a] # keys[b]
  <2>1. SUFFICES ASSUME NEW a \in I, NEW b \in I, a < b
                 PROVE  keys[a] # keys[b]
    BY <1>2
  <2>2. keys[a] \in Nat /\ keys[b] \in Nat /\ keys[a] < keys[b]
    BY <1>1, <1>3, <2>1
  <2> QED
    BY <2>2
<1>6. keys \in Injection(I, S)
  BY <1>3, <1>5 DEF Injection, IsInjective
<1>7. keys \in Surjection(I, S)
  BY <1>1, <1>4, <1>6, FS_Injection
<1>8. Len(keys) = Cardinality(S)
  BY <1>2, <1>3
<1> QED
  BY <1>7, <1>8 DEF Surjection

\* A clean exit and the next start: the same jobs are held, in the same states.
LEMMA ExitHeld ==
    ASSUME IInv, ExitAndRestart, NEW j \in Jobs
    PROVE  /\ Held(j)' <=> Held(j)
           /\ Valid(j) => jobState'[j] = jobState[j]
           /\ ~Valid(j) => jobState'[j] \in {NotCreated, Removed}
<1> DEFINE q == m_pendingJobQueue
<1>1. /\ SyncJobState /\ WriteQueueFile(hasProgram) /\ hasProgram \in BOOLEAN
      /\ q' = queueFile'.jobsToResume
      /\ m_runningJobs' = [k \in Jobs |-> "none"]
      /\ jobState' = [k \in Jobs |->
                        IF savedState'[k] # NotCreated THEN savedState'[k]
                        ELSE IF jobState[k] = NotCreated
                        THEN NotCreated ELSE Removed]
  BY DEF ExitAndRestart, Load, IInv, TypeOK
<1>2. ASSUME Held(j)' PROVE Held(j)
  <2>1. IsPending(j)'
    BY <1>1, <1>2 DEF Held
  <2> QED
    BY <1>1, <2>1, WrittenFile DEF IsPending
<1>3. ASSUME Held(j) PROVE Held(j)'
  <2>1. PICK keys \in Keys(Running) :
          queueFile' = [jobsToResume |-> JobsToResume(keys),
                        cores |-> m_cores, programs |-> hasProgram]
    BY <1>1 DEF WriteQueueFile
  <2>2. Running \in SUBSET Jobs
    BY DEF Running
  <2>3. /\ keys \in Seq(Jobs) /\ q \in Seq(Jobs)
        /\ Len(keys) \in Nat /\ Len(q) \in Nat
    BY <2>2, KeysProperties, LenProperties DEF IInv, TypeOK
  <2>4. /\ Len(q') = Len(keys) + Len(q)
        /\ \A i \in 1 .. Len(keys) + Len(q) : q'[i] =
              IF i <= Len(keys) THEN keys[i] ELSE q[i - Len(keys)]
    <3>1. q' = keys \o q
      BY <1>1, <2>1 DEF JobsToResume
    <3> QED
      BY <2>3, <3>1, ConcatProperties
  <2>5. CASE j \in Running
    <3>1. PICK i \in 1 .. Len(keys) : keys[i] = j
      BY <2>2, <2>5, KeysComplete
    <3>2. i \in 1 .. Len(q') /\ q'[i] = j
      BY <2>3, <2>4, <3>1
    <3> QED
      BY <3>2 DEF Held, IsPending
  <2>6. CASE IsPending(j)
    <3>1. PICK i \in 1 .. Len(q) : q[i] = j
      BY <2>6 DEF IsPending
    <3>2. /\ Len(keys) + i \in 1 .. Len(q')
          /\ ~(Len(keys) + i <= Len(keys)) /\ (Len(keys) + i) - Len(keys) = i
      BY <2>3, <2>4
    <3>3. q'[Len(keys) + i] = j
      BY <2>4, <3>1, <3>2
    <3> QED
      BY <3>2, <3>3 DEF Held, IsPending
  <2> QED
    BY <1>3, <2>5, <2>6 DEF Held, Running
<1>4. Valid(j) => jobState'[j] = jobState[j]
  BY <1>1, SyncedState DEF Valid
<1>5. ~Valid(j) => jobState'[j] \in {NotCreated, Removed}
  BY <1>1 DEF Valid, SyncJobState, IInv, OnlyCreated, Created
<1> QED
  BY <1>2, <1>3, <1>4, <1>5

\* One step of a queue whose program does not crash: it concerns one job, or
\* takes entries from the queue, or ends and starts the program, or leaves
\* states, queue and processes alone.
LEMMA StepsOfAQueue ==
    ASSUME IInv, [Next]_vars, "crash" \notin Events
    PROVE  \/ \E j \in Jobs : Concerns(j)
           \/ CheckJobQueue
           \/ ExitAndRestart
           \/ UNCHANGED <<jobState, m_pendingJobQueue, m_runningJobs>>
<1>1. ~CrashAndRestart
  BY DEF CrashAndRestart
<1>2. ASSUME NEW j \in Jobs,
             \/ SubmitJob(j) \/ ProcessStarted(j) \/ ProcessFinished(j)
             \/ ProcessError(j) \/ RemoveJob(j) \/ (Valid(j) /\ KillJob(j))
      PROVE  Concerns(j)
  BY <1>2, SubmitConcerns, ProcessConcerns, RemoveConcerns, KillConcerns
<1>3. CASE \E j \in Jobs :
             \/ SubmitJob(j) \/ ProcessStarted(j) \/ ProcessFinished(j)
             \/ ProcessError(j) \/ RemoveJob(j) \/ (Valid(j) /\ KillJob(j))
  BY <1>2, <1>3
<1>4. CASE ~\E j \in Jobs :
             \/ SubmitJob(j) \/ ProcessStarted(j) \/ ProcessFinished(j)
             \/ ProcessError(j) \/ RemoveJob(j) \/ (Valid(j) /\ KillJob(j))
  BY <1>1, <1>4, Idle
<1> QED
  BY <1>3, <1>4

\* In a program that never crashes, a job that finished, failed or was
\* canceled neither waits nor has a process, for any number of jobs and cores
\* and whatever else happens.  (local.cpp 150-173, 221-267, 437-469)
THEOREM EndedSafe ==
    ASSUME "crash" \notin Events
    PROVE  Spec => []EndedIsOver
<1>1. Init => EndedIsOver
  BY DEF Init, EndedIsOver, NotCreated
<1>2. ASSUME IInv, EndedIsOver, [Next]_vars
      PROVE  EndedIsOver'
  <2>1. SUFFICES ASSUME NEW k \in Jobs, jobState'[k] \in Ended
                 PROVE  ~Held(k)'
    BY DEF EndedIsOver, Ended
  <2>2. jobState[k] \in Ended => ~Held(k)
    BY <1>2 DEF EndedIsOver, Ended
  <2>3. CASE \E j \in Jobs : Concerns(j)
    BY <2>1, <2>2, <2>3 DEF Concerns
  <2>4. CASE CheckJobQueue
    <3>1. jobState' = jobState
      BY <2>4 DEF CheckJobQueue, jobVars
    <3> QED
      BY <1>2, <2>1, <2>2, <2>4, <3>1, CheckHeld
  <2>5. CASE ExitAndRestart
    BY <1>2, <2>1, <2>2, <2>5, ExitHeld DEF Ended, NotCreated, Removed
  <2>6. CASE UNCHANGED <<jobState, m_pendingJobQueue, m_runningJobs>>
    BY <2>1, <2>2, <2>6 DEF Held, IsPending
  <2> QED
    BY <1>2, <2>3, <2>4, <2>5, <2>6, StepsOfAQueue
<1> QED
  BY <1>1, <1>2, Inductive, PTL DEF Spec

\* Where nobody takes the program away, the queue has it throughout.
LEMMA ProgramStays ==
    ASSUME IInv, hasProgram, [Next]_vars,
           "crash" \notin Events, "program" \notin Events
    PROVE  hasProgram'
<1>1. ~CrashAndRestart /\ ~ChangeProgram
  BY DEF CrashAndRestart, ChangeProgram
<1>2. CASE ExitAndRestart
  <2>1. /\ WriteQueueFile(hasProgram)
        /\ hasProgram' = queueFile'.programs
    BY <1>2 DEF ExitAndRestart, Load
  <2> QED
    BY <2>1 DEF WriteQueueFile
<1>3. CASE ~ExitAndRestart
  BY <1>1, <1>3
  DEF Next, SubmitJob, ProcessStarted, ProcessFinished, ProcessError, CancelJob,
      OpenKillDialog, RemoveJob, CheckJobQueue, AnswerKillDialog, KillJob,
      SetCores, SyncTimer, vars, userVars
<1> QED
  BY <1>2, <1>3

\* Where the program the jobs name stays and MoleQueue never crashes, the
\* queue holds every job shown as queued or running, also over a restart.
\* (local.cpp 74-131, 139-148, 297-330)
THEOREM HeldSafe ==
    ASSUME "crash" \notin Events, "program" \notin Events
    PROVE  Spec => []HeldWhileActive
<1> DEFINE Kept == hasProgram /\ HeldWhileActive
<1>1. Init => Kept
  BY DEF Init, HeldWhileActive, NotCreated
<1>2. ASSUME IInv, Kept, [Next]_vars
      PROVE  Kept'
  <2>1. SUFFICES ASSUME NEW k \in Jobs, jobState'[k] \in Active
                 PROVE  Held(k)'
    BY <1>2, ProgramStays DEF HeldWhileActive, Active
  <2>2. jobState[k] \in Active => Held(k) /\ Valid(k)
    BY <1>2 DEF HeldWhileActive, Active, Valid, NotCreated, Removed
  <2>3. CASE \E j \in Jobs : Concerns(j)
    BY <2>1, <2>2, <2>3 DEF Concerns
  <2>4. CASE CheckJobQueue
    <3>1. jobState' = jobState
      BY <2>4 DEF CheckJobQueue, jobVars
    <3> QED
      BY <1>2, <2>1, <2>2, <2>4, <3>1, CheckHeld
  <2>5. CASE ExitAndRestart
    BY <1>2, <2>1, <2>2, <2>5, ExitHeld DEF Active, NotCreated, Removed
  <2>6. CASE UNCHANGED <<jobState, m_pendingJobQueue, m_runningJobs>>
    BY <2>1, <2>2, <2>6 DEF Held, IsPending
  <2> QED
    BY <1>2, <2>3, <2>4, <2>5, <2>6, StepsOfAQueue
<1>3. Kept => HeldWhileActive
  OBVIOUS
<1> HIDE DEF Kept
<1> QED
  BY <1>1, <1>2, <1>3, Inductive, PTL DEF Spec

-----------------------------------------------------------------------------
(* Sums over finite sets.                                                  *)

\* A set of numbers that is not empty has a least one: what stands for
\* induction below is that the counterexamples to a claim have none.
LEMMA LeastNumber ==
    ASSUME NEW T, T \subseteq Nat, T # {}
    PROVE  \E n \in T : \A m \in T : n =< m
<1>1. \E n \in T : \A m \in T : ~(<<m, n>> \in OpToRel(<, Nat))
  BY NatLessThanWellFounded, WFMin
<1>2. PICK n \in T : \A m \in T : ~(m < n)
  BY <1>1 DEF OpToRel
<1> QED
  BY <1>2

\* What SumFunctionOnSet does with each set: takes an element and goes on.
Chosen(s) == CHOOSE x \in s : TRUE
Summed(g, f, s) == IF s = {} THEN 0 ELSE f[Chosen(s)] + g[s \ {Chosen(s)}]
IsSum(g, f, S) == g = [s \in SUBSET S |-> Summed(g, f, s)]

\* The library's sum is the value of such a function.
LEMMA SumIsChosen ==
    ASSUME NEW f, NEW S, NEW g, g = CHOOSE h : IsSum(h, f, S)
    PROVE  SumFunctionOnSet(f, S) = g[S]
BY Zenon DEF SumFunctionOnSet, FoldFunctionOnSet, MapThenFoldSet, Summed,
             IsSum, Chosen

\* One element less.
LEMMA OneLess ==
    ASSUME NEW s, IsFiniteSet(s), s # {}
    PROVE  /\ Chosen(s) \in s /\ IsFiniteSet(s \ {Chosen(s)})
           /\ Cardinality(s) \in Nat /\ Cardinality(s) > 0
           /\ Cardinality(s \ {Chosen(s)}) = Cardinality(s) - 1
<1>1. Chosen(s) \in s
  BY DEF Chosen
<1>2. PICK x : x = Chosen(s) /\ x \in s
  BY <1>1
<1>3. /\ IsFiniteSet(s \ {x}) /\ Cardinality(s \ {x}) = Cardinality(s) - 1
      /\ Cardinality(s) \in Nat /\ Cardinality(s) # 0
  BY <1>2, FS_RemoveElement, FS_CardinalityType, FS_EmptySet
<1> QED
  BY <1>2, <1>3

\* There is such a function on the subsets of a finite set.
LEMMA SumExists ==
    ASSUME NEW S, IsFiniteSet(S), NEW f, \A x \in S : f[x] \in Int
    PROVE  \E g : IsSum(g, f, S)
<1> DEFINE UpTo(n) == {s \in SUBSET S : Cardinality(s) =< n}
           SumUpTo(n) == \E g : g = [s \in UpTo(n) |-> Summed(g, f, s)]
           Bad == {n \in Nat : ~SumUpTo(n)}
<1>1. \A s \in SUBSET S : IsFiniteSet(s) /\ Cardinality(s) \in Nat
                          /\ Cardinality(s) =< Cardinality(S)
  BY FS_Subset, FS_CardinalityType
<1>2. Bad = {}
  <2> SUFFICES ASSUME Bad # {} PROVE FALSE
    OBVIOUS
  <2>1. PICK n \in Bad : \A m \in Bad : n =< m
    BY LeastNumber
  <2>2. n \in Nat /\ ~SumUpTo(n)
    OBVIOUS
  <2>3. CASE n = 0
    <3>1. UpTo(0) = {{}}
      <4>1. \A s \in SUBSET S : Cardinality(s) =< 0 <=> s = {}
        BY <1>1, FS_EmptySet
      <4> QED
        BY <4>1
    <3>2. PICK g : g = [s \in UpTo(0) |-> 0]
      OBVIOUS
    <3>3. \A s \in UpTo(0) : Summed(g, f, s) = 0
      BY <3>1 DEF Summed
    <3>4. g = [s \in UpTo(0) |-> Summed(g, f, s)]
      <4> HIDE DEF UpTo
      <4> QED
        BY <3>2, <3>3
    <3> QED
      BY <2>2, <2>3, <3>4
  <2>4. CASE n # 0
    <3>1. n - 1 \in Nat /\ ~(n =< n - 1)
      BY <2>2, <2>4
    <3>2. SumUpTo(n - 1)
      BY <2>1, <3>1
    <3>3. PICK h : h = [s \in UpTo(n - 1) |-> Summed(h, f, s)]
      BY <3>2
    <3>4. PICK g : g = [s \in UpTo(n) |-> Summed(h, f, s)]
      OBVIOUS
    <3>5. ASSUME NEW s \in UpTo(n) PROVE Summed(h, f, s) = Summed(g, f, s)
      <4>1. CASE s = {}
        BY <4>1 DEF Summed
      <4>2. CASE s # {}
        <5>1. PICK t : t = s \ {Chosen(s)}
          OBVIOUS
        <5>2. /\ s \in SUBSET S /\ Cardinality(s) =< n /\ IsFiniteSet(s)
          BY <1>1
        <5>3. t \in SUBSET S /\ Cardinality(t) =< n - 1
          BY <4>2, <5>1, <5>2, <1>1, <2>2, OneLess
        <5>4. t \in UpTo(n - 1) /\ t \in UpTo(n)
          BY <1>1, <2>2, <5>3
        <5> HIDE DEF UpTo
        <5>5. g[t] = Summed(h, f, t) /\ h[t] = Summed(h, f, t)
          BY <3>3, <3>4, <5>4
        <5> QED
          BY <4>2, <5>1, <5>5 DEF Summed
      <4> QED
        BY <4>1, <4>2
    <3>6. g = [s \in UpTo(n) |-> Summed(g, f, s)]
      <4> HIDE DEF UpTo
      <4> QED
        BY <3>4, <3>5
    <3> QED
      BY <2>2, <3>6
  <2> QED
    BY <2>3, <2>4
<1>3. SumUpTo(Cardinality(S))
  BY <1>1, <1>2
<1>4. UpTo(Cardinality(S)) = SUBSET S
  BY <1>1
<1>5. PICK g : g = [s \in UpTo(Cardinality(S)) |-> Summed(g, f, s)]
  BY <1>3
<1> HIDE DEF UpTo
<1> QED
  BY <1>4, <1>5 DEF IsSum

\* And one only, whatever set it is made for.
LEMMA SumUnique ==
    ASSUME NEW S, NEW R, IsFiniteSet(S), NEW f, NEW h, NEW g, NEW k,
           IsSum(g, f, S), IsSum(k, h, R), \A x \in S : f[x] = h[x],
           NEW s, s \subseteq S, s \subseteq R
    PROVE  g[s] = k[s]
<1> DEFINE Differs(t) == t \subseteq S /\ t \subseteq R /\ g[t] # k[t]
           Bad == {n \in Nat : \E t \in SUBSET S : Cardinality(t) = n /\ Differs(t)}
<1>1. \A t \in SUBSET S : IsFiniteSet(t) /\ Cardinality(t) \in Nat
  BY FS_Subset, FS_CardinalityType
<1>2. \A t : t \subseteq S /\ t \subseteq R =>
             g[t] = Summed(g, f, t) /\ k[t] = Summed(k, h, t)
  BY DEF IsSum
<1>3. Bad = {}
  <2> SUFFICES ASSUME Bad # {} PROVE FALSE
    OBVIOUS
  <2>1. PICK n \in Bad : \A m \in Bad : n =< m
    BY LeastNumber
  <2>2. PICK t \in SUBSET S : Cardinality(t) = n /\ Differs(t)
    BY <2>1
  <2>3. CASE t = {}
    BY <1>2, <2>2, <2>3 DEF Summed
  <2>4. CASE t # {}
    <3>1. PICK c : c = Chosen(t)
      OBVIOUS
    <3>2. PICK u : u = t \ {c}
      OBVIOUS
    <3>3. /\ c \in t /\ n \in Nat /\ Cardinality(u) = n - 1 /\ n > 0
      BY <1>1, <2>2, <2>4, <3>1, <3>2, OneLess
    <3>4. u \subseteq S /\ u \subseteq R /\ Cardinality(u) \in Nat
      BY <1>1, <2>2, <3>2
    <3>5. g[u] = k[u]
      <4> SUFFICES ASSUME g[u] # k[u] PROVE FALSE
        OBVIOUS
      <4>1. n - 1 \in Bad
        BY <3>3, <3>4
      <4> QED
        BY <2>1, <3>3, <4>1
    <3>6. f[c] = h[c]
      BY <3>3
    <3>7. g[t] = f[c] + g[u] /\ k[t] = h[c] + k[u]
      BY <1>2, <2>2, <2>4, <3>1, <3>2 DEF Summed
    <3> QED
      BY <2>2, <3>5, <3>6, <3>7
  <2> QED
    BY <2>3, <2>4
<1>4. Cardinality(s) \in Nat
  BY <1>1
<1> QED
  BY <1>3, <1>4

\* The sum over a set is that function's value there.
LEMMA SumValue ==
    ASSUME NEW S, IsFiniteSet(S), NEW f, \A x \in S : f[x] \in Int
    PROVE  \E g : IsSum(g, f, S)
                  /\ \A s \in SUBSET S : SumFunctionOnSet(f, s) = g[s]
<1>1. PICK g : IsSum(g, f, S)
  BY SumExists
<1>2. ASSUME NEW s \in SUBSET S PROVE SumFunctionOnSet(f, s) = g[s]
  <2>1. IsFiniteSet(s) /\ \A x \in s : f[x] \in Int
    BY FS_Subset
  <2>2. \E h : IsSum(h, f, s)
    BY <2>1, SumExists
  <2>3. PICK k : k = CHOOSE h : IsSum(h, f, s)
    OBVIOUS
  <2>4. IsSum(k, f, s)
    BY <2>2, <2>3
  <2>5. SumFunctionOnSet(f, s) = k[s]
    BY <2>3, SumIsChosen
  <2>6. k[s] = g[s]
    BY <1>1, <2>1, <2>4, SumUnique
  <2> QED
    BY <2>5, <2>6
<1> QED
  BY <1>1, <1>2

\* The sum over no element.
LEMMA SumOfNone ==
    ASSUME NEW f
    PROVE  SumFunctionOnSet(f, {}) = 0
<1>1. IsFiniteSet({}) /\ \A x \in {} : f[x] \in Int
  BY FS_EmptySet
<1>2. PICK g : IsSum(g, f, {}) /\ \A s \in SUBSET {} : SumFunctionOnSet(f, s) = g[s]
  BY <1>1, SumValue
<1>3. g[{}] = Summed(g, f, {})
  BY <1>2 DEF IsSum
<1> QED
  BY <1>2, <1>3 DEF Summed

\* The sum over a set is an element and the sum over the others.
LEMMA SumOneLess ==
    ASSUME NEW s, IsFiniteSet(s), s # {}, NEW f, \A x \in s : f[x] \in Int
    PROVE  SumFunctionOnSet(f, s) =
             f[Chosen(s)] + SumFunctionOnSet(f, s \ {Chosen(s)})
<1>1. PICK g : IsSum(g, f, s) /\ \A t \in SUBSET s : SumFunctionOnSet(f, t) = g[t]
  BY SumValue
<1>2. g[s] = Summed(g, f, s)
  BY <1>1 DEF IsSum
<1> QED
  BY <1>1, <1>2 DEF Summed

\* Functions that agree on a set have the same sum over it.
LEMMA SumOfSame ==
    ASSUME NEW s, IsFiniteSet(s), NEW f, NEW h, \A x \in s : f[x] = h[x],
           \A x \in s : f[x] \in Int
    PROVE  SumFunctionOnSet(f, s) = SumFunctionOnSet(h, s)
<1>1. PICK g : IsSum(g, f, s) /\ \A t \in SUBSET s : SumFunctionOnSet(f, t) = g[t]
  BY SumValue
<1>2. PICK k : IsSum(k, h, s) /\ \A t \in SUBSET s : SumFunctionOnSet(h, t) = k[t]
  BY SumValue
<1>3. g[s] = k[s]
  BY <1>1, <1>2, SumUnique
<1> QED
  BY <1>1, <1>2, <1>3

\* A sum of numbers is a number.
LEMMA SumIsInt ==
    ASSUME NEW S, IsFiniteSet(S), NEW f, \A x \in S : f[x] \in Int
    PROVE  SumFunctionOnSet(f, S) \in Int
<1> DEFINE Bad == {n \in Nat : \E s \in SUBSET S :
                     Cardinality(s) = n /\ SumFunctionOnSet(f, s) \notin Int}
<1>1. \A s \in SUBSET S : /\ IsFiniteSet(s) /\ Cardinality(s) \in Nat
                          /\ \A x \in s : f[x] \in Int
  BY FS_Subset, FS_CardinalityType
<1>2. Bad = {}
  <2> SUFFICES ASSUME Bad # {} PROVE FALSE
    OBVIOUS
  <2>1. PICK n \in Bad : \A m \in Bad : n =< m
    BY LeastNumber
  <2>2. PICK s \in SUBSET S : Cardinality(s) = n /\ SumFunctionOnSet(f, s) \notin Int
    BY <2>1
  <2>3. s # {}
    BY <2>2, SumOfNone
  <2>4. PICK c : c = Chosen(s)
    OBVIOUS
  <2>5. PICK t : t = s \ {c}
    OBVIOUS
  <2>6. c \in s /\ n \in Nat /\ Cardinality(t) = n - 1 /\ n > 0 /\ t \in SUBSET S
    BY <1>1, <2>2, <2>3, <2>4, <2>5, OneLess
  <2>7. SumFunctionOnSet(f, s) = f[c] + SumFunctionOnSet(f, t)
    BY <1>1, <2>2, <2>3, <2>4, <2>5, SumOneLess
  <2>8. SumFunctionOnSet(f, t) \notin Int /\ f[c] \in Int
    BY <2>2, <2>6, <2>7
  <2>9. n - 1 \in Bad
    BY <2>6, <2>8
  <2> QED
    BY <2>1, <2>6, <2>9
<1>3. Cardinality(S) \in Nat
  BY <1>1
<1> QED
  BY <1>2, <1>3

\* In whatever order elements are taken, one more adds its number.
LEMMA SumOneMore ==
    ASSUME NEW S, IsFiniteSet(S), NEW f, \A x \in S : f[x] \in Int,
           NEW y \in S, NEW r, r \subseteq S, y \notin r
    PROVE  SumFunctionOnSet(f, r \cup {y}) = f[y] + SumFunctionOnSet(f, r)
<1> DEFINE Sum(s) == SumFunctionOnSet(f, s)
           Wrong(s) == \E x \in S : x \notin s /\ Sum(s \cup {x}) # f[x] + Sum(s)
           Bad == {n \in Nat : \E s \in SUBSET S : Cardinality(s) = n /\ Wrong(s)}
<1>1. \A s \in SUBSET S : /\ IsFiniteSet(s) /\ Cardinality(s) \in Nat
                          /\ \A x \in s : f[x] \in Int
                          /\ Sum(s) \in Int
  BY FS_Subset, FS_CardinalityType, SumIsInt
<1>2. \A s \in SUBSET S : s # {} => Sum(s) = f[Chosen(s)] + Sum(s \ {Chosen(s)})
  BY <1>1, SumOneLess
<1> HIDE DEF Sum
<1>3. Bad = {}
  <2> SUFFICES ASSUME Bad # {} PROVE FALSE
    OBVIOUS
  <2>1. PICK n \in Bad : \A m \in Bad : n =< m
    BY LeastNumber
  <2>2. PICK s \in SUBSET S : Cardinality(s) = n /\ Wrong(s)
    BY <2>1
  <2>3. PICK x \in S : x \notin s /\ Sum(s \cup {x}) # f[x] + Sum(s)
    BY <2>2
  <2>4. PICK t : t = s \cup {x}
    OBVIOUS
  <2>5. t \in SUBSET S /\ t # {} /\ Chosen(t) \in t
    BY <2>4 DEF Chosen
  <2>6. PICK c : c = Chosen(t) /\ c \in t
    BY <2>5
  <2>7. Sum(t) = f[c] + Sum(t \ {c})
    BY <1>2, <2>5, <2>6
  <2>8. CASE c = x
    <3>1. t \ {c} = s
      BY <2>3, <2>4, <2>8
    <3> QED
      BY <2>3, <2>4, <2>7, <2>8, <3>1
  <2>9. CASE c # x
    <3>1. PICK u : u = s \ {c}
      OBVIOUS
    <3>2. c \in s /\ u \in SUBSET S /\ x \notin u /\ c \notin u
      BY <2>3, <2>4, <2>6, <2>9, <3>1
    <3>3. t \ {c} = u \cup {x} /\ s = u \cup {c}
      BY <2>4, <2>9, <3>1, <3>2
    <3>4. n \in Nat /\ Cardinality(u) = n - 1 /\ Cardinality(u) \in Nat
      BY <1>1, <2>2, <3>1, <3>2, FS_RemoveElement
    <3>5. ~Wrong(u)
      <4>1. n - 1 \notin Bad
        BY <2>1, <3>4
      <4> QED
        BY <3>2, <3>4, <4>1
    <3>6. Sum(u \cup {x}) = f[x] + Sum(u) /\ Sum(u \cup {c}) = f[c] + Sum(u)
      BY <3>2, <3>5
    <3>7. f[x] \in Int /\ f[c] \in Int /\ Sum(u) \in Int
      BY <1>1, <3>2
    <3>8. Sum(t) = f[c] + (f[x] + Sum(u)) /\ Sum(s) = f[c] + Sum(u)
      BY <2>7, <3>3, <3>6
    <3>9. Sum(t) = f[x] + Sum(s)
      BY <3>7, <3>8
    <3> QED
      BY <2>3, <2>4, <3>9
  <2> QED
    BY <2>8, <2>9
<1>4. Cardinality(r) \in Nat /\ r \in SUBSET S
  BY <1>1
<1>5. ~Wrong(r)
  BY <1>3, <1>4
<1> QED
  BY <1>5 DEF Sum

\* A queue q of N of the jobs J, none of them twice and none of those in U,
\* and what each job of J costs.
Waiting(J, c, U, q, N) ==
    /\ IsFiniteSet(J)
    /\ \A j \in J : c[j] \in Int
    /\ U \in SUBSET J
    /\ N \in Nat
    /\ \A i \in 1 .. N : q[i] \in J /\ q[i] \notin U
    /\ \A a, b \in 1 .. N : a < b => q[a] # q[b]

\* The jobs among the first n entries that are at St, and what each entry
\* costs when only those do.
Begun(q, St, n)   == {q[i] : i \in {k \in 1 .. n : k \in St}}
Costs(c, q, St, n) == [i \in 1 .. n |-> IF i \in St THEN c[q[i]] ELSE 0]

\* What the entries at St cost, counted one by one as they are taken from the
\* queue, is what the set of these jobs costs.
LEMMA CostOfStarted ==
    ASSUME NEW J, NEW c, NEW U, NEW q, NEW N, Waiting(J, c, U, q, N),
           NEW St, NEW m \in 0 .. N
    PROVE  SumFunctionOnSet(c, U \cup Begun(q, St, m)) =
             SumFunctionOnSet(c, U) + SumFunctionOnSet(Costs(c, q, St, m), 1 .. m)
<1>0. /\ IsFiniteSet(J) /\ N \in Nat /\ U \subseteq J
      /\ \A j \in J : c[j] \in Int
      /\ \A i \in 1 .. N : q[i] \in J /\ q[i] \notin U
      /\ \A a, b \in 1 .. N : a < b => q[a] # q[b]
  BY DEF Waiting
<1> USE <1>0
<1> DEFINE Cost(n) == Costs(c, q, St, n)
           First(n) == Begun(q, St, n)
           Total(n) == SumFunctionOnSet(Cost(n), 1 .. n)
           Of(n) == SumFunctionOnSet(c, U \cup First(n))
           Bad == {n \in 0 .. N : Of(n) # SumFunctionOnSet(c, U) + Total(n)}
<1>1. \A n \in 0 .. N : /\ First(n) \subseteq J
                        /\ IsFiniteSet(1 .. n)
                        /\ \A i \in 1 .. n : Cost(n)[i] \in Int
  <2>1. ASSUME NEW n \in 0 .. N PROVE IsFiniteSet(1 .. n)
    BY FS_Interval
  <2>2. ASSUME NEW n \in 0 .. N, NEW i \in 1 .. n PROVE i \in 1 .. N /\ c[q[i]] \in Int
    OBVIOUS
  <2> QED
    BY <2>1, <2>2 DEF Begun, Costs
<1>2. ASSUME NEW n \in 1 .. N
      PROVE  Total(n) = Cost(n)[n] + Total(n - 1)
  <2>1. PICK g : g = Cost(n)
    OBVIOUS
  <2>2. PICK h : h = Cost(n - 1)
    OBVIOUS
  <2>3. PICK r : r = 1 .. n - 1
    OBVIOUS
  <2>4. PICK S : S = 1 .. n
    OBVIOUS
  <2>5. n \in S /\ r \subseteq S /\ n \notin r /\ r \cup {n} = S
    BY <2>3, <2>4
  <2>6. IsFiniteSet(S) /\ (\A i \in S : g[i] \in Int) /\ IsFiniteSet(r)
    <3>1. n \in 0 .. N /\ n - 1 \in 0 .. N
      OBVIOUS
    <3> HIDE DEF Cost
    <3> QED
      BY <1>1, <2>1, <2>3, <2>4, <3>1
  <2>7. \A i \in r : g[i] = h[i] /\ g[i] \in Int
    BY <2>1, <2>2, <2>3, <2>5, <2>6 DEF Costs
  <2>8. SumFunctionOnSet(g, r \cup {n}) = g[n] + SumFunctionOnSet(g, r)
    <3>1. IsFiniteSet(S) /\ (\A i \in S : g[i] \in Int)
      BY <2>6
    <3>2. n \in S /\ r \subseteq S /\ n \notin r
      BY <2>5
    <3> HIDE DEF Cost, First, Total, Of, Bad
    <3>3. PICK y : y = n
      OBVIOUS
    <3>4. SumFunctionOnSet(g, r \cup {y}) = g[y] + SumFunctionOnSet(g, r)
      <4>1. y \in S /\ r \subseteq S /\ y \notin r
        BY <3>2, <3>3
      <4> QED
        BY ONLY <3>1, <4>1, SumOneMore
    <3> QED
      BY ONLY <3>3, <3>4
  <2>9. SumFunctionOnSet(g, r) = SumFunctionOnSet(h, r)
    BY <2>6, <2>7, SumOfSame
  <2> HIDE DEF Cost
  <2> QED
    BY <2>1, <2>2, <2>3, <2>4, <2>5, <2>8, <2>9
<1>3. Bad = {}
  <2> SUFFICES ASSUME Bad # {} PROVE FALSE
    OBVIOUS
  <2>1. PICK n \in Bad : \A k \in Bad : n =< k
    <3>1. Bad \subseteq Nat
      OBVIOUS
    <3> HIDE DEF Bad
    <3> QED
      BY <3>1, LeastNumber
  <2>2. n \in 0 .. N /\ Of(n) # SumFunctionOnSet(c, U) + Total(n)
    BY <2>1
  <2>3. SumFunctionOnSet(c, U) \in Int
    <3>1. IsFiniteSet(U) /\ \A j \in U : c[j] \in Int
      BY FS_Subset
    <3> QED
      BY <3>1, SumIsInt
  <2>4. CASE n = 0
    <3>1. First(0) = {} /\ 1 .. 0 = {}
      BY DEF Begun
    <3>2. U \cup First(0) = U
      BY <3>1
    <3>3. Of(0) = SumFunctionOnSet(c, U)
      BY <3>2
    <3>4. Total(0) = 0
      <4>1. PICK g : g = Cost(0)
        OBVIOUS
      <4>2. SumFunctionOnSet(g, {}) = 0
        BY SumOfNone
      <4> QED
        BY <3>1, <4>1, <4>2
    <3> HIDE DEF Of, Total
    <3> QED
      BY <2>2, <2>3, <2>4, <3>3, <3>4
  <2>5. CASE n # 0
    <3>1. n \in 1 .. N /\ n - 1 \in 0 .. N /\ ~(n =< n - 1)
      BY <2>2, <2>5
    <3>2. Of(n - 1) = SumFunctionOnSet(c, U) + Total(n - 1)
      <4>1. n - 1 \notin Bad
        BY <2>1, <3>1
      <4> HIDE DEF Of, Total
      <4> QED
        BY <3>1, <4>1
    <3>3. Total(n) = Cost(n)[n] + Total(n - 1)
      BY <1>2, <3>1
    <3>4. Total(n - 1) \in Int
      <4>1. PICK g : g = Cost(n - 1)
        OBVIOUS
      <4>2. IsFiniteSet(1 .. n - 1) /\ \A i \in 1 .. n - 1 : g[i] \in Int
        <5> HIDE DEF Cost
        <5> QED
          BY <1>1, <3>1, <4>1
      <4>3. SumFunctionOnSet(g, 1 .. n - 1) \in Int
        BY <4>2, SumIsInt
      <4> HIDE DEF Cost
      <4> QED
        BY <4>1, <4>3
    <3>5. Of(n) = Cost(n)[n] + Of(n - 1)
      <4>1. CASE n \in St
        <5>1. First(n) = First(n - 1) \cup {q[n]}
          BY <3>1, <4>1 DEF Begun
        <5>2. PICK r : r = U \cup First(n - 1)
          OBVIOUS
        <5>3. r \subseteq J /\ q[n] \in J /\ q[n] \notin r
          <6>1. \A a \in 1 .. n - 1 : a \in 1 .. N /\ a < n
            BY <3>1
          <6> QED
            BY <3>1, <5>2, <6>1 DEF Begun
        <5>4. SumFunctionOnSet(c, r \cup {q[n]}) = c[q[n]] + SumFunctionOnSet(c, r)
          BY <5>3, SumOneMore
        <5>5. Cost(n)[n] = c[q[n]]
          BY <3>1, <4>1 DEF Costs
        <5>6. U \cup First(n) = r \cup {q[n]}
          BY <5>1, <5>2
        <5> HIDE DEF Cost, First
        <5> QED
          BY <5>2, <5>4, <5>5, <5>6
      <4>2. CASE n \notin St
        <5>1. First(n) = First(n - 1)
          BY <3>1, <4>2 DEF Begun
        <5>2. Cost(n)[n] = 0
          BY <3>1, <4>2 DEF Costs
        <5>3. Of(n - 1) \in Int
          <6> HIDE DEF Of, Total
          <6> QED
            BY <2>3, <3>2, <3>4
        <5>4. Of(n) = Of(n - 1)
          BY <5>1
        <5> HIDE DEF Of, Cost
        <5> QED
          BY <5>2, <5>3, <5>4
      <4> QED
        BY <4>1, <4>2
    <3>6. Cost(n)[n] \in Int
      <4> HIDE DEF Cost
      <4> QED
        BY <1>1, <3>1
    <3> HIDE DEF Of, Total, Cost
    <3> QED
      BY <2>2, <2>3, <3>2, <3>3, <3>4, <3>5, <3>6
  <2> QED
    BY <2>4, <2>5
<1> QED
  <2>1. m \in 0 .. N
    OBVIOUS
  <2>2. Of(m) = SumFunctionOnSet(c, U) + Total(m)
    <3> HIDE DEF Of, Total
    <3> QED
      BY <1>3, <2>1
  <2> QED
    BY <2>2

-----------------------------------------------------------------------------
(* The cores of what is started.                                           *)

InUse == {j \in Running : Valid(j)}

SomeStarts == \E j \in Jobs : m_runningJobs[j] = "none"
                                /\ m_runningJobs'[j] = "starting"

\* The cores left are a number.
LEMMA AvailableIsInt ==
    ASSUME IInv, NEW m \in 0 .. Len(m_pendingJobQueue)
    PROVE  MaxNumberOfCores \in Int /\ CoresAvailable(m) \in Int
<1>1. PICK c : c = numberOfCores
  OBVIOUS
<1>2. PICK U : U = InUse
  OBVIOUS
<1>3. PICK f : f = [i \in 1 .. m |-> IF Starts(i)
                                    THEN numberOfCores[m_pendingJobQueue[i]]
                                    ELSE 0]
  OBVIOUS
<1>4. /\ Len(m_pendingJobQueue) \in Nat /\ IsFiniteSet(Jobs)
      /\ \A i \in 1 .. Len(m_pendingJobQueue) : m_pendingJobQueue[i] \in Jobs
      /\ \A j \in Jobs : c[j] \in Int
  BY <1>1, LocalQueueAssumption, QueueOfIds DEF IInv, TypeOK
<1>5. IsFiniteSet(U) /\ \A j \in U : c[j] \in Int
  BY <1>2, <1>4, FS_Subset DEF InUse, Running
<1>6. IsFiniteSet(1 .. m)
  BY <1>4, FS_Interval
<1>7. ASSUME NEW i \in 1 .. m PROVE f[i] \in Int
  <2>1. i \in 1 .. Len(m_pendingJobQueue)
    BY <1>4
  <2>2. f[i] = IF Starts(i) THEN c[m_pendingJobQueue[i]] ELSE 0
    BY <1>1, <1>3
  <2> QED
    BY <1>4, <2>1, <2>2
<1>8. SumFunctionOnSet(c, U) \in Int /\ SumFunctionOnSet(f, 1 .. m) \in Int
  BY <1>5, <1>6, <1>7, SumIsInt
<1>9. MaxNumberOfCores \in Int
  BY LocalQueueAssumption DEF MaxNumberOfCores, IInv, TypeOK, CoreSetting
<1>10. CoresAvailable(m) =
         MaxNumberOfCores - SumFunctionOnSet(c, U) - SumFunctionOnSet(f, 1 .. m)
  BY <1>1, <1>2, <1>3 DEF CoresAvailable, CoresInUse, InUse
<1> QED
  BY <1>8, <1>9, <1>10

\* The loop's count of the cores left is right after every entry.
LEMMA CountIsRight ==
    ASSUME IInv, NEW m \in 0 .. Len(m_pendingJobQueue)
    PROVE  SumFunctionOnSet(numberOfCores,
               InUse \cup {m_pendingJobQueue[i] : i \in {k \in 1 .. m : Starts(k)}})
             = MaxNumberOfCores - CoresAvailable(m)
<1>1. PICK q : q = m_pendingJobQueue
  OBVIOUS
<1>2. PICK c : c = numberOfCores
  OBVIOUS
<1>3. PICK U : U = InUse
  OBVIOUS
<1>4. PICK St : St = {k \in 1 .. Len(q) : Starts(k)}
  OBVIOUS
<1>5. PICK N : N = Len(q)
  OBVIOUS
<1>6. /\ Jobs \subseteq Nat /\ N \in Nat
      /\ \A i \in 1 .. N : q[i] \in Jobs
  BY <1>1, <1>5, QueueOfIds DEF IInv
<1>7. IsFiniteSet(Jobs) /\ \A j \in Jobs : c[j] \in Int
  BY <1>2, LocalQueueAssumption DEF IInv, TypeOK
<1>8. \A a, b \in 1 .. N : a < b => q[a] # q[b]
  <2>1. Ascending(q)
    BY <1>1 DEF IInv, FifoOrder
  <2>2. \A a, b \in 1 .. N : a < b => q[a] < q[b]
    BY <1>5, <2>1 DEF Ascending
  <2>3. \A a \in 1 .. N : q[a] \in Nat
    BY <1>6
  <2> QED
    BY <2>2, <2>3
<1>9. U \in SUBSET Jobs /\ \A a \in 1 .. N : q[a] \notin U
  <2>1. U \in SUBSET Jobs
    BY <1>3 DEF InUse, Running
  <2>2. ASSUME NEW a \in 1 .. N, q[a] \in U PROVE FALSE
    <3>1. q[a] \in Running /\ q[a] \in Nat
      BY <1>3, <1>6, <2>2 DEF InUse
    <3>2. \A x \in Running, i \in 1 .. N : x < q[i]
      BY <1>1, <1>5 DEF IInv, FifoOrder
    <3>3. q[a] < q[a]
      BY <3>1, <3>2
    <3> QED
      BY <3>1, <3>3
  <2> QED
    BY <2>1, <2>2
<1>10. m \in 0 .. N
  BY <1>1, <1>5
<1>11. \A i \in 1 .. m : i \in St <=> Starts(i)
  BY <1>4, <1>5, <1>6, <1>10
<1>12. PICK B : B = {m_pendingJobQueue[i] : i \in {k \in 1 .. m : Starts(k)}}
  OBVIOUS
<1>13. PICK f : f = [i \in 1 .. m |-> IF Starts(i)
                                     THEN numberOfCores[m_pendingJobQueue[i]]
                                     ELSE 0]
  OBVIOUS
<1>14. B = Begun(q, St, m) /\ f = Costs(c, q, St, m)
  BY <1>1, <1>2, <1>11, <1>12, <1>13 DEF Begun, Costs
<1>15. ASSUME NEW i \in 1 .. m
       PROVE  f[i] = (IF i \in St THEN c[q[i]] ELSE 0) /\ f[i] \in Int
  <2>1. f[i] = IF i \in St THEN c[q[i]] ELSE 0
    BY <1>1, <1>2, <1>11, <1>13
  <2>2. q[i] \in Jobs
    BY <1>6, <1>10
  <2> QED
    BY <1>7, <2>1, <2>2
<1>16. SumFunctionOnSet(c, U) \in Int /\ SumFunctionOnSet(f, 1 .. m) \in Int
  <2>1. IsFiniteSet(U) /\ \A j \in U : c[j] \in Int
    BY <1>7, <1>9, FS_Subset
  <2>2. IsFiniteSet(1 .. m)
    BY <1>6, <1>10, FS_Interval
  <2> QED
    BY <1>15, <2>1, <2>2, SumIsInt
<1>17. CoresInUse = SumFunctionOnSet(c, U)
  BY <1>2, <1>3 DEF CoresInUse, InUse
<1>18. CoresAvailable(m) = MaxNumberOfCores - CoresInUse - SumFunctionOnSet(f, 1 .. m)
  BY <1>13 DEF CoresAvailable
<1>19. MaxNumberOfCores \in Int
  BY LocalQueueAssumption DEF MaxNumberOfCores, IInv, TypeOK, CoreSetting
<1>20. SumFunctionOnSet(c, U \cup B) =
         SumFunctionOnSet(c, U) + SumFunctionOnSet(f, 1 .. m)
  <2>1. Waiting(Jobs, c, U, q, N)
    BY <1>6, <1>7, <1>8, <1>9 DEF Waiting
  <2> QED
    BY <1>10, <1>14, <2>1, CostOfStarted
<1>21. MaxNumberOfCores - CoresAvailable(m) =
         SumFunctionOnSet(c, U) + SumFunctionOnSet(f, 1 .. m)
  BY <1>16, <1>17, <1>18, <1>19
<1> QED
  BY <1>2, <1>3, <1>12, <1>20, <1>21

\* Jobs are started only while the cores of the processes whose jobs the
\* program can look up leave enough for them.
LEMMA CheckAffords ==
    ASSUME IInv, CheckJobQueue, SomeStarts
    PROVE  CoresInUse' =< MaxNumberOfCores
<1>1. PICK q : q = m_pendingJobQueue
  OBVIOUS
<1>2. /\ Jobs \subseteq Nat /\ Len(q) \in Nat
      /\ \A i \in 1 .. Len(q) : q[i] \in Jobs
  BY <1>1, QueueOfIds DEF IInv
<1>3. PICK n \in 1 .. Len(q) :
        /\ \A m \in 0 .. n - 1 : ~EndsAfter(m)
        /\ m_runningJobs' =
             [j \in Jobs |->
                IF \E i \in 1 .. n : q[i] = j /\ Starts(i)
                THEN "starting" ELSE m_runningJobs[j]]
  BY <1>1 DEF CheckJobQueue
<1>4. PICK B : B = {i \in 1 .. n : Starts(i)}
  OBVIOUS
<1>5. B # {}
  BY <1>3, <1>4 DEF SomeStarts
\* The last entry that is started.
<1>6. \E k \in B : \A i \in B : i =< k
  <2>1. PICK D : D = {d \in Nat : \E i \in B : d = n - i}
    OBVIOUS
  <2>2. \A i \in B : i \in 1 .. n /\ n \in Nat /\ n - i \in D
    BY <1>2, <1>4, <2>1
  <2>3. D \subseteq Nat /\ D # {}
    BY <1>5, <2>1, <2>2
  <2>4. PICK d \in D : \A e \in D : d =< e
    BY <2>3, LeastNumber
  <2>5. PICK k \in B : d = n - k
    BY <2>1, <2>4
  <2>6. ASSUME NEW i \in B PROVE i =< k
    <3>1. n - k =< n - i
      BY <2>2, <2>4, <2>5
    <3> QED
      BY <2>2, <2>5, <3>1
  <2> QED
    BY <2>5, <2>6
<1>7. PICK k \in B : \A i \in B : i =< k
  BY <1>6
<1>8. /\ k \in 1 .. n /\ k \in 1 .. Len(q) /\ k - 1 \in 0 .. n - 1
      /\ k - 1 \in 0 .. Len(q) /\ k \in 0 .. Len(q)
      /\ k - 1 + 1 = k /\ k - 1 < Len(q)
      /\ Starts(k)
  BY <1>2, <1>4, <1>7
<1>9. numberOfCores[q[k]] =< CoresAvailable(k - 1)
  <2>1. ~EndsAfter(k - 1)
    BY <1>3, <1>8
  <2>2. ~(Valid(q[k - 1 + 1]) /\ numberOfCores[q[k - 1 + 1]] > CoresAvailable(k - 1))
    BY <1>1, <1>8, <2>1 DEF EndsAfter
  <2>3. Valid(q[k])
    BY <1>1, <1>8 DEF Starts
  <2>4. ~(numberOfCores[q[k]] > CoresAvailable(k - 1))
    BY <1>8, <2>2, <2>3
  <2>5. numberOfCores[q[k]] \in Int /\ CoresAvailable(k - 1) \in Int
    <3>1. numberOfCores[q[k]] \in Int
      BY <1>2, <1>8, LocalQueueAssumption DEF IInv, TypeOK
    <3> QED
      BY <3>1, <1>1, <1>8, AvailableIsInt
  <2> QED
    BY <2>4, <2>5
\* The processes there are then, and those there were before that entry.
<1>10. PICK before : before = {q[i] : i \in {j \in 1 .. k - 1 : Starts(j)}}
  OBVIOUS
<1>11. PICK after : after = {q[i] : i \in {j \in 1 .. k : Starts(j)}}
  OBVIOUS
<1>12. after = before \cup {q[k]}
  BY <1>2, <1>8, <1>10, <1>11
<1>13. {j \in Running' : Valid(j)'} = InUse \cup after
  <2>1. \A j \in Jobs : Valid(j)' <=> Valid(j)
    BY DEF CheckJobQueue, Valid, jobVars
  <2>2. \A j : j \in after <=> \E i \in 1 .. n : q[i] = j /\ Starts(i)
    <3>1. \A i \in 1 .. n : Starts(i) => i =< k
      BY <1>4, <1>7
    <3> QED
      BY <1>2, <1>8, <1>11, <3>1
  <2>3. \A j \in after : j \in Jobs /\ Valid(j)
    BY <1>1, <1>2, <1>3, <2>2 DEF Starts
  <2>4. \A j \in Jobs : m_runningJobs'[j] # "none" <=>
                          j \in after \/ m_runningJobs[j] # "none"
    BY <1>3, <2>2
  <2> QED
    BY <2>1, <2>3, <2>4 DEF InUse, Running
<1>14. numberOfCores' = numberOfCores
  BY DEF CheckJobQueue, jobVars
<1>15. SumFunctionOnSet(numberOfCores, InUse \cup after)
         = MaxNumberOfCores - CoresAvailable(k)
  BY <1>1, <1>8, <1>11, CountIsRight
<1>16. SumFunctionOnSet(numberOfCores, InUse \cup before)
         = MaxNumberOfCores - CoresAvailable(k - 1)
  BY <1>1, <1>8, <1>10, CountIsRight
<1>17. SumFunctionOnSet(numberOfCores, InUse \cup after) =
         numberOfCores[q[k]] + SumFunctionOnSet(numberOfCores, InUse \cup before)
  <2>1. PICK c : c = numberOfCores
    OBVIOUS
  <2>2. PICK r : r = InUse \cup before
    OBVIOUS
  <2>3. IsFiniteSet(Jobs) /\ (\A j \in Jobs : c[j] \in Int) /\ q[k] \in Jobs
    BY <1>2, <1>8, <2>1, LocalQueueAssumption DEF IInv, TypeOK
  <2>4. r \subseteq Jobs
    BY <1>2, <1>8, <1>10, <2>2 DEF InUse, Running
  <2>5. q[k] \notin r
    <3>1. ASSUME q[k] \in InUse PROVE FALSE
      <4>1. q[k] \in Running /\ q[k] \in Nat
        BY <1>2, <1>8, <3>1 DEF InUse
      <4>2. \A x \in Running, i \in 1 .. Len(q) : x < q[i]
        BY <1>1 DEF IInv, FifoOrder
      <4>3. q[k] < q[k]
        BY <1>8, <4>1, <4>2
      <4> QED
        BY <4>1, <4>3
    <3>2. ASSUME NEW i \in 1 .. k - 1, q[i] = q[k] PROVE FALSE
      <4>1. i \in 1 .. Len(q) /\ i < k
        BY <1>2, <1>8
      <4>2. \A a, b \in 1 .. Len(q) : a < b => q[a] < q[b]
        BY <1>1 DEF IInv, FifoOrder, Ascending
      <4>3. q[i] < q[k] /\ q[k] \in Nat
        BY <1>2, <1>8, <4>1, <4>2
      <4> QED
        BY <3>2, <4>3
    <3> QED
      BY <1>10, <2>2, <3>1, <3>2
  <2>6. SumFunctionOnSet(c, r \cup {q[k]}) = c[q[k]] + SumFunctionOnSet(c, r)
    BY ONLY <2>3, <2>4, <2>5, SumOneMore
  <2>7. InUse \cup after = r \cup {q[k]}
    BY <1>12, <2>2
  <2> QED
    BY <2>1, <2>2, <2>6, <2>7
<1>18. CoresInUse' = SumFunctionOnSet(numberOfCores, InUse \cup after)
  BY <1>13, <1>14 DEF CoresInUse
<1>19. /\ numberOfCores[q[k]] \in Int /\ MaxNumberOfCores \in Int
       /\ CoresAvailable(k - 1) \in Int
  <2>1. numberOfCores[q[k]] \in Int
    BY <1>2, <1>8, LocalQueueAssumption DEF IInv, TypeOK
  <2> QED
    BY <2>1, <1>1, <1>8, AvailableIsInt
<1> QED
  BY <1>9, <1>16, <1>17, <1>18, <1>19

\* As long as nobody removes a job, every process belongs to one the program
\* can look up.
RunningValid == \A j \in Running : Valid(j)

\* Only removeJob makes a reference to a job with a process invalid.
LEMMA RunningStaysValid ==
    ASSUME IInv, RunningValid, [Next]_vars, "remove" \notin Events
    PROVE  RunningValid'
<1>1. TypeOK
  BY DEF IInv
<1>2. ASSUME NEW j \in Jobs, SubmitJob(j) PROVE RunningValid'
  <2>1. /\ ~Created(j) /\ m_runningJobs' = m_runningJobs
        /\ \E s \in {"QueuedLocal", "Error"} :
              jobState' = [jobState EXCEPT ![j] = s]
    BY <1>2 DEF SubmitJob, NewJob, Created
  <2>2. \A k \in Jobs : Valid(k) => Valid(k)'
    BY <1>1, <2>1 DEF Valid, TypeOK, NotCreated, Removed
  <2> QED
    BY <2>1, <2>2 DEF RunningValid, Running
<1>3. ASSUME NEW j \in Jobs, ProcessStarted(j) PROVE RunningValid'
  <2>1. \A k \in Jobs : Valid(k)' <=> Valid(k)
    BY <1>1, <1>3, SetStateKeeps DEF ProcessStarted, JobState
  <2>2. Running' \subseteq Running
    BY <1>1, <1>3 DEF ProcessStarted, Running, TypeOK
  <2> QED
    BY <2>1, <2>2 DEF RunningValid, Running
<1>4. ASSUME NEW j \in Jobs, NEW s \in JobState, SetState(j, s),
             m_runningJobs' = Taken(j) \/ m_runningJobs' = m_runningJobs
      PROVE  RunningValid'
  <2>1. \A k \in Jobs : Valid(k)' <=> Valid(k)
    BY <1>1, <1>4, SetStateKeeps
  <2>2. Running' \subseteq Running
    BY <1>1, <1>4, TakenProperties DEF Running
  <2> QED
    BY <2>1, <2>2 DEF RunningValid, Running
<1>5. ASSUME NEW j \in Jobs, ProcessFinished(j) \/ ProcessError(j) \/ KillJob(j)
      PROVE  RunningValid'
  BY <1>4, <1>5 DEF ProcessFinished, ProcessError, KillJob, JobState
<1>6. ASSUME CheckJobQueue PROVE RunningValid'
  <2>1. \A k \in Jobs : Valid(k)' <=> Valid(k)
    BY <1>6 DEF CheckJobQueue, jobVars, Valid
  <2>2. ASSUME NEW k \in Running' PROVE k \in Jobs /\ Valid(k)
    <3>1. PICK n \in 1 .. Len(m_pendingJobQueue) :
            m_runningJobs' =
              [j \in Jobs |->
                 IF \E i \in 1 .. n : m_pendingJobQueue[i] = j /\ Starts(i)
                 THEN "starting" ELSE m_runningJobs[j]]
      BY <1>6 DEF CheckJobQueue
    <3> QED
      BY <2>2, <3>1 DEF Running, RunningValid, Starts
  <2> QED
    BY <2>1, <2>2 DEF RunningValid
<1>7. ASSUME NEW s, NEW f, Load(s, f) PROVE RunningValid'
  BY <1>7 DEF Load, Running, RunningValid
<1>8. ASSUME UNCHANGED <<jobState, m_runningJobs>> PROVE RunningValid'
  BY <1>8 DEF Running, RunningValid, Valid
<1>9. CASE ExitAndRestart \/ CrashAndRestart
  BY <1>7, <1>9 DEF ExitAndRestart, CrashAndRestart
<1>10. ASSUME NEW j \in Jobs,
              OpenKillDialog(j) \/ CancelJob(j) \/ RemoveJob(j)
       PROVE  RunningValid'
  BY <1>5, <1>8, <1>10
  DEF OpenKillDialog, CancelJob, RemoveJob, jobVars, queueVars
<1>11. CASE AnswerKillDialog
  <2>1. CASE Valid(dialog) /\ KillJob(dialog)
    <3>1. dialog \in Jobs
      BY <1>1, <1>11 DEF AnswerKillDialog, TypeOK
    <3> QED
      BY <1>5, <2>1, <3>1
  <2>2. CASE UNCHANGED <<jobVars, queueVars, m_cores, hasProgram, fileVars>>
    BY <1>8, <2>2 DEF jobVars, queueVars
  <2> QED
    BY <1>11, <2>1, <2>2 DEF AnswerKillDialog
<1>12. CASE SetCores \/ ChangeProgram \/ SyncTimer \/ UNCHANGED vars
  BY <1>8, <1>12
  DEF SetCores, ChangeProgram, SyncTimer, vars, jobVars, queueVars
<1> QED
  BY <1>2, <1>3, <1>5, <1>6, <1>9, <1>10, <1>11, <1>12 DEF Next

\* Only checkJobQueue starts processes.
LEMMA OnlyCheckStarts ==
    ASSUME IInv, [Next]_vars, SomeStarts
    PROVE  CheckJobQueue
<1>1. PICK j \in Jobs : m_runningJobs[j] = "none" /\ m_runningJobs'[j] = "starting"
  BY DEF SomeStarts
<1>2. m_runningJobs' # m_runningJobs
  BY <1>1
<1>3. \A k \in Jobs : m_runningJobs' # Taken(k)
  <2>1. ASSUME NEW k \in Jobs, m_runningJobs' = Taken(k) PROVE FALSE
    <3>1. \A i \in Jobs \ {k} : m_runningJobs'[i] = m_runningJobs[i]
      BY <2>1, TakenProperties DEF IInv
    <3>2. m_runningJobs'[k] = "none"
      BY <2>1, TakenProperties DEF IInv
    <3> QED
      BY <1>1, <3>1, <3>2
  <2> QED
    BY <2>1
<1>4. \A k \in Jobs : ~ProcessStarted(k)
  BY <1>1 DEF ProcessStarted, IInv, TypeOK
<1>5. ~ExitAndRestart /\ ~CrashAndRestart
  BY <1>1 DEF ExitAndRestart, CrashAndRestart, Load
<1>6. ~AnswerKillDialog
  <2>1. ASSUME AnswerKillDialog, KillJob(dialog) PROVE FALSE
    <3>1. dialog \in Jobs
      BY <2>1 DEF AnswerKillDialog, IInv, TypeOK
    <3> QED
      BY <1>2, <1>3, <2>1, <3>1 DEF KillJob
  <2> QED
    BY <1>2, <2>1 DEF AnswerKillDialog, queueVars
<1>7. \A k \in Jobs : /\ ~SubmitJob(k) /\ ~ProcessFinished(k) /\ ~ProcessError(k)
                      /\ ~CancelJob(k) /\ ~OpenKillDialog(k) /\ ~RemoveJob(k)
  BY <1>2, <1>3
  DEF SubmitJob, ProcessFinished, ProcessError, CancelJob, KillJob,
      OpenKillDialog, RemoveJob, queueVars
<1>8. ~SetCores /\ ~ChangeProgram /\ ~SyncTimer /\ vars' # vars
  BY <1>2 DEF SetCores, ChangeProgram, SyncTimer, vars, queueVars
<1> QED
  BY <1>4, <1>5, <1>6, <1>7, <1>8 DEF Next

\* Whatever happens, a job is started only when the processes whose jobs the
\* program can look up, its own among them, use no more cores than there are.
\* (local.cpp 297-330)
THEOREM CoresCounted ==
    Spec => [][SomeStarts => CoresInUse' =< MaxNumberOfCores]_vars
<1>1. IInv /\ [Next]_vars =>
        [SomeStarts => CoresInUse' =< MaxNumberOfCores]_vars
  BY OnlyCheckStarts, CheckAffords
<1> QED
  BY <1>1, Inductive, PTL DEF Spec

\* Where nobody removes a job, a job is started only when the processes of
\* the queue, its own among them, use no more cores than there are: for any
\* number of jobs, whatever they ask for, whatever limit users set, and over
\* crashes and restarts.  (local.cpp 297-330)
THEOREM StartsSafe ==
    ASSUME "remove" \notin Events
    PROVE  Spec => StartsAffordable
<1>1. Init => RunningValid
  BY DEF Init, RunningValid, Running
<1>2. IInv /\ RunningValid /\ [Next]_vars => RunningValid'
  BY RunningStaysValid
<1>3. IInv /\ RunningValid /\ [Next]_vars =>
        [(\E j \in Jobs : m_runningJobs[j] = "none"
                            /\ m_runningJobs'[j] = "starting") =>
           SumFunctionOnSet(numberOfCores, Running') =< MaxNumberOfCores]_vars
  <2>1. SUFFICES ASSUME IInv, RunningValid, [Next]_vars, SomeStarts
                 PROVE  SumFunctionOnSet(numberOfCores, Running')
                          =< MaxNumberOfCores
    BY DEF SomeStarts
  <2>2. CheckJobQueue /\ RunningValid'
    BY <2>1, OnlyCheckStarts, RunningStaysValid
  <2>3. CoresInUse' =< MaxNumberOfCores
    BY <2>1, <2>2, CheckAffords
  <2>4. {j \in Running' : Valid(j)'} = Running'
    BY <2>2 DEF RunningValid
  <2>5. numberOfCores' = numberOfCores
    BY <2>2 DEF CheckJobQueue, jobVars
  <2>6. CoresInUse' = SumFunctionOnSet(numberOfCores, Running')
    BY <2>4, <2>5 DEF CoresInUse
  <2> QED
    BY <2>3, <2>6
<1> QED
  BY <1>1, <1>2, <1>3, Inductive, PTL DEF Spec, StartsAffordable
==============================================================================
