-------------------------- MODULE RemoteQueueProofs --------------------------
(***************************************************************************)
(* The safety of RemoteQueue for any number of jobs, any scheduler ids and *)
(* any admitted events, that it implements JobLifecycle, and what follows  *)
(* from the stages a job passes through: it is not started too often, a    *)
(* finished one is not taken up again and has left the scheduler, and none *)
(* is dropped without a final state.                                       *)
(*                                                                         *)
(* SingleStage alone is not inductive: that a job which enters m_jobs was  *)
(* not there already takes IndexConsistent, and the counters take their    *)
(* types.  The four together are IInv.                                     *)
(*                                                                         *)
(* A step concerns few jobs.  The others are Untouched, which keeps them   *)
(* at one stage; a job the step concerns ends with one connection, in the  *)
(* pending list or in m_jobs (OneConnection, OnlyPending, OnlyTracked).    *)
(* Preservation and HandlerStep turn that into IInv', so that the lemma of *)
(* an action only says where its job ends.                                 *)
(*                                                                         *)
(* For the lifecycle, StageTable reads off at which stage a job is.  A job *)
(* that a step does not concern is Framed and keeps its stage, or is let   *)
(* go; for the job it concerns the lemma of the action names the stage     *)
(* before and after.                                                       *)
(***************************************************************************)
EXTENDS RemoteQueue, FiniteSetTheorems, TLAPS

IInv == TypeOK /\ IndexConsistent /\ SingleStage /\ TrackedIsActive

Table == [Ops -> [Jobs -> Nat]]

LEMMA FinishTable ==
    ASSUME conns \in Table, NEW op \in Ops, NEW j \in Jobs, conns[op][j] > 0
    PROVE  /\ Finish(op, j) \in Table
           /\ \A o \in Ops, k \in Jobs : Finish(op, j)[o][k] =
                 IF o = op /\ k = j THEN conns[o][k] - 1 ELSE conns[o][k]
BY DEF Finish, Table

LEMMA StartTable ==
    ASSUME NEW c \in Table, NEW op \in Ops, NEW j \in Jobs,
           conns' = [c EXCEPT ![op][j] = @ + 1]
    PROVE  /\ conns' \in Table
           /\ \A o \in Ops, k \in Jobs : conns'[o][k] =
                 IF o = op /\ k = j THEN c[o][k] + 1 ELSE c[o][k]
BY DEF Table

ClusterTable == [SchedulerIds -> [job : Jobs \cup {NoJob},
                                  st : {"free", "queued", "running", "gone"}]]

\* A job nothing happens to, except that its reference in m_jobs may go.
Untouched(k) ==
    /\ m_pendingSubmission'[k] = m_pendingSubmission[k]
    /\ \A op \in Ops : conns'[op][k] = conns[op][k]
    /\ IsTracked(k)' => IsTracked(k)

\* A connection in flight is all there is to its job.
LEMMA ConnectionAlone ==
    ASSUME IInv, NEW op \in Ops, NEW j \in Jobs, conns[op][j] > 0
    PROVE  /\ conns[op][j] = 1
           /\ \A o \in Ops \ {op} : conns[o][j] = 0
           /\ m_pendingSubmission[j] = 0
           /\ ~IsTracked(j)
           /\ jobState[j] # NotCreated
<1>1. op \in Activities(j) /\ op # "pending" /\ op # "tracked"
  BY DEF Activities, Ops
<1>2. \A a \in Activities(j) : a = op
  BY <1>1 DEF IInv, SingleStage, AtOneStage
<1>3. \A o \in Ops : conns[o][j] \in Nat /\ conns[o][j] =< 1
  BY DEF IInv, TypeOK, SingleStage, AtOneStage
<1>4. m_pendingSubmission[j] \in Nat
  BY DEF IInv, TypeOK
<1>5. \A o \in Ops \ {op} : ~(conns[o][j] > 0)
  BY <1>2 DEF Activities
<1>6. ~(m_pendingSubmission[j] > 0) /\ ~IsTracked(j)
  BY <1>1, <1>2 DEF Activities
<1>7. jobState[j] # NotCreated
  BY <1>1 DEF IInv, SingleStage, AtOneStage
<1> QED BY <1>3, <1>4, <1>5, <1>6, <1>7

\* So is a place in the pending list.
LEMMA PendingAlone ==
    ASSUME IInv, NEW j \in Jobs, m_pendingSubmission[j] > 0
    PROVE  /\ m_pendingSubmission[j] = 1
           /\ \A o \in Ops : conns[o][j] = 0
           /\ ~IsTracked(j)
           /\ jobState[j] # NotCreated
<1>1. "pending" \in Activities(j)
  BY DEF Activities
<1>2. \A a \in Activities(j) : a = "pending"
  BY <1>1 DEF IInv, SingleStage, AtOneStage
<1>3. \A o \in Ops : conns[o][j] \in Nat
  BY DEF IInv, TypeOK
<1>4. m_pendingSubmission[j] \in Nat /\ m_pendingSubmission[j] =< 1
  BY DEF IInv, TypeOK, SingleStage, AtOneStage
<1>5. \A o \in Ops : ~(conns[o][j] > 0)
  BY <1>2 DEF Activities, Ops
<1>6. ~IsTracked(j)
  BY <1>2 DEF Activities
<1>7. jobState[j] # NotCreated
  BY <1>1 DEF IInv, SingleStage, AtOneStage
<1> QED BY <1>3, <1>4, <1>5, <1>6, <1>7

\* And so is a reference in m_jobs.
LEMMA TrackedAlone ==
    ASSUME IInv, NEW j \in Jobs, IsTracked(j)
    PROVE  /\ m_pendingSubmission[j] = 0
           /\ \A o \in Ops : conns[o][j] = 0
           /\ jobState[j] # NotCreated
<1>1. "tracked" \in Activities(j)
  BY DEF Activities
<1>2. \A a \in Activities(j) : a = "tracked"
  BY <1>1 DEF IInv, SingleStage, AtOneStage
<1>3. \A o \in Ops : conns[o][j] \in Nat
  BY DEF IInv, TypeOK
<1>4. m_pendingSubmission[j] \in Nat
  BY DEF IInv, TypeOK
<1>5. \A o \in Ops : ~(conns[o][j] > 0)
  BY <1>2 DEF Activities, Ops
<1>6. ~(m_pendingSubmission[j] > 0)
  BY <1>2 DEF Activities
<1>7. jobState[j] # NotCreated
  BY <1>1 DEF IInv, SingleStage, AtOneStage
<1> QED BY <1>3, <1>4, <1>5, <1>6, <1>7

\* The three ways to be at one stage after a step.
LEMMA OneConnection ==
    ASSUME TypeOK', NEW j \in Jobs, NEW op \in Ops, conns'[op][j] =< 1,
           \A o \in Ops \ {op} : conns'[o][j] = 0,
           m_pendingSubmission'[j] = 0, ~IsTracked(j)', jobState'[j] # NotCreated
    PROVE  AtOneStage(j)'
<1>1. \A a \in Activities(j)' : a = op
  BY DEF Activities
<1> QED BY <1>1 DEF AtOneStage

LEMMA OnlyPending ==
    ASSUME TypeOK', NEW j \in Jobs, m_pendingSubmission'[j] =< 1,
           \A o \in Ops : conns'[o][j] = 0,
           ~IsTracked(j)', jobState'[j] # NotCreated
    PROVE  AtOneStage(j)'
<1>1. \A a \in Activities(j)' : a = "pending"
  BY DEF Activities
<1> QED BY <1>1 DEF AtOneStage

LEMMA OnlyTracked ==
    ASSUME TypeOK', NEW j \in Jobs, m_pendingSubmission'[j] = 0,
           \A o \in Ops : conns'[o][j] = 0, jobState'[j] # NotCreated
    PROVE  AtOneStage(j)'
<1>1. \A a \in Activities(j)' : a = "tracked"
  BY DEF Activities
<1> QED BY <1>1 DEF AtOneStage

LEMMA UntouchedStage ==
    ASSUME IInv, NEW k \in Jobs, Untouched(k),
           jobState'[k] = NotCreated => jobState[k] = NotCreated
    PROVE  AtOneStage(k)'
<1>1. Activities(k)' \subseteq Activities(k)
  BY DEF Activities, Untouched
<1>2. AtOneStage(k)
  BY DEF IInv, SingleStage
<1>3. /\ \A a, b \in Activities(k)' : a = b
      /\ jobState'[k] = NotCreated => Activities(k)' = {}
  BY <1>1, <1>2 DEF AtOneStage
<1> QED BY <1>2, <1>3 DEF AtOneStage, Untouched

\* The steps below neither create a job nor give one a new id.  They preserve
\* the invariant when every job is untouched or at one stage, and no tracked
\* job's state is touched.
LEMMA Preservation ==
    ASSUME IInv, TypeOK', queueId' = queueId,
           \A k \in Jobs : jobState'[k] # jobState[k] =>
              Valid(k) /\ jobState'[k] # NotCreated,
           \A q \in QueueIds : m_jobs'[q] # NoJob =>
              m_jobs'[q] = m_jobs[q] /\ jobState'[m_jobs[q]] # Removed,
           \A k \in Jobs : IsTracked(k)' =>
              jobState'[k] \in {jobState[k]} \cup LineStates,
           \A k \in Jobs : Untouched(k) \/ AtOneStage(k)'
    PROVE  IInv'
<1> USE RemoteQueueAssumption DEF RemoteQueueAssumption
<1>1. IndexConsistent'
  BY DEF IInv, TypeOK, IndexConsistent, Valid, NotCreated, Removed
<1>2. SingleStage'
  BY UntouchedStage DEF SingleStage
<1>3. TrackedIsActive'
  <2> SUFFICES ASSUME NEW k \in Jobs, IsTracked(k)'
               PROVE  jobState'[k] \in {"Submitted"} \cup LineStates
    BY DEF TrackedIsActive
  <2>1. IsTracked(k)
    BY DEF IInv, TypeOK, IsTracked
  <2> QED BY <2>1 DEF IInv, TrackedIsActive
<1> QED BY <1>1, <1>2, <1>3 DEF IInv

LEMMA SetStateFacts ==
    ASSUME TypeOK, NEW j \in Jobs, NEW s \in JobState, SetState(j, s)
    PROVE  /\ jobState' \in [Jobs -> JobState \cup {NotCreated, Removed}]
           /\ \A k \in Jobs : jobState'[k] # jobState[k] =>
                 k = j /\ Valid(k) /\ jobState'[k] = s
<1>1. CASE Valid(j)
  <2>1. jobState' = [jobState EXCEPT ![j] = s]
    BY <1>1 DEF SetState
  <2> QED BY <1>1, <2>1 DEF TypeOK
<1>2. CASE ~Valid(j)
  BY <1>2 DEF SetState, TypeOK
<1> QED BY <1>1, <1>2

\* A step that ends, hands on or starts a connection of j or puts j on the
\* pending list, and shows the outcome in j's state.
LEMMA HandlerStep ==
    ASSUME IInv, TypeOK', NEW j \in Jobs, ~IsTracked(j)', queueId' = queueId,
           \A q \in QueueIds : m_jobs'[q] \in {m_jobs[q], NoJob},
           \A k \in Jobs : jobState'[k] # jobState[k] =>
              k = j /\ Valid(k) /\ jobState'[k] \in JobState,
           \A k \in Jobs : Untouched(k) \/ AtOneStage(k)'
    PROVE  IInv'
<1> USE RemoteQueueAssumption DEF RemoteQueueAssumption
<1>1. \A s \in JobState : s # NotCreated /\ s # Removed
  BY DEF JobState, NotCreated, Removed
<1>2. \A q \in QueueIds : m_jobs'[q] # NoJob =>
        m_jobs'[q] = m_jobs[q] /\ jobState'[m_jobs[q]] # Removed
  <2> SUFFICES ASSUME NEW q \in QueueIds, m_jobs'[q] = m_jobs[q],
                      m_jobs[q] # NoJob
               PROVE  jobState'[m_jobs[q]] # Removed
    OBVIOUS
  <2>1. m_jobs[q] \in Jobs /\ Valid(m_jobs[q])
    BY DEF IInv, TypeOK, IndexConsistent
  <2> QED BY <1>1, <2>1 DEF Valid
<1>3. \A k \in Jobs : IsTracked(k)' =>
        jobState'[k] \in {jobState[k]} \cup LineStates
  OBVIOUS
<1>4. \A k \in Jobs : jobState'[k] # jobState[k] =>
        Valid(k) /\ jobState'[k] # NotCreated
  BY <1>1
<1> QED BY <1>2, <1>3, <1>4, Preservation

-----------------------------------------------------------------------------
(* The initial state and the step that brings a job in.                    *)

LEMMA InitIInv == Init => IInv
<1> SUFFICES ASSUME Init PROVE IInv
  OBVIOUS
<1> USE RemoteQueueAssumption DEF RemoteQueueAssumption
<1>1. TypeOK
  <2>1. /\ jobState \in [Jobs -> JobState \cup {NotCreated, Removed}]
        /\ queueId \in [Jobs -> QueueIds \cup {InvalidId}]
        /\ m_pendingSubmission \in [Jobs -> Nat]
        /\ m_failureTracker \in [Jobs -> 0 .. MaxRetries]
        /\ m_jobs \in [QueueIds -> Jobs \cup {NoJob}]
        /\ conns \in [Ops -> [Jobs -> Nat]]
    BY DEF Init, MaxRetries
  <2>2. cluster \in ClusterTable
    BY DEF Init, FreeSlot, ClusterTable
  <2> QED BY <2>1, <2>2 DEF Init, TypeOK, ClusterTable
<1>2. IndexConsistent
  BY DEF Init, IndexConsistent
<1>3. \A j \in Jobs : Activities(j) = {}
  BY DEF Init, Activities, IsTracked
<1>4. SingleStage
  BY <1>3 DEF Init, SingleStage, AtOneStage
<1>5. TrackedIsActive
  BY DEF Init, TrackedIsActive, IsTracked
<1> QED BY <1>1, <1>2, <1>4, <1>5 DEF IInv

LEMMA SubmitJobIInv ==
    ASSUME IInv, NEW j \in Jobs, SubmitJob(j)
    PROVE  IInv'
<1> USE RemoteQueueAssumption DEF RemoteQueueAssumption
<1>1. PICK id \in ClientIds : queueId' = [queueId EXCEPT ![j] = id]
  BY DEF SubmitJob, NewJob
<1>2. /\ jobState[j] = NotCreated
      /\ jobState' = [jobState EXCEPT ![j] = "Accepted"]
      /\ m_pendingSubmission' = [m_pendingSubmission EXCEPT ![j] = @ + 1]
      /\ UNCHANGED <<m_failureTracker, m_jobs, m_isCheckingQueue, sshVars,
                     envVars>>
  BY DEF SubmitJob, NewJob
<1>3. TypeOK'
  <2>1. /\ jobState' \in [Jobs -> JobState \cup {NotCreated, Removed}]
        /\ queueId' \in [Jobs -> QueueIds \cup {InvalidId}]
        /\ m_pendingSubmission' \in [Jobs -> Nat]
    BY <1>1, <1>2 DEF IInv, TypeOK, JobState
  <2> QED BY <2>1, <1>2 DEF IInv, TypeOK, sshVars, envVars
<1>4. IndexConsistent'
  BY <1>1, <1>2 DEF IInv, TypeOK, IndexConsistent, Valid, NotCreated, Removed
<1>5. ~IsTracked(j)'
  BY <1>2 DEF IInv, TypeOK, IndexConsistent, IsTracked, Valid
<1>6. Activities(j) = {}
  BY <1>2 DEF IInv, SingleStage, AtOneStage
<1>7. \A o \in Ops : conns[o][j] = 0 /\ conns'[o][j] = 0
  BY <1>2, <1>6 DEF IInv, TypeOK, Activities, sshVars
<1>8. m_pendingSubmission[j] = 0
  BY <1>6 DEF IInv, TypeOK, Activities
<1>9. m_pendingSubmission'[j] =< 1 /\ jobState'[j] # NotCreated
  BY <1>2, <1>8 DEF IInv, TypeOK, NotCreated
<1>10. SingleStage'
  <2> SUFFICES ASSUME NEW k \in Jobs PROVE AtOneStage(k)'
    BY DEF SingleStage
  <2>1. CASE k = j
    BY <2>1, <1>3, <1>5, <1>7, <1>9, OnlyPending
  <2>2. CASE k # j
    <3>1. Untouched(k)
      BY <2>2, <1>1, <1>2 DEF IInv, TypeOK, Untouched, IsTracked, sshVars
    <3>2. jobState'[k] = jobState[k]
      BY <2>2, <1>2 DEF IInv, TypeOK
    <3> QED BY <3>1, <3>2, UntouchedStage
  <2> QED BY <2>1, <2>2
<1>11. TrackedIsActive'
  <2> SUFFICES ASSUME NEW k \in Jobs, IsTracked(k)'
               PROVE  jobState'[k] \in {"Submitted"} \cup LineStates
    BY DEF TrackedIsActive
  <2>1. k # j
    BY <1>5
  <2>2. IsTracked(k) /\ jobState'[k] = jobState[k]
    BY <2>1, <1>1, <1>2 DEF IInv, TypeOK, IsTracked
  <2> QED BY <2>2 DEF IInv, TrackedIsActive
<1> QED BY <1>3, <1>4, <1>10, <1>11 DEF IInv

-----------------------------------------------------------------------------
(* The completions of the submission slots.                                *)

\* What every completion leaves alone or in its type.
Surroundings ==
    /\ UNCHANGED <<asked, hostNameSet, dialog>>
    /\ remoteDir' \in BOOLEAN
    /\ cluster' \in ClusterTable

\* The step that only ends a connection leaves every other job untouched.
LEMMA FinishStage ==
    ASSUME IInv, TypeOK', NEW op \in Ops, NEW j \in Jobs, conns[op][j] > 0,
           conns' = Finish(op, j), UNCHANGED <<queueId, m_jobs>>,
           \A k \in Jobs \ {j} : m_pendingSubmission'[k] = m_pendingSubmission[k]
    PROVE  /\ \A o \in Ops : conns'[o][j] = 0
           /\ ~IsTracked(j)'
           /\ \A k \in Jobs \ {j} : Untouched(k)
<1>1. /\ conns[op][j] = 1
      /\ \A o \in Ops \ {op} : conns[o][j] = 0
      /\ ~IsTracked(j)
  BY ConnectionAlone
<1>2. conns \in Table
  BY DEF IInv, TypeOK, Table
<1>3. \A o \in Ops, k \in Jobs : Finish(op, j)[o][k] =
        IF o = op /\ k = j THEN conns[o][k] - 1 ELSE conns[o][k]
  BY <1>2, FinishTable
<1>4. \A o \in Ops : conns'[o][j] = 0
  BY <1>1, <1>3
<1>5. \A k \in Jobs : IsTracked(k)' <=> IsTracked(k)
  BY DEF IsTracked
<1>6. \A k \in Jobs \ {j} : \A o \in Ops : conns'[o][k] = conns[o][k]
  BY <1>3
<1>7. \A k \in Jobs \ {j} : Untouched(k)
  BY <1>5, <1>6 DEF Untouched
<1> QED BY <1>1, <1>4, <1>5, <1>7

LEMMA RetryStep ==
    ASSUME IInv, NEW op \in Ops, NEW j \in Jobs, conns[op][j] > 0,
           RetrySubmission(op, j), Surroundings
    PROVE  IInv'
<1>1. /\ conns \in Table
      /\ jobState[j] # NotCreated
      /\ m_pendingSubmission[j] = 0
  BY ConnectionAlone DEF IInv, TypeOK, Table
<1>2. conns' = Finish(op, j) /\ conns' \in Table
  BY <1>1, FinishTable DEF RetrySubmission
<1>3. /\ jobState' \in [Jobs -> JobState \cup {NotCreated, Removed}]
      /\ \A k \in Jobs : jobState'[k] # jobState[k] =>
            k = j /\ Valid(k) /\ jobState'[k] = "Error"
  BY SetStateFacts DEF IInv, RetrySubmission, JobState
<1>4. TypeOK'
  <2>1. m_failureTracker' \in [Jobs -> 0 .. MaxRetries]
    BY DEF IInv, TypeOK, RetrySubmission, AddJobFailure, MayRetry, MaxRetries
  <2>2. m_pendingSubmission' \in [Jobs -> Nat]
    BY DEF IInv, TypeOK, RetrySubmission
  <2> QED BY <1>2, <1>3, <2>1, <2>2
          DEF IInv, TypeOK, Table, ClusterTable, Surroundings, RetrySubmission
<1>5. UNCHANGED <<queueId, m_jobs>>
  BY DEF RetrySubmission
<1>6. \A k \in Jobs \ {j} : m_pendingSubmission'[k] = m_pendingSubmission[k]
  BY DEF IInv, TypeOK, RetrySubmission
<1>7. m_pendingSubmission'[j] =< 1
  BY <1>1 DEF IInv, TypeOK, RetrySubmission
<1>8. /\ \A o \in Ops : conns'[o][j] = 0
      /\ ~IsTracked(j)'
      /\ \A k \in Jobs \ {j} : Untouched(k)
  BY <1>2, <1>4, <1>5, <1>6, FinishStage
<1>9. jobState'[j] # NotCreated
  BY <1>1, <1>3 DEF NotCreated
<1>10. AtOneStage(j)'
  BY <1>4, <1>7, <1>8, <1>9, OnlyPending
<1> QED BY <1>3, <1>4, <1>5, <1>8, <1>10, HandlerStep DEF JobState

LEMMA IgnoreStep ==
    ASSUME IInv, NEW op \in Ops, NEW j \in Jobs, conns[op][j] > 0,
           IgnoreCompletion(op, j), Surroundings
    PROVE  IInv'
<1>1. /\ conns \in Table
      /\ jobState[j] # NotCreated
      /\ m_pendingSubmission[j] = 0
  BY ConnectionAlone DEF IInv, TypeOK, Table
<1>2. conns' = Finish(op, j) /\ conns' \in Table
  BY <1>1, FinishTable DEF IgnoreCompletion
<1>3. UNCHANGED <<jobVars, queueVars>>
  BY DEF IgnoreCompletion
<1>4. TypeOK'
  BY <1>2, <1>3
     DEF IInv, TypeOK, Table, ClusterTable, Surroundings, jobVars, queueVars
<1>5. /\ \A o \in Ops : conns'[o][j] = 0
      /\ ~IsTracked(j)'
      /\ \A k \in Jobs \ {j} : Untouched(k)
  BY <1>2, <1>3, <1>4, FinishStage DEF jobVars, queueVars
<1>6. AtOneStage(j)'
  BY <1>1, <1>3, <1>4, <1>5, OnlyPending DEF jobVars, queueVars
<1> QED BY <1>3, <1>4, <1>5, <1>6, HandlerStep DEF jobVars, queueVars

LEMMA ContinueStep ==
    ASSUME IInv, NEW from \in Ops, NEW op \in Ops \ {from}, NEW j \in Jobs,
           conns[from][j] > 0, Valid(j), Continue(from, op, j),
           UNCHANGED <<queueId, queueVars>>, Surroundings
    PROVE  IInv'
<1>1. /\ conns \in Table
      /\ conns[from][j] = 1
      /\ \A o \in Ops \ {from} : conns[o][j] = 0
      /\ jobState[j] # NotCreated
      /\ m_pendingSubmission[j] = 0
      /\ ~IsTracked(j)
  BY ConnectionAlone DEF IInv, TypeOK, Table
<1>2. /\ Finish(from, j) \in Table
      /\ \A o \in Ops, k \in Jobs : Finish(from, j)[o][k] =
            IF o = from /\ k = j THEN conns[o][k] - 1 ELSE conns[o][k]
  BY <1>1, FinishTable
<1>3. CASE hostNameSet
  <2>1. /\ conns' = [Finish(from, j) EXCEPT ![op][j] = @ + 1]
        /\ UNCHANGED jobState
    BY <1>3 DEF Continue
  <2>2. /\ conns' \in Table
        /\ \A o \in Ops, k \in Jobs : conns'[o][k] =
              IF o = op /\ k = j THEN Finish(from, j)[o][k] + 1
              ELSE Finish(from, j)[o][k]
    <3> DEFINE c == Finish(from, j)
    <3>1. c \in Table /\ op \in Ops
      BY <1>2
    <3>2. conns' = [c EXCEPT ![op][j] = @ + 1]
      BY <2>1
    <3> HIDE DEF c
    <3>3. /\ conns' \in Table
          /\ \A o \in Ops, k \in Jobs : conns'[o][k] =
                IF o = op /\ k = j THEN c[o][k] + 1 ELSE c[o][k]
      BY <3>1, <3>2 DEF Table
    <3> QED BY <3>3 DEF c
  <2>3. TypeOK'
    BY <2>1, <2>2 DEF IInv, TypeOK, Table, ClusterTable, Surroundings, queueVars
  <2>4. conns'[op][j] =< 1 /\ \A o \in Ops \ {op} : conns'[o][j] = 0
    BY <1>1, <1>2, <2>2
  <2>5. AtOneStage(j)'
    <3>1. ~IsTracked(j)' /\ m_pendingSubmission'[j] = 0
      BY <1>1 DEF IsTracked, queueVars
    <3> QED BY <1>1, <2>1, <2>3, <2>4, <3>1, OneConnection
  <2>6. \A k \in Jobs \ {j} : Untouched(k)
    <3> SUFFICES ASSUME NEW k \in Jobs \ {j} PROVE Untouched(k)
      OBVIOUS
    <3>1. \A o \in Ops : conns'[o][k] = conns[o][k]
      BY <1>2, <2>2
    <3> QED BY <3>1 DEF Untouched, IsTracked, queueVars
  <2>7. ~IsTracked(j)'
    BY <1>1 DEF IsTracked, queueVars
  <2> QED BY <2>1, <2>3, <2>5, <2>6, <2>7, HandlerStep DEF queueVars
<1>4. CASE ~hostNameSet
  <2>1. conns' = Finish(from, j) /\ SetState(j, "Error")
    BY <1>4 DEF Continue
  <2>2. /\ jobState' \in [Jobs -> JobState \cup {NotCreated, Removed}]
        /\ \A k \in Jobs : jobState'[k] # jobState[k] =>
              k = j /\ Valid(k) /\ jobState'[k] = "Error"
    BY <2>1, SetStateFacts DEF IInv, JobState
  <2>3. TypeOK'
    BY <1>2, <2>1, <2>2
       DEF IInv, TypeOK, Table, ClusterTable, Surroundings, queueVars
  <2>4. /\ \A o \in Ops : conns'[o][j] = 0
        /\ ~IsTracked(j)'
        /\ \A k \in Jobs \ {j} : Untouched(k)
    BY <2>1, <2>3, FinishStage DEF queueVars
  <2>5. jobState'[j] # NotCreated
    BY <1>1, <2>2 DEF NotCreated
  <2>6. AtOneStage(j)'
    BY <1>1, <2>3, <2>4, <2>5, OnlyPending DEF queueVars
  <2> QED BY <2>2, <2>3, <2>4, <2>6, HandlerStep DEF JobState, queueVars
<1> QED BY <1>3, <1>4

LEMMA RemoteDirectoryCreatedIInv ==
    ASSUME IInv, NEW j \in Jobs, RemoteDirectoryCreated(j)
    PROVE  IInv'
<1>1. conns["mkdir"][j] > 0 /\ "mkdir" \in Ops /\ "copyIn" \in Ops \ {"mkdir"}
  BY DEF RemoteDirectoryCreated, Ops
<1>2. Surroundings
  BY DEF RemoteDirectoryCreated, Surroundings, IInv, TypeOK, ClusterTable
<1>3. CASE RetrySubmission("mkdir", j)
  BY <1>1, <1>2, <1>3, RetryStep
<1>4. CASE Valid(j) /\ CopyInputFilesToHost(j) /\ UNCHANGED <<queueId, queueVars>>
  BY <1>1, <1>2, <1>4, ContinueStep DEF CopyInputFilesToHost
<1>5. CASE IgnoreCompletion("mkdir", j)
  BY <1>1, <1>2, <1>5, IgnoreStep
<1> QED BY <1>3, <1>4, <1>5 DEF RemoteDirectoryCreated

LEMMA InputFilesCopiedIInv ==
    ASSUME IInv, NEW j \in Jobs, InputFilesCopied(j)
    PROVE  IInv'
<1>1. /\ conns["copyIn"][j] > 0
      /\ "copyIn" \in Ops
      /\ {"mkdir", "submit"} \subseteq Ops \ {"copyIn"}
  BY DEF InputFilesCopied, Ops
<1>2. Surroundings
  BY DEF InputFilesCopied, Surroundings, IInv, TypeOK, ClusterTable, envVars
<1>3. CASE RetrySubmission("copyIn", j)
  BY <1>1, <1>2, <1>3, RetryStep
<1>4. CASE Valid(j) /\ CreateRemoteDirectory(j) /\ UNCHANGED <<queueId, queueVars>>
  BY <1>1, <1>2, <1>4, ContinueStep DEF CreateRemoteDirectory
<1>5. CASE Valid(j) /\ SubmitJobToRemoteQueue(j) /\ UNCHANGED <<queueId, queueVars>>
  BY <1>1, <1>2, <1>5, ContinueStep DEF SubmitJobToRemoteQueue
<1>6. CASE IgnoreCompletion("copyIn", j)
  BY <1>1, <1>2, <1>6, IgnoreStep
<1> QED BY <1>3, <1>4, <1>5, <1>6 DEF InputFilesCopied

LEMMA LaunchFacts ==
    ASSUME TypeOK, NEW j \in Jobs, NEW q \in SchedulerIds, Launch(j, q)
    PROVE  cluster' \in ClusterTable
BY DEF TypeOK, Launch, ClusterTable

\* A job whose reference is entered under its new id.  The id's former job,
\* when parseQueueId failed twice, is no longer tracked.
LEMMA RegisterStep ==
    ASSUME IInv, NEW j \in Jobs, NEW q \in QueueIds, conns["submit"][j] > 0,
           Register(j, q), Surroundings
    PROVE  IInv'
<1> USE RemoteQueueAssumption DEF RemoteQueueAssumption
<1> "submit" \in Ops
  BY DEF Ops
<1>1. /\ conns \in Table
      /\ jobState[j] # NotCreated
      /\ m_pendingSubmission[j] = 0
      /\ ~IsTracked(j)
      /\ conns["submit"][j] = 1
      /\ \A o \in Ops \ {"submit"} : conns[o][j] = 0
  BY ConnectionAlone DEF IInv, TypeOK, Table
<1>2. /\ conns' = Finish("submit", j)
      /\ conns' \in Table
      /\ \A o \in Ops, k \in Jobs : conns'[o][k] =
            IF o = "submit" /\ k = j THEN conns[o][k] - 1 ELSE conns[o][k]
  BY <1>1, FinishTable DEF Register
<1>3. /\ jobState' = [jobState EXCEPT ![j] = "Submitted"]
      /\ queueId' = [queueId EXCEPT ![j] = q]
      /\ m_jobs' = [m_jobs EXCEPT ![q] = j]
      /\ m_failureTracker' = [m_failureTracker EXCEPT ![j] = 0]
      /\ UNCHANGED <<m_pendingSubmission, m_isCheckingQueue>>
      /\ Valid(j)
  BY DEF Register, SetState
<1>4. TypeOK'
  <2>1. /\ jobState' \in [Jobs -> JobState \cup {NotCreated, Removed}]
        /\ queueId' \in [Jobs -> QueueIds \cup {InvalidId}]
        /\ m_jobs' \in [QueueIds -> Jobs \cup {NoJob}]
    BY <1>3 DEF IInv, TypeOK, JobState
  <2>2. m_failureTracker' \in [Jobs -> 0 .. MaxRetries]
    BY <1>3 DEF IInv, TypeOK, MaxRetries
  <2> QED BY <1>2, <1>3, <2>1, <2>2
          DEF IInv, TypeOK, Table, ClusterTable, Surroundings
<1>5. \A p \in QueueIds : m_jobs[p] # j
  <2> SUFFICES ASSUME NEW p \in QueueIds, m_jobs[p] = j PROVE FALSE
    OBVIOUS
  <2>1. queueId[j] = p
    BY DEF IInv, IndexConsistent
  <2> QED BY <1>1, <2>1 DEF IsTracked
<1>6. IndexConsistent'
  <2> SUFFICES ASSUME NEW p \in QueueIds, m_jobs'[p] # NoJob
               PROVE  Valid(m_jobs[p])' /\ queueId'[m_jobs'[p]] = p
    BY DEF IndexConsistent
  <2>1. CASE p = q
    BY <1>3, <2>1 DEF IInv, TypeOK, Valid, NotCreated, Removed
  <2>2. CASE p # q
    <3>1. /\ m_jobs'[p] = m_jobs[p]
          /\ m_jobs[p] \in Jobs \ {j}
          /\ Valid(m_jobs[p])
          /\ queueId[m_jobs[p]] = p
      BY <1>3, <1>5, <2>2 DEF IInv, TypeOK, IndexConsistent
    <3> QED BY <1>3, <3>1 DEF IInv, TypeOK, Valid
  <2> QED BY <2>1, <2>2
<1>7. \A k \in Jobs \ {j} : /\ jobState'[k] = jobState[k]
                            /\ Untouched(k)
  <2> SUFFICES ASSUME NEW k \in Jobs \ {j}
               PROVE  jobState'[k] = jobState[k] /\ Untouched(k)
    OBVIOUS
  <2>1. jobState'[k] = jobState[k] /\ queueId'[k] = queueId[k]
    BY <1>3 DEF IInv, TypeOK
  <2>2. IsTracked(k)' => IsTracked(k)
    BY <1>3, <2>1 DEF IInv, TypeOK, IsTracked
  <2> QED BY <1>2, <1>3, <2>1, <2>2 DEF Untouched
<1>8. SingleStage'
  <2> SUFFICES ASSUME NEW k \in Jobs PROVE AtOneStage(k)'
    BY DEF SingleStage
  <2>1. CASE k = j
    <3>1. \A o \in Ops : conns'[o][j] = 0
      BY <1>1, <1>2
    <3>2. m_pendingSubmission'[j] = 0 /\ jobState'[j] # NotCreated
      BY <1>1, <1>3 DEF IInv, TypeOK, NotCreated
    <3> QED BY <1>4, <2>1, <3>1, <3>2, OnlyTracked
  <2>2. CASE k # j
    BY <1>7, <2>2, UntouchedStage
  <2> QED BY <2>1, <2>2
<1>9. TrackedIsActive'
  <2> SUFFICES ASSUME NEW k \in Jobs, IsTracked(k)'
               PROVE  jobState'[k] \in {"Submitted"} \cup LineStates
    BY DEF TrackedIsActive
  <2>1. CASE k = j
    BY <1>3, <2>1 DEF IInv, TypeOK
  <2>2. CASE k # j
    BY <1>7, <2>2 DEF IInv, TrackedIsActive, Untouched
  <2> QED BY <2>1, <2>2
<1> QED BY <1>4, <1>6, <1>8, <1>9 DEF IInv

LEMMA JobSubmittedToRemoteQueueIInv ==
    ASSUME IInv, NEW j \in Jobs, JobSubmittedToRemoteQueue(j)
    PROVE  IInv'
<1>1. conns["submit"][j] > 0 /\ "submit" \in Ops
  BY DEF JobSubmittedToRemoteQueue, Ops
<1>2. Surroundings
  <2>1. cluster' = cluster \/ \E q \in SchedulerIds : Launch(j, q)
    BY DEF JobSubmittedToRemoteQueue
  <2>2. cluster' \in ClusterTable
    BY <2>1, LaunchFacts DEF IInv, TypeOK, ClusterTable
  <2> QED BY <2>2 DEF JobSubmittedToRemoteQueue, Surroundings, IInv, TypeOK
<1>3. CASE \E q \in QueueIds : Register(j, q)
  BY <1>1, <1>2, <1>3, RegisterStep
<1>4. CASE RetrySubmission("submit", j)
  BY <1>1, <1>2, <1>4, RetryStep
<1>5. CASE IgnoreCompletion("submit", j)
  BY <1>1, <1>2, <1>5, IgnoreStep
<1> QED BY <1>3, <1>4, <1>5 DEF JobSubmittedToRemoteQueue, QueueIds

-----------------------------------------------------------------------------
(* The completions of the other slots.                                     *)

\* A completion that hands its job to one connection at most, whatever it
\* makes of the job's state.
LEMMA HandOver ==
    ASSUME IInv, NEW from \in Ops, NEW op \in Ops, NEW j \in Jobs,
           conns[from][j] > 0,
           conns' \in Table,
           \A o \in Ops, k \in Jobs \ {j} : conns'[o][k] = conns[o][k],
           conns'[op][j] =< 1,
           \A o \in Ops \ {op} : conns'[o][j] = 0,
           jobState' \in [Jobs -> JobState \cup {NotCreated, Removed}],
           \A k \in Jobs : jobState'[k] # jobState[k] =>
              k = j /\ Valid(k) /\ jobState'[k] \in JobState,
           UNCHANGED <<queueId, queueVars>>, Surroundings
    PROVE  IInv'
<1>1. /\ m_pendingSubmission[j] = 0
      /\ ~IsTracked(j)
      /\ jobState[j] # NotCreated
  BY ConnectionAlone
<1>2. TypeOK'
  BY DEF IInv, TypeOK, Table, ClusterTable, Surroundings, queueVars
<1>3. ~IsTracked(j)' /\ m_pendingSubmission'[j] = 0
  BY <1>1 DEF IsTracked, queueVars
<1>4. jobState'[j] # NotCreated
  BY <1>1 DEF JobState, NotCreated
<1>5. AtOneStage(j)'
  BY <1>2, <1>3, <1>4, OneConnection
<1>6. \A k \in Jobs \ {j} : Untouched(k)
  BY DEF Untouched, IsTracked, queueVars
<1> QED BY <1>2, <1>3, <1>5, <1>6, HandlerStep DEF queueVars

\* The connection ends and only the job's state may show it.
LEMMA EndStep ==
    ASSUME IInv, NEW from \in Ops, NEW j \in Jobs, conns[from][j] > 0,
           conns' = Finish(from, j),
           UNCHANGED jobState \/ \E s \in JobState : SetState(j, s),
           UNCHANGED <<queueId, queueVars>>, Surroundings
    PROVE  IInv'
<1>1. conns \in Table /\ \A o \in Ops \ {from} : conns[o][j] = 0
  BY ConnectionAlone DEF IInv, TypeOK, Table
<1>2. conns[from][j] = 1
  BY ConnectionAlone
<1>3. /\ conns' \in Table
      /\ \A o \in Ops, k \in Jobs : conns'[o][k] =
            IF o = from /\ k = j THEN conns[o][k] - 1 ELSE conns[o][k]
  BY <1>1, FinishTable
<1>4. /\ \A o \in Ops, k \in Jobs \ {j} : conns'[o][k] = conns[o][k]
      /\ conns'[from][j] =< 1
      /\ \A o \in Ops \ {from} : conns'[o][j] = 0
  BY <1>1, <1>2, <1>3
<1>5. /\ jobState' \in [Jobs -> JobState \cup {NotCreated, Removed}]
      /\ \A k \in Jobs : jobState'[k] # jobState[k] =>
            k = j /\ Valid(k) /\ jobState'[k] \in JobState
  <2>1. CASE UNCHANGED jobState
    BY <2>1 DEF IInv, TypeOK
  <2>2. CASE \E s \in JobState : SetState(j, s)
    BY <2>2, SetStateFacts DEF IInv
  <2> QED BY <2>1, <2>2
<1> QED BY <1>3, <1>4, <1>5, HandOver

LEMMA FateFacts ==
    /\ \A fate \in Fates \ {"fetch"} :
          FateState(fate) \in JobState /\ FateOps(fate) \subseteq {"clean"}
    /\ \A fate \in Fates : \E op \in Ops : FateOps(fate) \subseteq {op}
    /\ \A fate \in Fates : FateState(fate) \in JobState \cup {"unchanged"}
<1>1. \A fate \in Fates \ {"fetch"} :
          FateState(fate) \in JobState /\ FateOps(fate) \subseteq {"clean"}
  BY DEF Fates, FateState, FateOps, JobState
<1>2. FateOps("fetch") \subseteq {"fetch"} /\ {"fetch", "clean"} \subseteq Ops
  BY DEF FateOps, Ops
<1>3. FateState("fetch") \in JobState \cup {"unchanged"}
  BY DEF FateState, JobState
<1> QED BY <1>1, <1>2, <1>3

LEMMA OutputCopiedFromServerIInv ==
    ASSUME IInv, NEW j \in Jobs, OutputCopiedFromServer(j)
    PROVE  IInv'
<1> USE DEF Surroundings
<1>1. conns["fetch"][j] > 0 /\ "fetch" \in Ops /\ "clean" \in Ops
  BY DEF OutputCopiedFromServer, Ops
<1>2. Surroundings
  BY DEF OutputCopiedFromServer, IInv, TypeOK, ClusterTable, envVars
<1>3. CASE /\ conns' = Finish("fetch", j)
           /\ SetState(j, "Error")
           /\ UNCHANGED <<queueId, queueVars>>
  <2>1. "Error" \in JobState
    BY DEF JobState
  <2> QED BY <1>1, <1>2, <1>3, <2>1, EndStep
<1>4. CASE /\ \E fate \in Fates \ {"fetch"} :
                /\ SetState(j, FateState(fate))
                /\ conns' = [op \in Ops |-> [Finish("fetch", j)[op] EXCEPT
                              ![j] = @ + IF op \in FateOps(fate) THEN 1 ELSE 0]]
           /\ UNCHANGED <<queueId, queueVars>>
  <2>1. PICK fate \in Fates \ {"fetch"} :
          /\ SetState(j, FateState(fate))
          /\ conns' = [op \in Ops |-> [Finish("fetch", j)[op] EXCEPT
                        ![j] = @ + IF op \in FateOps(fate) THEN 1 ELSE 0]]
    BY <1>4
  <2>2. FateState(fate) \in JobState /\ FateOps(fate) \subseteq {"clean"}
    BY FateFacts
  <2> DEFINE c == Finish("fetch", j)
  <2>3. /\ c \in Table
        /\ \A o \in Ops, k \in Jobs : c[o][k] =
              IF o = "fetch" /\ k = j THEN conns[o][k] - 1 ELSE conns[o][k]
    BY <1>1, FinishTable DEF IInv, TypeOK, Table
  <2>4. conns' = [op \in Ops |-> [c[op] EXCEPT
                        ![j] = @ + IF op \in FateOps(fate) THEN 1 ELSE 0]]
    BY <2>1
  <2> HIDE DEF c
  <2>5. conns' \in Table
    BY <2>3, <2>4 DEF Table
  <2>6. /\ conns["fetch"][j] = 1
        /\ \A o \in Ops \ {"fetch"} : conns[o][j] = 0
    BY <1>1, ConnectionAlone
  <2>7. \A o \in Ops, k \in Jobs \ {j} : conns'[o][k] = conns[o][k]
    BY <2>3, <2>4 DEF Table
  <2>8. \A o \in Ops : c[o][j] = 0
    BY <2>3, <2>6
  <2>9. conns'["clean"][j] =< 1 /\ \A o \in Ops \ {"clean"} : conns'[o][j] = 0
    BY <1>1, <2>2, <2>3, <2>4, <2>8 DEF Table
  <2>10. /\ jobState' \in [Jobs -> JobState \cup {NotCreated, Removed}]
         /\ \A k \in Jobs : jobState'[k] # jobState[k] =>
               k = j /\ Valid(k) /\ jobState'[k] \in JobState
    BY <2>1, <2>2, SetStateFacts DEF IInv
  <2> QED BY <1>1, <1>2, <1>4, <2>5, <2>7, <2>9, <2>10, HandOver
<1>5. CASE IgnoreCompletion("fetch", j)
  BY <1>1, <1>2, <1>5, IgnoreStep
<1> QED BY <1>3, <1>4, <1>5 DEF OutputCopiedFromServer

LEMMA RemoteDirectoryCleanedIInv ==
    ASSUME IInv, NEW j \in Jobs, RemoteDirectoryCleaned(j)
    PROVE  IInv'
<1>1. conns["clean"][j] > 0 /\ "clean" \in Ops /\ "Error" \in JobState
  BY DEF RemoteDirectoryCleaned, Ops, JobState
<1>2. Surroundings
  BY DEF RemoteDirectoryCleaned, Surroundings, IInv, TypeOK, ClusterTable, envVars
<1>3. CASE IgnoreCompletion("clean", j)
  BY <1>1, <1>2, <1>3, IgnoreStep
<1>4. CASE ~IgnoreCompletion("clean", j)
  BY <1>1, <1>2, <1>4, EndStep DEF RemoteDirectoryCleaned
<1> QED BY <1>3, <1>4

\* The scheduler changes the state of one of its records.
LEMMA ClusterMoves ==
    ASSUME TypeOK, NEW q \in SchedulerIds,
           NEW s \in {"free", "queued", "running", "gone"},
           cluster' = [cluster EXCEPT ![q].st = s]
    PROVE  cluster' \in ClusterTable
<1> DEFINE Slot == [job : Jobs \cup {NoJob},
                    st : {"free", "queued", "running", "gone"}]
<1>1. cluster \in [SchedulerIds -> Slot] /\ cluster[q] \in Slot
  BY DEF TypeOK
<1>2. [cluster[q] EXCEPT !.st = s] \in Slot
  BY <1>1
<1>3. cluster' = [cluster EXCEPT ![q] = [cluster[q] EXCEPT !.st = s]]
  OBVIOUS
<1> HIDE DEF Slot
<1>4. cluster' \in [SchedulerIds -> Slot]
  BY <1>1, <1>2, <1>3
<1> QED BY <1>4 DEF ClusterTable, Slot

LEMMA EndKillJobIInv ==
    ASSUME IInv, NEW j \in Jobs, EndKillJob(j)
    PROVE  IInv'
<1>1. conns["kill"][j] > 0 /\ "kill" \in Ops /\ "Canceled" \in JobState
  BY DEF EndKillJob, Ops, JobState
<1>2. cluster' \in ClusterTable
  <2>1. CASE cluster' = cluster
    BY <2>1 DEF IInv, TypeOK, ClusterTable
  <2>2. CASE cluster' # cluster
    <3>1. /\ queueId[j] \in SchedulerIds
          /\ cluster' = [cluster EXCEPT ![queueId[j]].st = "gone"]
      BY <2>2 DEF EndKillJob
    <3> QED BY <3>1, ClusterMoves DEF IInv
  <2> QED BY <2>1, <2>2
<1>3. Surroundings
  BY <1>2 DEF EndKillJob, Surroundings, IInv, TypeOK
<1> QED BY <1>1, <1>3, EndStep DEF EndKillJob

-----------------------------------------------------------------------------
(* Cancelling and removing.                                                *)

LEMMA ReferencesShrink ==
    ASSUME queueId' = queueId, NEW k \in Jobs,
           \A q \in QueueIds : m_jobs'[q] \in {m_jobs[q], NoJob}
    PROVE  IsTracked(k)' => IsTracked(k)
BY RemoteQueueAssumption DEF RemoteQueueAssumption, IsTracked

LEMMA KillJobIInv ==
    ASSUME IInv, NEW j \in Jobs, Valid(j), KillJob(j),
           dialog' \in Jobs \cup {NoJob},
           UNCHANGED <<queueId, m_failureTracker, m_isCheckingQueue, asked,
                       hostNameSet, remoteDir, cluster>>
    PROVE  IInv'
<1> USE RemoteQueueAssumption DEF RemoteQueueAssumption
<1>1. conns \in Table /\ jobState[j] # NotCreated
  BY DEF IInv, TypeOK, Table, Valid
<1>2. {"Error", "Canceled"} \subseteq JobState /\ "kill" \in Ops
  BY DEF JobState, Ops
<1>3. CASE /\ m_pendingSubmission[j] > 0
           /\ m_pendingSubmission' = [m_pendingSubmission EXCEPT ![j] = @ - 1]
           /\ SetState(j, "Canceled")
           /\ UNCHANGED <<m_jobs, conns>>
  <2>1. /\ m_pendingSubmission[j] = 1
        /\ \A o \in Ops : conns[o][j] = 0
        /\ ~IsTracked(j)
    BY <1>3, PendingAlone
  <2>2. /\ jobState' \in [Jobs -> JobState \cup {NotCreated, Removed}]
        /\ \A k \in Jobs : jobState'[k] # jobState[k] =>
              k = j /\ Valid(k) /\ jobState'[k] = "Canceled"
    BY <1>2, <1>3, SetStateFacts DEF IInv
  <2>3. /\ m_pendingSubmission' \in [Jobs -> Nat]
        /\ m_pendingSubmission'[j] = 0
        /\ \A k \in Jobs \ {j} : m_pendingSubmission'[k] = m_pendingSubmission[k]
    BY <1>3, <2>1 DEF IInv, TypeOK
  <2>4. TypeOK'
    BY <1>3, <2>2, <2>3 DEF IInv, TypeOK
  <2>5. ~IsTracked(j)' /\ jobState'[j] # NotCreated
    BY <1>1, <1>3, <2>1, <2>2 DEF IsTracked, NotCreated
  <2>6. AtOneStage(j)'
    BY <1>3, <2>1, <2>3, <2>4, <2>5, OnlyPending
  <2>7. \A k \in Jobs \ {j} : Untouched(k)
    BY <1>3, <2>3 DEF Untouched, IsTracked
  <2> QED BY <1>2, <1>3, <2>2, <2>4, <2>5, <2>6, <2>7, HandlerStep
<1>4. CASE /\ m_pendingSubmission[j] = 0
           /\ IsTracked(j)
           /\ m_jobs' = Untracked(j)
           /\ BeginKillJob(j)
           /\ UNCHANGED m_pendingSubmission
  <2>1. \A o \in Ops : conns[o][j] = 0
    BY <1>4, TrackedAlone
  <2>2. /\ m_jobs' \in [QueueIds -> Jobs \cup {NoJob}]
        /\ \A q \in QueueIds : m_jobs'[q] \in {m_jobs[q], NoJob}
        /\ ~IsTracked(j)'
    BY <1>4 DEF IInv, TypeOK, Untracked, IsTracked
  <2>3. /\ jobState' \in [Jobs -> JobState \cup {NotCreated, Removed}]
        /\ \A k \in Jobs : jobState'[k] # jobState[k] =>
              k = j /\ Valid(k) /\ jobState'[k] = "Error"
    <3>1. CASE hostNameSet
      BY <1>4, <3>1 DEF BeginKillJob, IInv, TypeOK
    <3>2. CASE ~hostNameSet
      <4>1. SetState(j, "Error")
        BY <1>4, <3>2 DEF BeginKillJob
      <4> QED BY <1>2, <4>1, SetStateFacts DEF IInv
    <3> QED BY <3>1, <3>2
  <2>4. /\ conns' \in Table
        /\ conns'["kill"][j] =< 1
        /\ \A o \in Ops \ {"kill"} : conns'[o][j] = 0
        /\ \A o \in Ops, k \in Jobs \ {j} : conns'[o][k] = conns[o][k]
    <3>1. CASE hostNameSet
      <4>1. conns' = [conns EXCEPT !["kill"][j] = @ + 1]
        BY <1>4, <3>1 DEF BeginKillJob
      <4>2. /\ conns' \in Table
            /\ \A o \in Ops, k \in Jobs : conns'[o][k] =
                  IF o = "kill" /\ k = j THEN conns[o][k] + 1 ELSE conns[o][k]
        BY <1>1, <1>2, <4>1 DEF Table
      <4> QED BY <1>2, <2>1, <4>2
    <3>2. CASE ~hostNameSet
      BY <1>1, <1>2, <1>4, <2>1, <3>2 DEF BeginKillJob
    <3> QED BY <3>1, <3>2
  <2>5. TypeOK'
    BY <1>4, <2>2, <2>3, <2>4 DEF IInv, TypeOK, Table
  <2>6. jobState'[j] # NotCreated
    BY <1>1, <2>3 DEF NotCreated
  <2>7. AtOneStage(j)'
    BY <1>2, <1>4, <2>2, <2>4, <2>5, <2>6, OneConnection
  <2>8. \A k \in Jobs \ {j} : Untouched(k)
    BY <1>4, <2>2, <2>4, ReferencesShrink DEF Untouched
  <2> QED BY <1>2, <2>2, <2>3, <2>5, <2>7, <2>8, HandlerStep
<1>5. CASE /\ m_pendingSubmission[j] = 0
           /\ ~IsTracked(j)
           /\ SetState(j, "Canceled")
           /\ UNCHANGED <<m_pendingSubmission, m_jobs, conns>>
  <2>1. /\ jobState' \in [Jobs -> JobState \cup {NotCreated, Removed}]
        /\ \A k \in Jobs : jobState'[k] # jobState[k] =>
              k = j /\ Valid(k) /\ jobState'[k] = "Canceled"
    BY <1>2, <1>5, SetStateFacts DEF IInv
  <2>2. TypeOK'
    BY <1>5, <2>1 DEF IInv, TypeOK
  <2>3. \A k \in Jobs : Untouched(k)
    BY <1>5 DEF Untouched, IsTracked
  <2>4. ~IsTracked(j)'
    BY <1>5 DEF IsTracked
  <2> QED BY <1>2, <1>5, <2>1, <2>2, <2>3, <2>4, HandlerStep
<1> QED BY <1>3, <1>4, <1>5 DEF KillJob

\* Steps that touch neither jobs, nor references, nor connections.
LEMMA BystanderStep ==
    ASSUME IInv, TypeOK',
           UNCHANGED <<jobVars, m_pendingSubmission, conns>>,
           \A q \in QueueIds : m_jobs'[q] \in {m_jobs[q], NoJob}
    PROVE  IInv'
<1> USE RemoteQueueAssumption DEF RemoteQueueAssumption
<1>1. \A k \in Jobs : Untouched(k)
  BY ReferencesShrink DEF Untouched, jobVars
<1>2. \A q \in QueueIds : m_jobs'[q] # NoJob =>
        m_jobs'[q] = m_jobs[q] /\ jobState'[m_jobs[q]] # Removed
  BY DEF IInv, TypeOK, IndexConsistent, Valid, jobVars
<1> QED BY <1>1, <1>2, Preservation DEF jobVars

LEMMA CancelJobIInv ==
    ASSUME IInv, NEW j \in Jobs, CancelJob(j)
    PROVE  IInv'
<1>1. Valid(j)
  BY DEF CancelJob, RpcCancelable, Valid, NotCreated, Removed
<1> QED BY <1>1, KillJobIInv DEF CancelJob, IInv, TypeOK, envVars

LEMMA OpenKillDialogIInv ==
    ASSUME IInv, NEW j \in Jobs, OpenKillDialog(j)
    PROVE  IInv'
<1>1. TypeOK'
  BY DEF IInv, TypeOK, OpenKillDialog, jobVars, queueVars, sshVars
<1> QED BY <1>1, BystanderStep DEF OpenKillDialog, queueVars, sshVars

LEMMA AnswerKillDialogIInv ==
    ASSUME IInv, AnswerKillDialog
    PROVE  IInv'
<1>1. dialog \in Jobs /\ dialog' \in Jobs \cup {NoJob}
  BY DEF IInv, TypeOK, AnswerKillDialog
<1>2. CASE Valid(dialog) /\ KillJob(dialog)
  BY <1>1, <1>2, KillJobIInv DEF AnswerKillDialog
<1>3. CASE UNCHANGED <<jobState, m_pendingSubmission, m_jobs, conns>>
  <2>1. TypeOK'
    BY <1>1, <1>3 DEF IInv, TypeOK, AnswerKillDialog
  <2> QED BY <1>3, <2>1, BystanderStep DEF AnswerKillDialog, jobVars
<1> QED BY <1>2, <1>3 DEF AnswerKillDialog

LEMMA RemoveJobIInv ==
    ASSUME IInv, NEW j \in Jobs, RemoveJob(j)
    PROVE  IInv'
<1> USE RemoteQueueAssumption DEF RemoteQueueAssumption
<1>1. /\ Valid(j)
      /\ jobState' = [jobState EXCEPT ![j] = Removed]
      /\ UNCHANGED <<queueId, m_isCheckingQueue, sshVars, envVars>>
  BY DEF RemoveJob
<1>2. /\ m_pendingSubmission' \in [Jobs -> Nat]
      /\ m_pendingSubmission'[j] =< m_pendingSubmission[j]
      /\ \A k \in Jobs \ {j} : m_pendingSubmission'[k] = m_pendingSubmission[k]
  BY DEF RemoveJob, PendingWithout, IInv, TypeOK
<1>3. /\ m_jobs' \in [QueueIds -> Jobs \cup {NoJob}]
      /\ \A q \in QueueIds : m_jobs'[q] =
            IF q = queueId[j] THEN NoJob ELSE m_jobs[q]
  BY DEF RemoveJob, WithoutReference, IInv, TypeOK
<1>4. m_failureTracker' \in [Jobs -> 0 .. MaxRetries]
  BY DEF RemoveJob, IInv, TypeOK, MaxRetries
<1>5. TypeOK'
  BY <1>1, <1>2, <1>3, <1>4 DEF IInv, TypeOK, sshVars, envVars
<1>6. \A k \in Jobs : IsTracked(k)' => IsTracked(k)
  BY <1>1, <1>3, ReferencesShrink
<1>7. ~IsTracked(j)'
  BY <1>1, <1>3 DEF IsTracked
<1>8. \A k \in Jobs \ {j} : Untouched(k)
  BY <1>1, <1>2, <1>6 DEF Untouched, sshVars
<1>9. AtOneStage(j)'
  <2>1. AtOneStage(j) /\ m_pendingSubmission[j] \in Nat
    BY DEF IInv, TypeOK, SingleStage
  <2>2. Activities(j)' \subseteq Activities(j)
    <3>1. m_pendingSubmission'[j] > 0 => m_pendingSubmission[j] > 0
      BY <1>2, <2>1
    <3>2. conns' = conns
      BY <1>1 DEF sshVars
    <3> QED BY <1>6, <3>1, <3>2 DEF Activities
  <2>3. jobState'[j] # NotCreated
    BY <1>1 DEF IInv, TypeOK, Removed, NotCreated
  <2>4. m_pendingSubmission'[j] =< 1
    BY <1>2, <2>1 DEF AtOneStage
  <2> QED BY <1>1, <2>1, <2>2, <2>3, <2>4 DEF AtOneStage, sshVars
<1>10. \A q \in QueueIds : m_jobs'[q] # NoJob =>
         m_jobs'[q] = m_jobs[q] /\ jobState'[m_jobs[q]] # Removed
  <2> SUFFICES ASSUME NEW q \in QueueIds, m_jobs'[q] # NoJob
               PROVE  m_jobs'[q] = m_jobs[q] /\ jobState'[m_jobs[q]] # Removed
    OBVIOUS
  <2>1. m_jobs'[q] = m_jobs[q] /\ q # queueId[j]
    BY <1>3
  <2>2. m_jobs[q] \in Jobs \ {j} /\ Valid(m_jobs[q])
    BY <2>1 DEF IInv, TypeOK, IndexConsistent
  <2> QED BY <1>1, <2>1, <2>2 DEF IInv, TypeOK, Valid
<1>11. \A k \in Jobs : jobState'[k] # jobState[k] =>
         Valid(k) /\ jobState'[k] # NotCreated
  BY <1>1 DEF IInv, TypeOK, Removed, NotCreated
<1>12. \A k \in Jobs : IsTracked(k)' => jobState'[k] \in {jobState[k]} \cup LineStates
  BY <1>1, <1>7 DEF IInv, TypeOK
<1> QED BY <1>1, <1>5, <1>8, <1>9, <1>10, <1>11, <1>12, Preservation

-----------------------------------------------------------------------------
(* Timers, the queue's reply and the surroundings.                         *)

LEMMA SubmitPendingJobsIInv ==
    ASSUME IInv, SubmitPendingJobs
    PROVE  IInv'
<1> USE RemoteQueueAssumption DEF RemoteQueueAssumption
<1> DEFINE waiting == {j \in Jobs : m_pendingSubmission[j] > 0}
<1>1. PICK written \in SUBSET {j \in waiting : Valid(j)} :
        LET sent == IF hostNameSet THEN written ELSE {} IN
        /\ conns' = [conns EXCEPT !["copyIn"] =
                       [j \in Jobs |->
                           @[j] + IF j \in sent
                                  THEN m_pendingSubmission[j] ELSE 0]]
        /\ jobState' = [j \in Jobs |->
                           IF j \in waiting \ sent /\ Valid(j)
                           THEN "Error" ELSE jobState[j]]
  BY DEF SubmitPendingJobs
<1> DEFINE sent == IF hostNameSet THEN written ELSE {}
           more == [j \in Jobs |->
                      conns["copyIn"][j] +
                        IF j \in sent THEN m_pendingSubmission[j] ELSE 0]
<1>2. /\ conns \in Table
      /\ m_pendingSubmission \in [Jobs -> Nat]
      /\ "copyIn" \in Ops
      /\ "Error" \in JobState /\ "Error" # NotCreated /\ "Error" # Removed
  BY DEF IInv, TypeOK, Table, Ops, JobState, NotCreated, Removed
<1>3. conns' = [conns EXCEPT !["copyIn"] = more]
  BY <1>1
<1>4. more \in [Jobs -> Nat]
  BY <1>2 DEF Table
<1>5. /\ conns' \in Table
      /\ conns'["copyIn"] = more
      /\ \A o \in Ops \ {"copyIn"} : conns'[o] = conns[o]
  <2> HIDE DEF more
  <2> QED BY <1>2, <1>3, <1>4 DEF Table
<1>6. \A k \in Jobs : m_pendingSubmission'[k] = 0
  BY DEF SubmitPendingJobs, PendingCleared
<1>7. UNCHANGED <<queueId, m_failureTracker, m_jobs, m_isCheckingQueue,
                  asked, envVars>>
  BY DEF SubmitPendingJobs
<1>8. \A k \in Jobs :
        /\ jobState'[k] \in {jobState[k], "Error"}
        /\ jobState'[k] # jobState[k] => k \in waiting /\ Valid(k)
  BY <1>1
<1>9. TypeOK'
  <2>1. jobState' \in [Jobs -> JobState \cup {NotCreated, Removed}]
    BY <1>1, <1>2 DEF IInv, TypeOK
  <2>2. m_pendingSubmission' \in [Jobs -> Nat]
    BY DEF SubmitPendingJobs, PendingCleared
  <2> QED BY <1>5, <1>7, <2>1, <2>2 DEF IInv, TypeOK, Table, envVars
<1>10. \A k \in Jobs : Untouched(k) \/ AtOneStage(k)'
  <2> SUFFICES ASSUME NEW k \in Jobs PROVE Untouched(k) \/ AtOneStage(k)'
    OBVIOUS
  <2>1. CASE k \in waiting
    <3>1. /\ m_pendingSubmission[k] = 1
          /\ \A o \in Ops : conns[o][k] = 0
          /\ ~IsTracked(k)
          /\ jobState[k] # NotCreated
      BY <2>1, PendingAlone
    <3>2. more[k] =< 1
      BY <1>2, <3>1
    <3>3. /\ conns'["copyIn"][k] =< 1
          /\ \A o \in Ops \ {"copyIn"} : conns'[o][k] = 0
      BY <1>5, <3>1, <3>2
    <3>4. ~IsTracked(k)' /\ jobState'[k] # NotCreated
      BY <1>2, <1>7, <1>8, <3>1 DEF IsTracked
    <3> QED BY <1>2, <1>6, <1>9, <3>3, <3>4, OneConnection
  <2>2. CASE k \notin waiting
    <3>1. m_pendingSubmission[k] = 0
      BY <1>2, <2>2
    <3>2. more[k] = conns["copyIn"][k]
      BY <1>2, <2>2, <1>4 DEF Table
    <3>3. \A o \in Ops : conns'[o][k] = conns[o][k]
      BY <1>5, <3>2
    <3> QED BY <1>6, <1>7, <3>1, <3>3 DEF Untouched, IsTracked
  <2> QED BY <2>1, <2>2
<1>11. \A q \in QueueIds : m_jobs'[q] # NoJob =>
         m_jobs'[q] = m_jobs[q] /\ jobState'[m_jobs[q]] # Removed
  BY <1>2, <1>7, <1>8 DEF IInv, TypeOK, IndexConsistent, Valid
<1>12. \A k \in Jobs : IsTracked(k)' => jobState'[k] = jobState[k]
  <2> SUFFICES ASSUME NEW k \in Jobs, IsTracked(k)'
               PROVE  jobState'[k] = jobState[k]
    OBVIOUS
  <2>1. IsTracked(k)
    BY <1>7 DEF IsTracked
  <2>2. m_pendingSubmission[k] = 0
    BY <2>1, TrackedAlone
  <2> QED BY <1>8, <2>2
<1>13. \A k \in Jobs : jobState'[k] # jobState[k] =>
         Valid(k) /\ jobState'[k] # NotCreated
  BY <1>2, <1>8
<1> QED BY <1>7, <1>9, <1>10, <1>11, <1>12, <1>13, Preservation

LEMMA UpdateTimerIInv ==
    ASSUME IInv, UpdateTimer
    PROVE  IInv'
<1>1. \A q \in QueueIds : m_jobs'[q] \in {m_jobs[q], NoJob}
  BY DEF UpdateTimer, RemoveStaleJobs
<1>2. /\ m_jobs' \in [QueueIds -> Jobs \cup {NoJob}]
      /\ m_isCheckingQueue' \in BOOLEAN
      /\ asked' \in SUBSET QueueIds
  BY DEF UpdateTimer, RemoveStaleJobs, RequestQueueUpdate, Keys, IInv, TypeOK
<1>3. TypeOK'
  BY <1>2 DEF UpdateTimer, IInv, TypeOK, jobVars, envVars
<1> QED BY <1>1, <1>3, BystanderStep DEF UpdateTimer

LEMMA UpdateRemoteQueuesIInv ==
    ASSUME IInv, UpdateRemoteQueues
    PROVE  IInv'
<1>1. m_isCheckingQueue' \in BOOLEAN /\ asked' \in SUBSET QueueIds
  BY DEF UpdateRemoteQueues, RequestQueueUpdate, Keys, IInv, TypeOK
<1>2. TypeOK'
  BY <1>1 DEF UpdateRemoteQueues, IInv, TypeOK, jobVars, envVars
<1> QED BY <1>2, BystanderStep DEF UpdateRemoteQueues

LEMMA HandleQueueUpdateIInv ==
    ASSUME IInv, HandleQueueUpdate
    PROVE  IInv'
<1> USE RemoteQueueAssumption DEF RemoteQueueAssumption
<1>1. /\ UNCHANGED <<queueId, m_pendingSubmission, m_failureTracker, envVars>>
      /\ m_isCheckingQueue' \in BOOLEAN
      /\ asked' \in SUBSET QueueIds
  BY DEF HandleQueueUpdate, FlagCleared
<1>2. CASE UNCHANGED <<jobState, conns, m_jobs>>
  <2>1. TypeOK'
    BY <1>1, <1>2 DEF IInv, TypeOK, envVars
  <2> QED BY <1>1, <1>2, <2>1, BystanderStep DEF jobVars
<1>3. CASE ProcessQueueReply
  <2>1. PICK left \in SUBSET Keys(m_jobs) :
          \E line \in [JobsIn(Keys(m_jobs) \ left) -> LineStates],
             fate \in [JobsIn(left) -> Fates] :
            /\ jobState' = [j \in Jobs |->
                 IF ~Valid(j) THEN jobState[j]
                 ELSE IF j \in JobsIn(left)
                      THEN IF FateState(fate[j]) = "unchanged"
                           THEN jobState[j] ELSE FateState(fate[j])
                 ELSE IF j \in JobsIn(Keys(m_jobs) \ left) THEN line[j]
                 ELSE jobState[j]]
            /\ conns' = [op \in Ops |-> [j \in Jobs |->
                 conns[op][j] +
                   IF /\ Valid(j) /\ j \in JobsIn(left)
                      /\ op \in FateOps(fate[j]) THEN 1 ELSE 0]]
            /\ m_jobs' = LeftRemoved(left)
    BY <1>3 DEF ProcessQueueReply
  <2> DEFINE stay == Keys(m_jobs) \ left
  <2>2. PICK line \in [JobsIn(stay) -> LineStates],
             fate \in [JobsIn(left) -> Fates] :
            /\ jobState' = [j \in Jobs |->
                 IF ~Valid(j) THEN jobState[j]
                 ELSE IF j \in JobsIn(left)
                      THEN IF FateState(fate[j]) = "unchanged"
                           THEN jobState[j] ELSE FateState(fate[j])
                 ELSE IF j \in JobsIn(stay) THEN line[j]
                 ELSE jobState[j]]
            /\ conns' = [op \in Ops |-> [j \in Jobs |->
                 conns[op][j] +
                   IF /\ Valid(j) /\ j \in JobsIn(left)
                      /\ op \in FateOps(fate[j]) THEN 1 ELSE 0]]
            /\ m_jobs' = LeftRemoved(left)
    BY <2>1
  <2>3. \A q \in QueueIds : m_jobs[q] # NoJob =>
           m_jobs[q] \in Jobs /\ Valid(m_jobs[q]) /\ queueId[m_jobs[q]] = q
    BY DEF IInv, TypeOK, IndexConsistent
  <2>4. left \subseteq QueueIds /\ stay \subseteq QueueIds
    BY DEF Keys
  <2>5. \A k \in JobsIn(left) : k \in Jobs /\ Valid(k) /\ IsTracked(k)
                                /\ queueId[k] \in left
    BY <2>3, <2>4 DEF JobsIn, IsTracked
  <2>6. /\ m_jobs' \in [QueueIds -> Jobs \cup {NoJob}]
        /\ \A q \in QueueIds : m_jobs'[q] =
              IF q \in left THEN NoJob ELSE m_jobs[q]
    BY <2>2 DEF LeftRemoved, IInv, TypeOK
  <2>7. \A k \in JobsIn(left) : ~IsTracked(k)'
    BY <1>1, <2>5, <2>6 DEF IsTracked
  <2>8. \A k \in Jobs : IsTracked(k)' => IsTracked(k)
    BY <1>1, <2>6, ReferencesShrink
  <2>9. /\ conns \in Table
        /\ conns' \in Table
    BY <2>2 DEF IInv, TypeOK, Table
  <2>10. \A s \in JobState : s # NotCreated /\ s # Removed
    BY DEF JobState, NotCreated, Removed
  <2>11. \A k \in Jobs : jobState'[k] # jobState[k] =>
            Valid(k) /\ jobState'[k] \in JobState
    <3> SUFFICES ASSUME NEW k \in Jobs, jobState'[k] # jobState[k]
                 PROVE  Valid(k) /\ jobState'[k] \in JobState
      OBVIOUS
    <3>1. Valid(k)
      BY <2>2
    <3>2. CASE k \in JobsIn(left)
      <4>1. fate[k] \in Fates
        BY <3>2
      <4>2. jobState'[k] = FateState(fate[k]) /\ FateState(fate[k]) # "unchanged"
        BY <2>2, <3>1, <3>2
      <4> QED BY <3>1, <4>1, <4>2, FateFacts
    <3>3. CASE k \notin JobsIn(left)
      BY <2>2, <3>1, <3>3
    <3> QED BY <3>2, <3>3
  <2>12. TypeOK'
    <3>1. jobState' \in [Jobs -> JobState \cup {NotCreated, Removed}]
      BY <2>2, <2>11 DEF IInv, TypeOK
    <3> QED BY <1>1, <2>6, <2>9, <3>1 DEF IInv, TypeOK, Table, envVars
  <2>13. \A k \in Jobs : Untouched(k) \/ AtOneStage(k)'
    <3> SUFFICES ASSUME NEW k \in Jobs PROVE Untouched(k) \/ AtOneStage(k)'
      OBVIOUS
    <3>1. CASE k \in JobsIn(left)
      <4>1. /\ m_pendingSubmission[k] = 0
            /\ \A o \in Ops : conns[o][k] = 0
            /\ jobState[k] # NotCreated
        BY <2>5, <3>1, TrackedAlone
      <4>2. PICK op \in Ops : FateOps(fate[k]) \subseteq {op}
        BY <3>1, FateFacts
      <4>3. /\ conns'[op][k] =< 1
            /\ \A o \in Ops \ {op} : conns'[o][k] = 0
        BY <2>2, <4>1, <4>2
      <4>4. jobState'[k] # NotCreated
        BY <2>10, <2>11, <4>1
      <4>5. m_pendingSubmission'[k] = 0
        BY <1>1, <4>1
      <4> QED BY <2>7, <2>12, <3>1, <4>3, <4>4, <4>5, OneConnection
    <3>2. CASE k \notin JobsIn(left)
      <4>1. \A o \in Ops : conns'[o][k] = conns[o][k] + 0
        BY <2>2, <3>2
      <4>2. \A o \in Ops : conns'[o][k] = conns[o][k]
        BY <2>9, <4>1 DEF Table
      <4> QED BY <1>1, <2>8, <4>2 DEF Untouched
    <3> QED BY <3>1, <3>2
  <2>14. \A q \in QueueIds : m_jobs'[q] # NoJob =>
            m_jobs'[q] = m_jobs[q] /\ jobState'[m_jobs[q]] # Removed
    <3> SUFFICES ASSUME NEW q \in QueueIds, m_jobs'[q] # NoJob
                 PROVE  m_jobs'[q] = m_jobs[q] /\ jobState'[m_jobs[q]] # Removed
      OBVIOUS
    <3>1. m_jobs'[q] = m_jobs[q]
      BY <2>6
    <3>2. m_jobs[q] \in Jobs /\ Valid(m_jobs[q])
      BY <2>3, <3>1
    <3> QED BY <2>10, <2>11, <3>1, <3>2 DEF Valid
  <2>15. \A k \in Jobs : IsTracked(k)' =>
            jobState'[k] \in {jobState[k]} \cup LineStates
    <3> SUFFICES ASSUME NEW k \in Jobs, IsTracked(k)'
                 PROVE  jobState'[k] \in {jobState[k]} \cup LineStates
      OBVIOUS
    <3>1. k \notin JobsIn(left)
      BY <2>7
    <3> QED BY <2>2, <3>1
  <2> QED BY <1>1, <2>10, <2>11, <2>12, <2>13, <2>14, <2>15, <2>6, Preservation
<1> QED BY <1>2, <1>3 DEF HandleQueueUpdate

LEMMA SurroundingsIInv ==
    ASSUME IInv,
           \/ Reconfigure
           \/ \E q \in SchedulerIds : ClusterStarts(q) \/ ClusterEnds(q)
           \/ UNCHANGED vars
    PROVE  IInv'
<1>1. UNCHANGED <<jobVars, queueVars, sshVars>>
  BY DEF Reconfigure, ClusterStarts, ClusterEnds, vars
<1>2. /\ hostNameSet' \in BOOLEAN
      /\ dialog' = dialog
      /\ remoteDir' = remoteDir
  BY DEF Reconfigure, ClusterStarts, ClusterEnds, vars, envVars, IInv, TypeOK
<1>3. cluster' \in ClusterTable
  <2>1. CASE cluster' = cluster
    BY <2>1 DEF IInv, TypeOK, ClusterTable
  <2>2. CASE \E q \in SchedulerIds : ClusterStarts(q) \/ ClusterEnds(q)
    BY <2>2, ClusterMoves DEF IInv, ClusterStarts, ClusterEnds
  <2> QED BY <2>1, <2>2 DEF Reconfigure, vars, envVars
<1>4. TypeOK'
  BY <1>1, <1>2, <1>3
     DEF IInv, TypeOK, ClusterTable, jobVars, queueVars, sshVars
<1> QED BY <1>1, <1>4, BystanderStep DEF jobVars, queueVars, sshVars

LEMMA NextIInv == IInv /\ [Next]_vars => IInv'
<1> SUFFICES ASSUME IInv, [Next]_vars PROVE IInv'
  OBVIOUS
<1>1. CASE \E j \in Jobs :
             \/ SubmitJob(j)
             \/ RemoteDirectoryCreated(j)
             \/ InputFilesCopied(j)
             \/ JobSubmittedToRemoteQueue(j)
             \/ OutputCopiedFromServer(j)
             \/ RemoteDirectoryCleaned(j)
             \/ CancelJob(j)
             \/ OpenKillDialog(j)
             \/ EndKillJob(j)
             \/ RemoveJob(j)
  BY <1>1, SubmitJobIInv, RemoteDirectoryCreatedIInv, InputFilesCopiedIInv,
     JobSubmittedToRemoteQueueIInv, OutputCopiedFromServerIInv,
     RemoteDirectoryCleanedIInv, CancelJobIInv, OpenKillDialogIInv,
     EndKillJobIInv, RemoveJobIInv
<1>2. CASE SubmitPendingJobs
  BY <1>2, SubmitPendingJobsIInv
<1>3. CASE UpdateTimer
  BY <1>3, UpdateTimerIInv
<1>4. CASE UpdateRemoteQueues
  BY <1>4, UpdateRemoteQueuesIInv
<1>5. CASE HandleQueueUpdate
  BY <1>5, HandleQueueUpdateIInv
<1>6. CASE AnswerKillDialog
  BY <1>6, AnswerKillDialogIInv
<1>7. CASE \/ Reconfigure
           \/ \E q \in SchedulerIds : ClusterStarts(q) \/ ClusterEnds(q)
           \/ UNCHANGED vars
  BY <1>7, SurroundingsIInv
<1> QED BY <1>1, <1>2, <1>3, <1>4, <1>5, <1>6, <1>7 DEF Next

-----------------------------------------------------------------------------
(* The theorems.                                                           *)

\* The inductive invariant holds in every reachable state.
THEOREM Inductive == Spec => []IInv
<1>1. Init => IInv
  BY InitIInv
<1>2. IInv /\ [Next]_vars => IInv'
  BY NextIInv
<1> QED BY <1>1, <1>2, PTL DEF Spec

\* Every variable keeps its type; in particular no connection count becomes
\* negative and no failure count exceeds MaxRetries.
THEOREM TypeCorrect == Spec => []TypeOK
<1>1. IInv => TypeOK
  BY DEF IInv
<1> QED BY <1>1, Inductive, PTL

\* For any number of jobs and in any order of completions, timers, cancels
\* and removals, each job is at one stage of its journey, once.
THEOREM StagesSafe == Spec => []SingleStage
<1>1. IInv => SingleStage
  BY DEF IInv
<1> QED BY <1>1, Inductive, PTL

\* The queue's table of references never disagrees with the jobs.
THEOREM IndexSafe == Spec => []IndexConsistent
<1>1. IInv => IndexConsistent
  BY DEF IInv
<1> QED BY <1>1, Inductive, PTL

\* A job the queue follows is never shown as canceled, failed or finished.
THEOREM TrackedSafe == Spec => []TrackedIsActive
<1>1. IInv => TrackedIsActive
  BY DEF IInv
<1> QED BY <1>1, Inductive, PTL

-----------------------------------------------------------------------------
(* The lifecycle.                                                          *)

\* The stage of a valid job with a connection for op.
StageOfOp(op) ==
    CASE op \in {"mkdir", "copyIn", "submit"} -> "submitting"
      [] op = "kill"                          -> "killing"
      [] op = "fetch"                         -> "fetching"
      [] op = "clean"                         -> "cleaning"

StageFacts(j) ==
    /\ jobState[j] = NotCreated => StageOf(j) = "absent"
    /\ jobState[j] = Removed => StageOf(j) = "released"
    /\ Valid(j) /\ m_pendingSubmission[j] > 0 => StageOf(j) = "pending"
    /\ Valid(j) /\ IsTracked(j) => StageOf(j) = "tracked"
    /\ \A op \in Ops :
          Valid(j) /\ conns[op][j] > 0 => StageOf(j) = StageOfOp(op)
    /\ /\ jobState[j] # NotCreated
       /\ m_pendingSubmission[j] = 0
       /\ ~IsTracked(j)
       /\ \A op \in Ops : conns[op][j] = 0
       => StageOf(j) = "released"

\* What JobLifecycle allows the stage s and the failures f of a job to become.
Allowed(s, f, t, g) ==
    \/ <<s, t>> \in Lifecycle!Advance /\ g = f
    \/ <<s, t>> \in Lifecycle!Settle /\ g = 0
    \/ <<s, t>> = <<"submitting", "pending">> /\ g = f + 1 /\ g =< MaxRetries
    \/ s # "absent" /\ t = "released" /\ g = 0
    \/ t = s /\ g = f
Moves(j) == Allowed(StageOf(j), FailuresOf(j), StageOf(j)', FailuresOf(j)')

\* A job that has not been created has failed at nothing.
NoEarlyFailure ==
    \A j \in Jobs : jobState[j] = NotCreated => m_failureTracker[j] = 0

LEMMA StageTable == IInv => \A j \in Jobs : StageFacts(j)
<1> SUFFICES ASSUME IInv, NEW j \in Jobs PROVE StageFacts(j)
  OBVIOUS
<1>1. /\ jobState[j] = NotCreated => StageOf(j) = "absent"
      /\ jobState[j] = Removed => StageOf(j) = "released"
      /\ Valid(j) /\ m_pendingSubmission[j] > 0 => StageOf(j) = "pending"
  BY DEF StageOf, Valid, NotCreated, Removed
<1>2. \A op \in Ops : conns[op][j] \in Nat
  BY DEF IInv, TypeOK
<1>3. {"mkdir", "copyIn", "submit", "fetch", "clean", "kill"} \subseteq Ops
  BY DEF Ops
<1>4. ASSUME Valid(j), IsTracked(j) PROVE StageOf(j) = "tracked"
  <2>1. /\ m_pendingSubmission[j] = 0
        /\ \A o \in Ops : conns[o][j] = 0
    BY <1>4, TrackedAlone
  <2> QED BY <1>3, <1>4, <2>1 DEF StageOf, Valid
<1>5. ASSUME NEW op \in Ops, Valid(j), conns[op][j] > 0
      PROVE  StageOf(j) = StageOfOp(op)
  <2>1. /\ conns[op][j] = 1
        /\ \A o \in Ops \ {op} : conns[o][j] = 0
        /\ m_pendingSubmission[j] = 0
        /\ ~IsTracked(j)
    BY <1>5, ConnectionAlone
  <2>2. op \in {"mkdir", "copyIn", "submit", "fetch", "clean", "kill"}
    BY DEF Ops
  <2> QED BY <1>3, <1>5, <2>1, <2>2 DEF StageOf, StageOfOp, Valid
<1>6. ASSUME jobState[j] # NotCreated,
             m_pendingSubmission[j] = 0, ~IsTracked(j),
             \A op \in Ops : conns[op][j] = 0
      PROVE  StageOf(j) = "released"
  BY <1>3, <1>6 DEF StageOf
<1> QED BY <1>1, <1>4, <1>5, <1>6 DEF StageFacts

LEMMA FailuresTable ==
    IInv => \A j \in Jobs : FailuresOf(j) \in 0 .. MaxRetries
BY DEF IInv, TypeOK, FailuresOf, MaxRetries

LEMMA StageType == \A j \in Jobs : StageOf(j) \in Lifecycle!Stage
BY DEF StageOf, Lifecycle!Stage

-----------------------------------------------------------------------------
(* What a step does to a job.                                              *)

\* Another job bears the scheduler id of k.
SharesId(k) ==
    /\ queueId[k] \in QueueIds
    /\ \E j \in Jobs \ {k} : queueId[j] = queueId[k]

Final == {"Finished", "Canceled", "Error"}
Over  == {"cleaning", "released"}

\* The state of a job changes to a final one, or forward with its stage.
StateMoves(k) ==
    jobState'[k] # jobState[k] =>
      \/ jobState'[k] \in {"Canceled", "Error", Removed}
      \/ jobState'[k] = "Finished" /\ StageOf(k)' \in Over
      \/ StageOf(k) \in {"absent", "submitting"} /\ jobState'[k] # "Finished"
      \/ StageOf(k) = "tracked" /\ jobState'[k] \in LineStates

\* A job that still exists is let go in a final state, unless its kill
\* failed or another job took its id.
LetGo(k) ==
    Valid(k)' /\ StageOf(k)' \in Over =>
      \/ jobState'[k] \in Final
      \/ StageOf(k) \in Over /\ jobState'[k] = jobState[k]
      \/ "killFails" \in Events
      \/ SharesId(k)'

\* No submission is started for a job that has been removed.
NotStarted(k) ==
    jobState'[k] = Removed /\ conns'["submit"][k] > 0 =>
      /\ conns["submit"][k] > 0
      /\ jobState[k] # NotCreated

Uncreated(k) ==
    jobState'[k] = NotCreated =>
      jobState[k] = NotCreated /\ m_failureTracker'[k] = m_failureTracker[k]

Effect(k) ==
    Moves(k) /\ StateMoves(k) /\ LetGo(k) /\ NotStarted(k) /\ Uncreated(k)

\* A job the step is not about, or only by canceling or reporting on it.
Framed(k) ==
    /\ Untouched(k)
    /\ m_failureTracker'[k] = m_failureTracker[k]
    /\ IsTracked(k) => IsTracked(k)' \/ SharesId(k)'
    /\ \/ jobState'[k] = jobState[k]
       \/ /\ Valid(k)
          /\ \/ jobState'[k] \in {"Canceled", "Error"}
             \/ /\ IsTracked(k)
                /\ IsTracked(k)'
                /\ jobState'[k] \in LineStates

LEMMA StateNames == \A s \in JobState : s # NotCreated /\ s # Removed
BY DEF JobState, NotCreated, Removed

\* The ways for a job to be at a stage, in this state and in the next.
LEMMA Stages ==
    ASSUME IInv, IInv', NEW k \in Jobs
    PROVE  /\ StageFacts(k)
           /\ StageFacts(k)'
           /\ FailuresOf(k) \in 0 .. MaxRetries
           /\ FailuresOf(k)' \in 0 .. MaxRetries
<1>1. (\A j \in Jobs : StageFacts(j))'
  BY StageTable, PTL
<1>2. (\A j \in Jobs : FailuresOf(j) \in 0 .. MaxRetries)'
  BY FailuresTable, PTL
<1> QED BY <1>1, <1>2, StageTable, FailuresTable

LEMMA FramedEffect ==
    ASSUME IInv, IInv', NEW k \in Jobs, Framed(k)
    PROVE  Effect(k)
<1>1. /\ StageFacts(k) /\ StageFacts(k)'
      /\ FailuresOf(k) \in 0 .. MaxRetries
      /\ FailuresOf(k)' \in 0 .. MaxRetries
  BY Stages
<1>2. {"Canceled", "Error"} \subseteq JobState
  BY DEF JobState
<1>3. /\ Valid(k) => Valid(k)' 
      /\ jobState'[k] = NotCreated <=> jobState[k] = NotCreated
      /\ jobState'[k] = Removed <=> jobState[k] = Removed
  BY <1>2, StateNames, RemoteQueueAssumption
     DEF Framed, Valid, RemoteQueueAssumption
<1>4. "submit" \in Ops /\ "kill" \in Ops
  BY DEF Ops
<1>5. /\ Uncreated(k)
      /\ NotStarted(k)
  BY <1>3, <1>4 DEF Framed, Untouched, Uncreated, NotStarted, NotCreated, Removed
<1>6. CASE ~Valid(k)
  <2>1. jobState'[k] = jobState[k] /\ jobState[k] \in {NotCreated, Removed}
    BY <1>6 DEF Framed, Valid
  <2>2. ~Valid(k)'
    BY <2>1 DEF Valid
  <2>3. StageOf(k)' = StageOf(k) /\ StageOf(k) \in {"absent", "released"}
    BY <1>1, <2>1 DEF StageFacts
  <2> QED BY <1>5, <2>1, <2>2, <2>3
          DEF Effect, Moves, Allowed, FailuresOf, StateMoves, LetGo
<1>7. CASE Valid(k) /\ StageOf(k)' = StageOf(k)
  <2>1. Moves(k)
    BY <1>7 DEF Framed, Moves, Allowed, FailuresOf
  <2>2. StateMoves(k)
    BY <1>1, <1>7 DEF Framed, StateMoves, StageFacts
  <2>3. LetGo(k)
    BY <1>1, <1>3, <1>7 DEF Framed, LetGo, Final, Over, StageFacts
  <2> QED BY <1>5, <2>1, <2>2, <2>3 DEF Effect
<1>8. CASE Valid(k) /\ StageOf(k)' # StageOf(k)
  <2>1. ~(m_pendingSubmission[k] > 0) /\ ~(m_pendingSubmission'[k] > 0)
    BY <1>1, <1>3, <1>8 DEF Framed, Untouched, StageFacts
  <2>2. \A op \in Ops : ~(conns[op][k] > 0) /\ ~(conns'[op][k] > 0)
    BY <1>1, <1>3, <1>8 DEF Framed, Untouched, StageFacts
  <2>3. /\ m_pendingSubmission[k] = 0 /\ m_pendingSubmission'[k] = 0
        /\ \A op \in Ops : conns[op][k] = 0 /\ conns'[op][k] = 0
    <3>1. /\ m_pendingSubmission[k] \in Nat /\ m_pendingSubmission'[k] \in Nat
          /\ \A op \in Ops : conns[op][k] \in Nat /\ conns'[op][k] \in Nat
      BY DEF IInv, TypeOK
    <3> QED BY <2>1, <2>2, <3>1
  <2>4. IsTracked(k) /\ ~IsTracked(k)'
    BY <1>1, <1>3, <1>8, <2>3 DEF Framed, Untouched, StageFacts, Valid
  <2>5. StageOf(k) = "tracked" /\ StageOf(k)' = "released"
    BY <1>1, <1>3, <1>8, <2>3, <2>4 DEF StageFacts, Valid
  <2>6. Moves(k) /\ LetGo(k)
    BY <2>4, <2>5 DEF Framed, Moves, Allowed, FailuresOf, LetGo
  <2>7. StateMoves(k)
    BY <2>4 DEF Framed, StateMoves
  <2> QED BY <1>5, <2>6, <2>7 DEF Effect
<1> QED BY <1>6, <1>7, <1>8

\* A completion or a kill that lets its job go.
LEMMA ReleaseEffect ==
    ASSUME IInv, IInv', NEW j \in Jobs, Valid(j),
           \A o \in Ops : conns'[o][j] = 0,
           m_pendingSubmission'[j] = 0, ~IsTracked(j)',
           \/ jobState'[j] \in Final \cup {Removed}
           \/ jobState'[j] = jobState[j] /\ StageOf(j) \in Over
           \/ jobState'[j] = jobState[j] /\ "killFails" \in Events
    PROVE  Effect(j)
<1>1. jobState'[j] # NotCreated
  BY DEF Valid, Final, NotCreated, Removed
<1>2. StageOf(j)' = "released" /\ FailuresOf(j)' = 0
  BY <1>1, Stages DEF StageFacts, FailuresOf
<1>3. StageOf(j) # "absent"
  BY DEF StageOf, Valid
<1>4. Moves(j)
  BY <1>2, <1>3 DEF Moves, Allowed
<1>5. StateMoves(j) /\ LetGo(j)
  BY <1>2 DEF StateMoves, LetGo, Over, Final, Valid, Removed
<1>6. "submit" \in Ops
  BY DEF Ops
<1> QED BY <1>1, <1>4, <1>5, <1>6 DEF Effect, NotStarted, Uncreated

\* A job that was removed meanwhile stays released.
LEMMA RemovedEffect ==
    ASSUME IInv, IInv', NEW j \in Jobs, jobState[j] = Removed,
           jobState'[j] = Removed, conns'["submit"][j] =< 0
    PROVE  Effect(j)
<1>1. /\ StageOf(j) = "released" /\ FailuresOf(j) = 0
      /\ StageOf(j)' = "released" /\ FailuresOf(j)' = 0
  BY Stages DEF StageFacts, FailuresOf
<1>2. conns'["submit"][j] \in Nat
  BY DEF IInv, TypeOK, Ops
<1> QED BY <1>1, <1>2
        DEF Effect, Moves, Allowed, StateMoves, LetGo, NotStarted, Uncreated,
            Valid, NotCreated, Removed

LEMMA SubmitJobEffect ==
    ASSUME IInv, IInv', NoEarlyFailure, NEW j \in Jobs, SubmitJob(j)
    PROVE  \A k \in Jobs : Effect(k)
<1>1. /\ jobState[j] = NotCreated
      /\ jobState' = [jobState EXCEPT ![j] = "Accepted"]
      /\ m_pendingSubmission' = [m_pendingSubmission EXCEPT ![j] = @ + 1]
      /\ UNCHANGED <<m_failureTracker, m_jobs, conns>>
  BY DEF SubmitJob, NewJob, sshVars
<1>2. PICK id \in ClientIds : queueId' = [queueId EXCEPT ![j] = id]
  BY DEF SubmitJob, NewJob
<1>3. Effect(j)
  <2>1. m_pendingSubmission'[j] > 0
    BY <1>1 DEF IInv, TypeOK
  <2>2. jobState'[j] = "Accepted" /\ Valid(j)'
    BY <1>1 DEF IInv, TypeOK, Valid, NotCreated, Removed
  <2>3. StageOf(j) = "absent" /\ StageOf(j)' = "pending"
    BY <1>1, <2>1, <2>2, Stages DEF StageFacts
  <2>4. FailuresOf(j) = 0 /\ FailuresOf(j)' = 0
    BY <1>1, <2>3 DEF FailuresOf, NoEarlyFailure
  <2>5. Moves(j)
    BY <2>3, <2>4 DEF Moves, Allowed, Lifecycle!Advance
  <2> QED BY <2>2, <2>3, <2>5
          DEF Effect, StateMoves, LetGo, NotStarted, Uncreated, Over,
              NotCreated, Removed
<1>4. ASSUME NEW k \in Jobs \ {j} PROVE Framed(k)
  <2>1. /\ queueId'[k] = queueId[k]
        /\ jobState'[k] = jobState[k]
        /\ m_pendingSubmission'[k] = m_pendingSubmission[k]
    BY <1>1, <1>2 DEF IInv, TypeOK
  <2> QED BY <1>1, <2>1 DEF Framed, Untouched, IsTracked
<1> QED BY <1>3, <1>4, FramedEffect

\* The other jobs when a connection of j ends and m_jobs is left alone.
LEMMA OthersFramed ==
    ASSUME IInv, NEW j \in Jobs, NEW k \in Jobs \ {j},
           \A o \in Ops : conns'[o][k] = conns[o][k],
           jobState'[k] = jobState[k],
           m_pendingSubmission'[k] = m_pendingSubmission[k],
           m_failureTracker'[k] = m_failureTracker[k],
           UNCHANGED <<queueId, m_jobs>>
    PROVE  Framed(k)
BY DEF Framed, Untouched, IsTracked

-----------------------------------------------------------------------------
(* The submission slots.                                                   *)

LEMMA IgnoreEffect ==
    ASSUME IInv, IInv', NEW op \in Ops, NEW j \in Jobs, conns[op][j] > 0,
           IgnoreCompletion(op, j)
    PROVE  \A k \in Jobs : Effect(k)
<1>1. /\ ~Valid(j)
      /\ conns' = Finish(op, j)
      /\ UNCHANGED <<jobState, queueId, m_pendingSubmission, m_failureTracker,
                     m_jobs>>
  BY DEF IgnoreCompletion, jobVars, queueVars
<1>2. /\ \A o \in Ops : conns'[o][j] = 0
      /\ \A k \in Jobs \ {j} : Untouched(k)
  BY <1>1, FinishStage DEF IInv
<1>3. jobState[j] # NotCreated
  BY ConnectionAlone
<1>4. Effect(j)
  BY <1>1, <1>2, <1>3, RemovedEffect DEF Valid, Ops
<1>5. ASSUME NEW k \in Jobs \ {j} PROVE Framed(k)
  BY <1>1, <1>2 DEF Framed, IsTracked
<1> QED BY <1>4, <1>5, FramedEffect

LEMMA RetryEffect ==
    ASSUME IInv, IInv', NEW op \in {"mkdir", "copyIn", "submit"},
           NEW j \in Jobs, conns[op][j] > 0, RetrySubmission(op, j)
    PROVE  \A k \in Jobs : Effect(k)
<1> op \in Ops
  BY DEF Ops
<1>1. /\ Valid(j)
      /\ conns' = Finish(op, j)
      /\ jobState' = [jobState EXCEPT ![j] = "Error"]
      /\ UNCHANGED <<queueId, m_jobs>>
  BY DEF RetrySubmission, SetState
<1>2. /\ \A k \in Jobs \ {j} : m_pendingSubmission'[k] = m_pendingSubmission[k]
      /\ \A k \in Jobs \ {j} : m_failureTracker'[k] = m_failureTracker[k]
      /\ \A k \in Jobs \ {j} : jobState'[k] = jobState[k]
      /\ jobState'[j] = "Error"
  BY <1>1 DEF RetrySubmission, AddJobFailure, IInv, TypeOK
<1>3. /\ \A o \in Ops : conns'[o][j] = 0
      /\ ~IsTracked(j)'
      /\ \A k \in Jobs \ {j} : Untouched(k)
  BY <1>1, <1>2, FinishStage DEF IInv
<1>4. /\ m_pendingSubmission[j] = 0
      /\ StageOf(j) = "submitting"
      /\ FailuresOf(j) = m_failureTracker[j]
  BY <1>1, ConnectionAlone, Stages DEF StageFacts, StageOfOp, FailuresOf
<1>5. Effect(j)
  <2>1. CASE MayRetry(j)
    <3>1. /\ m_pendingSubmission'[j] > 0
          /\ m_failureTracker'[j] = m_failureTracker[j] + 1
      BY <1>4, <2>1 DEF RetrySubmission, AddJobFailure, IInv, TypeOK
    <3>2. Valid(j)'
      BY <1>2 DEF Valid, NotCreated, Removed
    <3>3. StageOf(j)' = "pending" /\ FailuresOf(j)' = m_failureTracker'[j]
      BY <3>1, <3>2, Stages DEF StageFacts, FailuresOf
    <3>4. Moves(j)
      BY <1>4, <2>1, <3>1, <3>3 DEF Moves, Allowed, MayRetry
    <3> QED BY <1>2, <3>3, <3>4
            DEF Effect, StateMoves, LetGo, NotStarted, Uncreated, Over,
                NotCreated, Removed
  <2>2. CASE ~MayRetry(j)
    <3>1. m_pendingSubmission'[j] = 0
      BY <1>4, <2>2 DEF RetrySubmission, IInv, TypeOK
    <3> QED BY <1>1, <1>2, <1>3, <3>1, ReleaseEffect DEF Final
  <2> QED BY <2>1, <2>2
<1>6. ASSUME NEW k \in Jobs \ {j} PROVE Framed(k)
  BY <1>1, <1>2, <1>3 DEF Framed, IsTracked
<1> QED BY <1>5, <1>6, FramedEffect

LEMMA ContinueEffect ==
    ASSUME IInv, IInv', NEW from \in {"mkdir", "copyIn"},
           NEW op \in {"mkdir", "copyIn", "submit"} \ {from}, NEW j \in Jobs,
           conns[from][j] > 0, Valid(j), Continue(from, op, j),
           UNCHANGED <<queueId, m_pendingSubmission, m_failureTracker, m_jobs>>
    PROVE  \A k \in Jobs : Effect(k)
<1> from \in Ops /\ op \in Ops
  BY DEF Ops
<1>1. /\ conns \in Table
      /\ m_pendingSubmission[j] = 0
      /\ ~IsTracked(j)
      /\ StageOf(j) = "submitting"
  BY ConnectionAlone, Stages DEF StageFacts, StageOfOp, IInv, TypeOK, Table
<1>2. /\ Finish(from, j) \in Table
      /\ \A o \in Ops, k \in Jobs : Finish(from, j)[o][k] =
            IF o = from /\ k = j THEN conns[o][k] - 1 ELSE conns[o][k]
  BY <1>1, FinishTable
<1>3. CASE hostNameSet
  <2> DEFINE c == Finish(from, j)
  <2>1. conns' = [c EXCEPT ![op][j] = @ + 1] /\ UNCHANGED jobState
    BY <1>3 DEF Continue
  <2>2. c \in Table
    BY <1>2
  <2> HIDE DEF c
  <2>3. /\ \A o \in Ops, k \in Jobs : conns'[o][k] =
              IF o = op /\ k = j THEN c[o][k] + 1 ELSE c[o][k]
        /\ c[op][j] \in Nat
    BY <2>1, <2>2 DEF Table
  <2>4. conns'[op][j] > 0
    BY <2>3
  <2>5. \A k \in Jobs \ {j}, o \in Ops : conns'[o][k] = conns[o][k]
    BY <1>2, <2>3 DEF c
  <2>6. StageOf(j)' = "submitting"
    BY <2>1, <2>4, Stages DEF StageFacts, StageOfOp, Valid
  <2>7. Effect(j)
    BY <1>1, <2>1, <2>6
       DEF Effect, Moves, Allowed, FailuresOf, StateMoves, LetGo, NotStarted,
           Uncreated, Over, Valid
  <2>8. ASSUME NEW k \in Jobs \ {j} PROVE Framed(k)
    BY <2>1, <2>5, OthersFramed
  <2> QED BY <2>7, <2>8, FramedEffect
<1>4. CASE ~hostNameSet
  <2>1. /\ conns' = Finish(from, j)
        /\ jobState' = [jobState EXCEPT ![j] = "Error"]
    BY <1>4 DEF Continue, SetState
  <2>2. /\ \A o \in Ops : conns'[o][j] = 0
        /\ ~IsTracked(j)'
        /\ \A k \in Jobs \ {j} : Untouched(k)
    BY <2>1, FinishStage DEF IInv
  <2>3. /\ jobState'[j] = "Error"
        /\ \A k \in Jobs \ {j} : jobState'[k] = jobState[k]
    BY <2>1 DEF IInv, TypeOK
  <2>4. Effect(j)
    BY <1>1, <2>2, <2>3, ReleaseEffect DEF Final
  <2>5. ASSUME NEW k \in Jobs \ {j} PROVE Framed(k)
    BY <2>2, <2>3 DEF Framed, IsTracked
  <2> QED BY <2>4, <2>5, FramedEffect
<1> QED BY <1>3, <1>4

\* A job registered under an id that another one bears takes its place.
LEMMA RegisterEffect ==
    ASSUME IInv, IInv', NEW j \in Jobs, NEW q \in QueueIds,
           conns["submit"][j] > 0, Register(j, q)
    PROVE  \A k \in Jobs : Effect(k)
<1> "submit" \in Ops
  BY DEF Ops
<1>1. /\ Valid(j)
      /\ conns' = Finish("submit", j)
      /\ jobState' = [jobState EXCEPT ![j] = "Submitted"]
      /\ m_failureTracker' = [m_failureTracker EXCEPT ![j] = 0]
      /\ queueId' = [queueId EXCEPT ![j] = q]
      /\ m_jobs' = [m_jobs EXCEPT ![q] = j]
      /\ UNCHANGED m_pendingSubmission
  BY DEF Register, SetState
<1>2. \A o \in Ops, k \in Jobs : conns'[o][k] =
         IF o = "submit" /\ k = j THEN conns[o][k] - 1 ELSE conns[o][k]
  BY <1>1, FinishTable DEF IInv, TypeOK, Table
<1>3. Effect(j)
  <2>1. jobState'[j] = "Submitted" /\ IsTracked(j)'
    BY <1>1 DEF IInv, TypeOK, IsTracked
  <2>2. StageOf(j) = "submitting" /\ StageOf(j)' = "tracked"
    BY <1>1, <2>1, Stages
       DEF StageFacts, StageOfOp, Valid, NotCreated, Removed
  <2>3. Moves(j)
    BY <2>2 DEF Moves, Allowed, Lifecycle!Settle, FailuresOf
  <2> QED BY <2>1, <2>2, <2>3
          DEF Effect, StateMoves, LetGo, NotStarted, Uncreated, Over,
              NotCreated, Removed
<1>4. ASSUME NEW k \in Jobs \ {j} PROVE Framed(k)
  <2>1. /\ queueId'[k] = queueId[k]
        /\ queueId'[j] = q
        /\ jobState'[k] = jobState[k]
        /\ m_failureTracker'[k] = m_failureTracker[k]
        /\ \A p \in QueueIds \ {q} : m_jobs'[p] = m_jobs[p]
        /\ m_jobs'[q] = j
    BY <1>1 DEF IInv, TypeOK
  <2>2. IsTracked(k)' => IsTracked(k)
    BY <2>1 DEF IsTracked
  <2>3. IsTracked(k) => IsTracked(k)' \/ SharesId(k)'
    BY <2>1 DEF IsTracked, SharesId
  <2>4. Untouched(k)
    BY <1>1, <1>2, <2>2 DEF Untouched
  <2> QED BY <2>1, <2>3, <2>4 DEF Framed
<1> QED BY <1>3, <1>4, FramedEffect

LEMMA RemoteDirectoryCreatedEffect ==
    ASSUME IInv, IInv', NEW j \in Jobs, RemoteDirectoryCreated(j)
    PROVE  \A k \in Jobs : Effect(k)
<1>1. conns["mkdir"][j] > 0 /\ "mkdir" \in Ops
  BY DEF RemoteDirectoryCreated, Ops
<1>2. CASE RetrySubmission("mkdir", j)
  BY <1>1, <1>2, RetryEffect
<1>3. CASE Valid(j) /\ CopyInputFilesToHost(j) /\ UNCHANGED <<queueId, queueVars>>
  BY <1>1, <1>3, ContinueEffect DEF CopyInputFilesToHost, queueVars
<1>4. CASE IgnoreCompletion("mkdir", j)
  BY <1>1, <1>4, IgnoreEffect
<1> QED BY <1>2, <1>3, <1>4 DEF RemoteDirectoryCreated

LEMMA InputFilesCopiedEffect ==
    ASSUME IInv, IInv', NEW j \in Jobs, InputFilesCopied(j)
    PROVE  \A k \in Jobs : Effect(k)
<1>1. conns["copyIn"][j] > 0 /\ "copyIn" \in Ops
  BY DEF InputFilesCopied, Ops
<1>2. CASE RetrySubmission("copyIn", j)
  BY <1>1, <1>2, RetryEffect
<1>3. CASE Valid(j) /\ CreateRemoteDirectory(j) /\ UNCHANGED <<queueId, queueVars>>
  BY <1>1, <1>3, ContinueEffect DEF CreateRemoteDirectory, queueVars
<1>4. CASE Valid(j) /\ SubmitJobToRemoteQueue(j) /\ UNCHANGED <<queueId, queueVars>>
  BY <1>1, <1>4, ContinueEffect DEF SubmitJobToRemoteQueue, queueVars
<1>5. CASE IgnoreCompletion("copyIn", j)
  BY <1>1, <1>5, IgnoreEffect
<1> QED BY <1>2, <1>3, <1>4, <1>5 DEF InputFilesCopied

LEMMA JobSubmittedToRemoteQueueEffect ==
    ASSUME IInv, IInv', NEW j \in Jobs, JobSubmittedToRemoteQueue(j)
    PROVE  \A k \in Jobs : Effect(k)
<1>1. conns["submit"][j] > 0 /\ "submit" \in Ops
  BY DEF JobSubmittedToRemoteQueue, Ops
<1>2. CASE \E q \in QueueIds : Register(j, q)
  BY <1>1, <1>2, RegisterEffect
<1>3. CASE RetrySubmission("submit", j)
  BY <1>1, <1>3, RetryEffect
<1>4. CASE IgnoreCompletion("submit", j)
  BY <1>1, <1>4, IgnoreEffect
<1> QED BY <1>2, <1>3, <1>4 DEF JobSubmittedToRemoteQueue, QueueIds

-----------------------------------------------------------------------------
(* Following, finalizing, cancelling and removing.                         *)

\* A connection that ends in a final state, or in the one the job was left in.
LEMMA EndEffect ==
    ASSUME IInv, IInv', NEW op \in Ops, NEW j \in Jobs, conns[op][j] > 0,
           Valid(j), conns' = Finish(op, j),
           UNCHANGED <<queueId, m_pendingSubmission, m_failureTracker, m_jobs>>,
           \/ \E s \in Final : SetState(j, s)
           \/ UNCHANGED jobState /\ op = "clean"
           \/ UNCHANGED jobState /\ "killFails" \in Events
    PROVE  \A k \in Jobs : Effect(k)
<1>1. /\ \A o \in Ops : conns'[o][j] = 0
      /\ ~IsTracked(j)'
      /\ \A k \in Jobs \ {j} : Untouched(k)
      /\ m_pendingSubmission'[j] = 0
  BY FinishStage, ConnectionAlone DEF IInv
<1>2. \A k \in Jobs \ {j} : jobState'[k] = jobState[k]
  BY DEF SetState, IInv, TypeOK
<1>3. op = "clean" => StageOf(j) \in Over
  BY Stages DEF StageFacts, StageOfOp, Over
<1>4. \/ jobState'[j] \in Final
      \/ jobState'[j] = jobState[j] /\ StageOf(j) \in Over
      \/ jobState'[j] = jobState[j] /\ "killFails" \in Events
  BY <1>3 DEF SetState, IInv, TypeOK
<1>5. Effect(j)
  BY <1>1, <1>4, ReleaseEffect
<1>6. ASSUME NEW k \in Jobs \ {j} PROVE Framed(k)
  BY <1>1, <1>2 DEF Framed, IsTracked
<1> QED BY <1>5, <1>6, FramedEffect

LEMMA OutputCopiedFromServerEffect ==
    ASSUME IInv, IInv', NEW j \in Jobs, OutputCopiedFromServer(j)
    PROVE  \A k \in Jobs : Effect(k)
<1>1. conns["fetch"][j] > 0 /\ "fetch" \in Ops /\ "clean" \in Ops /\ "submit" \in Ops
  BY DEF OutputCopiedFromServer, Ops
<1>2. CASE /\ Valid(j)
           /\ conns' = Finish("fetch", j)
           /\ SetState(j, "Error")
           /\ UNCHANGED <<queueId, queueVars>>
  BY <1>1, <1>2, EndEffect DEF queueVars, Final
<1>3. CASE /\ Valid(j)
           /\ \E fate \in Fates \ {"fetch"} :
                /\ SetState(j, FateState(fate))
                /\ conns' = [op \in Ops |-> [Finish("fetch", j)[op] EXCEPT
                              ![j] = @ + IF op \in FateOps(fate) THEN 1 ELSE 0]]
           /\ UNCHANGED <<queueId, queueVars>>
  <2>1. PICK fate \in Fates \ {"fetch"} :
          /\ SetState(j, FateState(fate))
          /\ conns' = [op \in Ops |-> [Finish("fetch", j)[op] EXCEPT
                        ![j] = @ + IF op \in FateOps(fate) THEN 1 ELSE 0]]
    BY <1>3
  <2>2. /\ FateState(fate) \in Final
        /\ FateOps(fate) \in {{}, {"clean"}}
    BY DEF Fates, FateState, FateOps, Final
  <2> DEFINE c == Finish("fetch", j)
  <2>3. /\ c \in Table
        /\ \A o \in Ops, k \in Jobs : c[o][k] =
              IF o = "fetch" /\ k = j THEN conns[o][k] - 1 ELSE conns[o][k]
    BY <1>1, FinishTable DEF IInv, TypeOK, Table
  <2>4. /\ conns["fetch"][j] = 1
        /\ \A o \in Ops \ {"fetch"} : conns[o][j] = 0
        /\ m_pendingSubmission[j] = 0
        /\ ~IsTracked(j)
        /\ StageOf(j) = "fetching"
    BY <1>1, <1>3, ConnectionAlone, Stages DEF StageFacts, StageOfOp
  <2>5. conns' = [op \in Ops |-> [c[op] EXCEPT
                        ![j] = @ + IF op \in FateOps(fate) THEN 1 ELSE 0]]
    BY <2>1
  <2> HIDE DEF c
  <2>6. /\ \A o \in Ops, k \in Jobs \ {j} : conns'[o][k] = conns[o][k]
        /\ \A o \in Ops : conns'[o][j] = c[o][j] +
                            IF o \in FateOps(fate) THEN 1 ELSE 0
        /\ \A o \in Ops : c[o][j] = 0
    BY <2>3, <2>4, <2>5 DEF Table
  <2>7. /\ jobState'[j] \in Final
        /\ \A k \in Jobs \ {j} : jobState'[k] = jobState[k]
    BY <1>3, <2>1, <2>2 DEF SetState, IInv, TypeOK
  <2>8. UNCHANGED <<queueId, m_pendingSubmission, m_failureTracker, m_jobs>>
    BY <1>3 DEF queueVars
  <2>9. Effect(j)
    <3>1. CASE FateOps(fate) = {}
      <4>1. \A o \in Ops : conns'[o][j] = 0
        BY <2>6, <3>1
      <4>2. m_pendingSubmission'[j] = 0 /\ ~IsTracked(j)'
        BY <2>4, <2>8 DEF IsTracked
      <4> QED BY <1>3, <2>7, <4>1, <4>2, ReleaseEffect
    <3>2. CASE FateOps(fate) = {"clean"}
      <4>1. conns'["clean"][j] > 0 /\ conns'["submit"][j] = 0
        BY <1>1, <2>6, <3>2
      <4>2. Valid(j)'
        BY <2>7 DEF Valid, Final, NotCreated, Removed
      <4>3. StageOf(j)' = "cleaning"
        BY <1>1, <4>1, <4>2, Stages DEF StageFacts, StageOfOp
      <4>4. Moves(j)
        BY <2>4, <4>3 DEF Moves, Allowed, Lifecycle!Settle, FailuresOf
      <4> QED BY <2>7, <4>1, <4>3, <4>4
              DEF Effect, StateMoves, LetGo, NotStarted, Uncreated, Over,
                  Final, NotCreated, Removed
    <3> QED BY <2>2, <3>1, <3>2
  <2>10. ASSUME NEW k \in Jobs \ {j} PROVE Framed(k)
    BY <2>6, <2>7, <2>8, OthersFramed
  <2> QED BY <2>9, <2>10, FramedEffect
<1>4. CASE IgnoreCompletion("fetch", j)
  BY <1>1, <1>4, IgnoreEffect
<1> QED BY <1>2, <1>3, <1>4 DEF OutputCopiedFromServer

LEMMA RemoteDirectoryCleanedEffect ==
    ASSUME IInv, IInv', NEW j \in Jobs, RemoteDirectoryCleaned(j)
    PROVE  \A k \in Jobs : Effect(k)
<1>1. conns["clean"][j] > 0 /\ "clean" \in Ops /\ "Error" \in Final
  BY DEF RemoteDirectoryCleaned, Ops, Final
<1>2. CASE IgnoreCompletion("clean", j)
  BY <1>1, <1>2, IgnoreEffect
<1>3. CASE ~IgnoreCompletion("clean", j)
  BY <1>1, <1>3, EndEffect DEF RemoteDirectoryCleaned, queueVars
<1> QED BY <1>2, <1>3

LEMMA EndKillJobEffect ==
    ASSUME IInv, IInv', NEW j \in Jobs, EndKillJob(j)
    PROVE  \A k \in Jobs : Effect(k)
<1>1. /\ conns["kill"][j] > 0 /\ "kill" \in Ops /\ "Canceled" \in Final
      /\ conns' = Finish("kill", j)
      /\ UNCHANGED <<queueId, m_pendingSubmission, m_failureTracker, m_jobs>>
      /\ \/ SetState(j, "Canceled")
         \/ UNCHANGED jobState /\ "killFails" \in Events
  BY DEF EndKillJob, Ops, Final, queueVars
<1>2. CASE Valid(j)
  BY <1>1, <1>2, EndEffect
<1>3. CASE ~Valid(j)
  <2>1. UNCHANGED jobState
    BY <1>1, <1>3 DEF SetState
  <2>2. /\ \A o \in Ops : conns'[o][j] = 0
        /\ \A k \in Jobs \ {j} : Untouched(k)
        /\ jobState[j] # NotCreated
    BY <1>1, FinishStage, ConnectionAlone DEF IInv
  <2>3. Effect(j)
    BY <1>3, <2>1, <2>2, RemovedEffect DEF Valid, Ops
  <2>4. ASSUME NEW k \in Jobs \ {j} PROVE Framed(k)
    BY <1>1, <2>1, <2>2 DEF Framed, IsTracked
  <2> QED BY <2>3, <2>4, FramedEffect
<1> QED BY <1>2, <1>3

\* A kill reaches a job in the pending list, one in m_jobs, or neither; then
\* its state is set and what is being done with it goes on.
LEMMA KillJobEffect ==
    ASSUME IInv, IInv', NEW j \in Jobs, Valid(j), KillJob(j),
           UNCHANGED <<queueId, m_failureTracker>>
    PROVE  \A k \in Jobs : Effect(k)
<1> "kill" \in Ops /\ "submit" \in Ops
  BY DEF Ops
<1>1. CASE /\ m_pendingSubmission[j] > 0
           /\ m_pendingSubmission' = [m_pendingSubmission EXCEPT ![j] = @ - 1]
           /\ SetState(j, "Canceled")
           /\ UNCHANGED <<m_jobs, conns>>
  <2>1. /\ m_pendingSubmission[j] = 1
        /\ \A o \in Ops : conns'[o][j] = 0
        /\ ~IsTracked(j)'
    BY <1>1, PendingAlone DEF IsTracked
  <2>2. /\ m_pendingSubmission'[j] = 0
        /\ \A k \in Jobs \ {j} : m_pendingSubmission'[k] = m_pendingSubmission[k]
        /\ jobState'[j] = "Canceled"
        /\ \A k \in Jobs \ {j} : jobState'[k] = jobState[k]
    BY <1>1, <2>1 DEF IInv, TypeOK, SetState
  <2>3. Effect(j)
    BY <2>1, <2>2, ReleaseEffect DEF Final
  <2>4. ASSUME NEW k \in Jobs \ {j} PROVE Framed(k)
    BY <1>1, <2>2, OthersFramed
  <2> QED BY <2>3, <2>4, FramedEffect
<1>2. CASE /\ m_pendingSubmission[j] = 0
           /\ IsTracked(j)
           /\ m_jobs' = Untracked(j)
           /\ BeginKillJob(j)
           /\ UNCHANGED m_pendingSubmission
  <2>1. /\ \A o \in Ops : conns[o][j] = 0
        /\ StageOf(j) = "tracked"
    BY <1>2, TrackedAlone, Stages DEF StageFacts
  <2>2. /\ ~IsTracked(j)'
        /\ \A k \in Jobs \ {j} : IsTracked(k)' <=> IsTracked(k)
    <3>1. /\ queueId[j] \in QueueIds
          /\ m_jobs[queueId[j]] = j
          /\ \A q \in QueueIds :
                m_jobs'[q] = IF q = queueId[j] THEN NoJob ELSE m_jobs[q]
      BY <1>2 DEF IInv, TypeOK, Untracked, IsTracked
    <3> QED BY <3>1, RemoteQueueAssumption DEF IsTracked, RemoteQueueAssumption
  <2>3. CASE hostNameSet
    <3>1. conns' = [conns EXCEPT !["kill"][j] = @ + 1] /\ UNCHANGED jobState
      BY <1>2, <2>3 DEF BeginKillJob
    <3>2. \A o \in Ops, k \in Jobs : conns'[o][k] =
            IF o = "kill" /\ k = j THEN conns[o][k] + 1 ELSE conns[o][k]
      BY <3>1 DEF IInv, TypeOK
    <3>3. conns'["kill"][j] > 0 /\ conns'["submit"][j] = 0
      BY <2>1, <3>2
    <3>4. StageOf(j)' = "killing"
      BY <3>1, <3>3, Stages DEF StageFacts, StageOfOp, Valid
    <3>5. Moves(j)
      BY <2>1, <3>4 DEF Moves, Allowed, Lifecycle!Settle, FailuresOf
    <3>6. Effect(j)
      BY <3>1, <3>3, <3>4, <3>5
         DEF Effect, StateMoves, LetGo, NotStarted, Uncreated, Over, Valid
    <3>7. ASSUME NEW k \in Jobs \ {j} PROVE Framed(k)
      <4>1. \A o \in Ops : conns'[o][k] = conns[o][k]
        BY <3>2
      <4> QED BY <1>2, <2>2, <3>1, <4>1 DEF Framed, Untouched
    <3> QED BY <3>6, <3>7, FramedEffect
  <2>4. CASE ~hostNameSet
    <3>1. conns' = conns /\ jobState' = [jobState EXCEPT ![j] = "Error"]
      BY <1>2, <2>4 DEF BeginKillJob, SetState
    <3>2. /\ jobState'[j] = "Error"
          /\ \A k \in Jobs \ {j} : jobState'[k] = jobState[k]
      BY <3>1 DEF IInv, TypeOK
    <3>3. Effect(j)
      BY <1>2, <2>1, <2>2, <3>1, <3>2, ReleaseEffect DEF Final
    <3>4. ASSUME NEW k \in Jobs \ {j} PROVE Framed(k)
      BY <1>2, <2>2, <3>1, <3>2 DEF Framed, Untouched
    <3> QED BY <3>3, <3>4, FramedEffect
  <2> QED BY <2>3, <2>4
<1>3. CASE /\ m_pendingSubmission[j] = 0
           /\ ~IsTracked(j)
           /\ SetState(j, "Canceled")
           /\ UNCHANGED <<m_pendingSubmission, m_jobs, conns>>
  <2>1. /\ jobState'[j] = "Canceled"
        /\ \A k \in Jobs \ {j} : jobState'[k] = jobState[k]
    BY <1>3 DEF IInv, TypeOK, SetState
  <2>2. ASSUME NEW k \in Jobs PROVE Framed(k)
    BY <1>3, <2>1 DEF Framed, Untouched, IsTracked
  <2> QED BY <2>2, FramedEffect
<1> QED BY <1>1, <1>2, <1>3 DEF KillJob

\* A job that bears the id of the removed one loses its reference with it.
LEMMA RemoveJobEffect ==
    ASSUME IInv, IInv', NEW j \in Jobs, RemoveJob(j)
    PROVE  \A k \in Jobs : Effect(k)
<1>1. /\ Valid(j)
      /\ jobState' = [jobState EXCEPT ![j] = Removed]
      /\ m_pendingSubmission' = PendingWithout(j)
      /\ m_failureTracker' = [m_failureTracker EXCEPT ![j] = 0]
      /\ m_jobs' = WithoutReference(j)
      /\ UNCHANGED <<queueId, conns>>
  BY DEF RemoveJob, sshVars
<1>2. /\ jobState'[j] = Removed
      /\ \A k \in Jobs \ {j} : jobState'[k] = jobState[k]
      /\ \A k \in Jobs \ {j} : m_pendingSubmission'[k] = m_pendingSubmission[k]
      /\ \A k \in Jobs \ {j} : m_failureTracker'[k] = m_failureTracker[k]
  BY <1>1 DEF PendingWithout, IInv, TypeOK
<1>3. Effect(j)
  <2>1. StageOf(j) # "absent"
    BY <1>1 DEF StageOf, Valid
  <2>2. StageOf(j)' = "released" /\ FailuresOf(j)' = 0
    BY <1>2, Stages DEF StageFacts, FailuresOf
  <2>3. Moves(j)
    BY <2>1, <2>2 DEF Moves, Allowed
  <2>4. ~Valid(j)'
    BY <1>2 DEF Valid
  <2> QED BY <1>1, <1>2, <2>3, <2>4
          DEF Effect, StateMoves, LetGo, NotStarted, Uncreated, Valid,
              NotCreated, Removed
<1>4. ASSUME NEW k \in Jobs \ {j} PROVE Framed(k)
  <2>1. \A q \in QueueIds :
          m_jobs'[q] = IF q = queueId[j] THEN NoJob ELSE m_jobs[q]
    BY <1>1 DEF WithoutReference
  <2>2. IsTracked(k)' => IsTracked(k)
    BY <1>1, <2>1, RemoteQueueAssumption DEF IsTracked, RemoteQueueAssumption
  <2>3. IsTracked(k) => IsTracked(k)' \/ SharesId(k)'
    BY <1>1, <2>1 DEF IsTracked, SharesId
  <2> QED BY <1>1, <1>2, <2>2, <2>3 DEF Framed, Untouched
<1> QED BY <1>3, <1>4, FramedEffect

\* Steps that concern no job.
LEMMA BystanderEffect ==
    ASSUME IInv, IInv',
           UNCHANGED <<jobState, queueId, m_pendingSubmission,
                       m_failureTracker, conns>>,
           \A k \in Jobs : IsTracked(k)' <=> IsTracked(k)
    PROVE  \A k \in Jobs : Effect(k)
<1>1. \A k \in Jobs : Framed(k)
  BY DEF Framed, Untouched
<1> QED BY <1>1, FramedEffect

LEMMA SubmitPendingJobsEffect ==
    ASSUME IInv, IInv', SubmitPendingJobs
    PROVE  \A k \in Jobs : Effect(k)
<1> DEFINE waiting == {j \in Jobs : m_pendingSubmission[j] > 0}
<1>1. PICK written \in SUBSET {j \in waiting : Valid(j)} :
        LET sent == IF hostNameSet THEN written ELSE {} IN
        /\ conns' = [conns EXCEPT !["copyIn"] =
                       [j \in Jobs |->
                           @[j] + IF j \in sent
                                  THEN m_pendingSubmission[j] ELSE 0]]
        /\ jobState' = [j \in Jobs |->
                           IF j \in waiting \ sent /\ Valid(j)
                           THEN "Error" ELSE jobState[j]]
  BY DEF SubmitPendingJobs
<1> DEFINE sent == IF hostNameSet THEN written ELSE {}
<1>2. sent \subseteq waiting /\ \A j \in sent : Valid(j)
  OBVIOUS
<1>3. \A j \in Jobs : jobState'[j] = IF j \in waiting \ sent /\ Valid(j)
                                     THEN "Error" ELSE jobState[j]
  BY <1>1
<1>4. /\ \A j \in Jobs : conns'["copyIn"][j] =
           conns["copyIn"][j] + IF j \in sent THEN m_pendingSubmission[j] ELSE 0
      /\ \A o \in Ops \ {"copyIn"} : conns'[o] = conns[o]
  BY <1>1 DEF IInv, TypeOK, Ops
<1>5. /\ \A j \in Jobs : m_pendingSubmission'[j] = 0
      /\ UNCHANGED <<queueId, m_failureTracker, m_jobs>>
  BY DEF SubmitPendingJobs, PendingCleared
<1> HIDE DEF sent
<1>6. \A j \in Jobs : IsTracked(j)' <=> IsTracked(j)
  BY <1>5 DEF IsTracked
<1>7. SUFFICES ASSUME NEW j \in Jobs PROVE Effect(j)
  OBVIOUS
<1>8. "copyIn" \in Ops /\ "submit" \in Ops
  BY DEF Ops
<1>9. CASE j \in waiting
  <2>1. /\ m_pendingSubmission[j] = 1
        /\ \A o \in Ops : conns[o][j] = 0
        /\ ~IsTracked(j)
        /\ jobState[j] # NotCreated
    BY <1>9, PendingAlone
  <2>2. CASE j \in sent
    <3>1. /\ jobState'[j] = jobState[j]
          /\ Valid(j) /\ Valid(j)'
          /\ conns'["copyIn"][j] > 0
          /\ conns'["submit"][j] = 0
      BY <1>2, <1>3, <1>4, <1>8, <2>1, <2>2 DEF Valid
    <3>2. StageOf(j) = "pending" /\ StageOf(j)' = "submitting"
      BY <1>8, <2>1, <3>1, Stages DEF StageFacts, StageOfOp
    <3>3. Moves(j)
      BY <1>5, <3>2 DEF Moves, Allowed, Lifecycle!Advance, FailuresOf
    <3> QED BY <3>1, <3>2, <3>3
            DEF Effect, StateMoves, LetGo, NotStarted, Uncreated, Over, Valid
  <2>3. CASE j \notin sent
    <3>1. \A o \in Ops : conns'[o][j] = 0
      BY <1>4, <1>8, <2>1, <2>3
    <3>2. CASE Valid(j)
      <4>1. jobState'[j] = "Error"
        BY <1>3, <1>9, <2>3, <3>2
      <4> QED BY <1>5, <1>6, <2>1, <3>1, <3>2, <4>1, ReleaseEffect DEF Final
    <3>3. CASE ~Valid(j)
      BY <1>3, <1>8, <2>1, <3>1, <3>3, RemovedEffect DEF Valid
    <3> QED BY <3>2, <3>3
  <2> QED BY <2>2, <2>3
<1>10. CASE j \notin waiting
  <2>1. m_pendingSubmission[j] = 0 /\ jobState'[j] = jobState[j]
    BY <1>3, <1>10 DEF IInv, TypeOK
  <2>2. \A o \in Ops : conns'[o][j] = conns[o][j]
    BY <1>2, <1>4, <1>8, <1>10 DEF IInv, TypeOK
  <2>3. Framed(j)
    BY <1>5, <1>6, <2>1, <2>2 DEF Framed, Untouched
  <2> QED BY <2>3, FramedEffect
<1> QED BY <1>9, <1>10

\* No reference is stale, so the timer drops none.
LEMMA UpdateTimerEffect ==
    ASSUME IInv, IInv', UpdateTimer
    PROVE  \A k \in Jobs : Effect(k)
<1>1. \A q \in QueueIds : m_jobs'[q] = m_jobs[q]
  BY DEF UpdateTimer, RemoveStaleJobs, IInv, TypeOK, IndexConsistent
<1>2. \A k \in Jobs : IsTracked(k)' <=> IsTracked(k)
  BY <1>1 DEF IsTracked, UpdateTimer, jobVars
<1> QED BY <1>2, BystanderEffect DEF UpdateTimer, jobVars

LEMMA HandleQueueUpdateEffect ==
    ASSUME IInv, IInv', HandleQueueUpdate
    PROVE  \A k \in Jobs : Effect(k)
<1> USE RemoteQueueAssumption DEF RemoteQueueAssumption
<1>1. UNCHANGED <<queueId, m_pendingSubmission, m_failureTracker>>
  BY DEF HandleQueueUpdate
<1>2. CASE UNCHANGED <<jobState, conns, m_jobs>>
  BY <1>1, <1>2, BystanderEffect DEF IsTracked
<1>3. CASE ProcessQueueReply
  <2>1. PICK left \in SUBSET Keys(m_jobs) :
          \E line \in [JobsIn(Keys(m_jobs) \ left) -> LineStates],
             fate \in [JobsIn(left) -> Fates] :
            /\ jobState' = [j \in Jobs |->
                 IF ~Valid(j) THEN jobState[j]
                 ELSE IF j \in JobsIn(left)
                      THEN IF FateState(fate[j]) = "unchanged"
                           THEN jobState[j] ELSE FateState(fate[j])
                 ELSE IF j \in JobsIn(Keys(m_jobs) \ left) THEN line[j]
                 ELSE jobState[j]]
            /\ conns' = [op \in Ops |-> [j \in Jobs |->
                 conns[op][j] +
                   IF /\ Valid(j) /\ j \in JobsIn(left)
                      /\ op \in FateOps(fate[j]) THEN 1 ELSE 0]]
            /\ m_jobs' = LeftRemoved(left)
    BY <1>3 DEF ProcessQueueReply
  <2> DEFINE stay == Keys(m_jobs) \ left
  <2>2. PICK line \in [JobsIn(stay) -> LineStates],
             fate \in [JobsIn(left) -> Fates] :
            /\ jobState' = [j \in Jobs |->
                 IF ~Valid(j) THEN jobState[j]
                 ELSE IF j \in JobsIn(left)
                      THEN IF FateState(fate[j]) = "unchanged"
                           THEN jobState[j] ELSE FateState(fate[j])
                 ELSE IF j \in JobsIn(stay) THEN line[j]
                 ELSE jobState[j]]
            /\ conns' = [op \in Ops |-> [j \in Jobs |->
                 conns[op][j] +
                   IF /\ Valid(j) /\ j \in JobsIn(left)
                      /\ op \in FateOps(fate[j]) THEN 1 ELSE 0]]
            /\ m_jobs' = LeftRemoved(left)
    BY <2>1
  <2>3. \A q \in QueueIds : m_jobs[q] # NoJob =>
           m_jobs[q] \in Jobs /\ Valid(m_jobs[q]) /\ queueId[m_jobs[q]] = q
    BY DEF IInv, TypeOK, IndexConsistent
  <2>4. left \subseteq QueueIds /\ stay \subseteq QueueIds
    BY DEF Keys
  <2>5. \A k \in JobsIn(left) :
           Valid(k) /\ IsTracked(k) /\ queueId[k] \in left
    BY <2>3, <2>4 DEF JobsIn, IsTracked
  <2>6. \A k \in JobsIn(stay) :
           Valid(k) /\ IsTracked(k) /\ queueId[k] \in stay
    BY <2>3, <2>4 DEF JobsIn, IsTracked
  <2>7. \A q \in QueueIds : m_jobs'[q] = IF q \in left THEN NoJob ELSE m_jobs[q]
    BY <2>2 DEF LeftRemoved
  <2>8. /\ \A k \in JobsIn(left) : ~IsTracked(k)'
        /\ \A k \in JobsIn(stay) : IsTracked(k)'
    BY <1>1, <2>4, <2>5, <2>6, <2>7 DEF IsTracked, JobsIn
  <2>9. \A k \in Jobs : IsTracked(k) => k \in JobsIn(left) \cup JobsIn(stay)
    BY <2>4 DEF IsTracked, JobsIn, Keys
  <2>10. \A k \in Jobs : IsTracked(k)' => IsTracked(k)
    BY <1>1, <2>7, ReferencesShrink
  <2>11. SUFFICES ASSUME NEW k \in Jobs PROVE Effect(k)
    OBVIOUS
  <2>12. {"fetch", "clean", "submit"} \subseteq Ops
    BY DEF Ops
  <2>13. CASE k \in JobsIn(left)
    <3>1. /\ m_pendingSubmission[k] = 0
          /\ \A o \in Ops : conns[o][k] = 0
          /\ jobState[k] # NotCreated
          /\ StageOf(k) = "tracked"
      BY <2>5, <2>13, TrackedAlone, Stages DEF StageFacts
    <3>2. \A o \in Ops : conns'[o][k] = IF o \in FateOps(fate[k]) THEN 1 ELSE 0
      BY <2>2, <2>5, <2>13, <3>1
    <3>3. jobState'[k] = IF FateState(fate[k]) = "unchanged"
                         THEN jobState[k] ELSE FateState(fate[k])
      BY <2>2, <2>5, <2>13
    <3>4. \/ FateOps(fate[k]) = {} /\ FateState(fate[k]) \in Final
          \/ FateOps(fate[k]) = {"clean"} /\ FateState(fate[k]) = "Finished"
          \/ FateOps(fate[k]) = {"fetch"} /\ FateState(fate[k]) = "unchanged"
      <4>1. fate[k] \in Fates
        BY <2>13
      <4> QED BY <4>1 DEF Fates, FateState, FateOps, Final
    <3>5. CASE FateOps(fate[k]) = {} /\ FateState(fate[k]) \in Final
      BY <1>1, <2>5, <2>8, <2>13, <3>1, <3>2, <3>3, <3>5, ReleaseEffect DEF Final
    <3>6. CASE FateOps(fate[k]) = {"clean"} /\ FateState(fate[k]) = "Finished"
      <4>1. /\ conns'["clean"][k] > 0
            /\ conns'["submit"][k] = 0
            /\ jobState'[k] = "Finished"
        BY <2>12, <3>2, <3>3, <3>6
      <4>2. StageOf(k)' = "cleaning"
        BY <2>12, <4>1, Stages
           DEF StageFacts, StageOfOp, Valid, NotCreated, Removed
      <4>3. Moves(k)
        BY <3>1, <4>2 DEF Moves, Allowed, Lifecycle!Settle, FailuresOf
      <4> QED BY <4>1, <4>2, <4>3
              DEF Effect, StateMoves, LetGo, NotStarted, Uncreated, Over,
                  Final, NotCreated, Removed
    <3>7. CASE FateOps(fate[k]) = {"fetch"} /\ FateState(fate[k]) = "unchanged"
      <4>1. /\ conns'["fetch"][k] > 0
            /\ conns'["submit"][k] = 0
            /\ jobState'[k] = jobState[k]
        BY <2>12, <3>2, <3>3, <3>7
      <4>2. StageOf(k)' = "fetching"
        BY <2>5, <2>12, <2>13, <4>1, Stages DEF StageFacts, StageOfOp, Valid
      <4>3. Moves(k)
        BY <3>1, <4>2 DEF Moves, Allowed, Lifecycle!Settle, FailuresOf
      <4> QED BY <3>1, <4>1, <4>2, <4>3
              DEF Effect, StateMoves, LetGo, NotStarted, Uncreated, Over
    <3> QED BY <3>4, <3>5, <3>6, <3>7
  <2>14. CASE k \notin JobsIn(left)
    <3>1. \A o \in Ops : conns'[o][k] = conns[o][k]
      <4>1. \A o \in Ops : conns'[o][k] = conns[o][k] + 0
        BY <2>2, <2>14
      <4> QED BY <4>1 DEF IInv, TypeOK
    <3>2. IsTracked(k)' <=> IsTracked(k)
      BY <2>8, <2>9, <2>10, <2>14
    <3>3. \/ jobState'[k] = jobState[k]
          \/ k \in JobsIn(stay) /\ jobState'[k] \in LineStates
      BY <2>2, <2>14
    <3>4. Framed(k)
      BY <1>1, <2>6, <2>8, <3>1, <3>2, <3>3 DEF Framed, Untouched
    <3> QED BY <3>4, FramedEffect
  <2> QED BY <2>13, <2>14
<1> QED BY <1>2, <1>3 DEF HandleQueueUpdate

LEMMA CancelJobEffect ==
    ASSUME IInv, IInv', NEW j \in Jobs, CancelJob(j)
    PROVE  \A k \in Jobs : Effect(k)
<1>1. Valid(j)
  BY DEF CancelJob, RpcCancelable, Valid, NotCreated, Removed
<1> QED BY <1>1, KillJobEffect DEF CancelJob

LEMMA AnswerKillDialogEffect ==
    ASSUME IInv, IInv', AnswerKillDialog
    PROVE  \A k \in Jobs : Effect(k)
<1>1. dialog \in Jobs
  BY DEF AnswerKillDialog, IInv, TypeOK
<1>2. CASE Valid(dialog) /\ KillJob(dialog)
  BY <1>1, <1>2, KillJobEffect DEF AnswerKillDialog
<1>3. CASE UNCHANGED <<jobState, m_pendingSubmission, m_jobs, conns>>
  BY <1>3, BystanderEffect DEF AnswerKillDialog, IsTracked
<1> QED BY <1>2, <1>3 DEF AnswerKillDialog

LEMMA SurroundingsEffect ==
    ASSUME IInv, IInv',
           \/ \E j \in Jobs : OpenKillDialog(j)
           \/ UpdateRemoteQueues
           \/ Reconfigure
           \/ \E q \in SchedulerIds : ClusterStarts(q) \/ ClusterEnds(q)
           \/ UNCHANGED vars
    PROVE  \A k \in Jobs : Effect(k)
<1>1. UNCHANGED <<jobState, queueId, m_pendingSubmission, m_failureTracker,
                  conns, m_jobs>>
  BY DEF OpenKillDialog, UpdateRemoteQueues, Reconfigure, ClusterStarts,
         ClusterEnds, vars, jobVars, queueVars, sshVars
<1> QED BY <1>1, BystanderEffect DEF IsTracked

LEMMA NextEffect ==
    ASSUME IInv, NoEarlyFailure, [Next]_vars
    PROVE  \A k \in Jobs : Effect(k)
<1>1. IInv'
  BY NextIInv
<1>2. CASE \E j \in Jobs :
             \/ SubmitJob(j)
             \/ RemoteDirectoryCreated(j)
             \/ InputFilesCopied(j)
             \/ JobSubmittedToRemoteQueue(j)
             \/ OutputCopiedFromServer(j)
             \/ RemoteDirectoryCleaned(j)
             \/ CancelJob(j)
             \/ EndKillJob(j)
             \/ RemoveJob(j)
  BY <1>1, <1>2, SubmitJobEffect, RemoteDirectoryCreatedEffect,
     InputFilesCopiedEffect, JobSubmittedToRemoteQueueEffect,
     OutputCopiedFromServerEffect, RemoteDirectoryCleanedEffect,
     CancelJobEffect, EndKillJobEffect, RemoveJobEffect
<1>3. CASE SubmitPendingJobs
  BY <1>1, <1>3, SubmitPendingJobsEffect
<1>4. CASE UpdateTimer
  BY <1>1, <1>4, UpdateTimerEffect
<1>5. CASE HandleQueueUpdate
  BY <1>1, <1>5, HandleQueueUpdateEffect
<1>6. CASE AnswerKillDialog
  BY <1>1, <1>6, AnswerKillDialogEffect
<1>7. CASE \/ \E j \in Jobs : OpenKillDialog(j)
           \/ UpdateRemoteQueues
           \/ Reconfigure
           \/ \E q \in SchedulerIds : ClusterStarts(q) \/ ClusterEnds(q)
           \/ UNCHANGED vars
  BY <1>1, <1>7, SurroundingsEffect
<1> QED BY <1>2, <1>3, <1>4, <1>5, <1>6, <1>7 DEF Next

-----------------------------------------------------------------------------
(* The refinement.                                                         *)

LEMMA InitRefines == Init => NoEarlyFailure /\ Lifecycle!LifecycleInit
<1> SUFFICES ASSUME Init PROVE NoEarlyFailure /\ Lifecycle!LifecycleInit
  OBVIOUS
<1>1. \A j \in Jobs : StageOf(j) = "absent" /\ FailuresOf(j) = 0
  BY DEF Init, StageOf, FailuresOf
<1>2. Lifecycle!LifecycleInit
  BY <1>1 DEF Lifecycle!LifecycleInit
<1> QED BY <1>2 DEF Init, NoEarlyFailure

LEMMA EarlyFailureStep == IInv /\ NoEarlyFailure /\ [Next]_vars => NoEarlyFailure'
<1> SUFFICES ASSUME IInv, NoEarlyFailure, [Next]_vars PROVE NoEarlyFailure'
  OBVIOUS
<1>1. \A j \in Jobs : Effect(j)
  BY NextEffect
<1> QED BY <1>1 DEF NoEarlyFailure, Effect, Uncreated

LEMMA StepRefines ==
    IInv /\ NoEarlyFailure /\ [Next]_vars => Lifecycle!LifecycleNext
<1> SUFFICES ASSUME IInv, NoEarlyFailure, [Next]_vars
             PROVE  Lifecycle!LifecycleNext
  OBVIOUS
<1> DEFINE s == [j \in Jobs |-> StageOf(j)]
           f == [j \in Jobs |-> FailuresOf(j)]
<1>1. IInv'
  BY NextIInv
<1>2. \A j \in Jobs : FailuresOf(j) \in 0 .. MaxRetries
                      /\ FailuresOf(j)' \in 0 .. MaxRetries
  BY <1>1, Stages
<1>3. (\A j \in Jobs : StageOf(j) \in Lifecycle!Stage)'
  BY StageType, PTL
<1>4. /\ s' \in [Jobs -> Lifecycle!Stage]
      /\ f' \in [Jobs -> 0 .. MaxRetries]
  BY <1>2, <1>3
<1>5. ASSUME NEW j \in Jobs
      PROVE  \/ Lifecycle!JobStep(j)
             \/ s'[j] = s[j] /\ f'[j] = f[j]
  <2>1. /\ s[j] = StageOf(j) /\ s'[j] = StageOf(j)'
        /\ f[j] = FailuresOf(j) /\ f'[j] = FailuresOf(j)'
    OBVIOUS
  <2>2. Moves(j)
    BY NextEffect DEF Effect
  <2> QED BY <2>1, <2>2 DEF Moves, Allowed, Lifecycle!JobStep, Lifecycle!Move
<1> QED BY <1>4, <1>5 DEF Lifecycle!LifecycleNext

\* A job that has not been created has no failures to its account.
THEOREM NothingFailsEarly == Spec => []NoEarlyFailure
<1>1. Init => NoEarlyFailure
  BY InitRefines
<1> QED BY <1>1, EarlyFailureStep, Inductive, PTL DEF Spec

\* Every behaviour of the queue is one of the lifecycle: whatever the order of
\* completions, timers, kills and removals, each job moves on, is retried at
\* most MaxRetries times, or is released for good.
THEOREM Refinement == Spec => ImplementsLifecycle
<1>1. Init => Lifecycle!LifecycleInit
  BY InitRefines
<1>2. IInv /\ NoEarlyFailure /\ [Next]_vars
        => [Lifecycle!LifecycleNext]_(Lifecycle!lifecycleVars)
  BY StepRefines
<1> QED BY <1>1, <1>2, Inductive, NothingFailsEarly, PTL
        DEF Spec, ImplementsLifecycle, Lifecycle!LifecycleSpec

-----------------------------------------------------------------------------
(* A finished job stays out of the pipeline.                               *)

\* A finished job is being cleaned up after or is let go.
FinishedIsOver == \A j \in Jobs : jobState[j] = "Finished" => StageOf(j) \in Over

LEMMA FinishedStep ==
    ASSUME "Finished" \notin LineStates
    PROVE  /\ IInv /\ NoEarlyFailure /\ FinishedIsOver /\ [Next]_vars
                => FinishedIsOver'
           /\ IInv /\ NoEarlyFailure /\ FinishedIsOver /\ [Next]_vars
                => \A j \in Jobs : jobState[j] = "Finished" =>
                     jobState'[j] \in {"Finished", "Canceled", "Error", Removed}
<1> SUFFICES ASSUME IInv, NoEarlyFailure, FinishedIsOver, [Next]_vars
             PROVE  /\ FinishedIsOver'
                    /\ \A j \in Jobs : jobState[j] = "Finished" =>
                         jobState'[j] \in {"Finished", "Canceled", "Error", Removed}
  OBVIOUS
<1>1. \A j \in Jobs : Moves(j) /\ StateMoves(j)
  BY NextEffect DEF Effect
<1>2. ASSUME NEW j \in Jobs, jobState[j] = "Finished"
      PROVE  /\ StageOf(j)' \in Over
             /\ jobState'[j] \in {"Finished", "Canceled", "Error", Removed}
  <2>1. StageOf(j) \in Over
    BY <1>2 DEF FinishedIsOver
  <2>2. StageOf(j)' \in Over
    BY <1>1, <2>1
       DEF Moves, Allowed, Lifecycle!Advance, Lifecycle!Settle, Over
  <2> QED BY <1>1, <1>2, <2>1, <2>2 DEF StateMoves, Over
<1>3. ASSUME NEW j \in Jobs, jobState[j] # "Finished", jobState'[j] = "Finished"
      PROVE  StageOf(j)' \in Over
  BY <1>1, <1>3 DEF StateMoves, Removed
<1> QED BY <1>2, <1>3 DEF FinishedIsOver

\* Under a scheduler whose parser never reports a job as finished - PBS, SGE
\* and SLURM - a finished job becomes pending, submitted, queued or running
\* again in no order of late completions, kills and updates.
THEOREM FinishedStays ==
    ASSUME "Finished" \notin LineStates
    PROVE  Spec => FinishedNotRevived
<1>1. Init => FinishedIsOver
  BY DEF Init, FinishedIsOver, NotCreated
<1>2. IInv /\ NoEarlyFailure /\ FinishedIsOver /\ [Next]_vars => FinishedIsOver'
  BY FinishedStep
<1>3. IInv /\ NoEarlyFailure /\ FinishedIsOver /\ [Next]_vars =>
        [\A j \in Jobs : jobState[j] = "Finished" =>
           jobState'[j] \in {"Finished", "Canceled", "Error", Removed}]_vars
  BY FinishedStep
<1> QED BY <1>1, <1>2, <1>3, Inductive, NothingFailsEarly, PTL
        DEF Spec, FinishedNotRevived

-----------------------------------------------------------------------------
(* How often a job is started.                                             *)

LaunchSet(j) == {q \in SchedulerIds : cluster[q].job = j}

\* The retries still to come make up for the starts there have been.
StartsCounted(j) ==
    /\ IsFiniteSet(LaunchSet(j))
    /\ Cardinality(LaunchSet(j)) =< MaxRetries + 1
    /\ StageOf(j) = "absent" => Cardinality(LaunchSet(j)) = 0
    /\ StageOf(j) \in {"pending", "submitting"} =>
         Cardinality(LaunchSet(j)) =< FailuresOf(j)
    /\ jobState[j] = Removed /\ conns["submit"][j] > 0 =>
         Cardinality(LaunchSet(j)) =< MaxRetries

AllStartsCounted == \A j \in Jobs : StartsCounted(j)

\* A step gives no job an id, unless it is the submission of that job.
LEMMA IdsGiven ==
    ASSUME IInv, NEW k \in Jobs, [Next]_vars
    PROVE  \/ LaunchSet(k)' \subseteq LaunchSet(k)
           \/ /\ JobSubmittedToRemoteQueue(k)
              /\ \E q \in SchedulerIds :
                   LaunchSet(k)' \subseteq LaunchSet(k) \cup {q}
<1>1. CASE cluster' = cluster
  BY <1>1 DEF LaunchSet
<1>2. CASE \E j \in Jobs, q \in SchedulerIds :
             JobSubmittedToRemoteQueue(j) /\ Launch(j, q)
  <2>1. PICK j \in Jobs, q \in SchedulerIds :
          JobSubmittedToRemoteQueue(j) /\ Launch(j, q)
    BY <1>2
  <2>2. \A p \in SchedulerIds :
          cluster'[p] = IF p = q THEN [job |-> j, st |-> "queued"] ELSE cluster[p]
    BY <2>1 DEF Launch, IInv, TypeOK
  <2>3. CASE j = k
    BY <2>1, <2>2, <2>3 DEF LaunchSet
  <2>4. CASE j # k
    BY <2>2, <2>4 DEF LaunchSet
  <2> QED BY <2>3, <2>4
<1>3. CASE \E q \in SchedulerIds, s \in {"running", "gone"} :
             cluster' = [cluster EXCEPT ![q].st = s]
  <2>1. \A p \in SchedulerIds : cluster'[p].job = cluster[p].job
    BY <1>3 DEF IInv, TypeOK
  <2> QED BY <2>1 DEF LaunchSet
<1>4. \A j \in Jobs : JobSubmittedToRemoteQueue(j) =>
        cluster' = cluster \/ \E q \in SchedulerIds : Launch(j, q)
  BY DEF JobSubmittedToRemoteQueue
<1>5. \A j \in Jobs : EndKillJob(j) =>
        \/ cluster' = cluster
        \/ \E q \in SchedulerIds : cluster' = [cluster EXCEPT ![q].st = "gone"]
  BY DEF EndKillJob
<1>6. \A q \in SchedulerIds : ClusterStarts(q) \/ ClusterEnds(q) =>
        \E s \in {"running", "gone"} : cluster' = [cluster EXCEPT ![q].st = s]
  BY DEF ClusterStarts, ClusterEnds
<1>7. CASE \E j \in Jobs :
             \/ SubmitJob(j)
             \/ RemoteDirectoryCreated(j)
             \/ InputFilesCopied(j)
             \/ OutputCopiedFromServer(j)
             \/ RemoteDirectoryCleaned(j)
             \/ CancelJob(j)
             \/ OpenKillDialog(j)
             \/ RemoveJob(j)
  BY <1>1, <1>7
     DEF SubmitJob, RemoteDirectoryCreated, InputFilesCopied,
         OutputCopiedFromServer, RemoteDirectoryCleaned, CancelJob,
         OpenKillDialog, RemoveJob, envVars
<1>8. CASE \/ SubmitPendingJobs \/ UpdateTimer \/ UpdateRemoteQueues
           \/ HandleQueueUpdate \/ AnswerKillDialog \/ Reconfigure
           \/ UNCHANGED vars
  BY <1>1, <1>8
     DEF SubmitPendingJobs, UpdateTimer, UpdateRemoteQueues, HandleQueueUpdate,
         AnswerKillDialog, Reconfigure, envVars, vars
<1> QED BY <1>1, <1>2, <1>3, <1>4, <1>5, <1>6, <1>7, <1>8 DEF Next

LEMMA StartsStep ==
    ASSUME IInv, NoEarlyFailure, [Next]_vars, NEW k \in Jobs, StartsCounted(k)
    PROVE  StartsCounted(k)'
<1> DEFINE n == Cardinality(LaunchSet(k))
           m == Cardinality(LaunchSet(k)')
<1>1. n \in Nat /\ n =< 4 /\ MaxRetries = 3
  BY FS_CardinalityType DEF StartsCounted, MaxRetries
<1>2. /\ StageFacts(k) /\ StageFacts(k)'
      /\ FailuresOf(k) \in 0 .. MaxRetries
      /\ FailuresOf(k)' \in 0 .. MaxRetries
  BY Stages, NextIInv
<1>3. Moves(k) /\ NotStarted(k)
  BY NextEffect DEF Effect
<1>4. "submit" \in Ops
  BY DEF Ops
<1>5. conns["submit"][k] > 0 /\ jobState[k] # NotCreated =>
        /\ n =< 3
        /\ StageOf(k) = "submitting" \/ StageOf(k) = "released"
  <2> SUFFICES ASSUME conns["submit"][k] > 0, jobState[k] # NotCreated
               PROVE  /\ n =< 3
                      /\ StageOf(k) = "submitting" \/ StageOf(k) = "released"
    OBVIOUS
  <2>1. CASE Valid(k)
    <3>1. StageOf(k) = "submitting"
      BY <1>2, <1>4, <2>1 DEF StageFacts, StageOfOp
    <3>2. n =< FailuresOf(k)
      BY <3>1 DEF StartsCounted
    <3> HIDE DEF n
    <3> QED BY <1>1, <1>2, <3>1, <3>2
  <2>2. CASE ~Valid(k)
    <3>1. jobState[k] = Removed
      BY <2>2 DEF Valid
    <3>2. n =< 3
      BY <1>1, <3>1 DEF StartsCounted
    <3> QED BY <1>2, <3>1, <3>2 DEF StageFacts
  <2> QED BY <2>1, <2>2
<1>6. CASE LaunchSet(k)' \subseteq LaunchSet(k)
  <2>1. IsFiniteSet(LaunchSet(k)') /\ m \in Nat /\ m =< n
    BY <1>6, FS_Subset, FS_CardinalityType DEF StartsCounted
  <2>2. /\ StageOf(k) = "absent" => n = 0
        /\ StageOf(k) \in {"pending", "submitting"} => n =< FailuresOf(k)
    BY DEF StartsCounted
  <2> HIDE DEF n, m
  <2>3. m =< 4
    BY <1>1, <2>1
  <2>4. StageOf(k)' = "absent" => m = 0
    BY <1>1, <1>3, <2>1, <2>2
       DEF Moves, Allowed, Lifecycle!Advance, Lifecycle!Settle
  <2>5. StageOf(k)' \in {"pending", "submitting"} => m =< FailuresOf(k)'
    BY <1>1, <1>2, <1>3, <2>1, <2>2
       DEF Moves, Allowed, Lifecycle!Advance, Lifecycle!Settle
  <2>6. jobState'[k] = Removed /\ conns'["submit"][k] > 0 => m =< 3
    BY <1>1, <1>3, <1>5, <2>1 DEF NotStarted
  <2> QED BY <1>1, <2>1, <2>3, <2>4, <2>5, <2>6 DEF StartsCounted, m
<1>7. CASE /\ JobSubmittedToRemoteQueue(k)
           /\ \E q \in SchedulerIds : LaunchSet(k)' \subseteq LaunchSet(k) \cup {q}
  <2>1. PICK q \in SchedulerIds : LaunchSet(k)' \subseteq LaunchSet(k) \cup {q}
    BY <1>7
  <2>2. /\ IsFiniteSet(LaunchSet(k) \cup {q})
        /\ Cardinality(LaunchSet(k) \cup {q}) \in Nat
        /\ Cardinality(LaunchSet(k) \cup {q}) =< n + 1
    BY <1>1, FS_AddElement DEF StartsCounted
  <2>3. IsFiniteSet(LaunchSet(k)') /\ m \in Nat /\ m =< n + 1
    <3> HIDE DEF n
    <3>1. /\ IsFiniteSet(LaunchSet(k)')
          /\ m =< Cardinality(LaunchSet(k) \cup {q})
      BY <2>1, <2>2, FS_Subset
    <3>2. m \in Nat
      BY <3>1, FS_CardinalityType
    <3> HIDE DEF m
    <3> QED BY <1>1, <2>2, <3>1, <3>2
  <2>4. conns["submit"][k] > 0 /\ conns' = Finish("submit", k)
    BY <1>7
       DEF JobSubmittedToRemoteQueue, Register, RetrySubmission, IgnoreCompletion
  <2>5. /\ conns["submit"][k] = 1
        /\ \A o \in Ops \ {"submit"} : conns[o][k] = 0
        /\ jobState[k] # NotCreated
    BY <1>4, <2>4, ConnectionAlone
  <2>6. \A o \in Ops : conns'[o][k] = 0
    <3>1. conns \in Table
      BY DEF IInv, TypeOK, Table
    <3>2. \A o \in Ops, j \in Jobs : Finish("submit", k)[o][j] =
            IF o = "submit" /\ j = k THEN conns[o][j] - 1 ELSE conns[o][j]
      BY <1>4, <2>4, <3>1, FinishTable
    <3> HIDE DEF n, m
    <3> QED BY <2>4, <2>5, <3>2
  <2>7. StageOf(k)' # "submitting"
    BY <2>6 DEF StageOf, Ops
  <2>8. StageOf(k) = "submitting" => n =< FailuresOf(k)
    BY DEF StartsCounted
  <2> HIDE DEF n, m
  <2>9. m =< 4 /\ StageOf(k) \in {"submitting", "released"}
    BY <1>1, <1>5, <2>3, <2>4, <2>5
  <2>10. StageOf(k)' # "absent"
    BY <1>3, <2>9 DEF Moves, Allowed, Lifecycle!Advance, Lifecycle!Settle
  <2>11. StageOf(k)' = "pending" => m =< FailuresOf(k)'
    BY <1>1, <1>2, <1>3, <2>3, <2>8, <2>9
       DEF Moves, Allowed, Lifecycle!Advance, Lifecycle!Settle
  <2>12. ~(conns'["submit"][k] > 0)
    BY <1>4, <2>6
  <2> QED BY <1>1, <2>3, <2>7, <2>9, <2>10, <2>11, <2>12 DEF StartsCounted, m
<1> QED BY <1>6, <1>7, IdsGiven

LEMMA StartsInit == Init => AllStartsCounted
<1> SUFFICES ASSUME Init, NEW j \in Jobs PROVE StartsCounted(j)
  BY DEF AllStartsCounted
<1>1. LaunchSet(j) = {}
  BY RemoteQueueAssumption DEF RemoteQueueAssumption, Init, LaunchSet, FreeSlot
<1>2. jobState[j] = NotCreated /\ StageOf(j) = "absent"
  BY DEF Init, StageOf
<1> QED BY <1>1, <1>2, FS_EmptySet
        DEF StartsCounted, MaxRetries, NotCreated, Removed

\* However many submissions are reported as failed although the scheduler took
\* the job, and whenever the job is removed, no job is started more than
\* MaxRetries + 1 times.
THEOREM StartsBounded == Spec => []LaunchesBounded
<1>1. IInv /\ NoEarlyFailure /\ AllStartsCounted /\ [Next]_vars => AllStartsCounted'
  BY StartsStep DEF AllStartsCounted
<1>2. AllStartsCounted => LaunchesBounded
  BY DEF AllStartsCounted, StartsCounted, LaunchesBounded, Launches, LaunchSet
<1> QED BY <1>1, <1>2, StartsInit, Inductive, NothingFailsEarly, PTL DEF Spec

-----------------------------------------------------------------------------
(* No job is dropped.                                                      *)

\* The kill command works, parseQueueId reads the scheduler's answer, and
\* clients leave the queueId to the queue.
ReliableScheduler ==
    /\ {"killFails", "unparsable"} \cap Events = {}
    /\ ClientIds \subseteq {InvalidId}

\* The id a job bears is one the scheduler gave it.
IdsOwned ==
    \A j \in Jobs : queueId[j] # InvalidId =>
      /\ queueId[j] \in SchedulerIds
      /\ cluster[queueId[j]].st # "free"
      /\ cluster[queueId[j]].job = j

SettledIsFinal ==
    \A j \in Jobs : Valid(j) /\ StageOf(j) \in Over => jobState[j] \in Final

LEMMA OwnersKeep ==
    ASSUME IInv, IdsOwned, queueId' = queueId,
           \/ cluster' = cluster
           \/ \E q \in SchedulerIds, s \in {"running", "gone"} :
                cluster' = [cluster EXCEPT ![q].st = s]
           \/ \E j \in Jobs, q \in SchedulerIds : Launch(j, q)
    PROVE  IdsOwned'
<1>1. CASE cluster' = cluster
  BY <1>1 DEF IdsOwned
<1>2. CASE \E q \in SchedulerIds, s \in {"running", "gone"} :
             cluster' = [cluster EXCEPT ![q].st = s]
  <2>1. \A p \in SchedulerIds :
          /\ cluster'[p].job = cluster[p].job
          /\ cluster'[p].st \in {cluster[p].st, "running", "gone"}
    BY <1>2 DEF IInv, TypeOK
  <2> QED BY <2>1 DEF IdsOwned
<1>3. CASE \E j \in Jobs, q \in SchedulerIds : Launch(j, q)
  <2>1. \A p \in SchedulerIds : cluster[p].st # "free" => cluster'[p] = cluster[p]
    BY <1>3 DEF IInv, TypeOK, Launch
  <2> QED BY <2>1 DEF IdsOwned
<1> QED BY <1>1, <1>2, <1>3

LEMMA OwnedStep ==
    ASSUME ReliableScheduler, IInv, IdsOwned, [Next]_vars
    PROVE  IdsOwned'
<1>1. ASSUME NEW j \in Jobs, SubmitJob(j) PROVE IdsOwned'
  <2>1. queueId' = [queueId EXCEPT ![j] = InvalidId] /\ cluster' = cluster
    BY <1>1 DEF SubmitJob, NewJob, ReliableScheduler, envVars
  <2> QED BY <2>1 DEF IdsOwned, IInv, TypeOK
<1>2. ASSUME NEW j \in Jobs, JobSubmittedToRemoteQueue(j) PROVE IdsOwned'
  <2>1. CASE \E q \in SchedulerIds : Launch(j, q) /\ Register(j, q)
    <3>1. PICK q \in SchedulerIds : Launch(j, q) /\ Register(j, q)
      BY <2>1
    <3>2. /\ \A p \in SchedulerIds : cluster'[p] =
               IF p = q THEN [job |-> j, st |-> "queued"] ELSE cluster[p]
          /\ cluster[q].st = "free"
      BY <3>1 DEF Launch, IInv, TypeOK
    <3>3. \A k \in Jobs : queueId'[k] = IF k = j THEN q ELSE queueId[k]
      BY <3>1 DEF Register, IInv, TypeOK
    <3> QED BY <3>2, <3>3 DEF IdsOwned
  <2>2. CASE RetrySubmission("submit", j) \/ IgnoreCompletion("submit", j)
    <3>1. queueId' = queueId
      BY <2>2 DEF RetrySubmission, IgnoreCompletion, jobVars
    <3>2. cluster' = cluster \/ \E q \in SchedulerIds : Launch(j, q)
      BY <1>2 DEF JobSubmittedToRemoteQueue
    <3> QED BY <3>1, <3>2, OwnersKeep
  <2>3. "unparsable" \notin Events
    BY DEF ReliableScheduler
  <2> QED BY <1>2, <2>1, <2>2, <2>3 DEF JobSubmittedToRemoteQueue
<1>3. ASSUME NEW j \in Jobs, EndKillJob(j) PROVE IdsOwned'
  BY <1>3, OwnersKeep DEF EndKillJob
<1>4. ASSUME NEW q \in SchedulerIds, ClusterStarts(q) \/ ClusterEnds(q)
      PROVE  IdsOwned'
  BY <1>4, OwnersKeep DEF ClusterStarts, ClusterEnds, jobVars
<1>5. ASSUME NEW j \in Jobs,
             \/ RemoteDirectoryCreated(j) \/ InputFilesCopied(j)
             \/ OutputCopiedFromServer(j) \/ RemoteDirectoryCleaned(j)
             \/ CancelJob(j) \/ OpenKillDialog(j) \/ RemoveJob(j)
      PROVE  IdsOwned'
  <2>1. queueId' = queueId /\ cluster' = cluster
    BY <1>5
       DEF RemoteDirectoryCreated, InputFilesCopied, OutputCopiedFromServer,
           RemoteDirectoryCleaned, CancelJob, OpenKillDialog, RemoveJob,
           RetrySubmission, IgnoreCompletion, jobVars, envVars
  <2> QED BY <2>1, OwnersKeep
<1>6. CASE \/ SubmitPendingJobs \/ UpdateTimer \/ UpdateRemoteQueues
           \/ HandleQueueUpdate \/ AnswerKillDialog \/ Reconfigure
           \/ UNCHANGED vars
  <2>1. queueId' = queueId /\ cluster' = cluster
    BY <1>6
       DEF SubmitPendingJobs, UpdateTimer, UpdateRemoteQueues,
           HandleQueueUpdate, AnswerKillDialog, Reconfigure, jobVars, envVars,
           vars
  <2> QED BY <2>1, OwnersKeep
<1> QED BY <1>1, <1>2, <1>3, <1>4, <1>5, <1>6 DEF Next

LEMMA SettledStep ==
    ASSUME ReliableScheduler, IInv, NoEarlyFailure, IdsOwned, SettledIsFinal,
           [Next]_vars
    PROVE  SettledIsFinal'
<1>1. IdsOwned'
  BY OwnedStep
<1>2. ASSUME NEW k \in Jobs, Valid(k)', StageOf(k)' \in Over
      PROVE  jobState'[k] \in Final
  <2>1. LetGo(k)
    BY NextEffect DEF Effect
  <2>2. ~SharesId(k)'
    BY <1>1, RemoteQueueAssumption DEF SharesId, IdsOwned, RemoteQueueAssumption
  <2>3. "killFails" \notin Events
    BY DEF ReliableScheduler
  <2>4. CASE StageOf(k) \in Over /\ jobState'[k] = jobState[k]
    BY <1>2, <2>4 DEF SettledIsFinal, Valid
  <2> QED BY <1>2, <2>1, <2>2, <2>3, <2>4 DEF LetGo
<1> QED BY <1>2 DEF SettledIsFinal

\* With a scheduler whose kill command works and whose answers parse, and
\* clients that leave the queueId alone, a job the queue no longer works on is
\* finished, canceled or failed: retries, removals of other jobs, lost
\* acknowledgements and a host name that comes and goes drop none.
THEOREM NothingOrphaned ==
    ASSUME ReliableScheduler
    PROVE  Spec => []NoOrphan
<1>1. Init => IdsOwned /\ SettledIsFinal
  BY DEF Init, IdsOwned, SettledIsFinal, Valid
<1>2. IInv /\ IdsOwned /\ [Next]_vars => IdsOwned'
  BY OwnedStep
<1>3. IInv /\ NoEarlyFailure /\ IdsOwned /\ SettledIsFinal /\ [Next]_vars
        => SettledIsFinal'
  BY SettledStep
<1>4. IInv /\ SettledIsFinal => NoOrphan
  <2> SUFFICES ASSUME IInv, SettledIsFinal, NEW j \in Jobs, Valid(j),
                      Activities(j) = {}
               PROVE  jobState[j] \in {"Finished", "Canceled", "Error"}
    BY DEF NoOrphan
  <2>1. /\ m_pendingSubmission[j] = 0
        /\ ~IsTracked(j)
        /\ \A o \in Ops : conns[o][j] = 0
    BY DEF Activities, IInv, TypeOK
  <2>2. StageOf(j) = "released"
    BY <2>1, StageTable DEF StageFacts, Valid
  <2> QED BY <2>2 DEF SettledIsFinal, Over, Final
<1> QED BY <1>1, <1>2, <1>3, <1>4, Inductive, NothingFailsEarly, PTL DEF Spec

-----------------------------------------------------------------------------
(* A finished job has left the scheduler.                                  *)

\* The id a job is filed under is one the scheduler gave out, unless it is 0.
Registered ==
    \A q \in SchedulerIds : m_jobs[q] # NoJob => cluster[q].st # "free"

\* The output is fetched of jobs that the scheduler no longer holds.
HasLeft ==
    \A j \in Jobs : conns["fetch"][j] > 0 /\ queueId[j] \in SchedulerIds =>
        cluster[queueId[j]].st = "gone"

\* No job is filed while a request that does not name it is in flight.
AllAskedFor == asked # {} => Keys(m_jobs) \subseteq asked

\* A job that the step makes Finished is gone from the scheduler.
Leaves ==
    \A j \in Jobs : jobState[j] # "Finished" /\ jobState'[j] = "Finished" =>
        \A q \in SchedulerIds : queueId[j] = q => ~Live(q)

\* What a step may do to the scheduler's records, other than by Launch.
OnlyAges ==
    \A q \in SchedulerIds :
        /\ cluster[q].st # "free" => cluster'[q].st # "free"
        /\ cluster[q].st = "gone" => cluster'[q].st = "gone"

LEMMA LaunchAges ==
    ASSUME IInv, NEW j \in Jobs, NEW q \in SchedulerIds, Launch(j, q)
    PROVE  OnlyAges /\ cluster'[q].st # "free"
BY DEF IInv, TypeOK, Launch, OnlyAges

LEMMA StatusAges ==
    ASSUME IInv, NEW q \in SchedulerIds,
           \/ /\ cluster' = [cluster EXCEPT ![q].st = "running"]
              /\ cluster[q].st = "queued"
           \/ cluster' = [cluster EXCEPT ![q].st = "gone"]
    PROVE  OnlyAges
<1>1. \A p \in SchedulerIds :
        \/ cluster'[p].st = cluster[p].st
        \/ cluster'[p].st = "running" /\ cluster[p].st = "queued"
        \/ cluster'[p].st = "gone"
  BY DEF IInv, TypeOK
<1> QED BY <1>1 DEF OnlyAges

\* A step that files no job, gives no id and fetches nothing new.
LEMMA NothingNewFetched ==
    ASSUME IInv, Registered, HasLeft, OnlyAges, queueId' = queueId,
           \A q \in QueueIds : m_jobs'[q] \in {m_jobs[q], NoJob},
           \A j \in Jobs : conns'["fetch"][j] > 0 => conns["fetch"][j] > 0
    PROVE  Registered' /\ HasLeft'
<1>1. Registered'
  BY DEF Registered, OnlyAges, QueueIds
<1>2. HasLeft'
  BY DEF HasLeft, OnlyAges
<1> QED BY <1>1, <1>2

\* What a job is marked as by a reply that names neither it nor, since the
\* request was made, any other.
LEMMA UnnamedHasLeft ==
    ASSUME IInv, Registered, AllAskedFor, asked # {},
           NEW j \in Jobs, j \in JobsIn(Keys(m_jobs) \ Named),
           queueId[j] \in SchedulerIds
    PROVE  cluster[queueId[j]].st = "gone"
<1>1. PICK q \in Keys(m_jobs) \ Named : j = m_jobs[q]
  BY DEF JobsIn
<1>2. queueId[j] = q /\ q \in QueueIds /\ m_jobs[q] # NoJob
  BY <1>1 DEF Keys, IInv, IndexConsistent
<1>3. q \in asked
  BY <1>1 DEF AllAskedFor
<1>4. ~Live(q)
  BY <1>1, <1>3 DEF Named
<1>5. cluster[q].st # "free"
  BY <1>2 DEF Registered
<1> QED BY <1>2, <1>4, <1>5 DEF Live, IInv, TypeOK

\* What a readable reply does.
LEMMA ReplyFacts ==
    ASSUME IInv, "unreadable" \notin Events, ProcessQueueReply
    PROVE  LET left == Keys(m_jobs) \ Named IN
           /\ \A q \in QueueIds : m_jobs'[q] \in {m_jobs[q], NoJob}
           /\ \A j \in Jobs : conns'["fetch"][j] > 0 =>
                conns["fetch"][j] > 0 \/ j \in JobsIn(left)
           /\ \A j \in Jobs : jobState'[j] # jobState[j] =>
                j \in JobsIn(left) \/ jobState'[j] \in LineStates
<1>1. PICK left \in SUBSET Keys(m_jobs) :
        /\ Keys(m_jobs) \ Named \subseteq left
        /\ "unreadable" \in Events \/ left = Keys(m_jobs) \ Named
        /\ \E line \in [JobsIn(Keys(m_jobs) \ left) -> LineStates],
              fate \in [JobsIn(left) -> Fates] :
             /\ jobState' = [j \in Jobs |->
                  IF ~Valid(j) THEN jobState[j]
                  ELSE IF j \in JobsIn(left)
                       THEN IF FateState(fate[j]) = "unchanged"
                            THEN jobState[j] ELSE FateState(fate[j])
                  ELSE IF j \in JobsIn(Keys(m_jobs) \ left) THEN line[j]
                  ELSE jobState[j]]
             /\ conns' = [op \in Ops |-> [j \in Jobs |->
                  conns[op][j] +
                    IF /\ Valid(j) /\ j \in JobsIn(left)
                       /\ op \in FateOps(fate[j]) THEN 1 ELSE 0]]
             /\ m_jobs' = LeftRemoved(left)
  BY DEF ProcessQueueReply
<1>2. \A q \in QueueIds : m_jobs'[q] \in {m_jobs[q], NoJob}
  BY <1>1 DEF LeftRemoved
<1>3. \A j \in Jobs : conns'["fetch"][j] > 0 =>
        conns["fetch"][j] > 0 \/ j \in JobsIn(left)
  BY <1>1 DEF Ops, IInv, TypeOK
<1>4. \A j \in Jobs : jobState'[j] # jobState[j] =>
        j \in JobsIn(left) \/ jobState'[j] \in LineStates
  BY <1>1
<1> QED BY <1>1, <1>2, <1>3, <1>4

\* One reply finishes jobs, or the end of one transfer a job whose output was
\* fetched; nothing else makes a job Finished.
LEMMA HasLeftStep ==
    ASSUME "unreadable" \notin Events, "Finished" \notin LineStates,
           IInv, Registered, HasLeft, AllAskedFor, [Next]_vars
    PROVE  Registered' /\ HasLeft' /\ Leaves
<1> DEFINE NoneFinishes == \A j \in Jobs :
              jobState'[j] = "Finished" => jobState[j] = "Finished"
<1>1. NoneFinishes => Leaves
  BY DEF Leaves
<1>2. Removed # "Finished"
  BY DEF Removed
<1>3. \A op \in Ops \ {"fetch"}, j \in Jobs : conns[op][j] > 0 =>
        \A k \in Jobs : Finish(op, j)["fetch"][k] = conns["fetch"][k]
  BY FinishTable DEF IInv, TypeOK, Table, Ops
<1>4. ASSUME NEW j \in Jobs, SubmitJob(j)
      PROVE  Registered' /\ HasLeft' /\ Leaves
  <2>1. /\ \A k \in Jobs \ {j} : queueId'[k] = queueId[k]
        /\ UNCHANGED <<m_jobs, conns, cluster>>
    BY <1>4 DEF SubmitJob, NewJob, sshVars, envVars, IInv, TypeOK
  <2>2. ~(conns["fetch"][j] > 0)
    BY <1>4, ConnectionAlone DEF SubmitJob, NewJob, Ops
  <2>3. NoneFinishes
    BY <1>4 DEF SubmitJob, IInv, TypeOK
  <2> QED BY <1>1, <2>1, <2>2, <2>3 DEF Registered, HasLeft
<1>5. ASSUME NEW j \in Jobs, NEW op \in {"mkdir", "copyIn", "submit"},
             conns[op][j] > 0, OnlyAges,
             RetrySubmission(op, j) \/ IgnoreCompletion(op, j)
      PROVE  Registered' /\ HasLeft' /\ Leaves
  <2>1. /\ queueId' = queueId
        /\ m_jobs' = m_jobs
        /\ conns' = Finish(op, j)
    BY <1>5 DEF RetrySubmission, IgnoreCompletion, jobVars, queueVars
  <2>2. \A k \in Jobs : conns'["fetch"][k] = conns["fetch"][k]
    BY <1>3, <1>5, <2>1 DEF Ops
  <2>3. NoneFinishes
    BY <1>5 DEF RetrySubmission, IgnoreCompletion, SetState, jobVars, IInv, TypeOK
  <2> QED BY <1>1, <1>5, <2>1, <2>2, <2>3, NothingNewFetched
<1>6. ASSUME NEW j \in Jobs, NEW from \in {"mkdir", "copyIn"},
             NEW op \in {"mkdir", "copyIn", "submit"},
             conns[from][j] > 0, Continue(from, op, j),
             UNCHANGED <<queueId, queueVars, cluster>>
      PROVE  Registered' /\ HasLeft' /\ Leaves
  <2>1. Finish(from, j) \in Table
    BY <1>6, FinishTable DEF IInv, TypeOK, Table, Ops
  <2>2. \A k \in Jobs : conns'["fetch"][k] = conns["fetch"][k]
    <3>1. CASE hostNameSet
      <4>1. conns' = [Finish(from, j) EXCEPT ![op][j] = @ + 1]
        BY <1>6, <3>1 DEF Continue
      <4>2. \A k \in Jobs : conns'["fetch"][k] = Finish(from, j)["fetch"][k]
        BY <1>6, <2>1, <4>1, StartTable DEF Ops
      <4> QED BY <1>3, <1>6, <4>2 DEF Ops
    <3>2. CASE ~hostNameSet
      BY <1>3, <1>6, <3>2 DEF Continue, Ops
    <3> QED BY <3>1, <3>2
  <2>3. NoneFinishes
    BY <1>6 DEF Continue, SetState, IInv, TypeOK
  <2>4. OnlyAges
    BY <1>6 DEF OnlyAges
  <2> QED BY <1>1, <1>6, <2>2, <2>3, <2>4, NothingNewFetched DEF queueVars
<1>7. ASSUME NEW j \in Jobs, RemoteDirectoryCreated(j) \/ InputFilesCopied(j)
      PROVE  Registered' /\ HasLeft' /\ Leaves
  <2>1. cluster' = cluster
    BY <1>7 DEF RemoteDirectoryCreated, InputFilesCopied, envVars
  <2>2. OnlyAges
    BY <2>1 DEF OnlyAges
  <2>3. CASE RemoteDirectoryCreated(j)
    BY <1>5, <1>6, <2>1, <2>2, <2>3
       DEF RemoteDirectoryCreated, CopyInputFilesToHost
  <2>4. CASE InputFilesCopied(j)
    BY <1>5, <1>6, <2>1, <2>2, <2>4
       DEF InputFilesCopied, CreateRemoteDirectory, SubmitJobToRemoteQueue
  <2> QED BY <1>7, <2>3, <2>4
<1>8. ASSUME NEW j \in Jobs, JobSubmittedToRemoteQueue(j)
      PROVE  Registered' /\ HasLeft' /\ Leaves
  <2>1. conns["submit"][j] > 0
    BY <1>8 DEF JobSubmittedToRemoteQueue
  <2>2. OnlyAges
    <3>1. CASE cluster' = cluster
      BY <3>1 DEF OnlyAges
    <3>2. CASE \E q \in SchedulerIds : Launch(j, q)
      BY <3>2, LaunchAges
    <3> QED BY <1>8, <3>1, <3>2 DEF JobSubmittedToRemoteQueue
  <2>3. ASSUME NEW q \in QueueIds, Register(j, q),
               q \in SchedulerIds => cluster'[q].st # "free"
        PROVE  Registered' /\ HasLeft' /\ Leaves
    <3>1. /\ \A k \in Jobs \ {j} : queueId'[k] = queueId[k]
          /\ \A p \in QueueIds \ {q} : m_jobs'[p] = m_jobs[p]
          /\ \A k \in Jobs : conns'["fetch"][k] = conns["fetch"][k]
      BY <1>3, <2>1, <2>3 DEF Register, Ops, IInv, TypeOK
    <3>2. ~(conns["fetch"][j] > 0)
      BY <2>1, ConnectionAlone DEF Ops
    <3>3. NoneFinishes
      BY <2>3 DEF Register, SetState, IInv, TypeOK
    <3>4. Registered'
      BY <2>2, <2>3, <3>1 DEF Registered, OnlyAges, QueueIds
    <3>5. HasLeft'
      BY <2>2, <3>1, <3>2 DEF HasLeft, OnlyAges
    <3> QED BY <1>1, <3>3, <3>4, <3>5
  <2>4. CASE \E q \in SchedulerIds : Launch(j, q) /\ Register(j, q)
    BY <2>3, <2>4, LaunchAges DEF QueueIds
  <2>5. CASE Register(j, 0)
    BY <2>3, <2>5, RemoteQueueAssumption DEF QueueIds, RemoteQueueAssumption
  <2>6. CASE RetrySubmission("submit", j) \/ IgnoreCompletion("submit", j)
    BY <1>5, <2>1, <2>2, <2>6
  <2> QED BY <1>8, <2>4, <2>5, <2>6 DEF JobSubmittedToRemoteQueue
<1>9. CASE HandleQueueUpdate
  <2> DEFINE left == Keys(m_jobs) \ Named
  <2>1. asked # {} /\ queueId' = queueId /\ cluster' = cluster
    BY <1>9 DEF HandleQueueUpdate, envVars
  <2>2. /\ \A q \in QueueIds : m_jobs'[q] \in {m_jobs[q], NoJob}
        /\ \A j \in Jobs : conns'["fetch"][j] > 0 =>
             conns["fetch"][j] > 0 \/ j \in JobsIn(left)
        /\ \A j \in Jobs : jobState'[j] # jobState[j] =>
             j \in JobsIn(left) \/ jobState'[j] \in LineStates
    BY <1>9, ReplyFacts DEF HandleQueueUpdate
  <2> HIDE DEF left
  <2>3. \A j \in JobsIn(left) : j \in Jobs /\ queueId[j] \in SchedulerIds =>
          cluster[queueId[j]].st = "gone"
    BY <2>1, UnnamedHasLeft DEF left
  <2>4. Registered'
    BY <2>1, <2>2 DEF Registered, QueueIds
  <2>5. HasLeft'
    BY <2>1, <2>2, <2>3 DEF HasLeft
  <2>6. Leaves
    BY <2>2, <2>3 DEF Leaves, Live
  <2> QED BY <2>4, <2>5, <2>6
<1>10. ASSUME NEW j \in Jobs, OutputCopiedFromServer(j)
       PROVE  Registered' /\ HasLeft' /\ Leaves
  <2>1. /\ conns["fetch"][j] > 0
        /\ queueId' = queueId /\ m_jobs' = m_jobs /\ cluster' = cluster
    BY <1>10 DEF OutputCopiedFromServer, IgnoreCompletion, jobVars, queueVars,
                 envVars
  <2>2. \A k \in Jobs : conns'["fetch"][k] > 0 => conns["fetch"][k] > 0
    <3>1. /\ Finish("fetch", j) \in Table
          /\ \A k \in Jobs : Finish("fetch", j)["fetch"][k] =
                IF k = j THEN conns["fetch"][k] - 1 ELSE conns["fetch"][k]
      BY <2>1, FinishTable DEF IInv, TypeOK, Table, Ops
    <3>2. CASE conns' = Finish("fetch", j)
      BY <2>1, <3>1, <3>2
    <3>3. CASE \E fate \in Fates \ {"fetch"} :
                 conns' = [op \in Ops |-> [Finish("fetch", j)[op] EXCEPT
                             ![j] = @ + IF op \in FateOps(fate) THEN 1 ELSE 0]]
      BY <2>1, <3>1, <3>3 DEF Ops, Table
    <3> QED BY <1>10, <3>2, <3>3 DEF OutputCopiedFromServer, IgnoreCompletion
  <2>3. \A k \in Jobs \ {j} : jobState'[k] = jobState[k]
    BY <1>10 DEF OutputCopiedFromServer, IgnoreCompletion, SetState, jobVars,
                 IInv, TypeOK
  <2>4. Leaves
    BY <2>1, <2>3 DEF HasLeft, Leaves, Live
  <2>5. OnlyAges
    BY <2>1 DEF OnlyAges
  <2> QED BY <2>1, <2>2, <2>4, <2>5, NothingNewFetched
<1>11. ASSUME NEW j \in Jobs, RemoteDirectoryCleaned(j)
       PROVE  Registered' /\ HasLeft' /\ Leaves
  <2>1. /\ conns["clean"][j] > 0 /\ conns' = Finish("clean", j)
        /\ queueId' = queueId /\ m_jobs' = m_jobs /\ cluster' = cluster
    BY <1>11 DEF RemoteDirectoryCleaned, IgnoreCompletion, jobVars, queueVars,
                 envVars
  <2>2. \A k \in Jobs : conns'["fetch"][k] = conns["fetch"][k]
    BY <1>3, <2>1 DEF Ops
  <2>3. NoneFinishes
    BY <1>11 DEF RemoteDirectoryCleaned, IgnoreCompletion, SetState, jobVars,
                 IInv, TypeOK
  <2>4. OnlyAges
    BY <2>1 DEF OnlyAges
  <2> QED BY <1>1, <2>1, <2>2, <2>3, <2>4, NothingNewFetched
<1>12. ASSUME NEW j \in Jobs, EndKillJob(j)
       PROVE  Registered' /\ HasLeft' /\ Leaves
  <2>1. /\ conns["kill"][j] > 0 /\ conns' = Finish("kill", j)
        /\ queueId' = queueId /\ m_jobs' = m_jobs
    BY <1>12 DEF EndKillJob, queueVars
  <2>2. \A k \in Jobs : conns'["fetch"][k] = conns["fetch"][k]
    BY <1>3, <2>1 DEF Ops
  <2>3. NoneFinishes
    BY <1>12 DEF EndKillJob, SetState, IInv, TypeOK
  <2>4. OnlyAges
    <3>1. CASE cluster' = cluster
      BY <3>1 DEF OnlyAges
    <3>2. CASE /\ queueId[j] \in SchedulerIds
               /\ cluster' = [cluster EXCEPT ![queueId[j]].st = "gone"]
      BY <3>2, StatusAges
    <3> QED BY <1>12, <3>1, <3>2 DEF EndKillJob
  <2> QED BY <1>1, <2>1, <2>2, <2>3, <2>4, NothingNewFetched
<1>13. ASSUME NEW j \in Jobs, KillJob(j), queueId' = queueId, cluster' = cluster
       PROVE  Registered' /\ HasLeft' /\ Leaves
  <2>1. \A q \in QueueIds : m_jobs'[q] \in {m_jobs[q], NoJob}
    BY <1>13 DEF KillJob, Untracked, IInv, TypeOK
  <2>2. \A k \in Jobs : conns'["fetch"][k] = conns["fetch"][k]
    BY <1>13 DEF KillJob, BeginKillJob, Ops, IInv, TypeOK
  <2>3. NoneFinishes
    BY <1>13 DEF KillJob, BeginKillJob, SetState, IInv, TypeOK
  <2>4. OnlyAges
    BY <1>13 DEF OnlyAges
  <2> QED BY <1>1, <1>13, <2>1, <2>2, <2>3, <2>4, NothingNewFetched
<1>14. CASE SubmitPendingJobs
  <2>1. queueId' = queueId /\ m_jobs' = m_jobs /\ cluster' = cluster
    BY <1>14 DEF SubmitPendingJobs, envVars
  <2>2. \A k \in Jobs : conns'["fetch"][k] = conns["fetch"][k]
    BY <1>14 DEF SubmitPendingJobs, Ops, IInv, TypeOK
  <2>3. NoneFinishes
    BY <1>14 DEF SubmitPendingJobs, IInv, TypeOK
  <2>4. OnlyAges
    BY <2>1 DEF OnlyAges
  <2> QED BY <1>1, <2>1, <2>2, <2>3, <2>4, NothingNewFetched
<1>15. ASSUME \/ \E j \in Jobs : OpenKillDialog(j) \/ RemoveJob(j)
              \/ UpdateTimer \/ UpdateRemoteQueues \/ Reconfigure
              \/ \E q \in SchedulerIds : ClusterStarts(q) \/ ClusterEnds(q)
              \/ UNCHANGED <<jobState, queueId, conns, m_jobs, cluster>>
       PROVE  Registered' /\ HasLeft' /\ Leaves
  <2>1. /\ conns' = conns /\ queueId' = queueId
        /\ \A q \in QueueIds : m_jobs'[q] \in {m_jobs[q], NoJob}
    BY <1>15
       DEF OpenKillDialog, RemoveJob, WithoutReference, UpdateTimer,
           RemoveStaleJobs, UpdateRemoteQueues, Reconfigure, ClusterStarts,
           ClusterEnds, jobVars, queueVars, sshVars
  <2>2. NoneFinishes
    BY <1>2, <1>15
       DEF OpenKillDialog, RemoveJob, UpdateTimer, UpdateRemoteQueues,
           Reconfigure, ClusterStarts, ClusterEnds, jobVars, IInv, TypeOK
  <2>3. OnlyAges
    <3>1. CASE cluster' = cluster
      BY <3>1 DEF OnlyAges
    <3>2. CASE \E q \in SchedulerIds : ClusterStarts(q) \/ ClusterEnds(q)
      BY <3>2, StatusAges DEF ClusterStarts, ClusterEnds
    <3> QED BY <1>15, <3>1, <3>2
            DEF OpenKillDialog, RemoveJob, UpdateTimer, UpdateRemoteQueues,
                Reconfigure, envVars
  <2> QED BY <1>1, <2>1, <2>2, <2>3, NothingNewFetched
<1>16. CASE \E j \in Jobs : CancelJob(j)
  BY <1>13, <1>16 DEF CancelJob, envVars
<1>17. CASE AnswerKillDialog
  <2>1. dialog \in Jobs
    BY <1>17 DEF AnswerKillDialog, IInv, TypeOK
  <2> QED BY <1>13, <1>15, <1>17, <2>1 DEF AnswerKillDialog
<1>18. CASE UNCHANGED vars
  BY <1>15, <1>18 DEF vars, jobVars, queueVars, sshVars, envVars
<1>19. CASE \E j \in Jobs :
              \/ SubmitJob(j) \/ RemoteDirectoryCreated(j)
              \/ InputFilesCopied(j) \/ JobSubmittedToRemoteQueue(j)
              \/ OutputCopiedFromServer(j) \/ RemoteDirectoryCleaned(j)
              \/ EndKillJob(j)
  BY <1>4, <1>7, <1>8, <1>10, <1>11, <1>12, <1>19
<1>20. CASE \/ \E j \in Jobs : OpenKillDialog(j) \/ RemoveJob(j)
            \/ UpdateTimer \/ UpdateRemoteQueues \/ Reconfigure
            \/ \E q \in SchedulerIds : ClusterStarts(q) \/ ClusterEnds(q)
  BY <1>15, <1>20
<1> QED BY <1>9, <1>14, <1>16, <1>17, <1>18, <1>19, <1>20 DEF Next

\* With schedulers whose parser never reports a job as finished and status
\* lines that read, one thing alone makes the queue mark a job Finished that
\* the scheduler still holds: a job filed while a request that does not name
\* it is in flight.  As long as that does not happen, a job that becomes
\* Finished has left, in whatever order kills, retries, removals, fetches and
\* updates come, and whichever of them fail.
THEOREM FinishedLeaves ==
    ASSUME "unreadable" \notin Events, "Finished" \notin LineStates
    PROVE  Spec /\ []AllAskedFor => FinishedHasLeft
<1>1. Init => Registered /\ HasLeft
  BY DEF Init, Registered, HasLeft, QueueIds, Ops
<1>2. IInv /\ Registered /\ HasLeft /\ AllAskedFor /\ [Next]_vars
        => Registered' /\ HasLeft' /\ Leaves
  BY HasLeftStep
<1>3. Leaves =>
        [\A j \in Jobs : jobState[j] # "Finished" /\ jobState'[j] = "Finished" =>
           \A q \in SchedulerIds : queueId[j] = q => ~Live(q)]_vars
  BY DEF Leaves
<1> QED BY <1>1, <1>2, <1>3, Inductive, PTL DEF Spec, FinishedHasLeft

Early == {"absent", "pending", "submitting"}

\* A request is in flight only when the submission of the job is over.
AskedIsPast == asked # {} => \A j \in Jobs : StageOf(j) \notin Early

\* What a step may do to the request in flight and the references.
LEMMA RequestStep ==
    ASSUME IInv, [Next]_vars
    PROVE  \/ asked' = {}
           \/ asked' = Keys(m_jobs)' /\ Keys(m_jobs) # {}
           \/ asked' = asked /\ Keys(m_jobs)' \subseteq Keys(m_jobs)
           \/ asked' = asked /\ \E j \in Jobs : StageOf(j) = "submitting"
<1>1. (\A q \in QueueIds : m_jobs'[q] \in {m_jobs[q], NoJob})
        => Keys(m_jobs)' \subseteq Keys(m_jobs)
  BY DEF Keys
<1>2. CASE UpdateTimer
  <2>1. m_jobs' = RemoveStaleJobs
        /\ \A q \in QueueIds : m_jobs'[q] \in {m_jobs[q], NoJob}
    BY <1>2 DEF UpdateTimer, RemoveStaleJobs
  <2>2. \/ asked' = asked
        \/ asked' = Keys(RemoveStaleJobs) /\ Keys(RemoveStaleJobs) # {}
    BY <1>2 DEF UpdateTimer, RequestQueueUpdate
  <2>3. Keys(RemoveStaleJobs) = Keys(m_jobs)'
    BY <2>1 DEF Keys
  <2> QED BY <1>1, <2>1, <2>2, <2>3
<1>3. CASE UpdateRemoteQueues
  <2>1. /\ m_jobs' = m_jobs
        /\ \/ asked' = asked
           \/ asked' = Keys(m_jobs) /\ Keys(m_jobs) # {}
    BY <1>3 DEF UpdateRemoteQueues, RequestQueueUpdate
  <2> QED BY <2>1 DEF Keys
<1>4. CASE HandleQueueUpdate
  BY <1>4 DEF HandleQueueUpdate
<1>5. ASSUME NEW j \in Jobs, JobSubmittedToRemoteQueue(j)
      PROVE  asked' = asked /\ (m_jobs' = m_jobs \/ StageOf(j) = "submitting")
  <2>1. asked' = asked /\ conns["submit"][j] > 0
    BY <1>5 DEF JobSubmittedToRemoteQueue
  <2>2. Valid(j) => StageOf(j) = "submitting"
    BY <2>1, StageTable DEF StageFacts, StageOfOp, Ops
  <2> QED BY <1>5, <2>1, <2>2
          DEF JobSubmittedToRemoteQueue, Register, RetrySubmission,
              IgnoreCompletion, queueVars
<1>6. ASSUME NEW j \in Jobs,
             \/ SubmitJob(j) \/ RemoteDirectoryCreated(j) \/ InputFilesCopied(j)
             \/ OutputCopiedFromServer(j) \/ RemoteDirectoryCleaned(j)
             \/ EndKillJob(j) \/ OpenKillDialog(j)
      PROVE  asked' = asked /\ m_jobs' = m_jobs
  BY <1>6
     DEF SubmitJob, RemoteDirectoryCreated, InputFilesCopied,
         OutputCopiedFromServer, RemoteDirectoryCleaned, EndKillJob,
         OpenKillDialog, RetrySubmission, IgnoreCompletion, queueVars, sshVars
<1>7. ASSUME NEW j \in Jobs, CancelJob(j) \/ RemoveJob(j)
      PROVE  /\ asked' = asked
             /\ \A q \in QueueIds : m_jobs'[q] \in {m_jobs[q], NoJob}
  BY <1>7 DEF CancelJob, KillJob, Untracked, RemoveJob, WithoutReference,
              sshVars, IInv, TypeOK
<1>8. CASE AnswerKillDialog
  <2>1. /\ asked' = asked
        /\ \A q \in QueueIds : m_jobs'[q] \in {m_jobs[q], NoJob}
    BY <1>8 DEF AnswerKillDialog, KillJob, Untracked, IInv, TypeOK
  <2> QED BY <1>1, <2>1
<1>9. CASE \/ SubmitPendingJobs \/ Reconfigure
           \/ \E q \in SchedulerIds : ClusterStarts(q) \/ ClusterEnds(q)
           \/ UNCHANGED vars
  <2>1. asked' = asked /\ m_jobs' = m_jobs
    BY <1>9 DEF SubmitPendingJobs, Reconfigure, ClusterStarts, ClusterEnds,
                queueVars, sshVars, vars
  <2> QED BY <2>1 DEF Keys
<1>10. ASSUME NEW j \in Jobs, asked' = asked, m_jobs' = m_jobs
       PROVE  Keys(m_jobs)' \subseteq Keys(m_jobs)
  BY <1>10 DEF Keys
<1>11. CASE \E j \in Jobs :
              \/ SubmitJob(j) \/ RemoteDirectoryCreated(j) \/ InputFilesCopied(j)
              \/ OutputCopiedFromServer(j) \/ RemoteDirectoryCleaned(j)
              \/ EndKillJob(j) \/ OpenKillDialog(j) \/ CancelJob(j)
              \/ RemoveJob(j) \/ JobSubmittedToRemoteQueue(j)
  BY <1>1, <1>5, <1>6, <1>7, <1>10, <1>11
<1> QED BY <1>2, <1>3, <1>4, <1>8, <1>9, <1>11 DEF Next

\* A queue with one job asks about it when its submission is over, and files
\* it only during its submission.
LEMMA LoneJobStep ==
    ASSUME \A j, k \in Jobs : j = k,
           IInv, NoEarlyFailure, AskedIsPast, AllAskedFor, [Next]_vars
    PROVE  AskedIsPast' /\ AllAskedFor'
<1>1. \A j \in Jobs : StageOf(j) \notin Early => StageOf(j)' \notin Early
  BY NextEffect
     DEF Effect, Moves, Allowed, Early, Lifecycle!Advance, Lifecycle!Settle
<1>2. ASSUME NEW q \in Keys(m_jobs)
      PROVE  \A j \in Jobs : StageOf(j) \notin Early
  <2>1. m_jobs[q] \in Jobs /\ Valid(m_jobs[q]) /\ IsTracked(m_jobs[q])
    BY DEF Keys, IInv, TypeOK, IndexConsistent, IsTracked
  <2>2. StageOf(m_jobs[q]) = "tracked"
    BY <2>1, StageTable DEF StageFacts
  <2> QED BY <2>1, <2>2 DEF Early
<1>3. asked' # {} => \A j \in Jobs : StageOf(j) \notin Early
  BY <1>2, RequestStep DEF AskedIsPast
<1>4. AskedIsPast'
  BY <1>1, <1>3 DEF AskedIsPast
<1>5. AllAskedFor'
  BY <1>3, RequestStep DEF AllAskedFor, Early
<1> QED BY <1>4, <1>5

\* Of a single job the queue has this for good: it is marked Finished only
\* when the scheduler no longer holds it.
THEOREM LoneFinishedLeaves ==
    ASSUME "unreadable" \notin Events, "Finished" \notin LineStates,
           \A j, k \in Jobs : j = k
    PROVE  Spec => FinishedHasLeft
<1>1. Init => AskedIsPast /\ AllAskedFor
  BY DEF Init, AskedIsPast, AllAskedFor
<1>2. IInv /\ NoEarlyFailure /\ AskedIsPast /\ AllAskedFor /\ [Next]_vars
        => AskedIsPast' /\ AllAskedFor'
  BY LoneJobStep
<1>3. Spec => []AllAskedFor
  BY <1>1, <1>2, Inductive, NothingFailsEarly, PTL DEF Spec
<1> QED BY <1>3, FinishedLeaves, PTL
==============================================================================
