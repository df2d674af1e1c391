---------------------------- MODULE JobFilesProofs ----------------------------
(***************************************************************************)
(* Theorems of JobFiles for any jobs, requests, programs and events: the   *)
(* result of a program is not lost, what is finished was delivered, and a  *)
(* started job had its inputs.  They are about schedulers that print the   *)
(* codes the classes know, on hosts whose logins are silent where a class  *)
(* cannot read past them; elsewhere TLC finds the properties violated.     *)
(*                                                                         *)
(* JobInv ties the stage of a job to what the scheduler knows of it and to *)
(* where its result is; InputsOf says the same of the inputs.  A step is   *)
(* Good when it concerns one job, leaves the others Framed and takes       *)
(* nothing from the output directory, which only grows.  An answer of the  *)
(* scheduler concerns many jobs, one after the other: AfterUpdateFacts     *)
(* goes through them by the least number of jobs for which it would fail.  *)
(***************************************************************************)
EXTENDS JobFiles, FiniteSetTheorems, WellFoundedInduction, TLAPS

(* What a listing can say of a job.                                        *)

\* A class knows a state for every code but those of OddCodes.
LEMMA StatesOfCodes ==
    ASSUME NEW type \in Schedulers, NEW p, NEW code \in Printed(type, p)
    PROVE  /\ parseQueueLine(type, code) \in JobState \ {"Unknown"}
           /\ type # "OAR" => parseQueueLine(type, code) # "Finished"
<1>1. CASE type = "SGE"
  BY <1>1 DEF Printed, parseQueueLine, SgeState, JobState
<1>2. CASE type = "SLURM"
  BY <1>2 DEF Printed, parseQueueLine, SlurmState, JobState
<1>3. CASE type = "OAR"
  BY <1>3 DEF Printed, parseQueueLine, OarState, JobState
<1>4. CASE type = "PBS"
  BY <1>4 DEF Printed, parseQueueLine, PbsState, JobState
<1> QED
  BY <1>1, <1>2, <1>3, <1>4 DEF Schedulers

\* A job that waits or runs is printed.
LEMMA StartedIsPrinted ==
    ASSUME NEW type \in Schedulers, NEW p \in {"waits", "runs"}
    PROVE  Printed(type, p) # {}
BY DEF Printed, Schedulers

\* The listing covers the followed jobs the scheduler has.
LEMMA ListedFacts ==
    ASSUME NEW type \in Schedulers, NEW ids, NEW all, NEW first \in BOOLEAN, ~first
    PROVE  ids \cap all \subseteq ListedIds(type, ids, all, first)
BY DEF ListedIds, SgeRequest, SlurmRequest, OarRequest, OtherRequest, Schedulers

\* Without login banners, or with those OAR skips, the id is read.
LEMMA IdIsRead ==
    ASSUME NEW type \in Schedulers, NEW banner \in BOOLEAN, NEW id,
           banner => type = "OAR"
    PROVE  parseQueueId(type, banner, id) = id
BY DEF parseQueueId, parseSgeId, parseSlurmId, parseOarId, parsePbsId, Schedulers

-----------------------------------------------------------------------------
(* Directories.                                                            *)

\* The order of the listing ends with the result.
LEMMA FileFacts ==
    /\ DOMAIN FileOrder = 1..5 /\ Len(FileOrder) = 5
    /\ \A n \in 1..5 : FileOrder[n] \in FileNames
    /\ FileOrder[5] = "result"
BY DEF FileOrder, FileNames

\* What a copy keeps and what it brings.
LEMMA CopyFacts ==
    ASSUME NEW from \in Directory, NEW to \in Directory, NEW limit \in 0..5
    PROVE  /\ Copied(from, to, limit) \in Directory
           /\ \A f \in FileNames : to[f] # None => Copied(from, to, limit)[f] = to[f]
           /\ CopySucceeds(from, to, limit) /\ from["result"] # None
                 => Copied(from, to, limit)["result"] = from["result"]
<1>1. Copied(from, to, limit) \in Directory
  BY DEF Copied, Directory
<1>2. ASSUME NEW f \in FileNames, to[f] # None
      PROVE  Copied(from, to, limit)[f] = to[f]
  <2>1. CASE f \in CopiedFiles(from, to, limit)
    <3>1. PICK n \in 1..limit : f = FileOrder[n] /\ n \notin Refused(from, to)
      BY <2>1 DEF CopiedFiles
    <3>2. from[f] = None
      BY <1>2, <3>1, FileFacts DEF Refused
    <3> QED
      BY <3>2 DEF Copied
  <2> QED
    BY <2>1 DEF Copied
<1>3. ASSUME CopySucceeds(from, to, limit), from["result"] # None
      PROVE  Copied(from, to, limit)["result"] = from["result"]
  <2>1. "result" \in FileNames /\ limit = 5 /\ Refused(from, to) = {}
    BY <1>3, FileFacts DEF CopySucceeds, Exists, FileNames
  <2>2. "result" \in CopiedFiles(from, to, limit)
    BY <2>1, FileFacts DEF CopiedFiles
  <2> QED
    BY <1>3, <2>1, <2>2 DEF Copied
<1> QED
  BY <1>1, <1>2, <1>3

\* The parts of a copy that broke off are files of the same job.
LEMMA CutFacts ==
    ASSUME NEW from \in Directory, NEW to \in Directory, NEW n \in 0..5
    PROVE  /\ CutAt(from, to, n) \in Directory
           /\ n = 0 => CutAt(from, to, n) = to
<1>1. ASSUME NEW f \in FileNames, from[f] # None
      PROVE  <<from[f][1], "cut">> \in {None} \cup (Jobs \X Contents)
  BY <1>1 DEF Directory, Contents
<1>2. CutAt(from, to, n) \in Directory
  BY <1>1 DEF CutAt, Directory
<1>3. ASSUME n = 0 PROVE CutAt(from, to, n) = to
  BY <1>3 DEF CutAt, Directory
<1> QED
  BY <1>2, <1>3

\* Files have an owner and are told from None.
LEMMA FileTypes ==
    ASSUME NEW j \in Jobs
    PROVE  /\ \A h \in Contents : File(j, h) \in {None} \cup (Jobs \X Contents)
           /\ \A h \in Contents : File(j, h) # None
           /\ EmptyDir \in Directory
BY JobFilesAssumption DEF File, Contents, EmptyDir, Directory

-----------------------------------------------------------------------------
(* Handing the output over.                                                *)

States == [output : Directory, local : [Jobs -> Directory], jobState : [Jobs -> JobState],
           stage : [Jobs -> Stages]]

\* What is in the output directory stays there.
Grown(o, p) == \A f \in FileNames : o[f] # None => p[f] = o[f]

\* The other jobs.
Elsewhere(j, s, t) ==
  \A k \in Jobs \ {j} :
    t.local[k] = s.local[k] /\ t.stage[k] = s.stage[k] /\ t.jobState[k] = s.jobState[k]

\* How it ends for a job whose local directory holds dir.
Outcome(j, dir, t) ==
  \/ t.stage[j] = "failed" /\ t.jobState[j] = "Error" /\ t.local[j] = dir
  \/ /\ t.stage[j] = IF Remote /\ request[j].cleanRemote THEN "cleaning" ELSE "settled"
     /\ t.jobState[j] = "Finished"
     /\ ~request[j].cleanLocal => t.local[j] = dir
     /\ request[j].output = "shared" /\ dir["result"] # None
           => t.output["result"] = dir["result"]

\* The output is handed over, or the job has failed and keeps it.
LEMMA DeliveredFacts ==
    ASSUME NEW s \in States, NEW j \in Jobs, NEW dir \in Directory, NEW limit \in 0..5
    PROVE  LET t == Delivered(j, s, dir, limit) IN
           /\ t \in States
           /\ Grown(s.output, t.output)
           /\ Elsewhere(j, s, t)
           /\ Outcome(j, dir, t)
<1> DEFINE t == Delivered(j, s, dir, limit)
<1>1. /\ s.output \in Directory /\ s.local \in [Jobs -> Directory]
      /\ s.jobState \in [Jobs -> JobState] /\ s.stage \in [Jobs -> Stages]
  BY DEF States
<1>2. Cleaned(j, dir) \in Directory
  BY FileTypes DEF Cleaned
<1>3. t.output = IF request[j].output = "shared" THEN Copied(dir, s.output, limit) ELSE s.output
  BY DEF Delivered
<1>4. t.local = [s.local EXCEPT ![j] = IF Done(j, s, dir, limit) THEN Cleaned(j, dir) ELSE dir]
  BY DEF Delivered
<1>5. t.jobState = [s.jobState EXCEPT ![j] = IF Done(j, s, dir, limit) THEN "Finished"
                                             ELSE "Error"]
  BY DEF Delivered
<1>6. t.stage = [s.stage EXCEPT ![j] =
                   IF ~Done(j, s, dir, limit) THEN "failed"
                   ELSE IF Remote /\ request[j].cleanRemote THEN "cleaning" ELSE "settled"]
  BY DEF Delivered
<1>7. t.output \in Directory
  BY <1>1, <1>3, CopyFacts
<1>8. t.local \in [Jobs -> Directory]
  BY <1>1, <1>2, <1>4
<1>9. t.jobState \in [Jobs -> JobState]
  BY <1>1, <1>5 DEF JobState
<1>10. t.stage \in [Jobs -> Stages]
  BY <1>1, <1>6 DEF Stages
<1>11. t \in States
  <2>1. t = [output |-> t.output, local |-> t.local, jobState |-> t.jobState, stage |-> t.stage]
    BY DEF Delivered
  <2> QED
    BY ONLY <2>1, <1>7, <1>8, <1>9, <1>10 DEF States
<1>12. Grown(s.output, t.output)
  BY <1>1, <1>3, CopyFacts DEF Grown
<1>13. Elsewhere(j, s, t)
  BY <1>1, <1>4, <1>5, <1>6 DEF Elsewhere
<1>14. Outcome(j, dir, t)
  <2>1. CASE ~Done(j, s, dir, limit)
    BY <2>1, <1>1, <1>4, <1>5, <1>6 DEF Outcome
  <2>2. CASE Done(j, s, dir, limit)
    <3>1. t.stage[j] = IF Remote /\ request[j].cleanRemote THEN "cleaning" ELSE "settled"
      BY <2>2, <1>1, <1>6
    <3>2. t.jobState[j] = "Finished" /\ t.local[j] = Cleaned(j, dir)
      BY <2>2, <1>1, <1>4, <1>5
    <3>3. ~request[j].cleanLocal => Cleaned(j, dir) = dir
      BY DEF Cleaned
    <3>4. request[j].output = "shared" /\ dir["result"] # None
             => t.output["result"] = dir["result"]
      BY <2>2, <1>1, <1>3, CopyFacts DEF Done
    <3> QED
      BY <3>1, <3>2, <3>3, <3>4 DEF Outcome
  <2> QED
    BY <2>1, <2>2
<1> QED
  BY <1>11, <1>12, <1>13, <1>14

\* Finalizing a job that left the queue: its output is fetched, or it is over.
LEMMA FinalizedFacts ==
    ASSUME NEW s \in States, NEW j \in Jobs, NEW limit \in 0..5
    PROVE  LET t == Finalized(s, j, limit) IN
           /\ t \in States
           /\ Grown(s.output, t.output)
           /\ Elsewhere(j, s, t)
           /\ request[j].retrieve =>
                t.stage[j] = "fetching" /\ t.jobState[j] = s.jobState[j]
           /\ ~request[j].retrieve => Outcome(j, s.local[j], t)
<1> DEFINE t == Finalized(s, j, limit)
<1>1. /\ s.output \in Directory /\ s.local \in [Jobs -> Directory]
      /\ s.jobState \in [Jobs -> JobState] /\ s.stage \in [Jobs -> Stages]
  BY DEF States
<1>2. CASE request[j].retrieve
  <2>1. t = [s EXCEPT !.stage[j] = "fetching"]
    BY <1>2 DEF Finalized
  <2>2. /\ t.output = s.output /\ t.local = s.local /\ t.jobState = s.jobState
        /\ t.stage = [s.stage EXCEPT ![j] = "fetching"]
    BY <2>1 DEF States
  <2>3. t.stage \in [Jobs -> Stages]
    BY <1>1, <2>2 DEF Stages
  <2>4. t \in States
    <3>1. t = [output |-> s.output, local |-> s.local, jobState |-> s.jobState,
               stage |-> [s.stage EXCEPT ![j] = "fetching"]]
      BY <2>1 DEF States
    <3> QED
      BY ONLY <3>1, <1>1, <2>2, <2>3 DEF States
  <2> QED
    BY <1>2, <2>2, <2>4, <1>1 DEF Grown, Elsewhere
<1>3. CASE ~request[j].retrieve
  <2>1. t = Delivered(j, s, s.local[j], limit) /\ s.local[j] \in Directory
    BY <1>1, <1>3 DEF Finalized
  <2> QED
    BY <1>3, <2>1, DeliveredFacts
<1> QED
  BY <1>2, <1>3

-----------------------------------------------------------------------------
(* The jobs that left the queue, one after the other.  A recursive         *)
(* function stands for the loop; LeastNumber stands where an induction     *)
(* over the jobs gone through would.                                       *)

\* A set of numbers has a least one.
LEMMA LeastNumber ==
    ASSUME NEW T, T \subseteq Nat, T # {}
    PROVE  \E n \in T : \A m \in T : n =< m
<1>1. \E n \in T : \A m \in T : ~(<<m, n>> \in OpToRel(<, Nat))
  BY NatLessThanWellFounded, WFMin
<1>2. PICK n \in T : \A m \in T : ~(m < n)
  BY <1>1 DEF OpToRel
<1> QED
  BY <1>2

\* The values x takes when the functions of F are applied one by one.
Passes(F, x, f, n) ==
  f[0] = x /\ \A k \in 1..n : f[k] = F[k][f[k - 1]]

\* The loop has values.
LEMMA PassesExist ==
    ASSUME NEW S, NEW x \in S, NEW n \in Nat, NEW F \in [1..n -> [S -> S]]
    PROVE  \E f \in [0..n -> S] : Passes(F, x, f, n)
<1> DEFINE T == {m \in 0..n : ~\E f \in [0..m -> S] : Passes(F, x, f, m)}
<1>1. SUFFICES ASSUME T # {} PROVE FALSE
  OBVIOUS
<1>2. PICK m \in T : \A l \in T : m =< l
  <2>1. T \subseteq Nat
    OBVIOUS
  <2> QED
    BY <1>1, <2>1, LeastNumber
<1>3. m \in 0..n /\ ~\E f \in [0..m -> S] : Passes(F, x, f, m)
  OBVIOUS
<1>4. CASE m = 0
  <2>1. [k \in 0..0 |-> x] \in [0..0 -> S] /\ Passes(F, x, [k \in 0..0 |-> x], 0)
    BY DEF Passes
  <2> QED
    BY <1>3, <1>4, <2>1
<1>5. CASE m # 0
  <2>1. m - 1 \in 0..n /\ m - 1 \notin T
    BY <1>2, <1>3, <1>5
  <2>2. PICK f \in [0..m - 1 -> S] : Passes(F, x, f, m - 1)
    BY <2>1
  <2> DEFINE g == [k \in 0..m |-> IF k = m THEN F[m][f[m - 1]] ELSE f[k]]
  <2>3. F[m] \in [S -> S] /\ f[m - 1] \in S
    BY <1>3, <1>5
  <2>4. F[m][f[m - 1]] \in S
    BY <2>3
  <2>5. g \in [0..m -> S]
    BY <1>3, <2>4
  <2>6. g[0] = x
    BY <1>3, <1>5, <2>2 DEF Passes
  <2>7. ASSUME NEW k \in 1..m PROVE g[k] = F[k][g[k - 1]]
    <3>1. k - 1 \in 0..m /\ k - 1 # m /\ g[k - 1] = f[k - 1]
      BY <1>3
    <3>2. CASE k = m
      BY <3>1, <3>2, <1>3
    <3>3. CASE k # m
      <4>1. k \in 1..m - 1 /\ g[k] = f[k]
        BY <1>3, <3>3
      <4> QED
        BY <2>2, <3>1, <4>1 DEF Passes
    <3> QED
      BY <3>2, <3>3
  <2>8. Passes(F, x, g, m)
    BY <2>6, <2>7 DEF Passes
  <2> QED
    BY <1>3, <2>5, <2>8
<1> QED
  BY <1>4, <1>5

\* Every job of a set is in its order, once.
LEMMA ByQueueIdFacts ==
    ASSUME NEW S \in SUBSET Jobs, NEW left \in ByQueueId(S),
           \A j \in S : queueId[j] = j
    PROVE  /\ Len(left) \in Nat /\ DOMAIN left = 1..Len(left)
           /\ \A i \in 1..Len(left) : left[i] \in S
           /\ \A i, k \in 1..Len(left) : i # k => left[i] # left[k]
           /\ \A j \in S : \E i \in 1..Len(left) : left[i] = j
<1>1. IsFiniteSet(S) /\ S \subseteq Nat
  BY JobFilesAssumption, FS_Subset
<1>2. Cardinality(S) \in Nat
  BY <1>1, FS_CardinalityType
<1> DEFINE I == 1..Cardinality(S)
<1>3. left \in [I -> S] /\ \A a, b \in I : a < b => queueId[left[a]] < queueId[left[b]]
  BY DEF ByQueueId
<1>4. IsFiniteSet(I) /\ Cardinality(I) = Cardinality(S)
  BY <1>2, FS_Interval
<1>5. \A a, b \in I : a # b => left[a] # left[b]
  <2>1. SUFFICES ASSUME NEW a \in I, NEW b \in I, a < b
                 PROVE  left[a] # left[b]
    BY <1>2
  <2>2. left[a] \in Nat /\ left[b] \in Nat /\ left[a] < left[b]
    BY <1>1, <1>3, <2>1
  <2> QED
    BY <2>2
<1>6. left \in Injection(I, S)
  BY <1>3, <1>5 DEF Injection, IsInjective
<1>7. left \in Surjection(I, S)
  BY <1>1, <1>4, <1>6, FS_Injection
<1>8. Len(left) = Cardinality(S) /\ DOMAIN left = I
  BY <1>2, <1>3
<1> QED
  BY <1>2, <1>3, <1>5, <1>7, <1>8 DEF Surjection

\* How far a copy may get.
LEMMA LimitFacts ==
    /\ Limits \subseteq 0..5
    /\ CutPoints \subseteq 0..5
<1>1. Len(FileOrder) = 5 /\ CutPoints \subseteq 1..5
  BY FileFacts, JobFilesAssumption
<1> QED
  BY <1>1 DEF Limits

\* What becomes of a job that left the queue.
Handled(j, s) ==
  /\ s.stage[j] \in {"fetching", "failed", "cleaning", "settled"}
  /\ s.stage[j] = "cleaning" => request[j].cleanRemote
  /\ s.stage[j] \in {"cleaning", "settled"} => ~request[j].retrieve
  /\ s.jobState[j] = "Finished"
        => s.stage[j] \in {"cleaning", "settled"} \/ jobState[j] = "Finished"

\* A job of which nothing changed but its state, perhaps.
Kept(j, s, shown) ==
  /\ s.local[j] = local[j] /\ s.stage[j] = stage[j]
  /\ s.jobState[j] = Seen(shown).jobState[j]

\* After the first n jobs of those that left.
UpTo(s, left, n, shown) ==
  /\ s \in States
  /\ Grown(output, s.output)
  /\ \A j \in Jobs : (\A i \in 1..n : left[i] # j) => Kept(j, s, shown)
  /\ \A i \in 1..n : Handled(left[i], s)

\* What the answer shows before any job is finalized.
LEMMA SeenFacts ==
    ASSUME TypeOK, NEW shown, \A j \in followed : shown[j] \in JobState
    PROVE  /\ Seen(shown) \in States
           /\ Seen(shown).output = output
           /\ Seen(shown).local = local
           /\ Seen(shown).stage = stage
           /\ \A j \in Jobs : Seen(shown).jobState[j] =
                IF j \in followed /\ shown[j] # "Unknown" THEN shown[j] ELSE jobState[j]
<1> DEFINE js == [j \in Jobs |-> IF j \in followed /\ shown[j] # "Unknown" THEN shown[j]
                               ELSE jobState[j]]
<1>1. Seen(shown) = [output |-> output, local |-> local, jobState |-> js, stage |-> stage]
  BY DEF Seen, Now
<1>2. js \in [Jobs -> JobState]
  BY DEF TypeOK
<1>3. output \in Directory /\ local \in [Jobs -> Directory] /\ stage \in [Jobs -> Stages]
  BY DEF TypeOK
<1>4. Seen(shown) \in States
  BY ONLY <1>1, <1>2, <1>3 DEF States
<1> QED
  BY <1>1, <1>4

\* One job more.
LEMMA OneMore ==
    ASSUME TypeOK, Remote, NEW shown, NEW left, NEW n \in Nat, n # 0, left[n] \in Jobs,
           shown[left[n]] = "Unknown",
           \A i \in 1..n - 1 : left[i] # left[n] /\ left[i] \in Jobs,
           \A j \in followed : shown[j] \in JobState,
           NEW s, UpTo(s, left, n - 1, shown), NEW limit \in 0..5
    PROVE  UpTo(Finalized(s, left[n], limit), left, n, shown)
<1> DEFINE j == left[n]
           t == Finalized(s, j, limit)
<1>1. s \in States /\ j \in Jobs
  BY DEF UpTo
<1>2. /\ t \in States
      /\ Grown(s.output, t.output)
      /\ Elsewhere(j, s, t)
      /\ request[j].retrieve => t.stage[j] = "fetching" /\ t.jobState[j] = s.jobState[j]
      /\ ~request[j].retrieve => Outcome(j, s.local[j], t)
  BY <1>1, FinalizedFacts
<1>3. Grown(output, t.output)
  BY <1>2 DEF Grown, UpTo
<1>4. ASSUME NEW k \in Jobs, \A i \in 1..n : left[i] # k
      PROVE  Kept(k, t, shown)
  <2>1. k # j /\ \A i \in 1..n - 1 : left[i] # k
    BY <1>4
  <2>2. Kept(k, s, shown)
    BY <2>1 DEF UpTo
  <2>3. t.local[k] = s.local[k] /\ t.stage[k] = s.stage[k] /\ t.jobState[k] = s.jobState[k]
    BY <1>2, <2>1 DEF Elsewhere
  <2> QED
    BY <2>2, <2>3 DEF Kept
<1>5. ASSUME NEW i \in 1..n - 1
      PROVE  Handled(left[i], t)
  <2>1. left[i] \in Jobs \ {j} /\ Handled(left[i], s)
    BY DEF UpTo
  <2>2. t.stage[left[i]] = s.stage[left[i]] /\ t.jobState[left[i]] = s.jobState[left[i]]
    BY <1>2, <2>1 DEF Elsewhere
  <2> QED
    BY <2>1, <2>2 DEF Handled
<1>6. Handled(j, t)
  <2>1. s.jobState[j] = jobState[j]
    <3>1. Kept(j, s, shown)
      BY <1>1 DEF UpTo
    <3> QED
      BY <1>1, <3>1, SeenFacts DEF Kept
  <2>2. CASE request[j].retrieve
    BY <2>2, <2>1, <1>2 DEF Handled
  <2>3. CASE ~request[j].retrieve
    BY <2>3, <1>2 DEF Handled, Outcome
  <2> QED
    BY <2>2, <2>3
<1>7. \A i \in 1..n : i = n \/ i \in 1..n - 1
  OBVIOUS
<1> QED
  BY <1>2, <1>3, <1>4, <1>5, <1>6, <1>7 DEF UpTo

\* The loop of handleQueueUpdate.
LEMMA AfterUpdateFacts ==
    ASSUME TypeOK, Remote, NEW shown, NEW limits, NEW left, Len(left) \in Nat,
           \A j \in followed : shown[j] \in JobState /\ limits[j] \in 0..5,
           \A i \in 1..Len(left) : left[i] \in followed /\ shown[left[i]] = "Unknown",
           \A i, k \in 1..Len(left) : i # k => left[i] # left[k]
    PROVE  UpTo(AfterUpdate(shown, left, limits), left, Len(left), shown)
<1> DEFINE n == Len(left)
           step(k, s) == Finalized(s, left[k], limits[left[k]])
           loop(f) == f = [k \in 0..n |-> IF k = 0 THEN Seen(shown) ELSE step(k, f[k - 1])]
           after == CHOOSE f : loop(f)
<1>1. AfterUpdate(shown, left, limits) = after[n]
  BY DEF AfterUpdate
<1>2. \A i \in 1..n : left[i] \in Jobs /\ limits[left[i]] \in 0..5
  BY DEF TypeOK
<1>3. loop(after)
  <2> DEFINE F == [k \in 1..n |-> [s \in States |-> step(k, s)]]
  <2>1. \A k \in 1..n : \A s \in States : step(k, s) \in States
    BY <1>2, FinalizedFacts
  <2> HIDE DEF step
  <2>2. F \in [1..n -> [States -> States]]
    BY <2>1
  <2>3. Seen(shown) \in States
    BY SeenFacts
  <2>4. PICK f \in [0..n -> States] : Passes(F, Seen(shown), f, n)
    <3> HIDE DEF F
    <3> QED
      BY <2>2, <2>3, PassesExist
  <2>5. ASSUME NEW k \in 0..n
        PROVE  f[k] = IF k = 0 THEN Seen(shown) ELSE step(k, f[k - 1])
    <3>1. CASE k = 0
      BY <2>4, <3>1 DEF Passes
    <3>2. CASE k # 0
      <4>1. k \in 1..n /\ f[k - 1] \in States
        BY <2>4, <3>2
      <4>2. f[k] = F[k][f[k - 1]]
        BY <2>4, <4>1 DEF Passes
      <4> QED
        BY <3>2, <4>1, <4>2
    <3> QED
      BY <3>1, <3>2
  <2>6. loop(f)
    BY <2>4, <2>5
  <2> QED
    BY <2>6
<1> HIDE DEF after
<1>4. \A m \in 0..n : UpTo(after[m], left, m, shown)
  <2> DEFINE T == {m \in 0..n : ~UpTo(after[m], left, m, shown)}
  <2>1. SUFFICES ASSUME T # {} PROVE FALSE
    OBVIOUS
  <2>2. PICK m \in T : \A l \in T : m =< l
    <3>1. T \subseteq Nat
      OBVIOUS
    <3> QED
      BY <2>1, <3>1, LeastNumber
  <2>3. m \in 0..n /\ ~UpTo(after[m], left, m, shown)
    OBVIOUS
  <2>4. CASE m = 0
    <3>1. after[m] = Seen(shown)
      BY <1>3, <2>3, <2>4
    <3>2. UpTo(Seen(shown), left, 0, shown)
      BY SeenFacts DEF UpTo, Kept, Grown
    <3> QED
      BY <2>3, <2>4, <3>1, <3>2
  <2>5. CASE m # 0
    <3>1. m \in 1..n /\ m - 1 \in 0..n /\ m - 1 \notin T
      BY <2>2, <2>3, <2>5
    <3>2. UpTo(after[m - 1], left, m - 1, shown)
      BY <3>1
    <3>3. after[m] = Finalized(after[m - 1], left[m], limits[left[m]])
      BY <1>3, <2>5, <3>1
    <3>4. /\ left[m] \in Jobs /\ limits[left[m]] \in 0..5 /\ shown[left[m]] = "Unknown"
          /\ \A i \in 1..m - 1 : left[i] # left[m] /\ left[i] \in Jobs
      BY <1>2, <3>1
    <3>5. UpTo(Finalized(after[m - 1], left[m], limits[left[m]]), left, m, shown)
      BY <2>5, <3>1, <3>2, <3>4, OneMore
    <3> QED
      BY <2>3, <3>3, <3>5
  <2> QED
    BY <2>4, <2>5
<1> QED
  BY <1>1, <1>4

-----------------------------------------------------------------------------
(* The invariant.  The stage of a job and what the scheduler knows of it   *)
(* go together, on a remote queue and on a local one.                      *)
RemoteStage(j) ==
  /\ stage[j] # "running"
  /\ stage[j] \in {"none", "pending", "copying", "submitting"} => phase[j] = "unknown"
  /\ stage[j] = "inQueue" => phase[j] # "unknown" /\ queueId[j] = j
  /\ stage[j] = "failed" => phase[j] \in {"unknown", "ended", "gone"}
  /\ stage[j] \in {"fetching", "cleaning", "settled"} => phase[j] \in {"ended", "gone"}
  /\ j \in followed <=> stage[j] = "inQueue"

LocalStage(j) ==
  /\ stage[j] \in {"none", "pending", "running", "settled", "failed"}
  /\ stage[j] \in {"none", "pending"} => phase[j] = "unknown"
  /\ stage[j] = "running" => phase[j] \in {"runs", "gone"}
  /\ stage[j] = "failed" => phase[j] \in {"unknown", "gone"}
  /\ stage[j] = "settled" => phase[j] = "gone"
  /\ j \notin followed

IsDelivered(j) ==
  Asked(j) => /\ request[j].output = "shared" => output["result"] = File(j, "whole")
              /\ ~request[j].cleanLocal => local[j]["result"] = File(j, "whole")

\* The result stays where the program left it until it was handed over.
ResultStays(j) ==
  phase[j] \in {"ended", "gone"} =>
    IF Remote THEN \/ remote[j]["result"] = File(j, "whole")
                   \/ stage[j] = "settled" /\ request[j].cleanRemote
    ELSE stage[j] = "settled" \/ local[j]["result"] = File(j, "whole")

JobInv(j) ==
  /\ Remote => RemoteStage(j)
  /\ ~Remote => LocalStage(j)
  /\ ResultStays(j)
  /\ stage[j] = "cleaning" => Remote /\ request[j].cleanRemote
  /\ stage[j] \in {"cleaning", "settled"} => IsDelivered(j)
  /\ jobState[j] = "Finished" /\ queue # "OAR" => stage[j] \in {"cleaning", "settled"}

IInv == TypeOK /\ \A j \in Jobs : JobInv(j)

(* Where the inputs of a job are as they should be.                        *)
Sent(j, dir) ==
  /\ NeedsScript(j) => dir["script"] = File(j, "whole")
  /\ request[j].extra # "none" =>
       \E held \in Arrives(request[j].extra) : dir["extra"] = File(j, held)

InputsOf(j) ==
  /\ Remote =>
       /\ stage[j] = "copying" => Sent(j, local[j])
       /\ stage[j] = "submitting" \/ phase[j] \in {"waits", "runs"} => Sent(j, remote[j])
       /\ phase[j] = "unknown" /\ Exists(remote[j]) => Sent(j, remote[j])
  /\ ~Remote => (stage[j] = "pending" \/ phase[j] = "runs" => Sent(j, local[j]))

InputsInv == \A j \in Jobs : InputsOf(j)

(* No file is left in parts, and every answer of a scheduler is understood. *)
Intact      == "partialCopy" \notin Events /\ "writeFails" \notin Events
AnswersRead == "oddCodes" \notin Events /\ "firstIdIgnored" \notin Events

(* A job a step does not concern.                                          *)
Framed(k) ==
  /\ stage'[k] = stage[k] /\ jobState'[k] = jobState[k] /\ queueId'[k] = queueId[k]
  /\ phase'[k] = phase[k] /\ local'[k] = local[k] /\ remote'[k] = remote[k]
  /\ k \in followed' <=> k \in followed

SameRequests == queue' = queue /\ request' = request

Concerns(j) ==
  SameRequests /\ Grown(output, output') /\ \A k \in Jobs \ {j} : Framed(k)

\* A step that concerns j.
Good(j) ==
  /\ TypeOK' /\ Concerns(j) /\ JobInv(j)'
  /\ Intact /\ InputsOf(j) => InputsOf(j)'

\* What a client may ask for.
LEMMA RequestFacts ==
    ASSUME TypeOK, NEW j \in Jobs
    PROVE  /\ request[j].input \in Formats /\ request[j].extra \in Formats
           /\ request[j].output \in {"shared", "own"}
           /\ Remote => queue \in Schedulers
BY JobFilesAssumption DEF TypeOK, Remote

\* A job the step does not concern keeps its invariant.
LEMMA FramedJob ==
    ASSUME TypeOK, SameRequests, Grown(output, output'), NEW k \in Jobs, Framed(k)
    PROVE  /\ JobInv(k) => JobInv(k)'
           /\ InputsOf(k) => InputsOf(k)'
<1>1. (Remote <=> Remote') /\ (Asked(k) <=> Asked(k)')
  BY DEF Remote, Asked, SameRequests
<1>2. (RemoteStage(k) => RemoteStage(k)') /\ (LocalStage(k) => LocalStage(k)')
  BY DEF RemoteStage, LocalStage, Framed
<1>3. IsDelivered(k) => IsDelivered(k)'
  <2>1. output["result"] = File(k, "whole") => output'["result"] = File(k, "whole")
    BY FileTypes DEF Grown, FileNames, Contents
  <2> QED
    BY <1>1, <2>1 DEF IsDelivered, Framed, SameRequests
<1>4. ResultStays(k) => ResultStays(k)'
  BY <1>1 DEF ResultStays, Framed, SameRequests
<1>5. JobInv(k) => JobInv(k)'
  BY <1>1, <1>2, <1>3, <1>4 DEF JobInv, Framed, SameRequests
<1>6. InputsOf(k) => InputsOf(k)'
  BY <1>1 DEF InputsOf, Sent, NeedsScript, Program, Framed, SameRequests, Exists
<1> QED
  BY <1>5, <1>6

\* A step that concerns one job keeps the invariant.
LEMMA GoodStep ==
    ASSUME IInv, NEW j \in Jobs, Good(j)
    PROVE  IInv' /\ (Intact /\ InputsInv => InputsInv')
<1>1. ASSUME NEW k \in Jobs, k # j
      PROVE  JobInv(k)' /\ (InputsOf(k) => InputsOf(k)')
  BY <1>1, FramedJob DEF Good, Concerns, IInv
<1> QED
  BY <1>1 DEF Good, IInv, InputsInv

\* In the beginning no job has files.
LEMMA InitIInv == Init => IInv /\ InputsInv
<1>1. ASSUME Init PROVE TypeOK
  <2>1. EmptyDir \in Directory
    BY DEF EmptyDir, Directory
  <2>2. DOMAIN request = Jobs /\ \A j \in Jobs : request[j] \in Requests[j]
    BY <1>1 DEF Init
  <2>3. failures \in [Jobs -> 0..MaxRetries]
    BY <1>1, JobFilesAssumption DEF Init
  <2>4. stage \in [Jobs -> Stages] /\ jobState \in [Jobs -> JobState]
    BY <1>1 DEF Init, Stages, JobState
  <2>5. /\ queueId \in [Jobs -> Jobs \cup {Unread, None}]
        /\ phase \in [Jobs -> {"unknown", "waits", "runs", "ended", "gone"}]
    BY <1>1 DEF Init
  <2>6. local \in [Jobs -> Directory] /\ remote \in [Jobs -> Directory] /\ output \in Directory
    BY <1>1, <2>1 DEF Init
  <2> QED
    BY <1>1, <2>2, <2>3, <2>4, <2>5, <2>6 DEF Init, TypeOK
<1>2. ASSUME Init, NEW j \in Jobs PROVE JobInv(j) /\ InputsOf(j)
  <2>1. stage[j] = "none" /\ jobState[j] = "None" /\ followed = {} /\ phase[j] = "unknown"
    BY <1>2 DEF Init
  <2>2. remote[j] = EmptyDir /\ ~Exists(remote[j])
    BY <1>2 DEF Init, Exists, EmptyDir
  <2> QED
    BY <2>1, <2>2 DEF JobInv, RemoteStage, LocalStage, ResultStays, InputsOf
<1> QED
  BY <1>1, <1>2 DEF IInv, InputsInv

-----------------------------------------------------------------------------
(* One lemma per action.                                                   *)

\* What a file that is written may hold.
LEMMA HeldFacts ==
    ASSUME TypeOK, NEW j \in Jobs
    PROVE  /\ \A format : Held(format) \in Contents
           /\ \A format \in Formats \ {"none"} :
                (format = "path" => source # None) => Held(format) \in Arrives(format)
<1>1. source \in {"text", "binary", "unreadable"} \/ source = None
  BY JobFilesAssumption DEF TypeOK
<1>2. \A format : Held(format) \in Contents
  BY DEF Held, ReadFromPath, Contents
<1>3. ASSUME NEW format \in Formats \ {"none"}, format = "path" => source # None
      PROVE  Held(format) \in Arrives(format)
  <2>1. CASE format = "contents"
    BY <2>1 DEF Held, Arrives
  <2>2. CASE format = "foreign"
    BY <2>2 DEF Held, Arrives
  <2>3. CASE format = "path"
    BY <1>1, <1>3, <2>3 DEF Held, ReadFromPath, Arrives
  <2> QED
    BY <2>1, <2>2, <2>3 DEF Formats
<1> QED
  BY <1>2, <1>3

\* What writeInputFiles may leave of each file.
LEMMA WriteFacts ==
    ASSUME TypeOK, NEW j \in Jobs
    PROVE  /\ MainInput(j) \subseteq {None} \cup (Jobs \X Contents)
           /\ AdditionalInput(j) \subseteq {None} \cup (Jobs \X Contents)
           /\ \A success : Script(j, success) \subseteq {None} \cup (Jobs \X Contents)
<1>1. local[j] \in Directory /\ \A f \in FileNames : local[j][f] \in {None} \cup (Jobs \X Contents)
  BY DEF TypeOK, Directory
<1>2. /\ File(j, "cut") \in Jobs \X Contents /\ File(j, "whole") \in Jobs \X Contents
      /\ \A format : File(j, Held(format)) \in Jobs \X Contents
  BY HeldFacts DEF File, Contents
<1>3. "input" \in FileNames /\ "extra" \in FileNames /\ "script" \in FileNames
  BY DEF FileNames
<1>4. \A f \in FileNames : \A format :
        writeFile(j, f, format) \subseteq {None} \cup (Jobs \X Contents)
  BY <1>1, <1>2 DEF writeFile
<1>5. MainInput(j) \subseteq {None} \cup (Jobs \X Contents)
  BY <1>1, <1>3, <1>4 DEF MainInput
<1>6. AdditionalInput(j) \subseteq {None} \cup (Jobs \X Contents)
  BY <1>1, <1>3, <1>4 DEF AdditionalInput, Overwritten
<1>7. \A success : Script(j, success) \subseteq {None} \cup (Jobs \X Contents)
  BY <1>1, <1>2, <1>3 DEF Script
<1> QED
  BY <1>5, <1>6, <1>7

\* What writeInputFiles leaves in the directory.
LEMMA WrittenInputs ==
    ASSUME TypeOK, NEW j \in Jobs, NEW success \in BOOLEAN, writeInputFiles(j, success)
    PROVE  /\ local' \in [Jobs -> Directory]
           /\ \A k \in Jobs \ {j} : local'[k] = local[k]
           /\ Intact /\ success => Sent(j, local'[j])
<1>1. local \in [Jobs -> Directory] /\ local[j] \in Directory
  BY DEF TypeOK
<1>2. PICK input \in MainInput(j), extra \in AdditionalInput(j), script \in Script(j, success) :
        local' = [local EXCEPT ![j] = [@ EXCEPT !["input"] = input, !["extra"] = extra,
                                                !["script"] = script]]
  BY DEF writeInputFiles
<1> DEFINE dir == [local[j] EXCEPT !["input"] = input, !["extra"] = extra, !["script"] = script]
<1>3. local' = [local EXCEPT ![j] = dir]
  BY <1>2, Zenon
<1>4. /\ input \in {None} \cup (Jobs \X Contents) /\ extra \in {None} \cup (Jobs \X Contents)
      /\ script \in {None} \cup (Jobs \X Contents)
  BY WriteFacts
<1>5. dir \in Directory /\ dir["extra"] = extra /\ dir["script"] = script
  BY <1>1, <1>4 DEF Directory, FileNames
<1>6. ASSUME Intact, success PROVE Sent(j, dir)
  <2>1. CanWrite(j)
    BY <1>6 DEF writeInputFiles, Outcomes, Intact
  <2>2. NeedsScript(j) => script = File(j, "whole")
    BY <1>6, <2>1 DEF Script, Intact
  <2>3. ASSUME request[j].extra # "none"
        PROVE  extra = File(j, Held(request[j].extra)) /\ Held(request[j].extra) \in Arrives(request[j].extra)
    <3>1. extra = File(j, Held(request[j].extra))
      BY <1>6, <2>1, <2>3 DEF AdditionalInput, Overwritten, writeFile, Intact
    <3>2. Held(request[j].extra) \in Arrives(request[j].extra)
      BY <2>1, <2>3, HeldFacts, RequestFacts DEF CanWrite
    <3> QED
      BY <3>1, <3>2
  <2> HIDE DEF dir
  <2> QED
    BY <1>5, <2>2, <2>3 DEF Sent
<1> HIDE DEF dir
<1>7. local' \in [Jobs -> Directory] /\ local'[j] = dir /\ \A k \in Jobs \ {j} : local'[k] = local[k]
  BY <1>1, <1>3, <1>5
<1> QED
  BY <1>6, <1>7

\* Nothing was put into the output directory.
LEMMA SameOutput ==
    ASSUME output' = output PROVE Grown(output, output')
BY DEF Grown

\* The inputs are written at once.
LEMMA SubmitLocalStep ==
    ASSUME IInv, NEW j \in Jobs, SubmitLocal(j)
    PROVE  Good(j)
<1>1. TypeOK /\ JobInv(j)
  BY DEF IInv
<1>2. /\ ~Remote /\ stage[j] = "none" /\ phase[j] = "unknown" /\ j \notin followed
  BY <1>1 DEF SubmitLocal, JobInv, LocalStage
<1>10. PICK success \in BOOLEAN :
         /\ writeInputFiles(j, success)
         /\ SetStage(j, IF success THEN "pending" ELSE "failed")
         /\ SetState(j, IF success THEN "QueuedLocal" ELSE "Error")
  BY DEF SubmitLocal
<1>3. /\ local' \in [Jobs -> Directory]
      /\ \A k \in Jobs \ {j} : local'[k] = local[k]
      /\ Intact /\ success => Sent(j, local'[j])
  BY <1>1, <1>10, WrittenInputs
<1>4. /\ stage' = [stage EXCEPT ![j] = IF success THEN "pending" ELSE "failed"]
      /\ jobState' = [jobState EXCEPT ![j] = IF success THEN "QueuedLocal" ELSE "Error"]
      /\ UNCHANGED <<queue, request, source, failures, followed, queueId, phase, base, remote,
                     output>>
  BY <1>10 DEF SubmitLocal, SetStage, SetState, writeInputFiles
<1>5. TypeOK'
  BY <1>1, <1>3, <1>4 DEF TypeOK, Stages, JobState
<1>6. Concerns(j)
  BY <1>1, <1>3, <1>4, SameOutput DEF Concerns, SameRequests, Framed, TypeOK
<1>7. /\ stage'[j] = IF success THEN "pending" ELSE "failed"
      /\ jobState'[j] # "Finished"
  BY <1>1, <1>4 DEF TypeOK
<1>8. JobInv(j)'
  BY <1>2, <1>4, <1>7 DEF JobInv, LocalStage, ResultStays, Remote
<1>9. Intact => InputsOf(j)'
  BY <1>2, <1>3, <1>4, <1>7 DEF InputsOf, Sent, Remote, NeedsScript, Program
<1> QED
  BY <1>5, <1>6, <1>8, <1>9 DEF Good

\* The job waits to be submitted.
LEMMA SubmitRemoteStep ==
    ASSUME IInv, NEW j \in Jobs, SubmitRemote(j)
    PROVE  Good(j)
<1>1. TypeOK /\ JobInv(j)
  BY DEF IInv
<1>2. Remote /\ stage[j] = "none" /\ phase[j] = "unknown" /\ j \notin followed
  BY <1>1 DEF SubmitRemote, JobInv, RemoteStage
<1>3. /\ stage' = [stage EXCEPT ![j] = "pending"]
      /\ jobState' = [jobState EXCEPT ![j] = "Accepted"]
      /\ UNCHANGED <<queue, request, failures, followed, queueId, phase, source, base, local,
                     remote, output>>
  BY DEF SubmitRemote, SetStage, SetState
<1>4. TypeOK'
  BY <1>1, <1>3 DEF TypeOK, Stages, JobState
<1>5. Concerns(j)
  BY <1>1, <1>3, SameOutput DEF Concerns, SameRequests, Framed, TypeOK
<1>6. stage'[j] = "pending" /\ jobState'[j] = "Accepted"
  BY <1>1, <1>3 DEF TypeOK
<1>7. JobInv(j)'
  BY <1>2, <1>3, <1>6 DEF JobInv, RemoteStage, ResultStays, Remote
<1>8. InputsOf(j) => InputsOf(j)'
  BY <1>2, <1>3, <1>6 DEF InputsOf, Sent, Remote, NeedsScript, Program, Exists
<1> QED
  BY <1>4, <1>5, <1>7, <1>8 DEF Good

\* Only the record of the job is written.
LEMMA SyncJobStateStep ==
    ASSUME IInv, NEW j \in Jobs, SyncJobState(j)
    PROVE  Good(j)
<1>1. TypeOK /\ JobInv(j) /\ local \in [Jobs -> Directory] /\ local[j] \in Directory
  BY DEF IInv, TypeOK
<1>2. /\ local' = [local EXCEPT ![j] = [local[j] EXCEPT !["info"] = File(j, "whole")]]
      /\ UNCHANGED <<queue, request, stage, jobState, failures, followed, queueId, phase, source,
                     base, remote, output>>
  BY <1>1 DEF SyncJobState
<1>3. [local[j] EXCEPT !["info"] = File(j, "whole")] \in Directory
  BY <1>1, FileTypes DEF Directory, Contents
<1>4. local' \in [Jobs -> Directory]
  BY <1>1, <1>2, <1>3
<1>5. /\ local'[j]["result"] = local[j]["result"]
      /\ local'[j]["script"] = local[j]["script"]
      /\ local'[j]["extra"] = local[j]["extra"]
  BY <1>1, <1>2 DEF Directory, FileNames
<1>6. TypeOK'
  BY <1>1, <1>2, <1>4 DEF TypeOK
<1>7. Concerns(j)
  BY <1>1, <1>2, SameOutput DEF Concerns, SameRequests, Framed
<1>8. JobInv(j)'
  BY <1>1, <1>2, <1>5 DEF JobInv, RemoteStage, LocalStage, ResultStays, IsDelivered, Remote, Asked
<1>9. InputsOf(j) => InputsOf(j)'
  BY <1>2, <1>5 DEF InputsOf, Sent, Remote, NeedsScript, Program, Exists
<1> QED
  BY <1>6, <1>7, <1>8, <1>9 DEF Good

\* The inputs are written, again on a retry.
LEMMA BeginJobSubmissionStep ==
    ASSUME IInv, NEW j \in Jobs, BeginJobSubmission(j)
    PROVE  Good(j)
<1>1. TypeOK /\ JobInv(j)
  BY DEF IInv
<1>2. /\ Remote /\ stage[j] = "pending" /\ phase[j] = "unknown" /\ j \notin followed
  BY <1>1 DEF BeginJobSubmission, JobInv, RemoteStage
<1>10. PICK success \in BOOLEAN :
         /\ writeInputFiles(j, success)
         /\ SetStage(j, IF success THEN "copying" ELSE "failed")
         /\ jobState' = [jobState EXCEPT ![j] = IF success THEN @ ELSE "Error"]
  BY DEF BeginJobSubmission
<1>3. /\ local' \in [Jobs -> Directory]
      /\ \A k \in Jobs \ {j} : local'[k] = local[k]
      /\ Intact /\ success => Sent(j, local'[j])
  BY <1>1, <1>10, WrittenInputs
<1>4. /\ stage' = [stage EXCEPT ![j] = IF success THEN "copying" ELSE "failed"]
      /\ jobState' = [jobState EXCEPT ![j] = IF success THEN jobState[j] ELSE "Error"]
      /\ UNCHANGED <<queue, request, source, failures, followed, queueId, phase, base, remote,
                     output>>
  BY <1>1, <1>10 DEF BeginJobSubmission, SetStage, writeInputFiles, TypeOK
<1>5. TypeOK'
  BY <1>1, <1>3, <1>4 DEF TypeOK, Stages, JobState
<1>6. Concerns(j)
  BY <1>1, <1>3, <1>4, SameOutput DEF Concerns, SameRequests, Framed, TypeOK
<1>7. /\ stage'[j] = IF success THEN "copying" ELSE "failed"
      /\ jobState'[j] = "Finished" => jobState[j] = "Finished"
  BY <1>1, <1>4 DEF TypeOK
<1>8. JobInv(j)'
  BY <1>1, <1>2, <1>4, <1>7 DEF JobInv, RemoteStage, ResultStays, Remote
<1>9. Intact /\ InputsOf(j) => InputsOf(j)'
  BY <1>2, <1>3, <1>4, <1>7 DEF InputsOf, Sent, Remote, NeedsScript, Program, Exists
<1> QED
  BY <1>5, <1>6, <1>8, <1>9 DEF Good

\* A failed copy or submission: the job waits again, or has failed.
LEMMA RetryFacts ==
    ASSUME TypeOK, NEW j \in Jobs, Retry(j)
    PROVE  /\ failures' \in [Jobs -> 0..MaxRetries]
           /\ stage' \in [Jobs -> Stages] /\ jobState' \in [Jobs -> JobState]
           /\ \A k \in Jobs \ {j} : stage'[k] = stage[k] /\ jobState'[k] = jobState[k]
           /\ stage'[j] \in {"pending", "failed"} /\ jobState'[j] = "Error"
<1>1. /\ failures \in [Jobs -> 0..MaxRetries] /\ stage \in [Jobs -> Stages]
      /\ jobState \in [Jobs -> JobState] /\ MaxRetries \in Nat
  BY JobFilesAssumption DEF TypeOK
<1>2. failures' \in [Jobs -> 0..MaxRetries]
  BY <1>1 DEF Retry
<1> QED
  BY <1>1, <1>2 DEF Retry, SetStage, SetState, Stages, JobState

\* The copy succeeds, makes its base directory, or fails.
LEMMA InputFilesCopiedStep ==
    ASSUME IInv, NEW j \in Jobs, InputFilesCopied(j)
    PROVE  Good(j)
<1>1. /\ TypeOK /\ JobInv(j) /\ local[j] \in Directory /\ remote[j] \in Directory
      /\ remote \in [Jobs -> Directory]
  BY DEF IInv, TypeOK
<1>2. Remote /\ stage[j] = "copying" /\ phase[j] = "unknown" /\ j \notin followed
  BY <1>1 DEF InputFilesCopied, JobInv, RemoteStage, LocalStage
<1>3. UNCHANGED <<queue, request, followed, queueId, phase, source, local, output>>
  BY DEF InputFilesCopied
<1>4. CASE /\ base
           /\ remote' = [remote EXCEPT ![j] = copyDirTo(j)]
           /\ SetStage(j, "submitting")
           /\ UNCHANGED <<jobState, failures, base>>
  <2>1. copyDirTo(j) \in Directory
    BY <1>1 DEF copyDirTo
  <2>2. stage' = [stage EXCEPT ![j] = "submitting"]
    BY <1>4 DEF SetStage
  <2>3. TypeOK'
    BY <1>1, <1>3, <1>4, <2>1, <2>2 DEF TypeOK, Stages
  <2>4. Concerns(j)
    BY <1>1, <1>3, <1>4, <2>2, SameOutput DEF Concerns, SameRequests, Framed, TypeOK
  <2>5. stage'[j] = "submitting" /\ jobState'[j] = jobState[j] /\ remote'[j] = copyDirTo(j)
    BY <1>1, <1>4, <2>2 DEF TypeOK
  <2>6. JobInv(j)'
    BY <1>1, <1>2, <1>3, <2>5 DEF JobInv, RemoteStage, ResultStays, Remote
  <2>7. InputsOf(j) => InputsOf(j)'
    <3>1. InputsOf(j) => Sent(j, copyDirTo(j))
      BY <1>2 DEF InputsOf, copyDirTo
    <3> QED
      BY <1>2, <1>3, <2>5, <3>1 DEF InputsOf, Sent, Remote, NeedsScript, Program
  <2> QED
    BY <2>3, <2>4, <2>6, <2>7 DEF Good
<1>5. CASE /\ ~base /\ base' = TRUE
           /\ UNCHANGED <<stage, jobState, failures, remote>>
  <2>1. TypeOK'
    BY <1>1, <1>3, <1>5 DEF TypeOK
  <2>2. Concerns(j)
    BY <1>3, <1>5, SameOutput DEF Concerns, SameRequests, Framed
  <2>3. (JobInv(j) => JobInv(j)') /\ (InputsOf(j) => InputsOf(j)')
    <3>1. Framed(j) /\ SameRequests /\ Grown(output, output')
      BY <1>3, <1>5, SameOutput DEF Framed, SameRequests
    <3> QED
      BY <1>1, <3>1, FramedJob
  <2> QED
    BY <1>1, <2>1, <2>2, <2>3 DEF Good
<1>6. CASE /\ Retry(j)
           /\ \E n \in IF base /\ ~Exists(remote[j]) /\ "partialCopy" \in Events
                       THEN CutPoints ELSE {0} :
                remote' = [remote EXCEPT ![j] = CutAt(local[j], @, n)]
           /\ UNCHANGED base
  <2>1. PICK n \in 0..5 : /\ remote' = [remote EXCEPT ![j] = CutAt(local[j], remote[j], n)]
                          /\ Intact => n = 0
    <3> DEFINE N == IF base /\ ~Exists(remote[j]) /\ "partialCopy" \in Events
                    THEN CutPoints ELSE {0}
    <3>1. N \subseteq 0..5 /\ (Intact => N = {0})
      BY LimitFacts DEF Intact
    <3>2. \E n \in N : remote' = [remote EXCEPT ![j] = CutAt(local[j], remote[j], n)]
      BY <1>6
    <3> HIDE DEF N
    <3> QED
      BY <3>1, <3>2
  <2>2. /\ CutAt(local[j], remote[j], n) \in Directory
        /\ Intact => CutAt(local[j], remote[j], n) = remote[j]
    BY <1>1, <2>1, CutFacts
  <2>3. /\ failures' \in [Jobs -> 0..MaxRetries]
        /\ stage' \in [Jobs -> Stages] /\ jobState' \in [Jobs -> JobState]
        /\ \A k \in Jobs \ {j} : stage'[k] = stage[k] /\ jobState'[k] = jobState[k]
        /\ stage'[j] \in {"pending", "failed"} /\ jobState'[j] = "Error"
    BY <1>1, <1>6, RetryFacts
  <2>4. TypeOK'
    BY <1>1, <1>3, <1>6, <2>1, <2>2, <2>3 DEF TypeOK
  <2>5. Concerns(j)
    BY <1>1, <1>3, <2>1, <2>3, SameOutput DEF Concerns, SameRequests, Framed
  <2>6. JobInv(j)'
    BY <1>1, <1>2, <1>3, <2>3 DEF JobInv, RemoteStage, ResultStays, Remote
  <2>7. Intact => remote'[j] = remote[j]
    BY <1>1, <2>1, <2>2
  <2>8. Intact /\ InputsOf(j) => InputsOf(j)'
    BY <1>2, <1>3, <2>3, <2>7 DEF InputsOf, Sent, Remote, NeedsScript, Program, Exists
  <2> QED
    BY <2>4, <2>5, <2>6, <2>8 DEF Good
<1> QED
  BY <1>4, <1>5, <1>6 DEF InputFilesCopied

\* The id read is the job's, so that no other leaves m_jobs.
LEMMA JobSubmittedStep ==
    ASSUME IInv, Banners \subseteq {"OAR"}, NEW j \in Jobs, JobSubmitted(j)
    PROVE  Good(j)
<1>1. TypeOK /\ JobInv(j) /\ \A k \in followed : queueId[k] = k
  BY DEF IInv, TypeOK, JobInv, RemoteStage, LocalStage
<1>2. Remote /\ stage[j] = "submitting" /\ phase[j] = "unknown" /\ j \notin followed
  BY <1>1 DEF JobSubmitted, JobInv, RemoteStage, LocalStage
<1>3. UNCHANGED <<queue, request, source, base, local, remote, output>>
  BY DEF JobSubmitted
<1>4. ASSUME NEW banner \in Logins,
             queueId' = [queueId EXCEPT ![j] = parseQueueId(queue, banner, j)],
             followed' = {k \in followed : queueId[k] # parseQueueId(queue, banner, j)} \cup {j},
             phase' = [phase EXCEPT ![j] = "waits"],
             SetStage(j, "inQueue"), SetState(j, "Submitted"),
             failures' = [failures EXCEPT ![j] = 0]
      PROVE  Good(j)
  <2>1. parseQueueId(queue, banner, j) = j
    <3>1. banner \in BOOLEAN /\ (banner => queue = "OAR") /\ queue \in Schedulers
      BY <1>1, <1>2, RequestFacts DEF Logins
    <3> QED
      BY <3>1, IdIsRead
  <2>2. /\ stage' = [stage EXCEPT ![j] = "inQueue"]
        /\ jobState' = [jobState EXCEPT ![j] = "Submitted"]
        /\ queueId' = [queueId EXCEPT ![j] = j]
    BY <1>4, <2>1 DEF SetStage, SetState
  <2>3. followed' = followed \cup {j}
    BY <1>1, <1>2, <1>4, <2>1
  <2>4. failures' \in [Jobs -> 0..MaxRetries]
    BY <1>1, <1>4, JobFilesAssumption DEF TypeOK
  <2>5. TypeOK'
    BY <1>1, <1>3, <1>4, <2>2, <2>3, <2>4 DEF TypeOK, Stages, JobState
  <2>6. Concerns(j)
    BY <1>1, <1>3, <1>4, <2>2, <2>3, SameOutput DEF Concerns, SameRequests, Framed, TypeOK
  <2>7. /\ stage'[j] = "inQueue" /\ jobState'[j] = "Submitted" /\ queueId'[j] = j
        /\ phase'[j] = "waits" /\ j \in followed'
    BY <1>1, <1>4, <2>2, <2>3 DEF TypeOK
  <2>8. JobInv(j)'
    BY <1>2, <1>3, <2>7 DEF JobInv, RemoteStage, ResultStays, Remote
  <2>9. InputsOf(j) => InputsOf(j)'
    BY <1>2, <1>3, <2>7 DEF InputsOf, Sent, Remote, NeedsScript, Program
  <2> QED
    BY <2>5, <2>6, <2>8, <2>9 DEF Good
<1>5. CASE Retry(j) /\ UNCHANGED <<followed, queueId, phase>>
  <2>1. /\ failures' \in [Jobs -> 0..MaxRetries]
        /\ stage' \in [Jobs -> Stages] /\ jobState' \in [Jobs -> JobState]
        /\ \A k \in Jobs \ {j} : stage'[k] = stage[k] /\ jobState'[k] = jobState[k]
        /\ stage'[j] \in {"pending", "failed"} /\ jobState'[j] = "Error"
    BY <1>1, <1>5, RetryFacts
  <2>2. TypeOK'
    BY <1>1, <1>3, <1>5, <2>1 DEF TypeOK
  <2>3. Concerns(j)
    BY <1>3, <1>5, <2>1, SameOutput DEF Concerns, SameRequests, Framed
  <2>4. JobInv(j)'
    BY <1>2, <1>3, <1>5, <2>1 DEF JobInv, RemoteStage, ResultStays, Remote
  <2>5. InputsOf(j) => InputsOf(j)'
    BY <1>2, <1>3, <1>5, <2>1 DEF InputsOf, Sent, Remote, NeedsScript, Program, Exists
  <2> QED
    BY <2>2, <2>3, <2>4, <2>5 DEF Good
<1> QED
  BY <1>4, <1>5 DEF JobSubmitted

\* The result is left in the directory on the host.
LEMMA ScheduleStep ==
    ASSUME IInv, NEW j \in Jobs, Schedule(j)
    PROVE  Good(j)
<1>1. /\ TypeOK /\ JobInv(j) /\ remote[j] \in Directory /\ remote \in [Jobs -> Directory]
      /\ phase \in [Jobs -> {"unknown", "waits", "runs", "ended", "gone"}]
  BY DEF IInv, TypeOK
<1>2. /\ Remote /\ RemoteStage(j)
      /\ UNCHANGED <<queue, request, stage, jobState, failures, followed, queueId, source, base,
                     local, output>>
  BY <1>1 DEF Schedule, JobInv
<1>3. /\ phase[j] \in {"waits", "runs", "ended"}
      /\ phase' = [phase EXCEPT ![j] = phase'[j]]
      /\ phase'[j] \in {"runs", "ended", "gone"}
      /\ phase'[j] = "runs" => phase[j] = "waits"
      /\ phase'[j] = "ended" => phase[j] = "runs"
      /\ phase'[j] = "gone" => phase[j] = "ended"
  BY <1>1 DEF Schedule
<1>4. /\ remote' \in [Jobs -> Directory]
      /\ \A k \in Jobs \ {j} : remote'[k] = remote[k]
      /\ phase'[j] = "ended" => remote'[j]["result"] = File(j, "whole")
      /\ phase'[j] # "ended" => remote'[j] = remote[j]
  <2>1. CASE phase'[j] = "ended"
    <3>1. remote' = [remote EXCEPT ![j] = [remote[j] EXCEPT !["result"] = File(j, "whole")]]
      BY <1>1, <1>3, <2>1 DEF Schedule
    <3>2. /\ [remote[j] EXCEPT !["result"] = File(j, "whole")] \in Directory
          /\ [remote[j] EXCEPT !["result"] = File(j, "whole")]["result"] = File(j, "whole")
      BY <1>1, FileTypes DEF Directory, Contents, FileNames
    <3> QED
      BY <1>1, <2>1, <3>1, <3>2
  <2>2. CASE phase'[j] # "ended"
    BY <1>1, <1>3, <2>2 DEF Schedule
  <2> QED
    BY <2>1, <2>2
<1>5. TypeOK'
  BY <1>1, <1>2, <1>3, <1>4 DEF TypeOK
<1>6. Concerns(j)
  BY <1>1, <1>2, <1>3, <1>4, SameOutput DEF Concerns, SameRequests, Framed
<1>7. JobInv(j)'
  BY <1>1, <1>2, <1>3, <1>4 DEF JobInv, RemoteStage, ResultStays, IsDelivered, Remote, Asked
<1>8. InputsOf(j) => InputsOf(j)'
  BY <1>2, <1>3, <1>4 DEF RemoteStage, InputsOf, Sent, Remote, NeedsScript, Program
<1> QED
  BY <1>5, <1>6, <1>7, <1>8 DEF Good

\* Handing over the output of a job, from what its local directory holds.
LEMMA DeliverFacts ==
    ASSUME TypeOK, NEW j \in Jobs, NEW dir \in Directory, Deliver(j, dir),
           UNCHANGED <<queue, request, failures, followed, queueId, phase, source, base, remote>>
    PROVE  /\ TypeOK' /\ Concerns(j)
           /\ Outcome(j, dir, [output |-> output', local |-> local', jobState |-> jobState',
                               stage |-> stage'])
<1>1. PICK limit \in Limits : Become(Delivered(j, Now, dir, limit))
  BY DEF Deliver
<1> DEFINE t == Delivered(j, Now, dir, limit)
<1>2. /\ output \in Directory /\ local \in [Jobs -> Directory]
      /\ jobState \in [Jobs -> JobState] /\ stage \in [Jobs -> Stages]
  BY DEF TypeOK
<1>3. Now \in States
  BY ONLY <1>2 DEF Now, States
<1>4. limit \in 0..5
  BY LimitFacts
<1>5. /\ t \in States
      /\ Grown(Now.output, t.output)
      /\ Elsewhere(j, Now, t)
      /\ Outcome(j, dir, t)
  BY <1>3, <1>4, DeliveredFacts
<1>6. output' = t.output /\ local' = t.local /\ jobState' = t.jobState /\ stage' = t.stage
  BY <1>1 DEF Become
<1>7. /\ t.output \in Directory /\ t.local \in [Jobs -> Directory]
      /\ t.jobState \in [Jobs -> JobState] /\ t.stage \in [Jobs -> Stages]
  BY <1>5 DEF States
<1>8. TypeOK'
  BY <1>6, <1>7 DEF TypeOK
<1>9. Concerns(j)
  BY <1>5, <1>6 DEF Concerns, SameRequests, Framed, Elsewhere, Now
<1>10. Outcome(j, dir, [output |-> output', local |-> local', jobState |-> jobState',
                        stage |-> stage'])
  BY <1>5, <1>6 DEF Outcome
<1> QED
  BY <1>8, <1>9, <1>10

\* The same, when the directory holds the result of a program that has ended.
LEMMA DeliverStep ==
    ASSUME IInv, NEW j \in Jobs, NEW dir \in Directory, Deliver(j, dir),
           UNCHANGED <<queue, request, failures, followed, queueId, phase, source, base, remote>>,
           j \notin followed, phase[j] \in {"ended", "gone"}, ~Remote => phase[j] = "gone",
           dir["result"] = File(j, "whole"),
           Remote => remote[j]["result"] = File(j, "whole")
    PROVE  Good(j)
<1>1. TypeOK
  BY DEF IInv
<1> DEFINE t == [output |-> output', local |-> local', jobState |-> jobState', stage |-> stage']
<1>2. TypeOK' /\ Concerns(j) /\ Outcome(j, dir, t)
  BY <1>1, DeliverFacts
<1>3. /\ t.output = output' /\ t.local = local' /\ t.jobState = jobState' /\ t.stage = stage'
      /\ dir["result"] # None
  BY FileTypes DEF Contents
<1> HIDE DEF t
<1>4. CASE stage'[j] = "failed" /\ jobState'[j] = "Error" /\ local'[j] = dir
  <2>1. JobInv(j)'
    BY <1>4 DEF JobInv, RemoteStage, LocalStage, ResultStays, Remote
  <2>2. InputsOf(j)'
    BY <1>4 DEF InputsOf, Remote
  <2> QED
    BY <1>2, <2>1, <2>2 DEF Good
<1>5. CASE /\ stage'[j] = IF Remote /\ request[j].cleanRemote THEN "cleaning" ELSE "settled"
           /\ jobState'[j] = "Finished"
           /\ ~request[j].cleanLocal => local'[j] = dir
           /\ request[j].output = "shared" => output'["result"] = dir["result"]
  <2>1. IsDelivered(j)'
    BY <1>5 DEF IsDelivered
  <2>2. stage'[j] = "cleaning" => Remote' /\ request'[j].cleanRemote
    BY <1>5 DEF Remote
  <2>3. stage'[j] \in {"cleaning", "settled"} /\ (~Remote => stage'[j] = "settled")
    BY <1>5
  <2>4. ResultStays(j)'
    BY <2>3 DEF ResultStays, Remote
  <2>5. (Remote => RemoteStage(j)') /\ (~Remote => LocalStage(j)')
    BY <2>3 DEF RemoteStage, LocalStage
  <2>6. JobInv(j)'
    BY <2>1, <2>2, <2>3, <2>4, <2>5 DEF JobInv, Remote
  <2>7. InputsOf(j)'
    BY <2>3 DEF InputsOf, Remote
  <2> QED
    BY <1>2, <2>6, <2>7 DEF Good
<1> QED
  BY <1>2, <1>3, <1>4, <1>5 DEF Outcome

\* The result has arrived, or stays on the host.
LEMMA OutputCopiedStep ==
    ASSUME IInv, NEW j \in Jobs, OutputCopiedFromServer(j)
    PROVE  Good(j)
<1>1. /\ TypeOK /\ JobInv(j) /\ local[j] \in Directory /\ remote[j] \in Directory
      /\ local \in [Jobs -> Directory]
  BY DEF IInv, TypeOK
<1>2. /\ stage[j] = "fetching" /\ Remote /\ phase[j] \in {"ended", "gone"} /\ j \notin followed
      /\ remote[j]["result"] = File(j, "whole")
  BY <1>1 DEF OutputCopiedFromServer, JobInv, RemoteStage, LocalStage, ResultStays
<1>3. UNCHANGED <<queue, request, failures, followed, queueId, phase, source, base, remote>>
  BY DEF OutputCopiedFromServer
<1>4. CASE Deliver(j, copyDirFrom(j))
  <2>1. copyDirFrom(j) \in Directory
    BY <1>1 DEF copyDirFrom, Directory
  <2>2. copyDirFrom(j)["result"] = File(j, "whole")
    BY <1>2, FileTypes DEF copyDirFrom, FileNames, Contents
  <2> QED
    BY <1>2, <1>3, <1>4, <2>1, <2>2, DeliverStep
<1>5. CASE /\ SetStage(j, "failed")
           /\ SetState(j, "Error")
           /\ \E n \in CutPoints : local' = [local EXCEPT ![j] = CutAt(remote[j], @, n)]
           /\ UNCHANGED output
  <2>1. PICK n \in 0..5 : local' = [local EXCEPT ![j] = CutAt(remote[j], local[j], n)]
    BY <1>5, LimitFacts
  <2>2. CutAt(remote[j], local[j], n) \in Directory
    BY <1>1, CutFacts
  <2>3. /\ stage' = [stage EXCEPT ![j] = "failed"]
        /\ jobState' = [jobState EXCEPT ![j] = "Error"]
    BY <1>5 DEF SetStage, SetState
  <2>4. TypeOK'
    BY <1>1, <1>3, <1>5, <2>1, <2>2, <2>3 DEF TypeOK, Stages, JobState
  <2>5. Concerns(j)
    BY <1>1, <1>3, <1>5, <2>1, <2>3, SameOutput DEF Concerns, SameRequests, Framed, TypeOK
  <2>6. stage'[j] = "failed" /\ jobState'[j] = "Error"
    BY <1>1, <2>3 DEF TypeOK
  <2>7. JobInv(j)'
    BY <1>2, <1>3, <2>6 DEF JobInv, RemoteStage, ResultStays, Remote
  <2>8. InputsOf(j)'
    BY <1>2, <1>3, <2>6 DEF InputsOf, Remote
  <2> QED
    BY <2>4, <2>5, <2>7, <2>8 DEF Good
<1> QED
  BY <1>4, <1>5 DEF OutputCopiedFromServer

\* Cleaning comes after the delivery.
LEMMA RemoteDirectoryCleanedStep ==
    ASSUME IInv, NEW j \in Jobs, RemoteDirectoryCleaned(j)
    PROVE  Good(j)
<1>1. TypeOK /\ JobInv(j) /\ remote \in [Jobs -> Directory] /\ jobState \in [Jobs -> JobState]
  BY DEF IInv, TypeOK
<1>2. /\ stage[j] = "cleaning" /\ Remote /\ request[j].cleanRemote
      /\ phase[j] \in {"ended", "gone"} /\ j \notin followed /\ IsDelivered(j)
  BY <1>1 DEF RemoteDirectoryCleaned, JobInv, RemoteStage
<1>3. /\ UNCHANGED <<queue, request, failures, followed, queueId, phase, source, base, local,
                     output>>
      /\ stage' = [stage EXCEPT ![j] = "settled"]
  BY DEF RemoteDirectoryCleaned, SetStage
<1>4. /\ remote' \in [Jobs -> Directory]
      /\ \A k \in Jobs \ {j} : remote'[k] = remote[k]
      /\ jobState' \in [Jobs -> JobState]
      /\ \A k \in Jobs \ {j} : jobState'[k] = jobState[k]
  <2>1. EmptyDir \in Directory
    BY FileTypes
  <2> QED
    BY <1>1, <2>1 DEF RemoteDirectoryCleaned, SetState, JobState
<1>5. TypeOK'
  BY <1>1, <1>3, <1>4 DEF TypeOK, Stages
<1>6. Concerns(j)
  BY <1>1, <1>3, <1>4, SameOutput DEF Concerns, SameRequests, Framed, TypeOK
<1>7. stage'[j] = "settled"
  BY <1>1, <1>3 DEF TypeOK
<1>8. IsDelivered(j)'
  BY <1>2, <1>3 DEF IsDelivered, Asked, Remote
<1>9. JobInv(j)'
  BY <1>2, <1>3, <1>7, <1>8 DEF JobInv, RemoteStage, ResultStays, Remote
<1>10. InputsOf(j)'
  BY <1>2, <1>3, <1>7 DEF InputsOf, Remote
<1> QED
  BY <1>5, <1>6, <1>9, <1>10 DEF Good

\* A local job starts.
LEMMA StartJobStep ==
    ASSUME IInv, NEW j \in Jobs, StartJob(j)
    PROVE  Good(j)
<1>1. TypeOK /\ JobInv(j)
  BY DEF IInv
<1>2. ~Remote /\ stage[j] = "pending" /\ j \notin followed
  BY <1>1 DEF StartJob, JobInv, LocalStage
<1>3. /\ stage' = [stage EXCEPT ![j] = "running"]
      /\ jobState' = [jobState EXCEPT ![j] = "RunningLocal"]
      /\ phase' = [phase EXCEPT ![j] = "runs"]
      /\ UNCHANGED <<queue, request, failures, followed, queueId, source, base, local, remote,
                     output>>
  BY DEF StartJob, SetStage, SetState
<1>4. TypeOK'
  BY <1>1, <1>3 DEF TypeOK, Stages, JobState
<1>5. Concerns(j)
  BY <1>1, <1>3, SameOutput DEF Concerns, SameRequests, Framed, TypeOK
<1>6. stage'[j] = "running" /\ jobState'[j] = "RunningLocal" /\ phase'[j] = "runs"
  BY <1>1, <1>3 DEF TypeOK
<1>7. JobInv(j)'
  BY <1>2, <1>3, <1>6 DEF JobInv, LocalStage, ResultStays, Remote
<1>8. InputsOf(j) => InputsOf(j)'
  BY <1>2, <1>3, <1>6 DEF InputsOf, Sent, Remote, NeedsScript, Program
<1> QED
  BY <1>4, <1>5, <1>7, <1>8 DEF Good

\* A local program leaves its result.
LEMMA ProgramEndsStep ==
    ASSUME IInv, NEW j \in Jobs, ProgramEnds(j)
    PROVE  Good(j)
<1>1. /\ TypeOK /\ JobInv(j) /\ local \in [Jobs -> Directory] /\ local[j] \in Directory
      /\ phase \in [Jobs -> {"unknown", "waits", "runs", "ended", "gone"}]
  BY DEF IInv, TypeOK
<1>2. ~Remote /\ stage[j] = "running" /\ phase[j] = "runs" /\ j \notin followed
  BY <1>1 DEF ProgramEnds, JobInv, RemoteStage, LocalStage
<1>3. /\ phase' = [phase EXCEPT ![j] = "gone"]
      /\ local' = [local EXCEPT ![j] = [local[j] EXCEPT !["result"] = File(j, "whole")]]
      /\ UNCHANGED <<queue, request, stage, jobState, failures, followed, queueId, source, base,
                     remote, output>>
  BY <1>1 DEF ProgramEnds
<1>4. /\ [local[j] EXCEPT !["result"] = File(j, "whole")] \in Directory
      /\ [local[j] EXCEPT !["result"] = File(j, "whole")]["result"] = File(j, "whole")
  BY <1>1, FileTypes DEF Directory, Contents, FileNames
<1>5. TypeOK'
  BY <1>1, <1>3, <1>4 DEF TypeOK
<1>6. Concerns(j)
  BY <1>1, <1>3, SameOutput DEF Concerns, SameRequests, Framed
<1>7. phase'[j] = "gone" /\ local'[j]["result"] = File(j, "whole") /\ stage'[j] = "running"
  BY <1>1, <1>2, <1>3, <1>4
<1>8. JobInv(j)'
  BY <1>1, <1>2, <1>3, <1>7 DEF JobInv, LocalStage, ResultStays, Remote
<1>9. InputsOf(j)'
  BY <1>2, <1>3, <1>7 DEF InputsOf, Remote
<1> QED
  BY <1>5, <1>6, <1>8, <1>9 DEF Good

\* The output of a local job is handed over.
LEMMA ProcessFinishedStep ==
    ASSUME IInv, NEW j \in Jobs, ProcessFinished(j)
    PROVE  Good(j)
<1>1. TypeOK /\ JobInv(j) /\ local[j] \in Directory
  BY DEF IInv, TypeOK
<1>2. /\ ~Remote /\ stage[j] = "running" /\ phase[j] = "gone" /\ j \notin followed
      /\ local[j]["result"] = File(j, "whole")
  BY <1>1 DEF ProcessFinished, JobInv, RemoteStage, LocalStage, ResultStays
<1> QED
  BY <1>1, <1>2, DeliverStep DEF ProcessFinished

\* What an answer says of a followed job: "Unknown" only of one that has ended.
LEMMA ShownFacts ==
    ASSUME IInv, Remote, AnswersRead, NEW j \in followed,
           NEW state \in StatesShown(j)
    PROVE  /\ state \in JobState
           /\ state = "Unknown" => phase[j] \in {"ended", "gone"}
           /\ queue # "OAR" => state # "Finished"
<1>1. /\ j \in Jobs /\ queueId[j] = j /\ phase[j] # "unknown" /\ queue \in Schedulers
      /\ phase[j] \in {"unknown", "waits", "runs", "ended", "gone"}
  BY RequestFacts DEF IInv, TypeOK, JobInv, RemoteStage
<1> DEFINE codes  == Printed(queue, phase[j])
           first  == "firstIdIgnored" \in Events
           listed == ListedIds(queue, followed, Listed, first)
<1>5. ~first /\ first \in BOOLEAN
  BY DEF AnswersRead
<1>6. followed \cap Listed \subseteq listed
  <2> HIDE DEF first
  <2> QED
    BY <1>1, <1>5, ListedFacts
<1>2. StatesShown(j) =
        IF j \notin listed \/ codes = {} THEN {"Unknown"}
        ELSE {parseQueueLine(queue, c) : c \in codes}
  BY <1>1, Zenon DEF StatesShown, AnswersRead
<1> HIDE DEF listed
<1>3. CASE j \notin listed \/ codes = {}
  <2>1. state = "Unknown"
    BY <1>2, <1>3
  <2>2. phase[j] \in {"waits", "runs"} => codes # {}
    BY <1>1, StartedIsPrinted
  <2>3. phase[j] \in {"waits", "runs"} => j \in listed
    BY <1>1, <1>6 DEF Listed
  <2> QED
    BY <1>1, <1>3, <2>1, <2>2, <2>3 DEF JobState
<1>4. CASE ~(j \notin listed \/ codes = {})
  <2>1. PICK c \in codes : state = parseQueueLine(queue, c)
    BY <1>2, <1>4
  <2> QED
    BY <1>1, <2>1, StatesOfCodes
<1> QED
  BY <1>3, <1>4

\* The listing and its answer.  The followed jobs are on a remote queue.
LEMMA HandleQueueUpdateStep ==
    ASSUME IInv, AnswersRead, HandleQueueUpdate
    PROVE  IInv' /\ (InputsInv => InputsInv')
<1>1. /\ TypeOK /\ Remote /\ followed \subseteq Jobs
      /\ \A j \in followed : RemoteStage(j) /\ queueId[j] = j
      /\ \A j \in Jobs : JobInv(j)
  BY DEF IInv, TypeOK, HandleQueueUpdate, JobInv, LocalStage, RemoteStage
<1>2. UNCHANGED <<queue, request, failures, queueId, phase, source, base, remote>>
  BY DEF HandleQueueUpdate
<1>3. PICK shown \in [followed -> UNION {StatesShown(j) : j \in followed}],
           limits \in [followed -> Limits] :
        /\ \A j \in followed : shown[j] \in StatesShown(j)
        /\ \E left \in ByQueueId({j \in followed : shown[j] = "Unknown"}) :
             Become(AfterUpdate(shown, left, limits))
        /\ followed' = {j \in followed : shown[j] # "Unknown"}
  BY DEF HandleQueueUpdate
<1> DEFINE gone == {j \in followed : shown[j] = "Unknown"}
<1>4. PICK left \in ByQueueId(gone) : Become(AfterUpdate(shown, left, limits))
  BY <1>3
<1>5. \A j \in followed : /\ shown[j] \in JobState
                          /\ shown[j] = "Unknown" => phase[j] \in {"ended", "gone"}
                          /\ queue # "OAR" => shown[j] # "Finished"
  BY <1>1, <1>3, ShownFacts
<1>6. /\ Len(left) \in Nat
      /\ \A i \in 1..Len(left) : left[i] \in gone
      /\ \A i, k \in 1..Len(left) : i # k => left[i] # left[k]
      /\ \A j \in gone : \E i \in 1..Len(left) : left[i] = j
  <2>1. gone \in SUBSET Jobs /\ \A j \in gone : queueId[j] = j
    BY <1>1
  <2> HIDE DEF gone
  <2> QED
    BY <1>4, <2>1, ByQueueIdFacts
<1> DEFINE t == AfterUpdate(shown, left, limits)
<1>7. UpTo(t, left, Len(left), shown)
  <2>1. \A j \in followed : limits[j] \in 0..5
    BY <1>3, LimitFacts
  <2> QED
    BY <1>1, <1>5, <1>6, <2>1, AfterUpdateFacts
<1>8. output' = t.output /\ local' = t.local /\ jobState' = t.jobState /\ stage' = t.stage
  BY <1>4 DEF Become
<1> HIDE DEF t
<1>9. TypeOK'
  <2>1. /\ t.output \in Directory /\ t.local \in [Jobs -> Directory]
        /\ t.jobState \in [Jobs -> JobState] /\ t.stage \in [Jobs -> Stages]
    BY <1>7 DEF UpTo, States
  <2>2. followed' \subseteq Jobs
    BY <1>1, <1>3
  <2> QED
    BY <1>1, <1>2, <1>8, <2>1, <2>2 DEF TypeOK
<1>10. SameRequests /\ Grown(output, output') /\ (Remote <=> Remote')
  BY <1>2, <1>7, <1>8 DEF SameRequests, UpTo, Remote
<1>11. ASSUME NEW j \in gone
       PROVE  JobInv(j)' /\ (InputsOf(j) => InputsOf(j)')
  <2>1. Handled(j, t)
    BY <1>6, <1>7 DEF UpTo
  <2>2. /\ stage'[j] \in {"fetching", "failed", "cleaning", "settled"}
        /\ stage'[j] = "cleaning" => request[j].cleanRemote
        /\ stage'[j] \in {"cleaning", "settled"} => ~request[j].retrieve
        /\ jobState'[j] = "Finished"
              => stage'[j] \in {"cleaning", "settled"} \/ jobState[j] = "Finished"
    BY <1>8, <2>1 DEF Handled
  <2>3. /\ j \in Jobs /\ stage[j] = "inQueue" /\ phase[j] \in {"ended", "gone"} /\ JobInv(j)
        /\ j \notin followed'
    BY <1>1, <1>3, <1>5 DEF RemoteStage
  <2>4. remote[j]["result"] = File(j, "whole")
    BY <1>1, <2>3 DEF JobInv, ResultStays
  <2>5. jobState[j] = "Finished" => queue = "OAR"
    BY <2>3 DEF JobInv
  <2>6. RemoteStage(j)'
    BY <1>2, <2>2, <2>3 DEF RemoteStage
  <2>7. ResultStays(j)' /\ (stage'[j] \in {"cleaning", "settled"} => IsDelivered(j)')
    BY <1>1, <1>2, <1>10, <2>2, <2>4 DEF ResultStays, IsDelivered, Asked
  <2>8. JobInv(j)'
    BY <1>1, <1>2, <1>10, <2>2, <2>5, <2>6, <2>7 DEF JobInv
  <2>9. InputsOf(j)'
    BY <1>1, <1>2, <1>10, <2>2, <2>3 DEF InputsOf
  <2> QED
    BY <2>8, <2>9
<1>12. ASSUME NEW j \in Jobs \ gone
       PROVE  JobInv(j)' /\ (InputsOf(j) => InputsOf(j)')
  <2>1. Kept(j, t, shown)
    BY <1>6, <1>7 DEF UpTo
  <2>2. /\ stage'[j] = stage[j] /\ local'[j] = local[j]
        /\ jobState'[j] = IF j \in followed THEN shown[j] ELSE jobState[j]
        /\ j \in followed' <=> j \in followed
    BY <1>1, <1>3, <1>5, <1>8, <2>1, SeenFacts DEF Kept
  <2>3. CASE j \notin followed
    <3>1. Framed(j)
      BY <1>2, <2>2, <2>3 DEF Framed
    <3> QED
      BY <1>1, <1>10, <3>1, FramedJob
  <2>4. CASE j \in followed
    <3>1. stage[j] = "inQueue" /\ JobInv(j) /\ (jobState'[j] = "Finished" => queue = "OAR")
      BY <1>1, <1>5, <2>2, <2>4 DEF RemoteStage
    <3>2. RemoteStage(j)'
      BY <1>1, <1>2, <2>2, <2>4 DEF RemoteStage
    <3>3. ResultStays(j)'
      BY <1>2, <1>10, <2>2, <3>1 DEF JobInv, ResultStays
    <3>4. JobInv(j)'
      BY <1>1, <1>2, <1>10, <2>2, <3>1, <3>2, <3>3 DEF JobInv
    <3>5. InputsOf(j) => InputsOf(j)'
      BY <1>1, <1>2, <1>10, <2>2, <3>1 DEF InputsOf, Sent, NeedsScript, Program
    <3> QED
      BY <3>4, <3>5
  <2> QED
    BY <2>3, <2>4
<1> QED
  BY <1>9, <1>11, <1>12 DEF IInv, InputsInv

\* A step in which every job is framed.
LEMMA FramedStep ==
    ASSUME IInv, TypeOK', SameRequests, Grown(output, output'), \A k \in Jobs : Framed(k)
    PROVE  IInv' /\ (InputsInv => InputsInv')
BY FramedJob DEF IInv, InputsInv

\* Every step keeps the invariant.
LEMMA NextStep ==
    ASSUME IInv, AnswersRead, Banners \subseteq {"OAR"}, [Next]_vars
    PROVE  IInv' /\ (Intact /\ InputsInv => InputsInv')
<1>1. CASE ChangeSource
  <2>1. TypeOK' /\ SameRequests /\ \A k \in Jobs : Framed(k)
    BY <1>1 DEF ChangeSource, IInv, TypeOK, SameRequests, Framed
  <2>2. Grown(output, output')
    BY <1>1, SameOutput DEF ChangeSource
  <2> QED
    BY <2>1, <2>2, FramedStep
<1>2. CASE HandleQueueUpdate
  BY <1>2, HandleQueueUpdateStep
<1>3. ASSUME NEW j \in Jobs,
             \/ SubmitLocal(j) \/ SubmitRemote(j) \/ SyncJobState(j)
             \/ BeginJobSubmission(j) \/ InputFilesCopied(j) \/ JobSubmitted(j) \/ Schedule(j)
             \/ OutputCopiedFromServer(j) \/ RemoteDirectoryCleaned(j)
             \/ StartJob(j) \/ ProgramEnds(j) \/ ProcessFinished(j)
      PROVE  IInv' /\ (Intact /\ InputsInv => InputsInv')
  <2>1. Good(j)
    BY <1>3, SubmitLocalStep, SubmitRemoteStep, SyncJobStateStep, BeginJobSubmissionStep,
       InputFilesCopiedStep, JobSubmittedStep, ScheduleStep, OutputCopiedStep,
       RemoteDirectoryCleanedStep, StartJobStep, ProgramEndsStep, ProcessFinishedStep
  <2> QED
    BY <2>1, GoodStep
<1>4. CASE UNCHANGED vars
  <2>1. TypeOK' /\ SameRequests /\ \A k \in Jobs : Framed(k)
    BY <1>4 DEF vars, IInv, TypeOK, SameRequests, Framed
  <2>2. Grown(output, output')
    BY <1>4, SameOutput DEF vars
  <2> QED
    BY <2>1, <2>2, FramedStep
<1> QED
  BY <1>1, <1>2, <1>3, <1>4 DEF Next

-----------------------------------------------------------------------------
(* Theorems                                                                *)

\* The invariant holds, whatever goes wrong with the copies.
LEMMA IInvHolds ==
    ASSUME AnswersRead, Banners \subseteq {"OAR"}
    PROVE  Spec => []IInv
<1>1. Init => IInv
  BY InitIInv
<1>2. IInv /\ [Next]_vars => IInv'
  BY NextStep
<1> QED
  BY <1>1, <1>2, PTL DEF Spec

\* The inputs, unless a copy breaks off.
LEMMA InputsInvHolds ==
    ASSUME AnswersRead, Intact, Banners \subseteq {"OAR"}
    PROVE  Spec => [](IInv /\ InputsInv)
<1>1. Init => IInv /\ InputsInv
  BY InitIInv
<1>2. IInv /\ InputsInv /\ [Next]_vars => IInv' /\ InputsInv'
  BY NextStep
<1> QED
  BY <1>1, <1>2, PTL DEF Spec

\* NothingIsLost: in whatever state its job is, failed ones included, the
\* result of a program that has ended is in a directory of the job or where it
\* was asked for, unless the client wanted neither (finalizeJobCopyFromServer,
\* finalizeJobCopyToCustomDestination, finalizeJobCleanup).
THEOREM ResultsStay ==
    ASSUME AnswersRead, Banners \subseteq {"OAR"}
    PROVE  Spec => []NothingIsLost
<1>1. IInv => NothingIsLost
  <2>1. ASSUME IInv, NEW j \in Jobs, phase[j] \in {"ended", "gone"}
        PROVE  \/ \E dir \in {local[j], remote[j], output} : dir["result"] = File(j, "whole")
               \/ Given(j)
    <3>1. TypeOK /\ JobInv(j) /\ ResultStays(j)
      BY <2>1 DEF IInv, JobInv
    <3>2. CASE stage[j] = "settled"
      <4>1. /\ IsDelivered(j)
            /\ Remote => request[j].cleanRemote \/ remote[j]["result"] = File(j, "whole")
        BY <2>1, <3>1, <3>2 DEF JobInv, ResultStays
      <4>2. request[j].output \in {"shared", "own"}
        BY <3>1, RequestFacts
      <4> QED
        BY <3>2, <4>1, <4>2 DEF IsDelivered, Given
    <3>3. CASE stage[j] # "settled"
      BY <2>1, <3>1, <3>3 DEF ResultStays
    <3> QED
      BY <3>2, <3>3
  <2> QED
    BY <2>1 DEF NothingIsLost, IInv
<1>2. Spec => []IInv
  BY IInvHolds
<1> QED
  BY <1>1, <1>2, PTL

\* FinishedIsDelivered: no job is shown as finished before its output is whole
\* where it was asked for (finalizeJobCopyToCustomDestination, handleQueueUpdate).
THEOREM OutputIsDelivered ==
    ASSUME AnswersRead, Banners \subseteq {"OAR"}
    PROVE  Spec => []FinishedIsDelivered
<1>1. IInv => FinishedIsDelivered
  BY DEF IInv, JobInv, RemoteStage, LocalStage, IsDelivered, FinishedIsDelivered
<1>2. Spec => []IInv
  BY IInvHolds
<1> QED
  BY <1>1, <1>2, PTL

\* InputsAreSent: a job that waits or runs has its whole script and, of the
\* additional input its request names, all that was read when it was written,
\* after any number of retries and whatever becomes of the file meanwhile
\* (writeInputFiles, writeFile, copyInputFilesToHost).  A copy that breaks off
\* leaves files that copyDirTo does not replace, and nobody looks at the result
\* of a write: Intact is the hypothesis that neither happens.
THEOREM InputsArrive ==
    ASSUME AnswersRead, Intact, Banners \subseteq {"OAR"}
    PROVE  Spec => []InputsAreSent
<1>1. IInv /\ InputsInv => InputsAreSent
  <2>1. ASSUME IInv, InputsInv, NEW j \in Jobs, phase[j] \in {"waits", "runs"}
        PROVE  Sent(j, IF Remote THEN remote[j] ELSE local[j])
    BY <2>1 DEF InputsInv, InputsOf, IInv, JobInv, LocalStage
  <2> QED
    BY <2>1 DEF InputsAreSent, Sent
<1>2. Spec => [](IInv /\ InputsInv)
  BY InputsInvHolds
<1> QED
  BY <1>1, <1>2, PTL
===============================================================================
