----------------------------- MODULE JobLifecycle -----------------------------
(***************************************************************************)
(* What a remote queue promises about each job it is given, without the    *)
(* connections, tables and timers it keeps the promise with: a job passes  *)
(* through the stages below in this order, goes back only to be submitted  *)
(* again after a failure, does so MaxRetries times at most, and once       *)
(* released is never taken up again.                                       *)
(***************************************************************************)
EXTENDS Naturals

CONSTANTS Jobs, MaxRetries

VARIABLES
    stage,     \* the stage of each job
    failures   \* failed submissions since the job was accepted

lifecycleVars == <<stage, failures>>

Stage == {"absent", "pending", "submitting", "tracked", "killing",
          "fetching", "cleaning", "released"}

LifecycleTypeOK ==
    /\ stage \in [Jobs -> Stage]
    /\ failures \in [Jobs -> 0 .. MaxRetries]

LifecycleInit ==
    /\ stage = [j \in Jobs |-> "absent"]
    /\ failures = [j \in Jobs |-> 0]

\* The moves that leave the failure count of an unsubmitted job alone, and
\* those of a job that has reached the scheduler or is given up.
Advance == {<<"absent", "pending">>, <<"pending", "submitting">>}
Settle  == {<<"submitting", "tracked">>, <<"tracked", "killing">>,
            <<"tracked", "fetching">>, <<"tracked", "cleaning">>,
            <<"fetching", "cleaning">>}

Move(j, edges) == <<stage[j], stage'[j]>> \in edges

\* One job moves on, is retried or is released.
JobStep(j) ==
    \/ Move(j, Advance) /\ failures'[j] = failures[j]
    \/ Move(j, Settle)  /\ failures'[j] = 0
    \/ /\ Move(j, {<<"submitting", "pending">>})
       /\ failures'[j] = failures[j] + 1
       /\ failures'[j] =< MaxRetries
    \/ /\ stage[j] # "absent"
       /\ stage'[j] = "released"
       /\ failures'[j] = 0

\* One event may concern several jobs: a timer submits all that are pending,
\* one reply of the scheduler finds several gone.
LifecycleNext ==
    /\ stage' \in [Jobs -> Stage]
    /\ failures' \in [Jobs -> 0 .. MaxRetries]
    /\ \A j \in Jobs :
         \/ JobStep(j)
         \/ stage'[j] = stage[j] /\ failures'[j] = failures[j]

LifecycleSpec == LifecycleInit /\ [][LifecycleNext]_lifecycleVars
==============================================================================
