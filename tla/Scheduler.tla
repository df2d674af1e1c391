------------------------------- MODULE Scheduler -------------------------------
(***************************************************************************)
(* What the classes of the schedulers add to QueueRemoteSsh: the template  *)
(* of the launch script, the reading of a submission's answer and of the   *)
(* lines of the queue listing, and what the listing is asked for.          *)
(***************************************************************************)
EXTENDS Integers, Sequences

Schedulers == {"PBS", "SGE", "SLURM", "OAR"}

(* The default templates, their comments left out *)
SgeTemplate ==
  << <<"#$ -S /bin/bash">>, <<"#$ -N MoleQueueJob-", "$$moleQueueId$$">>,
     <<"##$ -pe NODETYPE", "$$numberOfCores$$">>, <<"#$ -l h_rt=", "$$maxWallTime$$">>,
     <<"cd $SGE_O_WORKDIR">>, <<"$$programExecution$$">> >>

SlurmTemplate ==
  << <<"#SBATCH --job-name=MoleQueueJob-", "$$moleQueueId$$">>,
     <<"#SBATCH --time=", "$$maxWallTime$$">>, <<"#SBATCH --nodes=1">>,
     <<"#SBATCH --ntasks-per-node=", "$$numberOfCores$$">>,
     <<"cd $SLURM_SUBMIT_DIR">>, <<"$$programExecution$$">> >>

OarTemplate ==   \* its wall time is written out, and it leaves the directory it was sent to
  << <<"#OAR -l core=", "$$numberOfCores$$", ",walltime=00:05:00">>,
     <<"cd $TMPDIR">>, <<"$$programExecution$$">> >>

PbsTemplate ==
  << <<"#PBS -N MoleQueueJob-", "$$moleQueueId$$">>, <<"#PBS -l procs=", "$$numberOfCores$$">>,
     <<"#PBS -l walltime=", "$$maxWallTime$$">>, <<"cd $PBS_O_WORKDIR">>,
     <<"$$programExecution$$">> >>

QueueTemplate(type) ==
  CASE type = "SGE" -> SgeTemplate [] type = "SLURM" -> SlurmTemplate
    [] type = "OAR" -> OarTemplate [] type = "PBS" -> PbsTemplate

(* parseQueueId: the answer of a submission is a line, perhaps after the   *)
(* lines the host prints on every login.  The expressions of three classes *)
(* hold the start of the output; the id they do not find stays 0.          *)
Unread == 0

parseSgeId(banner, id)   == IF banner THEN Unread ELSE id
parseSlurmId(banner, id) == IF banner THEN Unread ELSE id
parsePbsId(banner, id)   == IF banner THEN Unread ELSE id
parseOarId(banner, id)   == id

parseQueueId(type, banner, id) ==
  CASE type = "SGE" -> parseSgeId(banner, id) [] type = "SLURM" -> parseSlurmId(banner, id)
    [] type = "OAR" -> parseOarId(banner, id) [] type = "PBS" -> parsePbsId(banner, id)

(* generateQueueRequestCommand: the jobs the listing is about.  SGE lists   *)
(* the user's jobs, the others those asked for by id.  OAR's command is     *)
(* "oarstat <id> -j <id> -j <id>...", the ids in their order: whether the  *)
(* first, which has no -j, asks for its job is oarstat's affair; if not, it *)
(* alone leaves the listing of all jobs.                                   *)
SgeRequest(ids, all)   == all
SlurmRequest(ids, all) == ids \cap all
OtherRequest(ids, all) == ids \cap all
OarRequest(ids, all, firstIgnored) ==
  LET named == IF firstIgnored THEN {i \in ids : \E k \in ids : k < i} ELSE ids
  IN IF named = {} THEN all ELSE named \cap all

ListedIds(type, ids, all, firstIgnored) ==
  CASE type = "SGE" -> SgeRequest(ids, all) [] type = "SLURM" -> SlurmRequest(ids, all)
    [] type = "OAR" -> OarRequest(ids, all, firstIgnored)
    [] type = "PBS" -> OtherRequest(ids, all)

(* parseQueueLine: the state a code stands for; a code that is not here is *)
(* logged and the line counts as if it were not there.                     *)
SgeState(code) ==
  CASE code \in {"r", "d", "e"}                 -> "RunningRemote"
    [] code \in {"qw", "q", "w", "s", "h", "t"} -> "QueuedRemote"
    [] OTHER -> "Unknown"

\* A mutant: jobs that have ended read as finished
SlurmEnded(code) ==
  CASE code \in {"r", "s", "cg"}                     -> "RunningRemote"
    [] code \in {"ca", "cd", "f", "nf", "pr", "to"} -> "Finished"
    [] code \in {"cf", "pd"}                         -> "QueuedRemote"
    [] OTHER -> "Unknown"

SlurmState(code) ==
  CASE code \in {"ca", "cd", "cg", "f", "nf", "pr", "r", "s", "to"} -> "RunningRemote"
    [] code \in {"cf", "pd"} -> "QueuedRemote"
    [] OTHER -> "Unknown"

OarState(code) ==
  CASE code = "l" -> "Accepted"
    [] code = "e" -> "Error"
    [] code = "w" -> "Submitted"
    [] code = "r" -> "RunningRemote"
    [] code \in {"t", "f"} -> "Finished"
    [] OTHER -> "Unknown"

PbsState(code) ==
  CASE code \in {"r", "e", "c"}           -> "RunningRemote"
    [] code \in {"q", "h", "t", "w", "s"} -> "QueuedRemote"
    [] OTHER -> "Unknown"

parseQueueLine(type, code) ==
  CASE type = "SGE" -> SgeState(code) [] type = "SLURM" -> SlurmState(code)
    [] type = "OAR" -> OarState(code) [] type = "PBS" -> PbsState(code)

(* The codes the schedulers print for a job that waits, runs or has ended  *)
(* and is still listed.  The codes of OddCodes are printed too, and read   *)
(* by no class: SGE joins letters, SLURM has more states than its comment. *)
Printed(type, phase) ==
  CASE type = "SGE"   /\ phase = "waits" -> {"qw", "t"}
    [] type = "SGE"   /\ phase = "runs"  -> {"r", "s"}
    [] type = "SLURM" /\ phase = "waits" -> {"pd", "cf"}
    [] type = "SLURM" /\ phase = "runs"  -> {"r", "s", "cg"}
    [] type = "SLURM" /\ phase = "ended" -> {"cd", "f", "to"}
    [] type = "OAR"   /\ phase = "waits" -> {"w", "l"}
    [] type = "OAR"   /\ phase = "runs"  -> {"r"}
    [] type = "OAR"   /\ phase = "ended" -> {"t", "f", "e"}
    [] type = "PBS"   /\ phase = "waits" -> {"q", "h", "w"}
    [] type = "PBS"   /\ phase = "runs"  -> {"r", "e"}
    [] type = "PBS"   /\ phase = "ended" -> {"c"}
    [] OTHER -> {}

OddCodes(type, phase) ==
  CASE type = "SGE"   /\ phase = "waits" -> {"hqw", "Eqw"}
    [] type = "SGE"   /\ phase = "runs"  -> {"dr"}
    [] type = "SLURM" /\ phase = "waits" -> {"rq"}
    [] type = "OAR"   /\ phase = "waits" -> {"h"}
    [] OTHER -> {}
=============================================================================
