------------------------------ MODULE LaunchScript ------------------------------
(***************************************************************************)
(* The launch script of a job: the template of its program and queue, and  *)
(* the passes that replace the keywords in it, in the order the code makes *)
(* them.  A text is a sequence of lines, a line a sequence of words, and a *)
(* keyword is a word; every line of a template ends in a newline.          *)
(***************************************************************************)
EXTENDS Integers, SequencesExt

CONSTANT ClientKeywords   \* keywords a client may give a value (Job::keywords)

(* The keywords a template may hold; the last two have no value of their own *)
Keywords ==
  {"$$inputFileName$$", "$$inputFileBaseName$$", "$$outputFileName$$", "$$moleQueueId$$",
   "$$numberOfCores$$", "$$maxWallTime$$", "$$$maxWallTime$$$", "$$programExecution$$",
   "$$remoteWorkingDir$$"} \cup ClientKeywords

(* One pass of QString::replace, and the same pass for many keywords at once *)
SubstituteAll(text, value) ==
  [i \in DOMAIN text |->
     FlattenSeq([k \in DOMAIN text[i] |->
       IF text[i][k] \in DOMAIN value THEN value[text[i][k]] ELSE <<text[i][k]>>])]

Substitute(text, keyword, value) == SubstituteAll(text, [k \in {keyword} |-> value])

(* The command line of a program: [executable, arguments, outputFilename, syntax] *)
generateFormattedExecutionString(p) ==
  LET command == <<p.executable>> \o p.arguments
  IN CASE p.syntax = "CUSTOM"           -> <<>>
       [] p.syntax = "PLAIN"            -> command
       [] p.syntax = "INPUT_ARG"        -> command \o <<"$$inputFileName$$">>
       [] p.syntax = "INPUT_ARG_NO_EXT" -> command \o <<"$$inputFileBaseName$$">>
       [] p.syntax = "REDIRECT"         ->
            command \o <<"<", "$$inputFileName$$", ">">> \o p.outputFilename
       [] p.syntax = "INPUT_ARG_OUTPUT_REDIRECT" ->
            command \o <<"$$inputFileName$$", ">">> \o p.outputFilename

(* What the program's template is in a queue with this template; the       *)
(* working directory is known on remote queues only.                       *)
launchTemplate(p, queueTemplate, remote) ==
  IF p.syntax = "CUSTOM" THEN p.custom
  ELSE LET executed == Substitute(queueTemplate, "$$programExecution$$",
                                  generateFormattedExecutionString(p))
       IN IF remote THEN Substitute(executed, "$$remoteWorkingDir$$",
                                    <<"base", "/", "$$moleQueueId$$", "/">>)
          ELSE executed

(* The lines the expression \n...$$$maxWallTime$$$...\n matches: it needs  *)
(* the newline before the line, which neither the first line has nor a     *)
(* line whose predecessor was matched.                                     *)
AsksWallTime(line) == \E k \in DOMAIN line : line[k] = "$$$maxWallTime$$$"

MatchedLines(text) ==
  LET matched[i \in 0..Len(text)] ==
        IF i <= 1 THEN FALSE ELSE AsksWallTime(text[i]) /\ ~matched[i - 1]
  IN {i \in DOMAIN text : matched[i]}

Without(text, lines) ==
  FlattenSeq([i \in DOMAIN text |-> IF i \in lines THEN <<>> ELSE <<text[i]>>])

(* The wall time of the job, of the queue's settings when the job has none. *)
(* A $$$...$$$ that was not erased holds the shorter keyword.               *)
ReplaceWallTime(text, job) ==
  LET time   == IF job.wall THEN "wall time" ELSE "default wall time"
      erased == IF job.wall THEN Substitute(text, "$$$maxWallTime$$$", <<time>>)
                ELSE Without(text, MatchedLines(text))
  IN SubstituteAll(erased, [k \in {"$$maxWallTime$$", "$$$maxWallTime$$$"} |->
                              IF k = "$$maxWallTime$$" THEN <<time>> ELSE <<"$", time, "$">>])

(* Job::replaceKeywords: the client's keywords, then those of the job      *)
FileKeywords(job) ==
  IF job.input = "none" THEN <<>>
  ELSE << <<"$$inputFileName$$", <<"job.inp">> >>, <<"$$inputFileBaseName$$", <<"job">> >> >>

JobKeywords(job) ==
  [n \in DOMAIN job.keywords |-> job.keywords[n]] \o FileKeywords(job)
    \o << <<"$$moleQueueId$$", <<"id">> >>, <<"$$numberOfCores$$", <<"cores">> >> >>

(* The keywords nobody replaced are taken out *)
RemoveUnknown(text) == SubstituteAll(text, [k \in Keywords |-> <<>>])

\* A mutant: the name of the output put in after the keywords it may hold
OutputNameLast(text, p, job, remote) ==
  LET timed == IF remote THEN ReplaceWallTime(text, job) ELSE text
      named == FoldLeft(LAMBDA t, kv : Substitute(t, kv[1], kv[2]), timed, JobKeywords(job))
  IN RemoveUnknown(Substitute(named, "$$outputFileName$$", p.outputFilename))

(* Queue::replaceKeywords, and QueueRemote::replaceKeywords before it      *)
replaceKeywords(text, p, job, remote) ==
  LET timed == IF remote THEN ReplaceWallTime(text, job) ELSE text
      named == Substitute(timed, "$$outputFileName$$", p.outputFilename)
  IN RemoveUnknown(FoldLeft(LAMBDA t, kv : Substitute(t, kv[1], kv[2]), named, JobKeywords(job)))

-----------------------------------------------------------------------------
(* What the documentation of the keywords promises, in whatever order the  *)
(* passes are made: every keyword stands for its value, values that hold   *)
(* keywords included, a line that asks for a wall time the job does not    *)
(* have is gone, and an unknown keyword too.                               *)
ValueOf(p, job, remote, exec) ==
  LET pairs == JobKeywords(job) \o << <<"$$outputFileName$$", p.outputFilename>>,
                                      <<"$$programExecution$$", exec>> >>
               \o (IF remote THEN
                     << <<"$$remoteWorkingDir$$", <<"base", "/", "$$moleQueueId$$", "/">> >>,
                        <<"$$maxWallTime$$",
                          IF job.wall THEN <<"wall time">> ELSE <<"default wall time">> >>,
                        <<"$$$maxWallTime$$$", <<"wall time">> >> >>
                   ELSE <<>>)
  IN [k \in {pairs[n][1] : n \in DOMAIN pairs} |->
        pairs[CHOOSE n \in DOMAIN pairs : pairs[n][1] = k][2]]

Promised(text, p, job, remote) ==
  LET value  == ValueOf(p, job, remote, generateFormattedExecutionString(p))
      kept   == IF remote /\ ~job.wall
                THEN Without(text, {i \in DOMAIN text : AsksWallTime(text[i])}) ELSE text
      expanded[n \in 0..Cardinality(DOMAIN value)] ==
        IF n = 0 THEN kept ELSE SubstituteAll(expanded[n - 1], value)
  IN RemoveUnknown(expanded[Cardinality(DOMAIN value)])
=============================================================================
