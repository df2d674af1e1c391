------------------------------ MODULE MCJobFiles ------------------------------
(***************************************************************************)
(* Two jobs of a queue of any type, one of three programs.                 *)
(***************************************************************************)
EXTENDS JobFiles

(* A program whose output is named after its input, one whose arguments    *)
(* hold a keyword of the client, and one with a script of its own          *)
MCPrograms ==
  [redirect |-> [syntax |-> "REDIRECT", executable |-> "run", custom |-> <<>>,
                 arguments |-> <<"-d", "$$remoteWorkingDir$$">>,
                 outputFilename |-> <<"$$inputFileBaseName$$", ".out">>],
   argument |-> [syntax |-> "INPUT_ARG", executable |-> "run", custom |-> <<>>,
                 arguments |-> <<"-b", "$$basis$$">>, outputFilename |-> <<"out">>],
   custom   |-> [syntax |-> "CUSTOM", executable |-> "", arguments |-> <<>>,
                 outputFilename |-> <<"$$inputFileBaseName$$", ".out">>,
                 custom |-> << <<"#!/bin/sh">>, <<"#time=", "$$$maxWallTime$$$">>,
                               <<"limit", "$$maxWallTime$$">>, <<"$$other$$">>,
                               <<"run", "$$basis$$", ">", "$$outputFileName$$">> >>]]

(* The value the client gives to $$basis$$ holds a keyword of the job *)
Keyword == << <<"$$basis$$", <<"n", "$$numberOfCores$$">> >> >>

Request(program, wall, input, extra, out, cleanLocal, cleanRemote, retrieve) ==
  [program |-> program, wall |-> wall, keywords |-> Keyword, input |-> input, extra |-> extra,
   output |-> out, cleanLocal |-> cleanLocal, cleanRemote |-> cleanRemote, retrieve |-> retrieve]

MCRequests ==
  << {Request("redirect", TRUE, "contents", "path", "shared", TRUE, TRUE, TRUE),
      Request("argument", FALSE, "path", "foreign", "own", FALSE, TRUE, TRUE),
      Request("custom", FALSE, "none", "path", "own", TRUE, FALSE, FALSE)},
     {Request("custom", TRUE, "contents", "contents", "shared", FALSE, FALSE, TRUE)} >>
==============================================================================
