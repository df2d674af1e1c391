----------------------------- MODULE MCUitQueue -----------------------------
(* The values of UitQueue's constants that a .cfg cannot spell.            *)
EXTENDS UitQueue, TLC

CONSTANTS d0, d1, f0

\* A directory with a file and a subdirectory.
TreeEntries == {d0, d1, f0}
TreeDirs    == {d0, d1}
TreeParent  == (d1 :> d0) @@ (f0 :> d0)

TestOfNoJob == <<NoJob, "test">>
AllRequests == (Jobs \X {"op", "kill"}) \cup {TestOfNoJob, <<NoJob, "update">>}
==============================================================================
