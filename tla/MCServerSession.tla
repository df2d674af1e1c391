--------------------------- MODULE MCServerSession ---------------------------
(* The values of ServerSession's constants that a .cfg cannot spell.       *)
EXTENDS ServerSession

SessionSymmetry == Permutations(Clients) \cup Permutations(Connections)

\* A local queue's job, from the first state to the last; and its first step.
AllSteps   == {<<"Accepted", "QueuedLocal">>, <<"QueuedLocal", "RunningLocal">>,
               <<"RunningLocal", "Finished">>}
FirstStep  == {<<"Accepted", "QueuedLocal">>}
==============================================================================
