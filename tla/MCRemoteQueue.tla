---------------------------- MODULE MCRemoteQueue ----------------------------
(* The values of RemoteQueue's constants that a .cfg cannot spell.         *)
EXTENDS RemoteQueue, TLC

JobSymmetry == Permutations(Jobs)
==============================================================================
