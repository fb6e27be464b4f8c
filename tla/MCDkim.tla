-------------------------------- MODULE MCDkim --------------------------------
(***************************************************************************)
(* Instances of Dkim for TLC.                                               *)
(***************************************************************************)
EXTENDS Dkim, TLC

DkimSymmetry == Permutations(KeyPair) \cup Permutations(Caller)
=============================================================================
