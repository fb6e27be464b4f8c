--------------------------- MODULE MCCloudflare ---------------------------
(***************************************************************************)
(* An instance of Cloudflare with two browsers, from an empty key file, one *)
(* request at a time: two overlapping first uses would each make a key.     *)
(***************************************************************************)
EXTENDS Cloudflare, TLC

CfSymmetry == Permutations(Caller) \cup Permutations(Key) \cup Permutations(Client)
=============================================================================
