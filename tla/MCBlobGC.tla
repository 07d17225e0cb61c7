------------------------------- MODULE MCBlobGC ---------------------------------
(***************************************************************************)
(* Two tenants that share blobs, two of them, in two areas.                 *)
(***************************************************************************)
EXTENDS BlobGC, TLC
MCSymmetry == Permutations(Tenants) \cup Permutations(Blobs) \cup Permutations(Areas)
================================================================================
