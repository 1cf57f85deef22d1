---------------------------- MODULE MCSecureFile ----------------------------
(* Instances of SecureFile for TLC. *)
EXTENDS SecureFile, TLC

CONSTANTS f1, f2, f3, l1, r1, r2

Symmetry == Permutations(File) \cup Permutations(Request)
=============================================================================
