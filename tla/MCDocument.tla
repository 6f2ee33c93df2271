----------------------------- MODULE MCDocument -----------------------------
(* A small instance of DocumentAdmission: run run1 of artifact art1.         *)
EXTENDS DocumentAdmission, TLC

CONSTANTS run1, art1, e1, e2

OneArtifact == run1 :> art1

Perms == Permutations(Execs)
=============================================================================
