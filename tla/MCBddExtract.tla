---------------------------- MODULE MCBddExtract ----------------------------
(* bddextract on every function of N variables.                             *)
EXTENDS BddExtract

AllRoots == Fns
=============================================================================
