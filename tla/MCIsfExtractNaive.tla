-------------------------- MODULE MCIsfExtractNaive --------------------------
(* isfextract -n on four variables, on the conjunction of the first two and *)
(* on a function of two minterms, with care functions of four minterms.     *)
EXTENDS IsfExtract

FewRoots == { {m \in Minterms : {1, 2} \subseteq m}, {{4}, {1, 3, 4}} }
FewCares == {C \in SUBSET Minterms : Cardinality(C) = 4 /\ {1} \in C}
=============================================================================
