------------------------------ MODULE MCPsdkro ------------------------------
(* Every choice of expansions for the symmetric functions of N variables    *)
(* that are false on the all-zero minterm: with three variables they        *)
(* include the constant 0, the conjunction, the disjunction, the majority   *)
(* and the parity.                                                          *)
EXTENDS Psdkro

SymmetricRoots == {{m \in Minterms : Cardinality(m) \in K} : K \in SUBSET (1 .. N)}
=============================================================================
