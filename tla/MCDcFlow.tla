------------------------------ MODULE MCDcFlow ------------------------------
(* Three inputs; bddextract may return any ESOP of a part of up to three     *)
(* cubes over the inputs that the part depends on.                          *)
EXTENDS DcFlow

Esops ==
  {<<C, {m \in Minterms : Odd(Covering(C, m))}>> :
     C \in {SetToSeq(D) : D \in AtMost(3, Cubes)}}
SomeExtracted(F) ==
  {e[1] : e \in {d \in Esops : d[2] = F /\ \A k \in DOMAIN d[1] : d[1][k].care \subseteq Support(F)}}

SomeRoots ==
  { Zero, {m \in Minterms : {1, 2} \subseteq m \/ 3 \notin m} }
SomeIterations == {-1, 2}
=============================================================================
