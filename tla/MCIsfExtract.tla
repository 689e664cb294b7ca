---------------------------- MODULE MCIsfExtract ----------------------------
(* isfextract on four variables: the parity, a multiplexer, a threshold,    *)
(* the conjunction of the first two variables and a function of two         *)
(* minterms; the care functions are all those of the last three variables   *)
(* and the unions of two cubes that are minterms or have two literals.      *)
EXTENDS IsfExtract

SomeRoots == { {m \in Minterms : Cardinality(m) \in {1, 3}},
               {m \in Minterms : IF 2 \in m THEN 1 \in m ELSE 3 \in m /\ 4 \notin m},
               {m \in Minterms : Cardinality(m) >= 2},
               {m \in Minterms : {1, 2} \subseteq m},
               {{4}, {1, 3, 4}} }

LastThree == {{m \in Minterms : m \ {1} \in F} : F \in SUBSET SUBSET {2, 3, 4}}
SomeCubes == {c \in Cubes : Cardinality(c.care) \in {2, 4} /\ Cardinality(c.pol) # 1}
CubePairs == {CubeMinterms(c) \cup CubeMinterms(d) : c, d \in SomeCubes}
SomeCares == LastThree \cup CubePairs
=============================================================================
