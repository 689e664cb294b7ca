---------------------------- MODULE MCRdExtract ----------------------------
(* rdextract on five variables, for three levels and three bounds, with and *)
(* without refine: the constants, the functions of the first three          *)
(* variables that are true on four of their minterms, among them the first  *)
(* and not the last, and two functions for which some memoised costs are    *)
(* out of date at the end of a run, which takes five variables.             *)
EXTENDS RdExtract

Number(m) ==
  (IF 1 \in m THEN 1 ELSE 0) + (IF 2 \in m THEN 2 ELSE 0) + (IF 3 \in m THEN 4 ELSE 0)
    + (IF 4 \in m THEN 8 ELSE 0) + (IF 5 \in m THEN 16 ELSE 0)

TrueOn(numbers) == {m \in Minterms : Number(m) \in numbers}

ThreeVars == {1, 2, 3}
Balanced ==
  {F \in SUBSET SUBSET ThreeVars : Cardinality(F) = 4 /\ {} \in F /\ ThreeVars \notin F}

SomeRoots ==
  {Zero, One,
   TrueOn({0, 4, 5, 8, 11, 13, 20, 23, 25, 27, 28, 29}),
   TrueOn({0, 1, 2, 4, 8, 16, 31})}
  \cup {{m \in Minterms : m \cap ThreeVars \in F} : F \in Balanced}
=============================================================================
