----------------------------- MODULE MCXorBidec -----------------------------
(* xorbidec on functions of four inputs: decomposable in many ways, in one  *)
(* way, only with inputs in XC, not at all, and functions that lack inputs. *)
EXTENDS XorBidec

And(S) == {m \in Minterms : S \subseteq m}
Or(S) == {m \in Minterms : S \cap m # {}}

SomeRoots ==
  { {m \in Minterms : Odd(m)},
    Xor(And({1, 2}), And({3, 4})),
    Xor(And({1, 3}), Or({2, 4})),
    Xor(And({1, 2}), And({2, 3, 4})),
    Xor(And({1, 4}), And({2, 3, 4})),
    And({1}) \cup And({2, 3, 4}),
    {m \in Minterms : Cardinality(m) \in {2, 3}},
    And({2, 4}), One }
=============================================================================
