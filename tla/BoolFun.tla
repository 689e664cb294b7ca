------------------------------- MODULE BoolFun -------------------------------
(***************************************************************************)
(* Boolean functions of N variables, as the extraction commands see them   *)
(* through CUDD.  A reduced ordered BDD is canonical, so a DdNode pointer   *)
(* (with its complement bit) is the function it stands for: the set of its  *)
(* true minterms.  A minterm is the set of the variables it sets to 1.      *)
(* Dynamic reordering is off once the global BDDs are built, so the order   *)
(* is fixed: variables are named by their position in it.                   *)
(***************************************************************************)
EXTENDS Integers, FiniteSets, Sequences

CONSTANT N    \* the number of primary inputs

ASSUME NAssumption == N \in Nat

Vars == 1 .. N
Minterms == SUBSET Vars
Fns == SUBSET Minterms

Zero == {}          \* Cudd_ReadLogicZero
One == Minterms     \* Cudd_ReadOne
IsConstant(F) == F \in {Zero, One}

(* Cudd_E and Cudd_T of the node, corrected for a complemented pointer.     *)
E(F, v) == {m \in Minterms : m \ {v} \in F}
T(F, v) == {m \in Minterms : m \cup {v} \in F}

Xor(F, G) == {m \in Minterms : ~(m \in F <=> m \in G)}

Support(F) == {v \in Vars : E(F, v) # T(F, v)}

(* Cudd_NodeReadIndex of a node that is not a constant.                     *)
First(S) == CHOOSE v \in S : \A w \in S : v <= w
TopVar(F) == First(Support(F))

E0(F) == E(F, TopVar(F))
T1(F) == T(F, TopVar(F))
X2(F) == Xor(E0(F), T1(F))

(* Cudd_DagSize: the regular nodes reachable from F, the constant included. *)
(* A node stands for a function and its complement.                         *)
Cofactor(F, k, a) == {m \in Minterms : (m \ (1 .. k)) \cup a \in F}
Reachable(F) == UNION {{Cofactor(F, k, a) : a \in SUBSET (1 .. k)} : k \in 0 .. N}
DagSize(F) == Cardinality({{G, One \ G} : G \in Reachable(F)})

-----------------------------------------------------------------------------
(* Cubes: the bitsets _iscare and _polarity of utils.h.                     *)
Cubes == {c \in [care : Minterms, pol : Minterms] : c.pol \subseteq c.care}

CubeMinterms(c) == {m \in Minterms : m \cap c.care = c.pol}

(* An ESOP is a sequence of cubes; it stands for the XOR of its cubes.      *)
Odd(S) == Cardinality(S) % 2 = 1
Covering(esop, m) == {i \in 1 .. Len(esop) : m \in CubeMinterms(esop[i])}
Realises(esop, F) == \A m \in Minterms : m \in F <=> Odd(Covering(esop, m))

(* The fewest cubes of a pseudo-Kronecker expression of F in this order of  *)
(* the variables: keep the best two of the three children, at every node.   *)
OptCost[F \in Fns] ==
  IF F = Zero THEN 0 ELSE IF F = One THEN 1
  ELSE LET c == <<OptCost[E0(F)], OptCost[T1(F)], OptCost[X2(F)]>>
           sums == {c[1] + c[2], c[1] + c[3], c[2] + c[3]}
       IN  CHOOSE s \in sums : \A t \in sums : s <= t
=============================================================================
