-------------------------------- MODULE Cubes --------------------------------
(***************************************************************************)
(* The cubes of the exorcism minimiser (src/base/exor) and the tables that *)
(* rewrite two of them.  A cube is a function on the input positions 1..N,  *)
(* where it holds the values the literal accepts (the bit pairs VAR_NEG =   *)
(* {0}, VAR_POS = {1}, VAR_ABS = {0, 1}), and on OutPos, where it holds the *)
(* outputs it belongs to.  The bitwise XOR of two pairs or output words is  *)
(* the symmetric difference of these sets.                                  *)
(***************************************************************************)
EXTENDS Integers, FiniteSets, Sequences

CONSTANTS
  N,      \* nVarsIn
  Outs    \* the outputs

ASSUME CubesAssumption == N \in Nat \ {0} /\ IsFiniteSet(Outs)

Inputs == 1 .. N
OutPos == N + 1
Positions == 1 .. OutPos

Absent == {0, 1}
Literal == {{0}, {1}, Absent}
Cube ==
  {c \in [Positions -> Literal \cup ((SUBSET Outs) \ {{}})] :
     (\A v \in Inputs : c[v] \in Literal) /\ c[OutPos] \in (SUBSET Outs) \ {{}}}

(* mutant: the two pairs are ORed.                                          *)
XorOr(a, b) == a \cup b

Xor(a, b) == (a \ b) \cup (b \ a)

(* GetDistance: the positions where the cubes differ, the output as one.    *)
Differ(p, q) == {v \in Positions : p[v] # q[v]}
Distance(p, q) == Cardinality(Differ(p, q))

Smallest(S) == CHOOSE i \in S : \A j \in S : i <= j

(* The elements of s that are in T, in the order of s.                      *)
Chosen(s, T) ==
  LET taken[i \in 0 .. Len(s)] ==
        IF i = 0 THEN <<>>
        ELSE IF s[i] \in T THEN Append(taken[i - 1], s[i]) ELSE taken[i - 1]
  IN  taken[Len(s)]

(* FindDiffVars followed by the columns of the ExorLink tables: the         *)
(* differing inputs in ascending order, the output last.                    *)
DiffVars(p, q) == Chosen([v \in Positions |-> v], Differ(p, q))

Literals(c) == Cardinality({v \in Inputs : c[v] # Absent})

(* GetQCost: the cost of a Toffoli gate with that many controls.            *)
GetQCost(nVars, nNegs) ==
  CASE nVars = 0 -> 1
    [] nVars = 1 -> 1 + nNegs
    [] nVars = 2 -> IF nNegs <= 1 THEN 5 ELSE 6
    [] nVars = 3 -> IF nNegs <= 1 THEN 14 ELSE 12 + 2 * nNegs
    [] OTHER -> LET extra == nNegs - nVars \div 2
                IN  20 + 12 * (nVars - 4) + (IF extra > 0 THEN 2 * extra ELSE 0)

ComputeQCost(c) ==
  GetQCost(Literals(c), Cardinality({v \in Inputs : c[v] = {0}}))

-----------------------------------------------------------------------------
(* ExorLink: two cubes at distance k are the XOR of k other cubes, in k!    *)
(* ways (the groups).  Of the k * 2^(k-1) cubes used, cube n takes, in      *)
(* column i (from 0), the first cube's value, the second's, or their XOR.   *)
ELCubes(k) == 0 .. k * 2 ^ (k - 1) - 1

Rule(k, n, i) ==
  LET section == n \div 2 ^ (k - 1)
      bits    == n % 2 ^ (k - 1)
      right   == IF i < section THEN k - 2 - i ELSE k - 1 - i
  IN  IF i = section THEN "vsX"
      ELSE IF (bits \div 2 ^ right) % 2 = 0 THEN "vs0" ELSE "vs1"

GroupRules(k) ==
  CASE k = 2 -> << <<0, 3>>, <<2, 1>> >>
    [] k = 3 -> << <<0, 6, 11>>, <<0, 7, 10>>, <<4, 2, 11>>,
                   <<4, 3, 9>>, <<8, 1, 7>>, <<8, 3, 5>> >>
    [] k = 4 -> << <<0, 12, 22, 31>>, <<0, 12, 23, 30>>, <<0, 20, 14, 31>>,
                   <<0, 20, 15, 29>>, <<0, 28, 13, 23>>, <<0, 28, 15, 21>>,
                   <<8, 4, 22, 31>>, <<8, 4, 23, 30>>, <<8, 18, 6, 31>>,
                   <<8, 18, 7, 27>>, <<8, 26, 5, 23>>, <<8, 26, 7, 19>>,
                   <<16, 2, 14, 31>>, <<16, 2, 15, 29>>, <<16, 10, 6, 31>>,
                   <<16, 10, 7, 27>>, <<16, 25, 3, 15>>, <<16, 25, 7, 11>>,
                   <<24, 1, 13, 23>>, <<24, 1, 15, 21>>, <<24, 9, 5, 23>>,
                   <<24, 9, 7, 19>>, <<24, 17, 3, 15>>, <<24, 17, 7, 11>> >>

Pick(rule, a, b) ==
  CASE rule = "vs0" -> a [] rule = "vs1" -> b [] rule = "vsX" -> Xor(a, b)

ELCube(p, q, n) ==
  LET D == DiffVars(p, q)
      Column(v) == (CHOOSE i \in DOMAIN D : D[i] = v) - 1
  IN  [v \in Positions |->
         IF p[v] = q[v] THEN p[v] ELSE Pick(Rule(Len(D), n, Column(v)), p[v], q[v])]

(* CubeLiterals: the literals of that cube in the columns of the inputs.    *)
CubeLiterals(p, q, n) ==
  Cardinality({v \in Differ(p, q) \ {OutPos} : ELCube(p, q, n)[v] # Absent})

-----------------------------------------------------------------------------
(* What cubes mean: a point is an assignment of the inputs and an output.   *)
Points ==
  {x \in [Positions -> Absent \cup Outs] :
     (\A v \in Inputs : x[v] \in Absent) /\ x[OutPos] \in Outs}

Covers(c, x) == \A v \in Positions : x[v] \in c[v]

Odd(S) == Cardinality(S) % 2 = 1
=============================================================================
