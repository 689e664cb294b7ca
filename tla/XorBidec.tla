------------------------------ MODULE XorBidec ------------------------------
(***************************************************************************)
(* xorbidec: the search for a partition of the inputs into XA, XB and XC   *)
(* under which one output is the XOR of a function without XB and one       *)
(* without XA (NtkXorBidecSingleOutput), and the synthesis of the two       *)
(* (NtkXorBidecSynthesis).                                                 *)
(*                                                                         *)
(* The formula given to the solver has four copies of the inputs, X, X',    *)
(* X'' and X'''.  Assuming the literal <<"A", v>> (control alpha is 0) ties  *)
(* input v of X to X'' and of X' to X'''; <<"B", v>> (beta is 0) ties X to   *)
(* X' and X'' to X'''.  The solver is external: it answers whether the      *)
(* assumptions can be met, and if not names some of them that cannot.       *)
(***************************************************************************)
EXTENDS BoolFun

CONSTANT Roots    \* the functions of the outputs

ASSUME RootsAssumption == Roots \subseteq Fns

VARIABLES
  f,              \* the output's function
  ctrA, ctrB,     \* the seed: the two inputs that are left free
  conf,           \* conf_cls, a sequence of assumed literals
  i,              \* the loop that minimises it
  vParti,         \* the partition being read off, input by input
  numXA, numXB, numXC,
  bestXC,         \* INT_MAX before a partition was found
  bestParti,
  fA, fB,
  pc

vars == <<f, ctrA, ctrB, conf, i, vParti, numXA, numXB, numXC, bestXC, bestParti, fA, fB, pc>>

INT_MAX == N + 1    \* larger than any number of inputs

Sets == {"XA", "XB", "XC"}
Controls == {"A", "B"} \X Vars

(* The assumptions of a seed: all but one alpha, all but one beta.          *)
Assumptions(a, b) == Controls \ {<<"A", a>>, <<"B", b>>}

Elements(s) == {s[k] : k \in DOMAIN s}
Tied(S, ctr) == {v \in Vars : <<ctr, v>> \in S}

Agree(x, y, V) == x \cap V = y \cap V

(* The formula under these assumptions: some X, X', X'', X''' tied like this *)
(* have f(X) == f(X') and f(X'') # f(X''').                                  *)
Satisfied(g, alphas, betas) ==
  \E x \in Minterms : \E x1 \in {y \in Minterms : Agree(x, y, betas)} :
    \E x2 \in {y \in Minterms : Agree(x, y, alphas)} :
      \E x3 \in {y \in Minterms : Agree(x1, y, alphas) /\ Agree(x2, y, betas)} :
        (x \in g <=> x1 \in g) /\ ~(x2 \in g <=> x3 \in g)

Unsat(S) == ~Satisfied(f, Tied(S, "A"), Tied(S, "B"))

Init ==
  /\ f \in Roots
  /\ ctrA = 1 /\ ctrB = 2
  /\ conf = <<>> /\ i = 1
  /\ vParti = <<>> /\ numXA = 0 /\ numXB = 0 /\ numXC = 0
  /\ bestXC = INT_MAX /\ bestParti = <<>>
  /\ fA = Zero /\ fB = Zero
  /\ pc = "seed"

SeedsLeft == ctrA < N

(* The two loops over the seeds.                                            *)
NextSeed ==
  /\ ctrA' = IF ctrB < N THEN ctrA ELSE ctrA + 1
  /\ ctrB' = IF ctrB < N THEN ctrB + 1 ELSE ctrA + 2

SeedSat ==
  /\ pc = "seed" /\ SeedsLeft
  /\ ~Unsat(Assumptions(ctrA, ctrB))
  /\ NextSeed
  /\ UNCHANGED <<f, conf, i, vParti, numXA, numXB, numXC, bestXC, bestParti, fA, fB, pc>>

(* conf_final: assumptions that cannot be met together, in some order.      *)
SeedUnsat(S) ==
  /\ pc = "seed" /\ SeedsLeft
  /\ S \subseteq Assumptions(ctrA, ctrB)
  /\ Unsat(S)
  /\ conf' \in {s \in [1 .. Cardinality(S) -> S] : Elements(s) = S}
  /\ i' = 1
  /\ pc' = "minimise"
  /\ UNCHANGED <<f, ctrA, ctrB, vParti, numXA, numXB, numXC, bestXC, bestParti, fA, fB>>

(* conf_cls with its i-th literal swapped to the end and cut off.           *)
Swapped == [conf EXCEPT ![i] = conf[Len(conf)], ![Len(conf)] = conf[i]]
Rest == SubSeq(Swapped, 1, Len(conf) - 1)

DropLiteral ==
  /\ pc = "minimise" /\ i <= Len(conf)
  /\ Unsat(Elements(Rest))
  /\ conf' = Rest
  /\ UNCHANGED <<f, ctrA, ctrB, i, vParti, numXA, numXB, numXC, bestXC, bestParti, fA, fB, pc>>

KeepLiteral ==
  /\ pc = "minimise" /\ i <= Len(conf)
  /\ ~Unsat(Elements(Rest))
  /\ i' = i + 1
  /\ UNCHANGED <<f, ctrA, ctrB, conf, vParti, numXA, numXB, numXC, bestXC, bestParti, fA, fB, pc>>

(* The assertion after the loop is a guard.                                 *)
StartPartition ==
  /\ pc = "minimise" /\ i > Len(conf)
  /\ Unsat(Elements(conf))
  /\ vParti' = <<>> /\ numXA' = 0 /\ numXB' = 0 /\ numXC' = 0
  /\ pc' = "partition"
  /\ UNCHANGED <<f, ctrA, ctrB, conf, i, bestXC, bestParti, fA, fB>>

(* mutant: inputs that neither control ties are not balanced.               *)
SetOfUnbalanced(v) ==
  LET a == <<"A", v>> \in Elements(conf)
      b == <<"B", v>> \in Elements(conf)
  IN  IF a /\ b THEN "XC" ELSE IF b THEN "XA" ELSE IF a THEN "XB" ELSE "XA"

(* An input that neither control ties goes to the smaller of the two sets.  *)
SetOf(v) ==
  LET a == <<"A", v>> \in Elements(conf)
      b == <<"B", v>> \in Elements(conf)
  IN  IF a /\ b THEN "XC"
      ELSE IF b THEN "XA"
      ELSE IF a THEN "XB"
      ELSE IF numXA > numXB THEN "XB" ELSE "XA"

PlaceInput ==
  /\ pc = "partition" /\ Len(vParti) < N
  /\ LET set == SetOf(Len(vParti) + 1)
     IN  /\ vParti' = Append(vParti, set)
         /\ numXA' = IF set = "XA" THEN numXA + 1 ELSE numXA
         /\ numXB' = IF set = "XB" THEN numXB + 1 ELSE numXB
         /\ numXC' = IF set = "XC" THEN numXC + 1 ELSE numXC
  /\ UNCHANGED <<f, ctrA, ctrB, conf, i, bestXC, bestParti, fA, fB, pc>>

(* A partition with as few inputs in XC as the best one ends the search, as *)
(* does one with none.                                                      *)
UpdateBest ==
  /\ pc = "partition" /\ Len(vParti) = N
  /\ IF numXC < bestXC
     THEN bestXC' = numXC /\ bestParti' = vParti
     ELSE UNCHANGED <<bestXC, bestParti>>
  /\ IF numXC = bestXC \/ numXC = 0
     THEN pc' = "found" /\ UNCHANGED <<ctrA, ctrB>>
     ELSE pc' = "seed" /\ NextSeed
  /\ UNCHANGED <<f, conf, i, vParti, numXA, numXB, numXC, fA, fB>>

EndSearch ==
  /\ pc = "seed" /\ ~SeedsLeft
  /\ pc' = IF bestXC # INT_MAX THEN "found" ELSE "fail"
  /\ UNCHANGED <<f, ctrA, ctrB, conf, i, vParti, numXA, numXB, numXC, bestXC, bestParti, fA, fB>>

In(parti, set) == {v \in Vars : parti[v] = set}

(* f with the inputs of V replaced by 0.                                    *)
Without(g, V) == {m \in Minterms : m \ V \in g}

(* mutant: what fA and f without XA have in common is counted twice.        *)
SynthesiseOverlap ==
  /\ pc = "found"
  /\ fA' = Without(f, In(bestParti, "XB"))
  /\ fB' = Without(f, In(bestParti, "XA"))
  /\ pc' = "done"
  /\ UNCHANGED <<f, ctrA, ctrB, conf, i, vParti, numXA, numXB, numXC, bestXC, bestParti>>

(* NtkXorBidecSynthesis: fB is the XOR of f without XA and f without XA, XB. *)
Synthesise ==
  /\ pc = "found"
  /\ fA' = Without(f, In(bestParti, "XB"))
  /\ fB' = Xor(Without(f, In(bestParti, "XA")),
               Without(f, In(bestParti, "XA") \cup In(bestParti, "XB")))
  /\ pc' = "done"
  /\ UNCHANGED <<f, ctrA, ctrB, conf, i, vParti, numXA, numXB, numXC, bestXC, bestParti>>

Terminated == pc \in {"done", "fail"} /\ UNCHANGED vars

Next ==
  \/ SeedSat
  \/ \E S \in SUBSET Controls : SeedUnsat(S)
  \/ DropLiteral \/ KeepLiteral \/ StartPartition
  \/ PlaceInput \/ UpdateBest \/ EndSearch \/ Synthesise
  \/ Terminated

Spec == Init /\ [][Next]_vars

-----------------------------------------------------------------------------
(* The types of the variables.                                              *)
TypeOK ==
  /\ f \in Fns /\ fA \in Fns /\ fB \in Fns
  /\ ctrA \in 1 .. N + 1 /\ ctrB \in 2 .. N + 2
  /\ conf \in Seq(Controls) /\ i \in Nat
  /\ vParti \in Seq(Sets) /\ Len(vParti) <= N
  /\ numXA \in Nat /\ numXB \in Nat /\ numXC \in Nat
  /\ bestXC \in 0 .. INT_MAX /\ bestParti \in Seq(Sets)
  /\ pc \in {"seed", "minimise", "partition", "found", "fail", "done"}

(* A decomposition is one: the XOR of the two functions is the output's.    *)
HalvesXor == pc = "done" => Xor(fA, fB) = f

(* It is a proper one, whatever core the solver names and however it is     *)
(* minimised: XA and XB both have an input, so fA and fB each lack one       *)
(* (balancing the inputs that are tied by neither control fills both sets).  *)
ProperPartition ==
  bestXC # INT_MAX => In(bestParti, "XA") # {} /\ In(bestParti, "XB") # {}
=============================================================================
