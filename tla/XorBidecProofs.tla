--------------------------- MODULE XorBidecProofs ---------------------------
(***************************************************************************)
(* Proofs about xorbidec, for every number of inputs and every output: a   *)
(* partition that the solver's answer supports is a decomposition, and the *)
(* search only keeps partitions of that kind, with both XA and XB in use.  *)
(***************************************************************************)
EXTENDS XorBidec, FiniteSetTheorems, SequenceTheorems, TLAPS

-----------------------------------------------------------------------------
(* Lemmas about the formula.                                                *)

(* Cofactors and sums of functions are functions.                           *)
LEMMA FnTypes ==
  ASSUME NEW g, NEW h, NEW V
  PROVE  Without(g, V) \in Fns /\ Xor(g, h) \in Fns /\ Zero \in Fns
BY DEF Without, Xor, Fns, Zero

(* Tying more inputs cannot make the formula satisfiable.                   *)
LEMMA SatisfiedMonotone ==
  ASSUME NEW g,
         NEW P \in SUBSET Vars, NEW Q \in SUBSET Vars,
         NEW P2 \in SUBSET P, NEW Q2 \in SUBSET Q,
         Satisfied(g, P, Q)
  PROVE  Satisfied(g, P2, Q2)
<1>1. PICK x \in Minterms, x1 \in Minterms, x2 \in Minterms, x3 \in Minterms :
        /\ Agree(x, x1, Q) /\ Agree(x, x2, P) /\ Agree(x1, x3, P) /\ Agree(x2, x3, Q)
        /\ (x \in g <=> x1 \in g) /\ ~(x2 \in g <=> x3 \in g)
  BY DEF Satisfied
<1>2. Agree(x, x1, Q2) /\ Agree(x, x2, P2) /\ Agree(x1, x3, P2) /\ Agree(x2, x3, Q2)
  BY <1>1 DEF Agree
<1>3. /\ x1 \in {y \in Minterms : Agree(x, y, Q2)}
      /\ x2 \in {y \in Minterms : Agree(x, y, P2)}
      /\ x3 \in {y \in Minterms : Agree(x1, y, P2) /\ Agree(x2, y, Q2)}
  BY <1>2
<1>. QED
  BY <1>1, <1>3 DEF Satisfied

(* Read at one point: four corners that satisfy the ties.                   *)
LEMMA Corners ==
  ASSUME NEW g, NEW P, NEW Q, ~Satisfied(g, P, Q),
         NEW x \in Minterms, NEW x1 \in Minterms, NEW x2 \in Minterms, NEW x3 \in Minterms,
         Agree(x, x1, Q), Agree(x, x2, P), Agree(x1, x3, P), Agree(x2, x3, Q),
         x \in g <=> x1 \in g
  PROVE  x2 \in g <=> x3 \in g
BY Zenon DEF Satisfied

(* If the formula cannot be satisfied when all inputs but those of XA are   *)
(* tied by alpha and all but those of XB by beta, the output is the XOR of   *)
(* what NtkXorBidecSynthesis builds.                                        *)
LEMMA Decomposes ==
  ASSUME NEW g \in Fns, NEW XA \in SUBSET Vars, NEW XB \in SUBSET Vars,
         ~Satisfied(g, Vars \ XA, Vars \ XB)
  PROVE  Xor(Without(g, XB), Xor(Without(g, XA), Without(g, XA \cup XB))) = g
<1>1. ASSUME NEW m \in Minterms
      PROVE  (m \in g <=> m \ XB \in g) <=> (m \ XA \in g <=> m \ (XA \cup XB) \in g)
  <2>1. /\ m \ XA \in Minterms /\ m \ XB \in Minterms /\ m \ (XA \cup XB) \in Minterms
    BY DEF Minterms
  <2>2. /\ Agree(m, m \ XB, Vars \ XB) /\ Agree(m, m \ XA, Vars \ XA)
        /\ Agree(m \ XB, m \ (XA \cup XB), Vars \ XA)
        /\ Agree(m \ XA, m \ (XA \cup XB), Vars \ XB)
        /\ Agree(m \ XA, m, Vars \ XA)
        /\ Agree(m \ (XA \cup XB), m \ XB, Vars \ XA)
    BY DEF Agree
  <2>3. (m \in g <=> m \ XB \in g) => (m \ XA \in g <=> m \ (XA \cup XB) \in g)
    BY <2>1, <2>2, Corners
  <2>4. (m \ XA \in g <=> m \ (XA \cup XB) \in g) => (m \in g <=> m \ XB \in g)
    BY <2>1, <2>2, Corners
  <2>. QED
    BY <2>3, <2>4
<1>2. \A m \in Minterms :
        m \in Xor(Without(g, XB), Xor(Without(g, XA), Without(g, XA \cup XB))) <=> m \in g
  BY <1>1 DEF Xor, Without
<1>3. \A m : m \in g => m \in Minterms
  BY DEF Fns
<1>4. \A m : m \in Xor(Without(g, XB), Xor(Without(g, XA), Without(g, XA \cup XB)))
               => m \in Minterms
  BY DEF Xor
<1>. QED
  BY <1>2, <1>3, <1>4

-----------------------------------------------------------------------------
(* Type correctness.                                                        *)
LEMMA ControlsFinite ==
  ASSUME NEW S \in SUBSET Controls
  PROVE  Cardinality(S) \in Nat
<1>1. IsFiniteSet(Vars)
  BY NAssumption, FS_Interval DEF Vars
<1>2. IsFiniteSet({"A", "B"})
  <2>1. {"A", "B"} = {"A"} \cup {"B"}
    OBVIOUS
  <2>2. IsFiniteSet({"A"})
    BY FS_Singleton
  <2>. QED
    BY <2>1, <2>2, FS_AddElement
<1>3. IsFiniteSet(Controls)
  BY <1>1, <1>2, FS_Product DEF Controls
<1>. QED
  BY <1>3, FS_Subset, FS_CardinalityType

(* Dropping a literal leaves a sequence of the other ones.                  *)
LEMMA RestFacts ==
  ASSUME conf \in Seq(Controls), i \in Nat \ {0}, i <= Len(conf)
  PROVE  Rest \in Seq(Controls) /\ Elements(Rest) \subseteq Elements(conf)
<1>1. /\ Len(conf) \in Nat /\ DOMAIN conf = 1 .. Len(conf)
      /\ conf \in [1 .. Len(conf) -> Elements(conf)]
  BY LenProperties DEF Elements
<1>2. Elements(conf) \subseteq Controls
  BY <1>1, ElementOfSeq DEF Elements
<1>3. Swapped \in [1 .. Len(conf) -> Elements(conf)]
  BY <1>1 DEF Swapped, Elements
<1>4. \A k \in 1 .. Len(conf) - 1 : Swapped[k] \in Elements(conf)
  BY <1>1, <1>3
<1>5. Rest \in Seq(Elements(conf))
  BY <1>1, <1>4, SubSeqProperties DEF Rest
<1>6. \A k \in DOMAIN Rest : Rest[k] \in Elements(conf)
  BY <1>5, LenProperties, ElementOfSeq
<1>. QED
  BY <1>2, <1>5, <1>6, SeqMonotonic DEF Elements

LEMMA NextSeedFacts ==
  ASSUME ctrA \in 1 .. N + 1, ctrB \in 2 .. N + 2, ctrA < N, ctrB <= N, ctrA < ctrB, NextSeed
  PROVE  /\ ctrA' \in 1 .. N + 1 /\ ctrB' \in 2 .. N + 2
         /\ ctrA' < ctrB' /\ (ctrA' < N => ctrB' <= N)
BY NAssumption DEF NextSeed

(* The seed's two inputs are different, and exist while it is in use.       *)
SeedOK ==
  /\ ctrA < ctrB /\ (ctrA < N => ctrB <= N)
  /\ pc \in {"minimise", "partition"} => ctrA < N
  /\ i # 0

TypeInv == TypeOK /\ SeedOK

LEMMA TypeInit == ASSUME Init PROVE TypeInv
BY RootsAssumption, NAssumption, EmptySeq, FnTypes DEF Init, TypeInv, TypeOK, SeedOK, INT_MAX

LEMMA TypeStep ==
  ASSUME TypeInv, [Next]_vars
  PROVE  TypeInv'
<1>. USE NAssumption DEF TypeInv, TypeOK, SeedOK, INT_MAX
<1>1. CASE SeedSat
  BY <1>1, NextSeedFacts DEF SeedSat, SeedsLeft
<1>2. ASSUME NEW S \in SUBSET Controls, SeedUnsat(S)
      PROVE  TypeInv'
  <2>1. conf' \in Seq(Controls)
    <3>1. Cardinality(S) \in Nat /\ conf' \in [1 .. Cardinality(S) -> S]
      BY <1>2, ControlsFinite DEF SeedUnsat
    <3>. QED
      BY <3>1
  <2>. QED
    BY <1>2, <2>1 DEF SeedUnsat, SeedsLeft
<1>3. CASE DropLiteral
  <2>1. conf' \in Seq(Controls)
    BY <1>3, RestFacts DEF DropLiteral
  <2>. QED
    BY <1>3, <2>1 DEF DropLiteral
<1>4. CASE KeepLiteral
  BY <1>4 DEF KeepLiteral
<1>5. CASE StartPartition
  <2>1. vParti' \in Seq(Sets) /\ Len(vParti') = 0
    BY <1>5, EmptySeq DEF StartPartition
  <2>. QED
    BY <1>5, <2>1 DEF StartPartition
<1>6. CASE PlaceInput
  <2>1. PICK set \in Sets :
          /\ vParti' = Append(vParti, set)
          /\ numXA' = IF set = "XA" THEN numXA + 1 ELSE numXA
          /\ numXB' = IF set = "XB" THEN numXB + 1 ELSE numXB
          /\ numXC' = IF set = "XC" THEN numXC + 1 ELSE numXC
    BY <1>6 DEF PlaceInput, SetOf, Sets
  <2>2. vParti' \in Seq(Sets) /\ Len(vParti') <= N
    BY <1>6, <2>1, AppendProperties DEF PlaceInput
  <2>. QED
    BY <1>6, <2>1, <2>2 DEF PlaceInput
<1>7. CASE UpdateBest
  <2>1. bestXC' \in 0 .. INT_MAX /\ bestParti' \in Seq(Sets)
    BY <1>7 DEF UpdateBest
  <2>2. CASE numXC = bestXC \/ numXC = 0
    BY <1>7, <2>1, <2>2 DEF UpdateBest
  <2>3. CASE ~(numXC = bestXC \/ numXC = 0)
    BY <1>7, <2>1, <2>3, NextSeedFacts DEF UpdateBest
  <2>. QED
    BY <2>2, <2>3
<1>8. CASE EndSearch
  BY <1>8 DEF EndSearch
<1>9. CASE Synthesise
  BY <1>9, FnTypes DEF Synthesise
<1>10. CASE Terminated \/ UNCHANGED vars
  BY <1>10 DEF Terminated, vars
<1>. QED
  BY <1>1, <1>2, <1>3, <1>4, <1>5, <1>6, <1>7, <1>8, <1>9, <1>10 DEF Next

(* The variables keep their types, whatever core the solver names; the      *)
(* indices of the seed and of the literal never leave their ranges.         *)
THEOREM TypeCorrect == Spec => []TypeOK
<1>1. Init => TypeInv
  BY TypeInit
<1>2. TypeInv /\ [Next]_vars => TypeInv'
  BY TypeStep
<1>3. TypeInv => TypeOK
  BY DEF TypeInv
<1>. QED
  BY <1>1, <1>2, <1>3, PTL DEF Spec

-----------------------------------------------------------------------------
(* What a core and a partition are worth.                                   *)

(* The literals in conf are assumptions of the seed, and while a partition  *)
(* is read off they cannot be met together.                                 *)
CoreOK ==
  /\ pc \in {"minimise", "partition"} => Elements(conf) \subseteq Assumptions(ctrA, ctrB)
  /\ pc = "partition" => Unsat(Elements(conf))

Uses(parti, set) == \E v \in DOMAIN parti : parti[v] = set

(* An input is tied in the way its set demands; the counters tell which     *)
(* sets are in use, and past the seed's inputs both are.                    *)
PartitionOK ==
  pc = "partition" =>
    /\ \A v \in DOMAIN vParti :
         /\ vParti[v] = "XA" => <<"A", v>> \notin Elements(conf)
         /\ vParti[v] = "XB" => <<"B", v>> \notin Elements(conf)
    /\ numXC <= Len(vParti)
    /\ numXA > 0 => Uses(vParti, "XA")
    /\ numXB > 0 => Uses(vParti, "XB")
    /\ Len(vParti) >= ctrA => numXA > 0
    /\ Len(vParti) >= ctrB => numXB > 0

(* A partition that decomposes the output's function.                       *)
Decomposing(parti) ==
  /\ ~Satisfied(f, Vars \ In(parti, "XA"), Vars \ In(parti, "XB"))
  /\ In(parti, "XA") # {} /\ In(parti, "XB") # {}

BestOK ==
  /\ bestXC # INT_MAX => Decomposing(bestParti)
  /\ pc \in {"found", "done"} => bestXC # INT_MAX

Inv == TypeInv /\ CoreOK /\ PartitionOK /\ BestOK /\ HalvesXor

LEMMA InvInit == ASSUME Init PROVE Inv
BY TypeInit DEF Inv, Init, CoreOK, PartitionOK, BestOK, HalvesXor

LEMMA CoreStep ==
  ASSUME Inv, [Next]_vars
  PROVE  CoreOK'
<1>. USE DEF Inv, CoreOK, Unsat
<1>1. CASE SeedSat
  BY <1>1 DEF SeedSat
<1>2. ASSUME NEW S \in SUBSET Controls, SeedUnsat(S)
      PROVE  CoreOK'
  BY <1>2 DEF SeedUnsat
<1>3. CASE DropLiteral
  BY <1>3, RestFacts DEF DropLiteral, TypeInv, TypeOK, SeedOK, Assumptions
<1>4. CASE KeepLiteral
  BY <1>4 DEF KeepLiteral, Assumptions
<1>5. CASE StartPartition
  BY <1>5 DEF StartPartition, Assumptions
<1>6. CASE PlaceInput
  BY <1>6 DEF PlaceInput, Assumptions
<1>7. CASE UpdateBest
  BY <1>7 DEF UpdateBest
<1>8. CASE EndSearch
  BY <1>8 DEF EndSearch
<1>9. CASE Synthesise
  BY <1>9 DEF Synthesise
<1>10. CASE Terminated \/ UNCHANGED vars
  BY <1>10 DEF Terminated, vars, Assumptions
<1>. QED
  BY <1>1, <1>2, <1>3, <1>4, <1>5, <1>6, <1>7, <1>8, <1>9, <1>10 DEF Next

(* The set an input is put in.                                              *)
LEMMA SetOfFacts ==
  ASSUME NEW v
  PROVE  /\ SetOf(v) \in Sets
         /\ SetOf(v) = "XA" => <<"A", v>> \notin Elements(conf)
         /\ SetOf(v) = "XB" => <<"B", v>> \notin Elements(conf)
         /\ <<"A", v>> \notin Elements(conf) =>
              SetOf(v) = "XA" \/ (SetOf(v) = "XB" /\ numXA > numXB)
         /\ <<"B", v>> \notin Elements(conf) =>
              SetOf(v) = "XB" \/ (SetOf(v) = "XA" /\ ~(numXA > numXB))
BY DEF SetOf, Sets

LEMMA PlaceInputStep ==
  ASSUME TypeInv, CoreOK, PartitionOK, PlaceInput
  PROVE  PartitionOK'
<1>. DEFINE v == Len(vParti) + 1
            set == SetOf(v)
<1>1. /\ vParti \in Seq(Sets) /\ Len(vParti) \in Nat /\ DOMAIN vParti = 1 .. Len(vParti)
      /\ numXA \in Nat /\ numXB \in Nat /\ numXC \in Nat
      /\ ctrA \in Nat /\ ctrB \in Nat /\ ctrA < ctrB
  BY LenProperties, NAssumption DEF TypeInv, TypeOK, SeedOK
<1>2. PICK w : w = v
  OBVIOUS
<1>3. PICK p \in Seq(Sets) : p = vParti'
  BY <1>1, SetOfFacts, AppendProperties DEF PlaceInput
<1>4. /\ Len(p) = w /\ w = Len(vParti) + 1 /\ w \in Nat
      /\ p[w] = SetOf(w)
      /\ DOMAIN p = 1 .. w
      /\ \A k \in 1 .. Len(vParti) : p[k] = vParti[k]
  BY <1>1, <1>2, <1>3, SetOfFacts, AppendProperties, LenProperties DEF PlaceInput
<1>5. /\ pc = "partition" /\ UNCHANGED <<ctrA, ctrB, conf, pc>>
      /\ numXA' = IF SetOf(w) = "XA" THEN numXA + 1 ELSE numXA
      /\ numXB' = IF SetOf(w) = "XB" THEN numXB + 1 ELSE numXB
      /\ numXC' = IF SetOf(w) = "XC" THEN numXC + 1 ELSE numXC
  BY <1>2 DEF PlaceInput
<1>6. <<"A", ctrA>> \notin Elements(conf) /\ <<"B", ctrB>> \notin Elements(conf)
  BY <1>5 DEF CoreOK, Assumptions
<1>7. \A k \in DOMAIN p :
        /\ p[k] = "XA" => <<"A", k>> \notin Elements(conf)
        /\ p[k] = "XB" => <<"B", k>> \notin Elements(conf)
  <2>1. SUFFICES ASSUME NEW k \in DOMAIN p
                 PROVE  /\ p[k] = "XA" => <<"A", k>> \notin Elements(conf)
                        /\ p[k] = "XB" => <<"B", k>> \notin Elements(conf)
    OBVIOUS
  <2>2. CASE k = w
    BY <1>4, <2>2, SetOfFacts
  <2>3. CASE k # w
    BY <1>1, <1>4, <1>5, <2>3 DEF PartitionOK
  <2>. QED
    BY <2>2, <2>3
<1>8. numXC' <= Len(p)
  BY <1>1, <1>4, <1>5 DEF PartitionOK
<1>9. \A X \in Sets : Uses(vParti, X) \/ SetOf(w) = X => Uses(p, X)
  BY <1>1, <1>4 DEF Uses
<1>10. (numXA' > 0 => Uses(p, "XA")) /\ (numXB' > 0 => Uses(p, "XB"))
  BY <1>1, <1>5, <1>9 DEF PartitionOK, Sets
<1>11. Len(p) >= ctrA => numXA' > 0
  <2>1. CASE w = ctrA
    <3>1. SetOf(w) = "XA" \/ (SetOf(w) = "XB" /\ numXA > numXB)
      BY <1>6, <2>1, SetOfFacts
    <3>. QED
      BY <1>1, <1>5, <3>1
  <2>2. CASE w # ctrA
    BY <1>1, <1>4, <1>5, <2>2 DEF PartitionOK
  <2>. QED
    BY <2>1, <2>2
<1>12. Len(p) >= ctrB => numXB' > 0
  <2>1. CASE w = ctrB
    <3>1. numXA > 0
      BY <1>1, <1>4, <1>5, <2>1 DEF PartitionOK
    <3>2. SetOf(w) = "XB" \/ (SetOf(w) = "XA" /\ ~(numXA > numXB))
      BY <1>6, <2>1, SetOfFacts
    <3>. QED
      BY <1>1, <1>5, <3>1, <3>2
  <2>2. CASE w # ctrB
    BY <1>1, <1>4, <1>5, <2>2 DEF PartitionOK
  <2>. QED
    BY <2>1, <2>2
<1>. QED
  BY <1>3, <1>5, <1>7, <1>8, <1>10, <1>11, <1>12 DEF PartitionOK

LEMMA PartitionStep ==
  ASSUME Inv, [Next]_vars
  PROVE  PartitionOK'
<1>1. CASE PlaceInput
  BY <1>1, PlaceInputStep DEF Inv
<1>2. CASE StartPartition
  <2>1. /\ vParti' = <<>> /\ Len(vParti') = 0 /\ DOMAIN vParti' = {}
        /\ numXA' = 0 /\ numXB' = 0 /\ numXC' = 0
        /\ ctrA' \in Nat \ {0} /\ ctrB' \in Nat \ {0}
    BY <1>2, NAssumption DEF StartPartition, Inv, TypeInv, TypeOK
  <2>2. \A n \in Nat \ {0} : ~(0 >= n)
    OBVIOUS
  <2>. QED
    BY <2>1, <2>2 DEF PartitionOK
<1>3. CASE Terminated \/ UNCHANGED vars
  BY <1>3 DEF Terminated, vars, Inv, PartitionOK
<1>4. CASE SeedSat \/ (\E S \in SUBSET Controls : SeedUnsat(S)) \/ DropLiteral \/ KeepLiteral
  BY <1>4 DEF SeedSat, SeedUnsat, DropLiteral, KeepLiteral, PartitionOK
<1>5. CASE UpdateBest \/ EndSearch \/ Synthesise
  BY <1>5 DEF UpdateBest, EndSearch, Synthesise, PartitionOK
<1>. QED
  BY <1>1, <1>2, <1>3, <1>4, <1>5 DEF Next

(* A complete partition decomposes the function.                            *)
LEMMA PartitionDecomposes ==
  ASSUME Inv, pc = "partition", Len(vParti) = N
  PROVE  Decomposing(vParti) /\ numXC < INT_MAX
<1>1. /\ DOMAIN vParti = Vars /\ ctrA < N /\ ctrB <= N
      /\ numXA \in Nat /\ numXB \in Nat /\ numXC \in Nat /\ ctrA \in Nat /\ ctrB \in Nat
  BY LenProperties, NAssumption DEF Inv, TypeInv, TypeOK, SeedOK, Vars
<1>2. /\ Tied(Elements(conf), "A") \in SUBSET (Vars \ In(vParti, "XA"))
      /\ Tied(Elements(conf), "B") \in SUBSET (Vars \ In(vParti, "XB"))
  BY <1>1 DEF Inv, PartitionOK, Tied, In
<1>3. ~Satisfied(f, Tied(Elements(conf), "A"), Tied(Elements(conf), "B"))
  BY DEF Inv, CoreOK, Unsat
<1>4. ~Satisfied(f, Vars \ In(vParti, "XA"), Vars \ In(vParti, "XB"))
  BY <1>2, <1>3, SatisfiedMonotone
<1>5. In(vParti, "XA") # {} /\ In(vParti, "XB") # {}
  BY <1>1, NAssumption DEF Inv, PartitionOK, Uses, In
<1>6. numXC < INT_MAX
  BY <1>1, NAssumption DEF Inv, PartitionOK, INT_MAX
<1>. QED
  BY <1>4, <1>5, <1>6 DEF Decomposing

LEMMA BestStep ==
  ASSUME Inv, [Next]_vars
  PROVE  BestOK'
<1>. USE DEF Inv, BestOK, Decomposing, INT_MAX
<1>1. CASE UpdateBest
  <2>1. Decomposing(vParti) /\ numXC < INT_MAX
    BY <1>1, PartitionDecomposes DEF UpdateBest
  <2>2. numXC \in Nat /\ bestXC \in Nat
    BY NAssumption DEF TypeInv, TypeOK
  <2>3. f' = f /\ pc' \in {"found", "seed"}
    BY <1>1 DEF UpdateBest
  <2>4. CASE numXC < bestXC
    BY <1>1, <2>1, <2>2, <2>3, <2>4, NAssumption DEF UpdateBest
  <2>5. CASE ~(numXC < bestXC)
    <3>1. bestXC' = bestXC /\ bestParti' = bestParti
      BY <1>1, <2>5 DEF UpdateBest
    <3>2. bestXC # INT_MAX
      BY <2>1, <2>2, <2>5, NAssumption
    <3>. QED
      BY <2>3, <3>1, <3>2
  <2>. QED
    BY <2>4, <2>5
<1>2. CASE SeedSat \/ (\E S \in SUBSET Controls : SeedUnsat(S)) \/ DropLiteral \/ KeepLiteral
  BY <1>2 DEF SeedSat, SeedUnsat, DropLiteral, KeepLiteral
<1>3. CASE StartPartition \/ PlaceInput
  BY <1>3 DEF StartPartition, PlaceInput
<1>4. CASE EndSearch \/ Synthesise
  BY <1>4 DEF EndSearch, Synthesise
<1>5. CASE Terminated \/ UNCHANGED vars
  BY <1>5 DEF Terminated, vars
<1>. QED
  BY <1>1, <1>2, <1>3, <1>4, <1>5 DEF Next

LEMMA HalvesStep ==
  ASSUME Inv, [Next]_vars
  PROVE  HalvesXor'
<1>1. CASE Synthesise
  <2>1. In(bestParti, "XA") \in SUBSET Vars /\ In(bestParti, "XB") \in SUBSET Vars
    BY DEF In
  <2>2. ~Satisfied(f, Vars \ In(bestParti, "XA"), Vars \ In(bestParti, "XB")) /\ f \in Fns
    BY <1>1 DEF Synthesise, Inv, BestOK, Decomposing, TypeInv, TypeOK
  <2>3. f' = f /\ Xor(fA', fB') = f
    BY <1>1, <2>1, <2>2, Decomposes DEF Synthesise
  <2>. QED
    BY <2>3 DEF HalvesXor
<1>2. CASE Terminated \/ UNCHANGED vars
  BY <1>2 DEF Terminated, vars, Inv, HalvesXor
<1>3. CASE SeedSat \/ (\E S \in SUBSET Controls : SeedUnsat(S)) \/ DropLiteral \/ KeepLiteral
  BY <1>3 DEF SeedSat, SeedUnsat, DropLiteral, KeepLiteral, HalvesXor
<1>4. CASE StartPartition \/ PlaceInput \/ UpdateBest \/ EndSearch
  BY <1>4 DEF StartPartition, PlaceInput, UpdateBest, EndSearch, HalvesXor
<1>. QED
  BY <1>1, <1>2, <1>3, <1>4 DEF Next

LEMMA Invariant == Spec => []Inv
<1>1. Init => Inv
  BY InvInit
<1>2. Inv /\ [Next]_vars => Inv'
  BY TypeStep, CoreStep, PartitionStep, BestStep, HalvesStep DEF Inv
<1>. QED
  BY <1>1, <1>2, PTL DEF Spec

(* A decomposition is one, for every function, whatever core the solver     *)
(* names and whatever partition it leads to: fA XOR fB is the output.        *)
THEOREM HalvesCorrect == Spec => []HalvesXor
<1>1. Inv => HalvesXor
  BY DEF Inv
<1>. QED
  BY Invariant, <1>1, PTL

(* It is never the trivial one: both XA and XB have an input.               *)
THEOREM ProperCorrect == Spec => []ProperPartition
<1>1. Inv => ProperPartition
  BY DEF Inv, BestOK, Decomposing, ProperPartition
<1>. QED
  BY Invariant, <1>1, PTL
=============================================================================
