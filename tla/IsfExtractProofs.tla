------------------------- MODULE IsfExtractProofs -------------------------
(***************************************************************************)
(* Proofs about isfextract, for every number of variables, every set of    *)
(* roots and care functions: that what its first pass stores for a pair    *)
(* agrees with the function wherever it is cared about, that its second    *)
(* pass (without -n) finds every pair it visits and is a walk of Psdkro    *)
(* over the result functions, and so that the ESOP is right on the care    *)
(* set, and that it has as many cubes as were counted, the least there are *)
(* where everything is cared about.                                        *)
(***************************************************************************)
EXTENDS IsfExtract, PsdkroProofs

-----------------------------------------------------------------------------
(* Functions and their halves.                                              *)
Agree(F, G, C) == \A m \in C : m \in F <=> m \in G

LEMMA HalfTypes ==
  ASSUME NEW F, NEW v
  PROVE  E(F, v) \in Fns /\ T(F, v) \in Fns
BY DEF E, T, Fns

(* A minterm is in one of the halves.                                       *)
LEMMA InHalf ==
  ASSUME NEW F, NEW v, NEW m \in Minterms
  PROVE  /\ v \notin m => (m \in F <=> m \in E(F, v))
         /\ v \in m => (m \in F <=> m \in T(F, v))
<1>1. v \notin m => m \ {v} = m
  OBVIOUS
<1>2. v \in m => m \cup {v} = m
  OBVIOUS
<1>. QED
  BY <1>1, <1>2 DEF E, T

LEMMA AgreeByHalves ==
  ASSUME NEW F, NEW G, NEW C \in Fns, NEW v,
         Agree(E(F, v), E(G, v), E(C, v)), Agree(T(F, v), T(G, v), T(C, v))
  PROVE  Agree(F, G, C)
<1>. SUFFICES ASSUME NEW m \in C PROVE m \in F <=> m \in G
  BY DEF Agree
<1>1. m \in Minterms
  BY DEF Fns
<1>2. CASE v \in m
  <2>1. m \in T(C, v)
    BY <1>1, <1>2, InHalf
  <2>2. m \in T(F, v) <=> m \in T(G, v)
    BY <2>1 DEF Agree
  <2>. QED
    BY <1>1, <1>2, <2>2, InHalf
<1>3. CASE v \notin m
  <2>1. m \in E(C, v)
    BY <1>1, <1>3, InHalf
  <2>2. m \in E(F, v) <=> m \in E(G, v)
    BY <2>1 DEF Agree
  <2>. QED
    BY <1>1, <1>3, <2>2, InHalf
<1>. QED
  BY <1>2, <1>3

LEMMA ZeroByHalves ==
  ASSUME NEW F \in Fns, NEW v, E(F, v) = Zero, T(F, v) = Zero
  PROVE  F = Zero
<1>1. \A m \in Minterms : m \notin F
  BY InHalf DEF Zero
<1>. QED
  BY <1>1 DEF Zero, Fns

LEMMA FreeByHalves ==
  ASSUME NEW F, NEW v \in Vars, NEW u \in Vars, u # v, Free(E(F, v), u), Free(T(F, v), u)
  PROVE  Free(F, u)
<1>. SUFFICES ASSUME NEW m \in Minterms
     PROVE  m \ {u} \in F <=> m \cup {u} \in F
  BY FreeMeans
<1>1. m \ {u} \in Minterms /\ m \cup {u} \in Minterms
  BY DEF Minterms
<1>2. /\ m \ {u} \in E(F, v) <=> m \cup {u} \in E(F, v)
      /\ m \ {u} \in T(F, v) <=> m \cup {u} \in T(F, v)
  BY FreeMeans
<1>3. CASE v \in m
  BY <1>1, <1>2, <1>3, InHalf
<1>4. CASE v \notin m
  <2>1. v \notin m \ {u} /\ v \notin m \cup {u}
    BY <1>4
  <2>. QED
    BY <1>1, <1>2, <2>1, InHalf
<1>. QED
  BY <1>3, <1>4

(* Nothing in common with the care set, in both halves.                     *)
LEMMA DisjointHalves ==
  ASSUME NEW F, NEW C \in Fns, NEW v \in Vars, F \cap C = Zero
  PROVE  E(F, v) \cap E(C, v) = Zero /\ T(F, v) \cap T(C, v) = Zero
BY DEF E, T, Zero

(* The halves of a function put together from A and B, as the three         *)
(* expansions do.                                                           *)
LEMMA HalvesOfFree ==
  ASSUME NEW A \in Fns, NEW v \in Vars, Free(A, v)
  PROVE  E(A, v) = A /\ T(A, v) = A
<1>1. \A m \in Minterms : m \ {v} \in A <=> m \cup {v} \in A
  BY FreeMeans
<1>2. \A m \in Minterms : (m \ {v} \in A <=> m \in A) /\ (m \cup {v} \in A <=> m \in A)
  <2>1. \A m \in Minterms : m \ {v} = m \/ m \cup {v} = m
    OBVIOUS
  <2>. QED
    BY <1>1, <2>1
<1>. QED
  BY <1>2 DEF E, T, Fns

LEMMA HalvesOfXor ==
  ASSUME NEW A, NEW B, NEW v \in Vars
  PROVE  /\ E(Xor(A, B), v) = Xor(E(A, v), E(B, v))
         /\ T(Xor(A, B), v) = Xor(T(A, v), T(B, v))
<1>1. \A m \in Minterms : m \ {v} \in Minterms /\ m \cup {v} \in Minterms
  BY DEF Minterms
<1>. QED
  BY <1>1 DEF E, T, Xor

LEMMA HalvesOfWhere ==
  ASSUME NEW A \in Fns, NEW v \in Vars
  PROVE  /\ E(Where(v, A), v) = Zero /\ T(Where(v, A), v) = T(A, v)
         /\ E(WhereNot(v, A), v) = E(A, v) /\ T(WhereNot(v, A), v) = Zero
BY DEF E, T, Where, WhereNot, Zero

LEMMA XorWithZero ==
  ASSUME NEW A \in Fns
  PROVE  Xor(Zero, A) = A /\ Xor(A, Zero) = A
BY DEF Xor, Zero, Fns

LEMMA XorTwice ==
  ASSUME NEW A \in Fns, NEW B \in Fns
  PROVE  Xor(Xor(A, B), B) = A /\ Xor(A, Xor(B, A)) = B
BY DEF Xor, Fns

LEMMA XorTypes == \A A, B : Xor(A, B) \in Fns
BY DEF Xor, Fns

LEMMA XorIsZero ==
  ASSUME NEW A \in Fns, NEW B \in Fns, Xor(A, B) = Zero
  PROVE  A = B
BY DEF Xor, Zero, Fns

LEMMA XorAgree ==
  ASSUME NEW A, NEW B, NEW G, NEW C \in Fns, Agree(G, Xor(A, B), C)
  PROVE  Agree(Xor(G, B), A, C) /\ Agree(Xor(G, A), B, C)
BY DEF Agree, Xor, Fns

LEMMA AgreeTrans ==
  ASSUME NEW A, NEW B, NEW D, NEW C, Agree(A, B, C), Agree(B, D, C)
  PROVE  Agree(A, D, C)
BY DEF Agree

-----------------------------------------------------------------------------
(* What a call of the first pass for F under C owes its caller: a function  *)
(* that agrees with F on C, depends on no earlier variable than F does, and *)
(* costs nothing exactly if it is 0, which it is if F is 0 where it is      *)
(* cared about.                                                             *)
NoEarlier(G, F) == \A v \in Vars : FreeUpTo(F, v) => FreeUpTo(G, v)

GoodResult(r, F, C) ==
  /\ r \in Results
  /\ Agree(r.f, F, C)
  /\ NoEarlier(r.f, F)
  /\ r.cost = 0 <=> r.f = Zero
  /\ (C # Zero /\ F \cap C = Zero) => r.cost = 0

(* The table as a function from pairs to results.                           *)
Known(h, F, C) == IsConstant(F) \/ <<F, C>> \in DOMAIN h
Chosen(h, F, C) == IF IsConstant(F) THEN F ELSE h[<<F, C>>].fret

PairCost(h, F, C) == IF IsConstant(F) THEN IF F = One THEN 1 ELSE 0 ELSE h[<<F, C>>].cost

(* Where everything is cared about the cost is the least there is.          *)
Least(k, F, C) == C = One => k = OptCost[F]

(* The result r of the call for F under C, as the caller finds it again.    *)
Returns(h, r, F, C) ==
  /\ GoodResult(r, F, C) /\ Least(r.cost, F, C)
  /\ Known(h, F, C) /\ Chosen(h, F, C) = r.f /\ PairCost(h, F, C) = r.cost

LEMMA ZeroIsFree == \A v : Free(Zero, v) /\ FreeUpTo(Zero, v)
BY DEF Zero, FreeUpTo, Free, E, T

LEMMA ZeroOne == Zero # One /\ Zero \in Fns /\ One \in Fns
<1>1. {} \in Minterms
  BY DEF Minterms
<1>. QED
  BY <1>1 DEF Zero, One, Fns

(* A constant is its own result.                                            *)
LEMMA ConstantResult ==
  ASSUME NEW F, IsConstant(F), NEW C \in Fns
  PROVE  GoodResult(Result(F, IF F = One THEN 1 ELSE 0), F, C)
<1>1. PICK k \in Nat : k = IF F = One THEN 1 ELSE 0
  OBVIOUS
<1>2. F \in Fns /\ (F = One \/ F = Zero) /\ (k = 0 <=> F = Zero)
  BY <1>1, ZeroOne DEF IsConstant
<1>3. (C # Zero /\ F \cap C = Zero) => F = Zero
  BY <1>2 DEF Zero, One, Fns
<1>4. Result(F, k).f = F /\ Result(F, k).cost = k /\ Result(F, k) \in Results
  BY <1>2 DEF Result, Results
<1>5. Agree(F, F, C) /\ NoEarlier(F, F)
  BY DEF Agree, NoEarlier
<1>. QED
  BY <1>1, <1>2, <1>3, <1>4, <1>5 DEF GoodResult

LEMMA ConstantLeast ==
  ASSUME NEW F, IsConstant(F), NEW C
  PROVE  Least(IF F = One THEN 1 ELSE 0, F, C)
BY OptCostConstant, ZeroOne DEF Least, IsConstant

(* Where everything is cared about the result is the function itself, and   *)
(* everything is cared about in both halves.                                *)
LEMMA FullResult ==
  ASSUME NEW r, NEW F \in Fns, GoodResult(r, F, One)
  PROVE  r.f = F
BY DEF GoodResult, Results, Agree, Fns, One

(* The halves of an inner node are further down.                            *)
LEMMA HalvesBelow ==
  ASSUME NEW F \in Fns, ~IsConstant(F)
  PROVE  /\ TopVar(F) \in Vars
         /\ FreeUpTo(E0(F), TopVar(F)) /\ FreeUpTo(T1(F), TopVar(F))
         /\ NoEarlier(E0(F), F) /\ NoEarlier(T1(F), F)
<1>1. Child(F, 0) = E0(F) /\ Child(F, 1) = T1(F) /\ 0 \in Children /\ 1 \in Children
  BY ChildCases
<1>2. \A i \in Children : FreeUpTo(Child(F, i), TopVar(F))
                          /\ \A v : FreeUpTo(F, v) => FreeUpTo(Child(F, i), v)
  BY ChildBelow
<1>. QED
  BY <1>1, <1>2, TopVarProperties DEF NoEarlier

(* Variables of which an inner node is free come before its own.            *)
LEMMA FreeUpToBefore ==
  ASSUME NEW F \in Fns, ~IsConstant(F), NEW v \in Vars, FreeUpTo(F, v)
  PROVE  v < TopVar(F)
<1>1. TopVar(F) \in Vars /\ ~Free(F, TopVar(F)) /\ v \in Nat /\ TopVar(F) \in Nat
  BY TopVarProperties, NAssumption DEF Vars
<1>. QED
  BY <1>1 DEF FreeUpTo

(* A function put together from two halves that are further down than F.    *)
LEMMA NoEarlierByHalves ==
  ASSUME NEW F \in Fns, ~IsConstant(F), NEW G,
         NoEarlier(E(G, TopVar(F)), F), NoEarlier(T(G, TopVar(F)), F)
  PROVE  NoEarlier(G, F)
<1>. SUFFICES ASSUME NEW v \in Vars, FreeUpTo(F, v), NEW u \in Vars, u <= v
     PROVE  Free(G, u)
  BY DEF NoEarlier, FreeUpTo
<1>1. v < TopVar(F) /\ TopVar(F) \in Vars
  BY FreeUpToBefore, TopVarProperties
<1>2. u # TopVar(F)
  BY <1>1, NAssumption DEF Vars
<1>3. Free(E(G, TopVar(F)), u) /\ Free(T(G, TopVar(F)), u)
  BY DEF NoEarlier, FreeUpTo
<1>. QED
  BY <1>1, <1>2, <1>3, FreeByHalves

LEMMA XorNoEarlier ==
  ASSUME NEW A, NEW B, NEW F, NoEarlier(A, F), NoEarlier(B, F)
  PROVE  NoEarlier(Xor(A, B), F)
BY XorFree DEF NoEarlier, FreeUpTo

LEMMA XorFreeUpTo ==
  ASSUME NEW A, NEW B, NEW v, FreeUpTo(A, v), FreeUpTo(B, v)
  PROVE  FreeUpTo(Xor(A, B), v)
BY XorFree DEF FreeUpTo

LEMMA NoEarlierTrans ==
  ASSUME NEW A, NEW B, NEW F, NoEarlier(A, B), NoEarlier(B, F)
  PROVE  NoEarlier(A, F)
BY DEF NoEarlier

-----------------------------------------------------------------------------
(* The results that the first pass puts together are owed results again.    *)
LEMMA ResultByHalves ==
  ASSUME NEW F \in Fns, ~IsConstant(F), NEW C \in Fns, NEW G \in Fns, NEW k \in Nat,
         Agree(E(G, TopVar(F)), E0(F), C0Of(F, C)), Agree(T(G, TopVar(F)), T1(F), C1Of(F, C)),
         NoEarlier(E(G, TopVar(F)), F), NoEarlier(T(G, TopVar(F)), F),
         k = 0 <=> G = Zero, (C # Zero /\ F \cap C = Zero) => k = 0
  PROVE  GoodResult(Result(G, k), F, C)
<1>1. Agree(G, F, C)
  BY AgreeByHalves DEF E0, T1, C0Of, C1Of
<1>2. NoEarlier(G, F)
  BY NoEarlierByHalves
<1>3. Result(G, k).f = G /\ Result(G, k).cost = k /\ Result(G, k) \in Results
  BY DEF Result, Results
<1>. QED
  BY <1>1, <1>2, <1>3 DEF GoodResult

(* Of a result for a half, both halves at the variable are the result.      *)
LEMMA HalfResult ==
  ASSUME NEW F \in Fns, ~IsConstant(F), NEW H, FreeUpTo(H, TopVar(F)), NoEarlier(H, F),
         NEW C, NEW r, GoodResult(r, H, C)
  PROVE  /\ r.f \in Fns /\ r.cost \in Nat
         /\ FreeUpTo(r.f, TopVar(F)) /\ NoEarlier(r.f, F)
         /\ E(r.f, TopVar(F)) = r.f /\ T(r.f, TopVar(F)) = r.f
<1>1. TopVar(F) \in Vars
  BY HalvesBelow
<1>2. r.f \in Fns /\ r.cost \in Nat /\ NoEarlier(r.f, H)
  BY DEF GoodResult, Results
<1>3. FreeUpTo(r.f, TopVar(F)) /\ NoEarlier(r.f, F)
  BY <1>1, <1>2, NoEarlierTrans DEF NoEarlier
<1>4. Free(r.f, TopVar(F))
  BY <1>1, <1>3, NAssumption DEF FreeUpTo, Vars
<1>. QED
  BY <1>1, <1>2, <1>3, <1>4, HalvesOfFree

LEMMA FullHalves ==
  ASSUME NEW F \in Fns, ~IsConstant(F)
  PROVE  C0Of(F, One) = One /\ C1Of(F, One) = One
<1>1. TopVar(F) \in Vars
  BY HalvesBelow
<1>2. \A m \in Minterms : m \ {TopVar(F)} \in Minterms /\ m \cup {TopVar(F)} \in Minterms
  BY <1>1 DEF Minterms
<1>. QED
  BY <1>2 DEF C0Of, C1Of, E, T, One

(* The cost of the cheapest expansion of a function that is cared about     *)
(* everywhere is the least cost of the function.                            *)
LEMMA CheapestIsLeast ==
  ASSUME NEW F \in Fns, ~IsConstant(F), NEW k \in Nat,
         IsLeastSum(k, OptCost[E0(F)], OptCost[T1(F)], OptCost[X2(F)])
  PROVE  k = OptCost[F]
<1>1. OptCost[E0(F)] \in Nat /\ OptCost[T1(F)] \in Nat /\ OptCost[X2(F)] \in Nat
  BY CofactorTypes, OptCostType
<1>. QED
  BY <1>1, MinSumLeast, OptCostInner

LEMMA AgreeOnZero == \A F, G : Agree(F, G, Zero)
BY DEF Agree, Zero

(* Where one half is not cared about, the result for the other will do.     *)
LEMMA SkipResult ==
  ASSUME NEW F \in Fns, ~IsConstant(F), NEW C \in Fns, NEW r,
         \/ C0Of(F, C) = Zero /\ GoodResult(r, T1(F), C1Of(F, C))
         \/ C1Of(F, C) = Zero /\ GoodResult(r, E0(F), C0Of(F, C))
  PROVE  GoodResult(Result(r.f, r.cost), F, C)
<1>1. /\ r.f \in Fns /\ r.cost \in Nat /\ NoEarlier(r.f, F)
      /\ E(r.f, TopVar(F)) = r.f /\ T(r.f, TopVar(F)) = r.f
  BY HalvesBelow, HalfResult
<1>2. Agree(r.f, E0(F), C0Of(F, C)) /\ Agree(r.f, T1(F), C1Of(F, C))
  BY AgreeOnZero DEF GoodResult
<1>3. r.cost = 0 <=> r.f = Zero
  BY DEF GoodResult
<1>4. ASSUME C # Zero, F \cap C = Zero
      PROVE  r.cost = 0
  <2>1. E0(F) \cap C0Of(F, C) = Zero /\ T1(F) \cap C1Of(F, C) = Zero
    BY <1>4, HalvesBelow, DisjointHalves DEF E0, T1, C0Of, C1Of
  <2>2. C0Of(F, C) # Zero \/ C1Of(F, C) # Zero
    BY <1>4, ZeroByHalves DEF C0Of, C1Of
  <2>. QED
    BY <2>1, <2>2 DEF GoodResult
<1>. QED
  BY <1>1, <1>2, <1>3, <1>4, ResultByHalves

(* The two results for the halves, both halves being cared about.           *)
BothHalves(F, C, r, s) ==
  /\ F \in Fns /\ ~IsConstant(F) /\ C \in Fns
  /\ C0Of(F, C) # Zero /\ C1Of(F, C) # Zero
  /\ GoodResult(r, E0(F), C0Of(F, C)) /\ GoodResult(s, T1(F), C1Of(F, C))

LEMMA BothFacts ==
  ASSUME NEW F, NEW C, NEW r, NEW s, BothHalves(F, C, r, s)
  PROVE  /\ TopVar(F) \in Vars
         /\ r.f \in Fns /\ r.cost \in Nat /\ s.f \in Fns /\ s.cost \in Nat
         /\ NoEarlier(r.f, F) /\ NoEarlier(s.f, F)
         /\ FreeUpTo(r.f, TopVar(F)) /\ FreeUpTo(s.f, TopVar(F))
         /\ E(r.f, TopVar(F)) = r.f /\ T(r.f, TopVar(F)) = r.f
         /\ E(s.f, TopVar(F)) = s.f /\ T(s.f, TopVar(F)) = s.f
         /\ Agree(r.f, E0(F), C0Of(F, C)) /\ Agree(s.f, T1(F), C1Of(F, C))
         /\ r.cost = 0 <=> r.f = Zero
         /\ s.cost = 0 <=> s.f = Zero
         /\ F \cap C = Zero => r.cost = 0 /\ s.cost = 0
<1>1. F \in Fns /\ ~IsConstant(F) /\ C \in Fns
  BY DEF BothHalves
<1>2. GoodResult(r, E0(F), C0Of(F, C)) /\ GoodResult(s, T1(F), C1Of(F, C))
  BY DEF BothHalves
<1>3. /\ Agree(r.f, E0(F), C0Of(F, C)) /\ Agree(s.f, T1(F), C1Of(F, C))
      /\ r.cost = 0 <=> r.f = Zero
      /\ s.cost = 0 <=> s.f = Zero
  BY <1>2 DEF GoodResult
<1>4. F \cap C = Zero => r.cost = 0 /\ s.cost = 0
  <2>1. F \cap C = Zero => E0(F) \cap C0Of(F, C) = Zero /\ T1(F) \cap C1Of(F, C) = Zero
    BY <1>1, HalvesBelow, DisjointHalves DEF E0, T1, C0Of, C1Of
  <2>. QED
    BY <2>1, <1>2 DEF GoodResult, BothHalves
<1>5. /\ TopVar(F) \in Vars
      /\ FreeUpTo(E0(F), TopVar(F)) /\ FreeUpTo(T1(F), TopVar(F))
      /\ NoEarlier(E0(F), F) /\ NoEarlier(T1(F), F)
  BY <1>1, HalvesBelow
<1>6. /\ r.f \in Fns /\ r.cost \in Nat /\ NoEarlier(r.f, F)
      /\ FreeUpTo(r.f, TopVar(F))
      /\ E(r.f, TopVar(F)) = r.f /\ T(r.f, TopVar(F)) = r.f
  BY <1>1, <1>2, <1>5, HalfResult
<1>7. /\ s.f \in Fns /\ s.cost \in Nat /\ NoEarlier(s.f, F)
      /\ FreeUpTo(s.f, TopVar(F))
      /\ E(s.f, TopVar(F)) = s.f /\ T(s.f, TopVar(F)) = s.f
  BY <1>1, <1>2, <1>5, HalfResult
<1>. QED
  BY <1>3, <1>4, <1>5, <1>6, <1>7

(* Both results are 0.                                                      *)
LEMMA ZeroResult ==
  ASSUME NEW F, NEW C, NEW r, NEW s, BothHalves(F, C, r, s), r.cost = 0, s.cost = 0
  PROVE  GoodResult(Result(Zero, 0), F, C)
<1>1. F \in Fns /\ ~IsConstant(F) /\ C \in Fns
  BY DEF BothHalves
<1>2. E(Zero, TopVar(F)) = Zero /\ T(Zero, TopVar(F)) = Zero
  BY DEF E, T, Zero
<1>3. Agree(Zero, E0(F), C0Of(F, C)) /\ Agree(Zero, T1(F), C1Of(F, C))
  BY BothFacts
<1>4. NoEarlier(Zero, F)
  BY ZeroIsFree DEF NoEarlier
<1>. QED
  BY <1>1, <1>2, <1>3, <1>4, ZeroOne, ResultByHalves

(* x' h + s, where h stands for F2 wherever the first half is cared about.  *)
LEMMA NegativeResult ==
  ASSUME NEW F, NEW C, NEW r, NEW s, BothHalves(F, C, r, s), ~(r.cost = 0 /\ s.cost = 0),
         NEW D, C0Of(F, C) \subseteq D, NEW h, GoodResult(h, Xor(r.f, s.f), D),
         NEW G, G = Xor(WhereNot(TopVar(F), h.f), s.f)
  PROVE  /\ GoodResult(Result(G, s.cost + h.cost), F, C)
         /\ G \in Fns /\ h.cost \in Nat
         /\ FirstChild(G, TopVar(F), "nD") = s.f /\ SecondChild(G, TopVar(F), "nD") = h.f
<1>. DEFINE v == TopVar(F)
<1>1. F \in Fns /\ ~IsConstant(F) /\ C \in Fns /\ C0Of(F, C) \in Fns
  BY HalfTypes DEF BothHalves, C0Of
<1>2. /\ v \in Vars /\ r.f \in Fns /\ r.cost \in Nat /\ s.f \in Fns /\ s.cost \in Nat
      /\ NoEarlier(r.f, F) /\ NoEarlier(s.f, F)
      /\ FreeUpTo(r.f, v) /\ FreeUpTo(s.f, v)
      /\ E(s.f, v) = s.f /\ T(s.f, v) = s.f
      /\ Agree(r.f, E0(F), C0Of(F, C)) /\ Agree(s.f, T1(F), C1Of(F, C))
      /\ s.cost = 0 <=> s.f = Zero
      /\ F \cap C # Zero
  BY BothFacts
<1>3. FreeUpTo(Xor(r.f, s.f), v) /\ NoEarlier(Xor(r.f, s.f), F)
  BY <1>2, XorFreeUpTo, XorNoEarlier
<1>4. /\ h.f \in Fns /\ h.cost \in Nat /\ NoEarlier(h.f, F)
      /\ E(h.f, v) = h.f /\ T(h.f, v) = h.f
  BY <1>1, <1>3, HalfResult
<1>5. h.cost = 0 <=> h.f = Zero
  BY DEF GoodResult
<1>6. Agree(h.f, Xor(r.f, s.f), C0Of(F, C))
  BY DEF GoodResult, Agree
<1>7. E(G, v) = Xor(h.f, s.f) /\ T(G, v) = s.f /\ G \in Fns
  <2>1. E(WhereNot(v, h.f), v) = h.f /\ T(WhereNot(v, h.f), v) = Zero
    BY <1>2, <1>4, HalvesOfWhere
  <2>2. E(G, v) = Xor(h.f, s.f) /\ T(G, v) = Xor(Zero, s.f)
    BY <2>1, <1>2, HalvesOfXor
  <2>. QED
    BY <2>2, <1>2, XorWithZero, XorTypes
<1>8. Agree(E(G, v), E0(F), C0Of(F, C))
  <2>1. Agree(Xor(h.f, s.f), r.f, C0Of(F, C))
    BY <1>1, <1>6, XorAgree
  <2>. QED
    BY <2>1, <1>2, <1>7, AgreeTrans
<1>9. NoEarlier(E(G, v), F) /\ NoEarlier(T(G, v), F)
  BY <1>2, <1>4, <1>7, XorNoEarlier
<1>10. SecondChild(G, v, "nD") = h.f /\ FirstChild(G, v, "nD") = s.f
  <2>1. Xor(E(G, v), T(G, v)) = h.f
    BY <1>2, <1>4, <1>7, XorTwice
  <2>. QED
    BY <2>1, <1>7 DEF FirstChild, SecondChild
<1>11. s.cost + h.cost = 0 <=> G = Zero
  <2>1. s.cost + h.cost = 0 <=> s.cost = 0 /\ h.cost = 0
    BY <1>2, <1>4
  <2>2. G = Zero => s.f = Zero /\ h.f = Zero
    <3>1. G = Zero => E(G, v) = Zero /\ T(G, v) = Zero
      BY DEF E, T, Zero
    <3>2. Xor(h.f, Zero) = h.f
      BY <1>4, XorWithZero
    <3>. QED
      BY <3>1, <3>2, <1>7
  <2>3. s.f = Zero /\ h.f = Zero => G = Zero
    <3>1. Xor(Zero, Zero) = Zero
      BY XorWithZero, ZeroOne
    <3>. QED
      BY <3>1, <1>7, ZeroByHalves
  <2>. QED
    BY <2>1, <2>2, <2>3, <1>2, <1>5
<1>12. GoodResult(Result(G, s.cost + h.cost), F, C)
  <2>1. Agree(T(G, v), T1(F), C1Of(F, C))
    BY <1>2, <1>7
  <2>2. s.cost + h.cost \in Nat
    BY <1>2, <1>4
  <2>. QED
    BY <2>1, <2>2, <1>1, <1>2, <1>7, <1>8, <1>9, <1>11, ResultByHalves
<1>. QED
  BY <1>4, <1>7, <1>10, <1>12

(* x h + r, where h stands for F2 wherever the second half is cared about.  *)
LEMMA PositiveResult ==
  ASSUME NEW F, NEW C, NEW r, NEW s, BothHalves(F, C, r, s), ~(r.cost = 0 /\ s.cost = 0),
         NEW D, C1Of(F, C) \subseteq D, NEW h, GoodResult(h, Xor(r.f, s.f), D),
         NEW G, G = Xor(Where(TopVar(F), h.f), r.f)
  PROVE  /\ GoodResult(Result(G, r.cost + h.cost), F, C)
         /\ G \in Fns /\ h.cost \in Nat
         /\ FirstChild(G, TopVar(F), "pD") = r.f /\ SecondChild(G, TopVar(F), "pD") = h.f
<1>. DEFINE v == TopVar(F)
<1>1. F \in Fns /\ ~IsConstant(F) /\ C \in Fns /\ C1Of(F, C) \in Fns
  BY HalfTypes DEF BothHalves, C1Of
<1>2. /\ v \in Vars /\ r.f \in Fns /\ r.cost \in Nat /\ s.f \in Fns /\ s.cost \in Nat
      /\ NoEarlier(r.f, F) /\ NoEarlier(s.f, F)
      /\ FreeUpTo(r.f, v) /\ FreeUpTo(s.f, v)
      /\ E(r.f, v) = r.f /\ T(r.f, v) = r.f
      /\ Agree(r.f, E0(F), C0Of(F, C)) /\ Agree(s.f, T1(F), C1Of(F, C))
      /\ r.cost = 0 <=> r.f = Zero
      /\ F \cap C # Zero
  BY BothFacts
<1>3. FreeUpTo(Xor(r.f, s.f), v) /\ NoEarlier(Xor(r.f, s.f), F)
  BY <1>2, XorFreeUpTo, XorNoEarlier
<1>4. /\ h.f \in Fns /\ h.cost \in Nat /\ NoEarlier(h.f, F)
      /\ E(h.f, v) = h.f /\ T(h.f, v) = h.f
  BY <1>1, <1>3, HalfResult
<1>5. h.cost = 0 <=> h.f = Zero
  BY DEF GoodResult
<1>6. Agree(h.f, Xor(r.f, s.f), C1Of(F, C))
  BY DEF GoodResult, Agree
<1>7. E(G, v) = r.f /\ T(G, v) = Xor(h.f, r.f) /\ G \in Fns
  <2>1. E(Where(v, h.f), v) = Zero /\ T(Where(v, h.f), v) = h.f
    BY <1>2, <1>4, HalvesOfWhere
  <2>2. E(G, v) = Xor(Zero, r.f) /\ T(G, v) = Xor(h.f, r.f)
    BY <2>1, <1>2, HalvesOfXor
  <2>. QED
    BY <2>2, <1>2, XorWithZero, XorTypes
<1>8. Agree(T(G, v), T1(F), C1Of(F, C))
  <2>1. Agree(Xor(h.f, r.f), s.f, C1Of(F, C))
    BY <1>1, <1>6, XorAgree
  <2>. QED
    BY <2>1, <1>2, <1>7, AgreeTrans
<1>9. NoEarlier(E(G, v), F) /\ NoEarlier(T(G, v), F)
  BY <1>2, <1>4, <1>7, XorNoEarlier
<1>10. SecondChild(G, v, "pD") = h.f /\ FirstChild(G, v, "pD") = r.f
  <2>1. Xor(E(G, v), T(G, v)) = h.f
    BY <1>2, <1>4, <1>7, XorTwice
  <2>. QED
    BY <2>1, <1>7 DEF FirstChild, SecondChild
<1>11. r.cost + h.cost = 0 <=> G = Zero
  <2>1. r.cost + h.cost = 0 <=> r.cost = 0 /\ h.cost = 0
    BY <1>2, <1>4
  <2>2. G = Zero => r.f = Zero /\ h.f = Zero
    <3>1. G = Zero => E(G, v) = Zero /\ T(G, v) = Zero
      BY DEF E, T, Zero
    <3>2. Xor(h.f, Zero) = h.f
      BY <1>4, XorWithZero
    <3>. QED
      BY <3>1, <3>2, <1>7
  <2>3. r.f = Zero /\ h.f = Zero => G = Zero
    <3>1. Xor(Zero, Zero) = Zero
      BY XorWithZero, ZeroOne
    <3>. QED
      BY <3>1, <1>7, ZeroByHalves
  <2>. QED
    BY <2>1, <2>2, <2>3, <1>2, <1>5
<1>12. GoodResult(Result(G, r.cost + h.cost), F, C)
  <2>1. Agree(E(G, v), E0(F), C0Of(F, C))
    BY <1>2, <1>7
  <2>2. r.cost + h.cost \in Nat
    BY <1>2, <1>4
  <2>. QED
    BY <2>1, <2>2, <1>1, <1>2, <1>7, <1>8, <1>9, <1>11, ResultByHalves
<1>. QED
  BY <1>4, <1>7, <1>10, <1>12

(* x' r + x s.                                                              *)
LEMMA ShannonResult ==
  ASSUME NEW F, NEW C, NEW r, NEW s, BothHalves(F, C, r, s), ~(r.cost = 0 /\ s.cost = 0),
         NEW G, G = Xor(WhereNot(TopVar(F), r.f), Where(TopVar(F), s.f))
  PROVE  /\ GoodResult(Result(G, r.cost + s.cost), F, C)
         /\ G \in Fns
         /\ FirstChild(G, TopVar(F), "Sh") = r.f /\ SecondChild(G, TopVar(F), "Sh") = s.f
<1>. DEFINE v == TopVar(F)
<1>1. F \in Fns /\ ~IsConstant(F) /\ C \in Fns
  BY DEF BothHalves
<1>2. /\ v \in Vars /\ r.f \in Fns /\ r.cost \in Nat /\ s.f \in Fns /\ s.cost \in Nat
      /\ NoEarlier(r.f, F) /\ NoEarlier(s.f, F)
      /\ E(r.f, v) = r.f /\ T(s.f, v) = s.f
      /\ Agree(r.f, E0(F), C0Of(F, C)) /\ Agree(s.f, T1(F), C1Of(F, C))
      /\ r.cost = 0 <=> r.f = Zero
      /\ s.cost = 0 <=> s.f = Zero
      /\ F \cap C # Zero
  BY BothFacts
<1>3. E(G, v) = r.f /\ T(G, v) = s.f /\ G \in Fns
  <2>1. /\ E(WhereNot(v, r.f), v) = r.f /\ T(WhereNot(v, r.f), v) = Zero
        /\ E(Where(v, s.f), v) = Zero /\ T(Where(v, s.f), v) = s.f
    BY <1>2, HalvesOfWhere
  <2>2. E(G, v) = Xor(r.f, Zero) /\ T(G, v) = Xor(Zero, s.f)
    BY <2>1, <1>2, HalvesOfXor
  <2>. QED
    BY <2>2, <1>2, XorWithZero, XorTypes
<1>4. r.cost + s.cost = 0 <=> G = Zero
  <2>1. r.cost + s.cost # 0
    BY <1>2
  <2>2. G = Zero => E(G, v) = Zero /\ T(G, v) = Zero
    BY DEF E, T, Zero
  <2>. QED
    BY <2>1, <2>2, <1>2, <1>3
<1>5. GoodResult(Result(G, r.cost + s.cost), F, C)
  <2>1. r.cost + s.cost \in Nat
    BY <1>2
  <2>. QED
    BY <2>1, <1>1, <1>2, <1>3, <1>4, ResultByHalves
<1>. QED
  BY <1>3, <1>5 DEF FirstChild, SecondChild

(* The costs, compared as the first pass does, never choose two results     *)
(* that are equal: one of them would be 0 and the expansion not cheapest.   *)
LEMMA ChosenDiffer ==
  ASSUME NEW F, NEW C, NEW r, NEW s, BothHalves(F, C, r, s), ~(r.cost = 0 /\ s.cost = 0),
         NEW D0, C0Of(F, C) \subseteq D0, NEW h, GoodResult(h, Xor(r.f, s.f), D0),
         NEW D1, C1Of(F, C) \subseteq D1, NEW g, GoodResult(g, Xor(r.f, s.f), D1)
  PROVE  /\ s.cost + h.cost <= r.cost + s.cost => s.f # h.f
         /\ r.cost + g.cost <= r.cost + s.cost => r.f # g.f
         /\ r.cost + g.cost > r.cost + s.cost => r.f # s.f
<1>1. /\ r.f \in Fns /\ s.f \in Fns /\ r.cost \in Nat /\ s.cost \in Nat
      /\ Agree(r.f, E0(F), C0Of(F, C)) /\ Agree(s.f, T1(F), C1Of(F, C))
      /\ r.cost = 0 <=> r.f = Zero
      /\ s.cost = 0 <=> s.f = Zero
  BY BothFacts
<1>2. h.cost \in Nat /\ g.cost \in Nat /\ (h.cost = 0 <=> h.f = Zero) /\ (g.cost = 0 <=> g.f = Zero)
  BY DEF GoodResult, Results
<1>3. C0Of(F, C) \in Fns /\ C1Of(F, C) \in Fns /\ C0Of(F, C) # Zero /\ C1Of(F, C) # Zero
  BY HalfTypes DEF BothHalves, C0Of, C1Of
<1>4. s.f = h.f => r.cost = 0
  <2>. SUFFICES ASSUME s.f = h.f PROVE r.cost = 0
    OBVIOUS
  <2>1. Agree(s.f, Xor(r.f, s.f), C0Of(F, C))
    BY DEF GoodResult, Agree
  <2>2. \A m \in C0Of(F, C) : m \notin r.f
    BY <2>1, <1>3 DEF Agree, Xor, Fns
  <2>3. E0(F) \cap C0Of(F, C) = Zero
    BY <2>2, <1>1 DEF Agree, Zero
  <2>. QED
    BY <2>3, <1>3 DEF BothHalves, GoodResult
<1>5. r.f = g.f => s.cost = 0
  <2>. SUFFICES ASSUME r.f = g.f PROVE s.cost = 0
    OBVIOUS
  <2>1. Agree(r.f, Xor(r.f, s.f), C1Of(F, C))
    BY DEF GoodResult, Agree
  <2>2. \A m \in C1Of(F, C) : m \notin s.f
    BY <2>1, <1>3 DEF Agree, Xor, Fns
  <2>3. T1(F) \cap C1Of(F, C) = Zero
    BY <2>2, <1>1 DEF Agree, Zero
  <2>. QED
    BY <2>3, <1>3 DEF BothHalves, GoodResult
<1>6. r.f = s.f => g.cost = 0
  <2>. SUFFICES ASSUME r.f = s.f PROVE g.cost = 0
    OBVIOUS
  <2>1. Xor(r.f, s.f) \cap D1 = Zero
    BY DEF Xor, Zero
  <2>2. D1 # Zero
    BY <1>3 DEF Zero
  <2>. QED
    BY <2>1, <2>2 DEF GoodResult
<1>7. ASSUME s.cost + h.cost <= r.cost + s.cost, s.f = h.f PROVE FALSE
  <2>1. r.cost = 0 /\ h.cost = 0
    BY <1>1, <1>2, <1>4, <1>7
  <2>2. s.f = Zero
    BY <2>1, <1>2, <1>7
  <2>. QED
    BY <2>1, <2>2, <1>1
<1>8. ASSUME r.cost + g.cost <= r.cost + s.cost, r.f = g.f PROVE FALSE
  <2>1. s.cost = 0 /\ g.cost = 0
    BY <1>1, <1>2, <1>5, <1>8
  <2>2. r.f = Zero
    BY <2>1, <1>2, <1>8
  <2>. QED
    BY <2>1, <2>2, <1>1
<1>9. ASSUME r.cost + g.cost > r.cost + s.cost, r.f = s.f PROVE FALSE
  BY <1>1, <1>2, <1>6, <1>9
<1>. QED
  BY <1>7, <1>8, <1>9

-----------------------------------------------------------------------------
(* The calls an activation makes, when both halves are cared about: the     *)
(* k-th is for OpenFn under OpenCare, the results so far being got.         *)
Passes == {"firstPass", "firstPassNaive"}

OpenFn(F, got, k) == IF k = 1 THEN E0(F) ELSE IF k = 2 THEN T1(F) ELSE Xor(got[1].f, got[2].f)
OpenCare(fn, F, C, k) ==
  IF k = 1 THEN C0Of(F, C) ELSE IF k = 2 THEN C1Of(F, C)
  ELSE IF fn = "firstPassNaive" THEN C0Of(F, C) \cup C1Of(F, C)
  ELSE IF k = 3 THEN C0Of(F, C) ELSE C1Of(F, C)

GotOK(h, fn, F, C, got) ==
  \A k \in 1 .. Len(got) : Returns(h, got[k], OpenFn(F, got, k), OpenCare(fn, F, C, k))

(* The results for the halves are not both 0, else the others are not asked. *)
SomeCost(got) == Len(got) >= 2 => ~(got[1].cost = 0 /\ got[2].cost = 0)

(* An activation and the call it waits for.                                 *)
XFrames == [fn : Passes, f : Fns, c : Fns, exp : {"C0", "C1", "open"}, got : Seq(Results)]

FrameOK(h, fr) ==
  /\ fr \in XFrames
  /\ ~IsConstant(fr.f)
  /\ <<fr.f, fr.c>> \notin DOMAIN h
  /\ fr.exp = "C0" => fr.got = <<>> /\ C0Of(fr.f, fr.c) = Zero
  /\ fr.exp = "C1" => fr.got = <<>> /\ C1Of(fr.f, fr.c) = Zero
  /\ fr.exp = "open" => /\ C0Of(fr.f, fr.c) # Zero /\ C1Of(fr.f, fr.c) # Zero
                        /\ Len(fr.got) < IF fr.fn = "firstPassNaive" THEN 3 ELSE 4
                        /\ GotOK(h, fr.fn, fr.f, fr.c, fr.got)
                        /\ SomeCost(fr.got)

AskedFn(fr) ==
  IF fr.exp = "C0" THEN T1(fr.f) ELSE IF fr.exp = "C1" THEN E0(fr.f)
  ELSE OpenFn(fr.f, fr.got, Len(fr.got) + 1)
AskedCare(fr) ==
  IF fr.exp = "C0" THEN C1Of(fr.f, fr.c) ELSE IF fr.exp = "C1" THEN C0Of(fr.f, fr.c)
  ELSE OpenCare(fr.fn, fr.f, fr.c, Len(fr.got) + 1)

WantedFn(r, s, k) == IF k = 0 THEN r ELSE AskedFn(s[k])
WantedCare(cr, s, k) == IF k = 0 THEN cr ELSE AskedCare(s[k])

(* Each activation works on the call that the one before waits for, and on  *)
(* a function further down than all before it.                              *)
LinkOK(r, cr, s, k) ==
  /\ s[k].f = WantedFn(r, s, k - 1)
  /\ s[k].c = WantedCare(cr, s, k - 1)
  /\ \A j \in 1 .. k - 1 : FreeUpTo(s[k].f, TopVar(s[j].f))

ChainUpTo(r, cr, h, s, n) == \A k \in 1 .. n : FrameOK(h, s[k]) /\ LinkOK(r, cr, s, k)

(* What the second pass reads from an entry is in the table as well: the    *)
(* result is put together from the results of the pairs the walk visits.    *)
FirstCare(F, C, e) == IF e = "nD" THEN C1Of(F, C) ELSE C0Of(F, C)
SecondArg(F, en) == IF en.exp = "Sh" THEN T1(F) ELSE en.f2
SecondCare(F, C, e) == IF e = "nD" THEN C0Of(F, C) ELSE C1Of(F, C)

ClosedOK(h, F, C, en) ==
  /\ en.exp = "C0" => /\ Known(h, T1(F), C1Of(F, C)) /\ Chosen(h, T1(F), C1Of(F, C)) = en.fret
                      /\ PairCost(h, T1(F), C1Of(F, C)) = en.cost
  /\ en.exp = "C1" => /\ Known(h, E0(F), C0Of(F, C)) /\ Chosen(h, E0(F), C0Of(F, C)) = en.fret
                      /\ PairCost(h, E0(F), C0Of(F, C)) = en.cost
  /\ en.exp = "F0" => en.fret = Zero /\ en.cost = 0
  /\ en.exp \in ExpTypes =>
       /\ Known(h, FirstChild(F, TopVar(F), en.exp), FirstCare(F, C, en.exp))
       /\ Chosen(h, FirstChild(F, TopVar(F), en.exp), FirstCare(F, C, en.exp))
            = FirstChild(en.fret, TopVar(F), en.exp)
       /\ Known(h, SecondArg(F, en), SecondCare(F, C, en.exp))
       /\ Chosen(h, SecondArg(F, en), SecondCare(F, C, en.exp))
            = SecondChild(en.fret, TopVar(F), en.exp)
       /\ FreeUpTo(SecondArg(F, en), TopVar(F)) /\ NoEarlier(SecondArg(F, en), F)
       /\ en.cost = PairCost(h, FirstChild(F, TopVar(F), en.exp), FirstCare(F, C, en.exp))
                      + PairCost(h, SecondArg(F, en), SecondCare(F, C, en.exp))

(* With firstPass, but not with firstPassNaive, the second pass finds what  *)
(* the entries refer to; with either where everything is cared about.       *)
Follows(fn, C) == fn = "firstPass" \/ C = One

Entries == [fret : Fns, f2 : Fns, exp : ExpTypes \cup SkipTypes, cost : Nat]

EntryOK(h, nv, F, C) ==
  /\ F \in Fns /\ ~IsConstant(F) /\ C \in Fns
  /\ h[<<F, C>>] \in Entries
  /\ GoodResult(Result(h[<<F, C>>].fret, h[<<F, C>>].cost), F, C)
  /\ Least(h[<<F, C>>].cost, F, C)
  /\ ~nv \/ C = One => ClosedOK(h, F, C, h[<<F, C>>])

TableOK(h, nv) ==
  /\ DOMAIN h \subseteq Fns \X Fns
  /\ \A F, C : <<F, C>> \in DOMAIN h => EntryOK(h, nv, F, C)

(* Nothing is forgotten or changed.                                         *)
Extends(h, g) == DOMAIN h \subseteq DOMAIN g /\ \A p \in DOMAIN h : g[p] = h[p]

LEMMA ExtendsKeeps ==
  ASSUME NEW h, NEW g, Extends(h, g)
  PROVE  /\ \A F, C : Known(h, F, C) => /\ Known(g, F, C) /\ Chosen(g, F, C) = Chosen(h, F, C)
                                       /\ PairCost(g, F, C) = PairCost(h, F, C)
         /\ \A r, F, C : Returns(h, r, F, C) => Returns(g, r, F, C)
         /\ \A fn, F, C, got : GotOK(h, fn, F, C, got) => GotOK(g, fn, F, C, got)
         /\ \A F, C, en : ClosedOK(h, F, C, en) => ClosedOK(g, F, C, en)
<1>1. ASSUME NEW F, NEW C, Known(h, F, C)
      PROVE  /\ Known(g, F, C) /\ Chosen(g, F, C) = Chosen(h, F, C)
             /\ PairCost(g, F, C) = PairCost(h, F, C)
  BY <1>1 DEF Extends, Known, Chosen, PairCost
<1>2. ASSUME NEW r, NEW F, NEW C, Returns(h, r, F, C)
      PROVE  Returns(g, r, F, C)
  BY <1>1, <1>2 DEF Returns
<1>3. ASSUME NEW fn, NEW F, NEW C, NEW got, GotOK(h, fn, F, C, got)
      PROVE  GotOK(g, fn, F, C, got)
  BY <1>2, <1>3 DEF GotOK
<1>4. ASSUME NEW F, NEW C, NEW en, ClosedOK(h, F, C, en)
      PROVE  ClosedOK(g, F, C, en)
  BY <1>1, <1>4 DEF ClosedOK
<1>. QED
  BY <1>1, <1>2, <1>3, <1>4

(* A new entry that is owed and closed.                                     *)
LEMMA StoreTable ==
  ASSUME NEW h, NEW nv, TableOK(h, nv), NEW F \in Fns, ~IsConstant(F), NEW C \in Fns,
         <<F, C>> \notin DOMAIN h, NEW en \in Entries,
         GoodResult(Result(en.fret, en.cost), F, C), Least(en.cost, F, C),
         ~nv \/ C = One => ClosedOK(h, F, C, en),
         NEW g, g = Store(h, <<F, C>>, en)
  PROVE  /\ TableOK(g, nv) /\ Extends(h, g)
         /\ DOMAIN g = DOMAIN h \cup {<<F, C>>}
         /\ Returns(g, Result(en.fret, en.cost), F, C)
<1>1. Extends(h, g) /\ DOMAIN g = DOMAIN h \cup {<<F, C>>} /\ g[<<F, C>>] = en
  <2>1. PICK p : p = <<F, C>>
    OBVIOUS
  <2>2. p \notin DOMAIN h /\ g = Store(h, p, en)
    BY <2>1
  <2>3. DOMAIN g = DOMAIN h \cup {p} /\ g[p] = en
    BY <2>2 DEF Store
  <2>4. \A q \in DOMAIN h : g[q] = h[q]
    BY <2>2 DEF Store
  <2>. QED
    BY <2>1, <2>3, <2>4 DEF Extends
<1>2. EntryOK(g, nv, F, C)
  BY <1>1, ExtendsKeeps DEF EntryOK
<1>3. ASSUME NEW G, NEW D, <<G, D>> \in DOMAIN h
      PROVE  EntryOK(g, nv, G, D)
  <2>1. EntryOK(h, nv, G, D) /\ g[<<G, D>>] = h[<<G, D>>]
    BY <1>1, <1>3 DEF TableOK, Extends
  <2>. QED
    BY <2>1, <1>1, ExtendsKeeps DEF EntryOK
<1>4. TableOK(g, nv)
  <2>1. \A G, D : <<G, D>> \in DOMAIN g => <<G, D>> \in DOMAIN h \/ (G = F /\ D = C)
    BY <1>1
  <2>. QED
    BY <2>1, <1>1, <1>2, <1>3 DEF TableOK
<1>5. Returns(g, Result(en.fret, en.cost), F, C)
  BY <1>1 DEF Returns, Known, Chosen, PairCost, Result
<1>. QED
  BY <1>1, <1>4, <1>5

-----------------------------------------------------------------------------
(* The calls of an activation.                                              *)
LEMMA CareTypes ==
  \A F, C, fn, k : C0Of(F, C) \in Fns /\ C1Of(F, C) \in Fns /\ OpenCare(fn, F, C, k) \in Fns
<1>1. \A F, C : C0Of(F, C) \in Fns /\ C1Of(F, C) \in Fns
  BY HalfTypes DEF C0Of, C1Of
<1>2. \A A, B \in Fns : A \cup B \in Fns
  BY DEF Fns
<1>. QED
  BY <1>1, <1>2 DEF OpenCare

LEMMA OpenBelow ==
  ASSUME NEW h, NEW fn, NEW F \in Fns, ~IsConstant(F), NEW C, NEW got \in Seq(Results),
         GotOK(h, fn, F, C, got), NEW k \in 1 .. Len(got) + 1
  PROVE  /\ OpenFn(F, got, k) \in Fns
         /\ FreeUpTo(OpenFn(F, got, k), TopVar(F)) /\ NoEarlier(OpenFn(F, got, k), F)
<1>1. /\ FreeUpTo(E0(F), TopVar(F)) /\ FreeUpTo(T1(F), TopVar(F))
      /\ NoEarlier(E0(F), F) /\ NoEarlier(T1(F), F)
      /\ E0(F) \in Fns /\ T1(F) \in Fns
  BY HalvesBelow, CofactorTypes
<1>2. CASE k = 1
  BY <1>1, <1>2 DEF OpenFn
<1>3. CASE k = 2
  <2>1. OpenFn(F, got, k) = T1(F)
    BY <1>3 DEF OpenFn
  <2>. QED
    BY <1>1, <2>1
<1>4. CASE k # 1 /\ k # 2
  <2>1. 1 \in 1 .. Len(got) /\ 2 \in 1 .. Len(got)
    BY <1>4, LenProperties
  <2>2. /\ GoodResult(got[1], OpenFn(F, got, 1), OpenCare(fn, F, C, 1))
        /\ GoodResult(got[2], OpenFn(F, got, 2), OpenCare(fn, F, C, 2))
    BY <2>1 DEF GotOK, Returns
  <2>3. OpenFn(F, got, 1) = E0(F) /\ OpenFn(F, got, 2) = T1(F)
    BY DEF OpenFn
  <2>4. /\ FreeUpTo(got[1].f, TopVar(F)) /\ FreeUpTo(got[2].f, TopVar(F))
        /\ NoEarlier(got[1].f, F) /\ NoEarlier(got[2].f, F)
    BY <1>1, <2>2, <2>3, HalfResult
  <2>5. OpenFn(F, got, k) = Xor(got[1].f, got[2].f)
    BY <1>4 DEF OpenFn
  <2>. QED
    BY <2>4, <2>5, XorTypes, XorFreeUpTo, XorNoEarlier
<1>. QED
  BY <1>2, <1>3, <1>4

LEMMA FrameFacts ==
  ASSUME NEW h, NEW fr, FrameOK(h, fr)
  PROVE  /\ fr.fn \in Passes /\ fr.f \in Fns /\ fr.c \in Fns /\ ~IsConstant(fr.f)
         /\ fr.exp \in {"C0", "C1", "open"}
         /\ fr.got \in Seq(Results) /\ Len(fr.got) \in Nat
         /\ <<fr.f, fr.c>> \notin DOMAIN h
BY LenProperties DEF FrameOK, XFrames

(* The call that an activation waits for is further down.                   *)
LEMMA AskedBelow ==
  ASSUME NEW h, NEW fr, FrameOK(h, fr)
  PROVE  /\ AskedFn(fr) \in Fns /\ AskedCare(fr) \in Fns
         /\ FreeUpTo(AskedFn(fr), TopVar(fr.f)) /\ NoEarlier(AskedFn(fr), fr.f)
<1>1. /\ fr.f \in Fns /\ ~IsConstant(fr.f) /\ fr.exp \in {"C0", "C1", "open"}
      /\ fr.got \in Seq(Results) /\ Len(fr.got) \in Nat
  BY FrameFacts
<1>2. /\ FreeUpTo(E0(fr.f), TopVar(fr.f)) /\ FreeUpTo(T1(fr.f), TopVar(fr.f))
      /\ NoEarlier(E0(fr.f), fr.f) /\ NoEarlier(T1(fr.f), fr.f)
      /\ E0(fr.f) \in Fns /\ T1(fr.f) \in Fns
  BY <1>1, HalvesBelow, CofactorTypes
<1>3. AskedCare(fr) \in Fns
  BY CareTypes DEF AskedCare
<1>4. CASE fr.exp = "open"
  <2>1. GotOK(h, fr.fn, fr.f, fr.c, fr.got)
    BY <1>4 DEF FrameOK
  <2>2. Len(fr.got) + 1 \in 1 .. Len(fr.got) + 1
    BY <1>1
  <2>3. AskedFn(fr) = OpenFn(fr.f, fr.got, Len(fr.got) + 1)
    BY <1>4 DEF AskedFn
  <2>. QED
    BY <1>1, <1>3, <2>1, <2>2, <2>3, OpenBelow
<1>5. CASE fr.exp \in {"C0", "C1"}
  <2>1. AskedFn(fr) = T1(fr.f) \/ AskedFn(fr) = E0(fr.f)
    BY <1>5 DEF AskedFn
  <2>. QED
    BY <1>2, <1>3, <2>1
<1>. QED
  BY <1>1, <1>4, <1>5

(* One more result.                                                         *)
LEMMA GotGrows ==
  ASSUME NEW h, NEW fn, NEW F, NEW C, NEW got \in Seq(Results), GotOK(h, fn, F, C, got),
         NEW r \in Results,
         Returns(h, r, OpenFn(F, got, Len(got) + 1), OpenCare(fn, F, C, Len(got) + 1))
  PROVE  GotOK(h, fn, F, C, Append(got, r))
<1>1. PICK n \in Nat : n = Len(got)
  BY LenProperties
<1>2. PICK more : more = Append(got, r)
  OBVIOUS
<1>3. Len(more) = n + 1 /\ more[n + 1] = r /\ \A k \in 1 .. n : more[k] = got[k]
  BY <1>1, <1>2, AppendFacts
<1>4. ASSUME NEW k \in 1 .. n + 1
      PROVE  OpenFn(F, more, k) = OpenFn(F, got, k)
  <2>1. k = 1 \/ k = 2 \/ (1 \in 1 .. n /\ 2 \in 1 .. n)
    OBVIOUS
  <2>. QED
    BY <2>1, <1>3 DEF OpenFn
<1>5. ASSUME NEW k \in 1 .. n + 1
      PROVE  Returns(h, more[k], OpenFn(F, more, k), OpenCare(fn, F, C, k))
  <2>1. CASE k = n + 1
    BY <2>1, <1>1, <1>3, <1>4
  <2>2. CASE k # n + 1
    <3>1. k \in 1 .. n
      BY <2>2
    <3>. QED
      BY <3>1, <1>1, <1>3, <1>4 DEF GotOK
  <2>. QED
    BY <2>1, <2>2
<1>. QED
  BY <1>2, <1>3, <1>5 DEF GotOK

(* With both halves cared about the first two results are for the halves.   *)
LEMMA GotHalves ==
  ASSUME NEW h, NEW fn, NEW F \in Fns, ~IsConstant(F), NEW C \in Fns,
         C0Of(F, C) # Zero, C1Of(F, C) # Zero,
         NEW got \in Seq(Results), GotOK(h, fn, F, C, got), Len(got) >= 2
  PROVE  /\ BothHalves(F, C, got[1], got[2])
         /\ Returns(h, got[1], E0(F), C0Of(F, C)) /\ Returns(h, got[2], T1(F), C1Of(F, C))
<1>1. 1 \in 1 .. Len(got) /\ 2 \in 1 .. Len(got)
  BY LenProperties
<1>2. /\ Returns(h, got[1], OpenFn(F, got, 1), OpenCare(fn, F, C, 1))
      /\ Returns(h, got[2], OpenFn(F, got, 2), OpenCare(fn, F, C, 2))
  BY <1>1 DEF GotOK
<1>3. /\ OpenFn(F, got, 1) = E0(F) /\ OpenFn(F, got, 2) = T1(F)
      /\ OpenCare(fn, F, C, 1) = C0Of(F, C) /\ OpenCare(fn, F, C, 2) = C1Of(F, C)
  BY DEF OpenFn, OpenCare
<1>. QED
  BY <1>2, <1>3 DEF BothHalves, Returns

(* With all results in, the third and the last are for F2.                  *)
XorResults(h, fn, F, C, got, r) ==
  \E D0, D1 :
    /\ C0Of(F, C) \subseteq D0 /\ C1Of(F, C) \subseteq D1
    /\ Returns(h, got[3], Xor(got[1].f, got[2].f), D0)
    /\ Returns(h, r, Xor(got[1].f, got[2].f), D1)
    /\ Follows(fn, C) => D0 = C0Of(F, C) /\ D1 = C1Of(F, C)

LEMMA GotXors ==
  ASSUME NEW h, NEW fn \in Passes, NEW F \in Fns, ~IsConstant(F), NEW C,
         NEW got \in Seq(Results), GotOK(h, fn, F, C, got),
         Len(got) = IF fn = "firstPassNaive" THEN 3 ELSE 4,
         NEW r, r = IF fn = "firstPassNaive" THEN got[3] ELSE got[4]
  PROVE  XorResults(h, fn, F, C, got, r)
<1>1. CASE fn = "firstPassNaive"
  <2>1. 3 \in 1 .. Len(got)
    BY <1>1
  <2>2. Returns(h, got[3], OpenFn(F, got, 3), OpenCare(fn, F, C, 3))
    BY <2>1 DEF GotOK
  <2>3. /\ OpenFn(F, got, 3) = Xor(got[1].f, got[2].f)
        /\ OpenCare(fn, F, C, 3) = C0Of(F, C) \cup C1Of(F, C)
    BY <1>1 DEF OpenFn, OpenCare
  <2>4. Follows(fn, C) => C0Of(F, C) \cup C1Of(F, C) = C0Of(F, C)
                          /\ C0Of(F, C) \cup C1Of(F, C) = C1Of(F, C)
    BY <1>1, FullHalves DEF Follows
  <2>. QED
    BY <1>1, <2>2, <2>3, <2>4 DEF XorResults
<1>2. CASE fn = "firstPass"
  <2>1. 3 \in 1 .. Len(got) /\ 4 \in 1 .. Len(got) /\ fn # "firstPassNaive"
    BY <1>2
  <2>2. /\ Returns(h, got[3], OpenFn(F, got, 3), OpenCare(fn, F, C, 3))
        /\ Returns(h, got[4], OpenFn(F, got, 4), OpenCare(fn, F, C, 4))
    BY <2>1 DEF GotOK
  <2>3. /\ OpenFn(F, got, 3) = Xor(got[1].f, got[2].f) /\ OpenCare(fn, F, C, 3) = C0Of(F, C)
        /\ OpenFn(F, got, 4) = Xor(got[1].f, got[2].f) /\ OpenCare(fn, F, C, 4) = C1Of(F, C)
    BY <2>1 DEF OpenFn, OpenCare
  <2>. QED
    BY <2>1, <2>2, <2>3 DEF XorResults
<1>. QED
  BY <1>1, <1>2 DEF Passes

-----------------------------------------------------------------------------
(* The five kinds of entry that the first pass stores.                      *)
OwedEntry(h, fn, F, C, en) ==
  /\ en \in Entries
  /\ GoodResult(Result(en.fret, en.cost), F, C)
  /\ Least(en.cost, F, C)
  /\ Follows(fn, C) => ClosedOK(h, F, C, en)

LEMMA EntryFields ==
  ASSUME NEW F \in Fns, NEW f2 \in Fns, NEW e \in ExpTypes \cup SkipTypes, NEW k \in Nat
  PROVE  /\ Entry(F, f2, e, k) \in Entries
         /\ Entry(F, f2, e, k).fret = F /\ Entry(F, f2, e, k).f2 = f2
         /\ Entry(F, f2, e, k).exp = e /\ Entry(F, f2, e, k).cost = k
BY DEF Entry, Entries

LEMMA SkipEntry ==
  ASSUME NEW h, NEW fn, NEW F \in Fns, ~IsConstant(F), NEW C \in Fns, NEW r,
         NEW e, \/ e = "C0" /\ C0Of(F, C) = Zero /\ Returns(h, r, T1(F), C1Of(F, C))
                \/ e = "C1" /\ C1Of(F, C) = Zero /\ Returns(h, r, E0(F), C0Of(F, C))
  PROVE  OwedEntry(h, fn, F, C, Entry(r.f, Zero, e, r.cost))
<1>1. r.f \in Fns /\ r.cost \in Nat
  BY DEF Returns, GoodResult, Results
<1>2. e \in SkipTypes /\ e # "F0" /\ e \notin ExpTypes
  BY DEF SkipTypes, ExpTypes
<1>3. PICK en : en = Entry(r.f, Zero, e, r.cost)
  OBVIOUS
<1>4. en \in Entries /\ en.fret = r.f /\ en.exp = e /\ en.cost = r.cost
  BY <1>1, <1>2, <1>3, ZeroOne, EntryFields
<1>5. GoodResult(Result(r.f, r.cost), F, C)
  BY SkipResult DEF Returns
<1>6. ClosedOK(h, F, C, en)
  BY <1>2, <1>4 DEF ClosedOK, Returns
<1>7. Least(en.cost, F, C)
  <2>1. C # One
    BY FullHalves, ZeroOne
  <2>. QED
    BY <2>1 DEF Least
<1>. QED
  BY <1>3, <1>4, <1>5, <1>6, <1>7 DEF OwedEntry

LEMMA ZeroEntry ==
  ASSUME NEW h, NEW fn, NEW F, NEW C, NEW r, NEW s,
         BothHalves(F, C, r, s), r.cost = 0, s.cost = 0
  PROVE  OwedEntry(h, fn, F, C, Entry(Zero, Zero, "F0", 0))
<1>1. PICK en : en = Entry(Zero, Zero, "F0", 0)
  OBVIOUS
<1>2. en \in Entries /\ en.fret = Zero /\ en.exp = "F0" /\ en.cost = 0
  BY <1>1, ZeroOne, EntryFields DEF SkipTypes
<1>3. GoodResult(Result(Zero, 0), F, C)
  BY ZeroResult
<1>4. "F0" \notin ExpTypes
  BY DEF ExpTypes
<1>5. ClosedOK(h, F, C, en)
  BY <1>2, <1>4 DEF ClosedOK
<1>6. Least(en.cost, F, C)
  <2>. SUFFICES ASSUME C = One PROVE FALSE
    BY DEF Least
  <2>1. Agree(Zero, F, One) /\ F \in Fns /\ ~IsConstant(F)
    BY <1>3 DEF GoodResult, Result, BothHalves
  <2>2. F = Zero
    BY <2>1 DEF Agree, Fns, One, Zero
  <2>. QED
    BY <2>1, <2>2 DEF IsConstant
<1>. QED
  BY <1>1, <1>2, <1>3, <1>5, <1>6 DEF OwedEntry

LEMMA NegativeEntry ==
  ASSUME NEW h, NEW fn, NEW F, NEW C, NEW r, NEW s, BothHalves(F, C, r, s),
         ~(r.cost = 0 /\ s.cost = 0),
         Returns(h, s, T1(F), C1Of(F, C)),
         NEW D, C0Of(F, C) \subseteq D, Follows(fn, C) => D = C0Of(F, C),
         NEW t, Returns(h, t, Xor(r.f, s.f), D), Least(s.cost + t.cost, F, C)
  PROVE  OwedEntry(h, fn, F, C, Entry(Xor(WhereNot(TopVar(F), t.f), s.f), Xor(r.f, s.f),
                                      "nD", s.cost + t.cost))
<1>1. PICK G : G = Xor(WhereNot(TopVar(F), t.f), s.f)
  OBVIOUS
<1>2. GoodResult(t, Xor(r.f, s.f), D)
  BY DEF Returns
<1>3. /\ GoodResult(Result(G, s.cost + t.cost), F, C)
      /\ G \in Fns /\ t.cost \in Nat
      /\ FirstChild(G, TopVar(F), "nD") = s.f /\ SecondChild(G, TopVar(F), "nD") = t.f
  BY <1>1, <1>2, NegativeResult
<1>4. /\ s.cost \in Nat /\ FreeUpTo(r.f, TopVar(F)) /\ FreeUpTo(s.f, TopVar(F))
      /\ NoEarlier(r.f, F) /\ NoEarlier(s.f, F)
  BY BothFacts
<1>5. PICK X : X = Xor(r.f, s.f)
  OBVIOUS
<1>6. X \in Fns /\ FreeUpTo(X, TopVar(F)) /\ NoEarlier(X, F)
  BY <1>4, <1>5, XorTypes, XorFreeUpTo, XorNoEarlier
<1>7. PICK k \in Nat : k = s.cost + t.cost
  BY <1>3, <1>4
<1>8. PICK en : en = Entry(G, X, "nD", k)
  OBVIOUS
<1>9. en \in Entries /\ en.fret = G /\ en.f2 = X /\ en.exp = "nD" /\ en.cost = k
  BY <1>3, <1>6, <1>8, EntryFields DEF ExpTypes
<1>10. /\ FirstChild(F, TopVar(F), "nD") = T1(F) /\ FirstCare(F, C, "nD") = C1Of(F, C)
       /\ SecondArg(F, en) = X /\ SecondCare(F, C, "nD") = C0Of(F, C)
  BY <1>9 DEF FirstChild, FirstCare, SecondArg, SecondCare, T1
<1>11. ASSUME Follows(fn, C)
       PROVE  ClosedOK(h, F, C, en)
  <2>1. /\ Known(h, T1(F), C1Of(F, C)) /\ Chosen(h, T1(F), C1Of(F, C)) = s.f
        /\ PairCost(h, T1(F), C1Of(F, C)) = s.cost
    BY DEF Returns
  <2>2. /\ Known(h, X, C0Of(F, C)) /\ Chosen(h, X, C0Of(F, C)) = t.f
        /\ PairCost(h, X, C0Of(F, C)) = t.cost
    BY <1>5, <1>11 DEF Returns
  <2>3. en.exp # "C0" /\ en.exp # "C1" /\ en.exp # "F0"
    BY <1>9
  <2>. QED
    BY <2>1, <2>2, <2>3, <1>3, <1>6, <1>7, <1>9, <1>10 DEF ClosedOK
<1>12. Least(en.cost, F, C)
  BY <1>7, <1>9
<1>. QED
  BY <1>1, <1>3, <1>5, <1>7, <1>8, <1>9, <1>11, <1>12 DEF OwedEntry

LEMMA PositiveEntry ==
  ASSUME NEW h, NEW fn, NEW F, NEW C, NEW r, NEW s, BothHalves(F, C, r, s),
         ~(r.cost = 0 /\ s.cost = 0),
         Returns(h, r, E0(F), C0Of(F, C)),
         NEW D, C1Of(F, C) \subseteq D, Follows(fn, C) => D = C1Of(F, C),
         NEW t, Returns(h, t, Xor(r.f, s.f), D), Least(r.cost + t.cost, F, C)
  PROVE  OwedEntry(h, fn, F, C, Entry(Xor(Where(TopVar(F), t.f), r.f), Xor(r.f, s.f),
                                      "pD", r.cost + t.cost))
<1>1. PICK G : G = Xor(Where(TopVar(F), t.f), r.f)
  OBVIOUS
<1>2. GoodResult(t, Xor(r.f, s.f), D)
  BY DEF Returns
<1>3. /\ GoodResult(Result(G, r.cost + t.cost), F, C)
      /\ G \in Fns /\ t.cost \in Nat
      /\ FirstChild(G, TopVar(F), "pD") = r.f /\ SecondChild(G, TopVar(F), "pD") = t.f
  BY <1>1, <1>2, PositiveResult, Z3
<1>4. /\ r.cost \in Nat /\ FreeUpTo(r.f, TopVar(F)) /\ FreeUpTo(s.f, TopVar(F))
      /\ NoEarlier(r.f, F) /\ NoEarlier(s.f, F)
  BY BothFacts
<1>5. PICK X : X = Xor(r.f, s.f)
  OBVIOUS
<1>6. X \in Fns /\ FreeUpTo(X, TopVar(F)) /\ NoEarlier(X, F)
  BY <1>4, <1>5, XorTypes, XorFreeUpTo, XorNoEarlier
<1>7. PICK k \in Nat : k = r.cost + t.cost
  BY <1>3, <1>4
<1>8. PICK en : en = Entry(G, X, "pD", k)
  OBVIOUS
<1>9. en \in Entries /\ en.fret = G /\ en.f2 = X /\ en.exp = "pD" /\ en.cost = k
  BY <1>3, <1>6, <1>8, EntryFields DEF ExpTypes
<1>10. /\ FirstChild(F, TopVar(F), "pD") = E0(F) /\ FirstCare(F, C, "pD") = C0Of(F, C)
       /\ SecondArg(F, en) = X /\ SecondCare(F, C, "pD") = C1Of(F, C)
  BY <1>9 DEF FirstChild, FirstCare, SecondArg, SecondCare, E0
<1>11. ASSUME Follows(fn, C)
       PROVE  ClosedOK(h, F, C, en)
  <2>1. /\ Known(h, E0(F), C0Of(F, C)) /\ Chosen(h, E0(F), C0Of(F, C)) = r.f
        /\ PairCost(h, E0(F), C0Of(F, C)) = r.cost
    BY DEF Returns
  <2>2. /\ Known(h, X, C1Of(F, C)) /\ Chosen(h, X, C1Of(F, C)) = t.f
        /\ PairCost(h, X, C1Of(F, C)) = t.cost
    BY <1>5, <1>11 DEF Returns
  <2>3. en.exp # "C0" /\ en.exp # "C1" /\ en.exp # "F0"
    BY <1>9
  <2>. QED
    BY <2>1, <2>2, <2>3, <1>3, <1>6, <1>7, <1>9, <1>10 DEF ClosedOK
<1>12. Least(en.cost, F, C)
  BY <1>7, <1>9
<1>. QED
  BY <1>1, <1>3, <1>5, <1>7, <1>8, <1>9, <1>11, <1>12 DEF OwedEntry

LEMMA ShannonEntry ==
  ASSUME NEW h, NEW fn, NEW F, NEW C, NEW r, NEW s, BothHalves(F, C, r, s),
         ~(r.cost = 0 /\ s.cost = 0),
         Returns(h, r, E0(F), C0Of(F, C)), Returns(h, s, T1(F), C1Of(F, C)),
         Least(r.cost + s.cost, F, C)
  PROVE  OwedEntry(h, fn, F, C,
                   Entry(Xor(WhereNot(TopVar(F), r.f), Where(TopVar(F), s.f)), Xor(r.f, s.f),
                         "Sh", r.cost + s.cost))
<1>1. PICK G : G = Xor(WhereNot(TopVar(F), r.f), Where(TopVar(F), s.f))
  OBVIOUS
<1>2. /\ GoodResult(Result(G, r.cost + s.cost), F, C)
      /\ G \in Fns
      /\ FirstChild(G, TopVar(F), "Sh") = r.f /\ SecondChild(G, TopVar(F), "Sh") = s.f
  BY <1>1, ShannonResult
<1>3. r.cost \in Nat /\ s.cost \in Nat
  BY BothFacts
<1>4. PICK X \in Fns : X = Xor(r.f, s.f)
  BY XorTypes
<1>5. PICK k \in Nat : k = r.cost + s.cost
  BY <1>3
<1>6. PICK en : en = Entry(G, X, "Sh", k)
  OBVIOUS
<1>7. en \in Entries /\ en.fret = G /\ en.exp = "Sh" /\ en.cost = k
  BY <1>2, <1>6, EntryFields DEF ExpTypes
<1>8. /\ FirstChild(F, TopVar(F), "Sh") = E0(F) /\ FirstCare(F, C, "Sh") = C0Of(F, C)
      /\ SecondArg(F, en) = T1(F) /\ SecondCare(F, C, "Sh") = C1Of(F, C)
  BY <1>7 DEF FirstChild, FirstCare, SecondArg, SecondCare, E0
<1>9. ClosedOK(h, F, C, en)
  <2>1. /\ Known(h, E0(F), C0Of(F, C)) /\ Chosen(h, E0(F), C0Of(F, C)) = r.f
        /\ Known(h, T1(F), C1Of(F, C)) /\ Chosen(h, T1(F), C1Of(F, C)) = s.f
        /\ PairCost(h, E0(F), C0Of(F, C)) = r.cost /\ PairCost(h, T1(F), C1Of(F, C)) = s.cost
    BY DEF Returns
  <2>2. FreeUpTo(T1(F), TopVar(F)) /\ NoEarlier(T1(F), F)
    BY HalvesBelow DEF BothHalves
  <2>3. en.exp # "C0" /\ en.exp # "C1" /\ en.exp # "F0"
    BY <1>7
  <2>. QED
    BY <2>1, <2>2, <2>3, <1>2, <1>5, <1>7, <1>8 DEF ClosedOK
<1>10. Least(en.cost, F, C)
  BY <1>5, <1>7
<1>. QED
  BY <1>1, <1>2, <1>4, <1>5, <1>6, <1>7, <1>9, <1>10 DEF OwedEntry

-----------------------------------------------------------------------------
(* The stack of activations.                                                *)
CallOK(r, cr, s, F, C) ==
  /\ F = WantedFn(r, s, Len(s)) /\ C = WantedCare(cr, s, Len(s))
  /\ \A j \in 1 .. Len(s) : FreeUpTo(F, TopVar(s[j].f))

ReturnOK(r, cr, h, s, t) == Returns(h, t, WantedFn(r, s, Len(s)), WantedCare(cr, s, Len(s)))

SamePrefix(s, t, m) == m \in Nat /\ \A k \in 1 .. m : t[k] = s[k]

SameWanted(r, cr, s, t, m) ==
  \A k \in 0 .. m : /\ WantedFn(r, t, k) = WantedFn(r, s, k)
                    /\ WantedCare(cr, t, k) = WantedCare(cr, s, k)

LEMMA WantedPrefix ==
  ASSUME NEW s, NEW t, NEW m, SamePrefix(s, t, m), NEW r, NEW cr
  PROVE  SameWanted(r, cr, s, t, m)
<1>. SUFFICES ASSUME NEW k \in 0 .. m
     PROVE  WantedFn(r, t, k) = WantedFn(r, s, k) /\ WantedCare(cr, t, k) = WantedCare(cr, s, k)
  BY DEF SameWanted
<1>1. k = 0 \/ t[k] = s[k]
  BY DEF SamePrefix
<1>. QED
  BY <1>1 DEF WantedFn, WantedCare

LEMMA ChainPrefix ==
  ASSUME NEW s, NEW t, NEW m, SamePrefix(s, t, m),
         NEW r, NEW cr, NEW h, ChainUpTo(r, cr, h, s, m)
  PROVE  ChainUpTo(r, cr, h, t, m)
<1>. SUFFICES ASSUME NEW k \in 1 .. m
     PROVE  FrameOK(h, t[k]) /\ LinkOK(r, cr, t, k)
  BY DEF ChainUpTo
<1>1. FrameOK(h, s[k]) /\ LinkOK(r, cr, s, k) /\ t[k] = s[k]
  BY DEF ChainUpTo, SamePrefix
<1>2. k - 1 \in 0 .. m /\ \A j \in 1 .. k - 1 : t[j] = s[j]
  BY DEF SamePrefix
<1>3. SameWanted(r, cr, s, t, m)
  BY WantedPrefix
<1>4. WantedFn(r, t, k - 1) = WantedFn(r, s, k - 1) /\ WantedCare(cr, t, k - 1) = WantedCare(cr, s, k - 1)
  BY <1>2, <1>3 DEF SameWanted
<1>. QED
  BY <1>1, <1>2, <1>4 DEF LinkOK

(* The call an activation waits for is below all activations.               *)
LEMMA AskedBelowAll ==
  ASSUME NEW h, NEW fr, FrameOK(h, fr), NEW v \in Vars, FreeUpTo(fr.f, v)
  PROVE  FreeUpTo(AskedFn(fr), v)
BY AskedBelow DEF NoEarlier

LEMMA ChainTopVars ==
  ASSUME NEW r, NEW cr, NEW h, NEW s, NEW n, ChainUpTo(r, cr, h, s, n)
  PROVE  \A k \in 1 .. n : TopVar(s[k].f) \in Vars
<1>. SUFFICES ASSUME NEW k \in 1 .. n PROVE TopVar(s[k].f) \in Vars
  OBVIOUS
<1>1. FrameOK(h, s[k])
  BY DEF ChainUpTo
<1>. QED
  BY <1>1, FrameFacts, TopVarProperties

(* An activation is pushed for the call that is about to run.               *)
LEMMA ChainPush ==
  ASSUME NEW r, NEW cr, NEW h, NEW s \in Seq(XFrames), ChainUpTo(r, cr, h, s, Len(s)),
         NEW fr, FrameOK(h, fr), CallOK(r, cr, s, fr.f, fr.c),
         NEW t, t = Append(s, fr)
  PROVE  /\ t \in Seq(XFrames)
         /\ ChainUpTo(r, cr, h, t, Len(t)) /\ CallOK(r, cr, t, AskedFn(fr), AskedCare(fr))
<1>1. PICK n \in Nat : n = Len(s)
  BY LenProperties
<1>2. /\ t \in Seq(XFrames) /\ Len(t) = n + 1 /\ t[n + 1] = fr
      /\ \A k \in 1 .. n : t[k] = s[k]
  BY <1>1, AppendFacts DEF FrameOK
<1>3. /\ \A k \in 0 .. n : /\ WantedFn(r, t, k) = WantedFn(r, s, k)
                           /\ WantedCare(cr, t, k) = WantedCare(cr, s, k)
      /\ ChainUpTo(r, cr, h, t, n)
  <2>1. SamePrefix(s, t, n)
    BY <1>2 DEF SamePrefix
  <2>2. ChainUpTo(r, cr, h, s, n)
    BY <1>1
  <2>3. SameWanted(r, cr, s, t, n)
    BY <2>1, WantedPrefix
  <2>4. ChainUpTo(r, cr, h, t, n)
    BY <2>1, <2>2, ChainPrefix
  <2>. QED
    BY <2>3, <2>4 DEF SameWanted
<1>4. LinkOK(r, cr, t, n + 1)
  <2>1. (n + 1) - 1 = n /\ n \in 0 .. n
    OBVIOUS
  <2>2. fr.f = WantedFn(r, t, n) /\ fr.c = WantedCare(cr, t, n)
    BY <1>1, <1>3, <2>1 DEF CallOK
  <2>3. \A j \in 1 .. n : FreeUpTo(fr.f, TopVar(t[j].f))
    BY <1>1, <1>2 DEF CallOK
  <2>. QED
    BY <2>1, <2>2, <2>3, <1>2 DEF LinkOK
<1>5. ChainUpTo(r, cr, h, t, n + 1)
  <2>1. \A k \in 1 .. n + 1 : k = n + 1 \/ k \in 1 .. n
    OBVIOUS
  <2>. QED
    BY <2>1, <1>2, <1>3, <1>4 DEF ChainUpTo
<1>6. \A j \in 1 .. n + 1 : FreeUpTo(AskedFn(fr), TopVar(t[j].f))
  <2>1. \A j \in 1 .. n + 1 : TopVar(t[j].f) \in Vars
    BY <1>5, ChainTopVars
  <2>2. \A j \in 1 .. n : FreeUpTo(AskedFn(fr), TopVar(t[j].f))
    BY <1>1, <1>2, <2>1, AskedBelowAll DEF CallOK
  <2>3. FreeUpTo(AskedFn(fr), TopVar(t[n + 1].f))
    BY <1>2, AskedBelow
  <2>4. \A j \in 1 .. n + 1 : j = n + 1 \/ j \in 1 .. n
    OBVIOUS
  <2>. QED
    BY <2>2, <2>3, <2>4
<1>7. AskedFn(fr) = WantedFn(r, t, n + 1) /\ AskedCare(fr) = WantedCare(cr, t, n + 1)
  BY <1>2 DEF WantedFn, WantedCare
<1>. QED
  BY <1>2, <1>5, <1>6, <1>7 DEF CallOK

(* The last activation has a result more and makes its next call.           *)
LEMMA ChainAdvance ==
  ASSUME NEW r, NEW cr, NEW h, NEW s \in Seq(XFrames), s # <<>>, ChainUpTo(r, cr, h, s, Len(s)),
         NEW fr, FrameOK(h, fr), fr.f = s[Len(s)].f, fr.c = s[Len(s)].c,
         NEW t \in Seq(XFrames), Len(t) = Len(s), t[Len(s)] = fr,
         \A k \in 1 .. Len(s) - 1 : t[k] = s[k]
  PROVE  /\ ChainUpTo(r, cr, h, t, Len(t)) /\ CallOK(r, cr, t, AskedFn(fr), AskedCare(fr))
<1>1. PICK n \in Nat \ {0} : n = Len(s)
  BY PopProperties
<1>2. Len(t) = n /\ t[n] = fr /\ \A k \in 1 .. n - 1 : t[k] = s[k]
  BY <1>1
<1>3. \A k \in 1 .. n - 1 : k \in 1 .. n
  OBVIOUS
<1>4. ChainUpTo(r, cr, h, s, n - 1)
  BY <1>1, <1>3 DEF ChainUpTo
<1>5. PICK m \in Nat : m = n - 1
  OBVIOUS
<1>6. /\ \A k \in 0 .. n - 1 : /\ WantedFn(r, t, k) = WantedFn(r, s, k)
                               /\ WantedCare(cr, t, k) = WantedCare(cr, s, k)
      /\ ChainUpTo(r, cr, h, t, n - 1)
  <2>1. SamePrefix(s, t, m) /\ ChainUpTo(r, cr, h, s, m)
    BY <1>2, <1>4, <1>5 DEF SamePrefix
  <2>2. SameWanted(r, cr, s, t, m)
    BY <2>1, WantedPrefix
  <2>3. ChainUpTo(r, cr, h, t, m)
    BY <2>1, ChainPrefix
  <2>. QED
    BY <2>2, <2>3, <1>5 DEF SameWanted
<1>7. LinkOK(r, cr, t, n)
  <2>1. LinkOK(r, cr, s, n)
    BY <1>1 DEF ChainUpTo
  <2>2. n - 1 \in 0 .. n - 1
    OBVIOUS
  <2>. QED
    BY <2>1, <2>2, <1>1, <1>2, <1>6 DEF LinkOK
<1>8. ChainUpTo(r, cr, h, t, n)
  <2>1. \A k \in 1 .. n : k = n \/ k \in 1 .. n - 1
    OBVIOUS
  <2>. QED
    BY <2>1, <1>2, <1>6, <1>7 DEF ChainUpTo
<1>9. \A j \in 1 .. n : FreeUpTo(AskedFn(fr), TopVar(t[j].f))
  <2>1. \A j \in 1 .. n : TopVar(t[j].f) \in Vars
    BY <1>8, ChainTopVars
  <2>2. \A j \in 1 .. n - 1 : FreeUpTo(fr.f, TopVar(t[j].f))
    BY <1>2, <1>7 DEF LinkOK
  <2>3. \A j \in 1 .. n - 1 : FreeUpTo(AskedFn(fr), TopVar(t[j].f))
    BY <2>1, <2>2, <1>3, AskedBelowAll
  <2>4. FreeUpTo(AskedFn(fr), TopVar(t[n].f))
    BY <1>2, AskedBelow
  <2>5. \A j \in 1 .. n : j = n \/ j \in 1 .. n - 1
    OBVIOUS
  <2>. QED
    BY <2>3, <2>4, <2>5
<1>10. AskedFn(fr) = WantedFn(r, t, n) /\ AskedCare(fr) = WantedCare(cr, t, n)
  BY <1>2 DEF WantedFn, WantedCare
<1>. QED
  BY <1>2, <1>8, <1>9, <1>10 DEF CallOK

(* The last activation has stored its result and returns it.  The pairs of  *)
(* the others are still missing: their functions are not the one stored.    *)
LEMMA ChainPop ==
  ASSUME NEW r, NEW cr, NEW h, NEW s \in Seq(XFrames), s # <<>>, ChainUpTo(r, cr, h, s, Len(s)),
         NEW g, Extends(h, g), DOMAIN g = DOMAIN h \cup {<<s[Len(s)].f, s[Len(s)].c>>},
         NEW x, Returns(g, x, s[Len(s)].f, s[Len(s)].c),
         NEW t, t = Pop(s)
  PROVE  /\ t \in Seq(XFrames)
         /\ ChainUpTo(r, cr, g, t, Len(t)) /\ ReturnOK(r, cr, g, t, x)
<1>1. PICK n \in Nat \ {0} : n = Len(s)
  BY PopProperties
<1>2. t \in Seq(XFrames) /\ Len(t) = n - 1 /\ \A k \in 1 .. n - 1 : t[k] = s[k]
  BY <1>1, PopProperties
<1>3. LinkOK(r, cr, s, n) /\ FrameOK(h, s[n])
  BY <1>1 DEF ChainUpTo
<1>4. \A k \in 1 .. n - 1 : k \in 1 .. n
  OBVIOUS
<1>5. ASSUME NEW k \in 1 .. n - 1
      PROVE  FrameOK(g, s[k]) /\ LinkOK(r, cr, s, k)
  <2>1. FrameOK(h, s[k]) /\ LinkOK(r, cr, s, k)
    BY <1>1, <1>4 DEF ChainUpTo
  <2>2. s[k].f \in Fns /\ ~IsConstant(s[k].f) /\ <<s[k].f, s[k].c>> \notin DOMAIN h
    BY <2>1, FrameFacts
  <2>3. FreeUpTo(s[n].f, TopVar(s[k].f))
    BY <1>3 DEF LinkOK
  <2>4. s[n].f # s[k].f
    BY <2>2, <2>3, NotAgain
  <2>5. <<s[k].f, s[k].c>> \notin DOMAIN g
    BY <2>2, <2>4, <1>1
  <2>6. s[k].exp = "open" => GotOK(g, s[k].fn, s[k].f, s[k].c, s[k].got)
    BY <2>1, ExtendsKeeps DEF FrameOK
  <2>. QED
    BY <2>1, <2>5, <2>6 DEF FrameOK
<1>6. ChainUpTo(r, cr, g, s, n - 1)
  BY <1>5 DEF ChainUpTo
<1>7. n - 1 \in Nat /\ n - 1 \in 0 .. n - 1
  OBVIOUS
<1>8. /\ WantedFn(r, t, n - 1) = WantedFn(r, s, n - 1)
      /\ WantedCare(cr, t, n - 1) = WantedCare(cr, s, n - 1)
      /\ ChainUpTo(r, cr, g, t, n - 1)
  <2>1. PICK m \in Nat : m = n - 1
    BY <1>7
  <2>2. SamePrefix(s, t, m) /\ ChainUpTo(r, cr, g, s, m) /\ m \in 0 .. m
    BY <2>1, <1>2, <1>6 DEF SamePrefix
  <2>3. SameWanted(r, cr, s, t, m)
    BY <2>2, WantedPrefix
  <2>4. ChainUpTo(r, cr, g, t, m)
    BY <2>2, ChainPrefix
  <2>. QED
    BY <2>1, <2>2, <2>3, <2>4 DEF SameWanted
<1>9. s[n].f = WantedFn(r, s, n - 1) /\ s[n].c = WantedCare(cr, s, n - 1)
  BY <1>3 DEF LinkOK
<1>. QED
  BY <1>1, <1>2, <1>8, <1>9 DEF ReturnOK

-----------------------------------------------------------------------------
(* The first pass.                                                          *)
SearchTypeOK ==
  /\ root \in Fns /\ croot \in Fns /\ naive \in BOOLEAN
  /\ phase \in {"search", "gen"}
  /\ xpc \in {"call", "return"} /\ xfn \in Passes /\ xarg \in Fns /\ xcare \in Fns
  /\ xstack \in Seq(XFrames)
  /\ ret \in Results

(* Without -n there is only firstPass.                                      *)
OnlyFirst(nv, fn, s) ==
  ~nv => fn = "firstPass" /\ \A k \in 1 .. Len(s) : s[k].fn = "firstPass"

SearchInv ==
  /\ TableOK(hash, naive)
  /\ ChainUpTo(root, croot, hash, xstack, Len(xstack))
  /\ OnlyFirst(naive, xfn, xstack)
  /\ xpc = "call" => CallOK(root, croot, xstack, xarg, xcare)
  /\ xpc = "return" => ReturnOK(root, croot, hash, xstack, ret)

SearchStepOK == SearchTypeOK' /\ SearchInv' /\ Extends(hash, hash')

LEMMA ExtendsItself == \A h : Extends(h, h)
BY DEF Extends

LEMMA SearchInit == ASSUME Init PROVE SearchTypeOK /\ SearchInv
<1>1. root \in Fns /\ croot \in Fns /\ naive \in BOOLEAN
  BY RootsAssumption, IsfAssumption DEF Init, GInit
<1>2. xfn \in Passes /\ (~naive => xfn = "firstPass")
  BY DEF Init, Passes
<1>3. DOMAIN hash = {} /\ xstack = <<>> /\ Len(xstack) = 0 /\ xstack \in Seq(XFrames)
  BY EmptySeq DEF Init
<1>4. ret \in Results
  BY ZeroOne DEF Init, Result, Results
<1>5. SearchTypeOK
  BY <1>1, <1>2, <1>3, <1>4 DEF Init, SearchTypeOK
<1>6. TableOK(hash, naive)
  BY <1>3 DEF TableOK
<1>7. /\ ChainUpTo(root, croot, hash, xstack, Len(xstack))
      /\ OnlyFirst(naive, xfn, xstack)
      /\ CallOK(root, croot, xstack, xarg, xcare)
  BY <1>2, <1>3 DEF ChainUpTo, OnlyFirst, CallOK, WantedFn, WantedCare, Init
<1>. QED
  BY <1>5, <1>6, <1>7 DEF Init, SearchInv

(* A result that needs no activation.                                       *)
LEMMA StepReturn ==
  ASSUME SearchTypeOK, SearchInv, xpc = "call", Returns(hash, ret', xarg, xcare),
         xpc' = "return",
         UNCHANGED <<gvars, phase, care, croot, naive, hash, xfn, xarg, xcare, xstack>>
  PROVE  SearchStepOK
<1>1. /\ root' = root /\ croot' = croot /\ naive' = naive /\ phase' = phase /\ hash' = hash
      /\ xfn' = xfn /\ xarg' = xarg /\ xcare' = xcare /\ xstack' = xstack
  BY DEF gvars
<1>2. ret' \in Results
  BY DEF Returns, GoodResult
<1>3. SearchTypeOK'
  BY <1>1, <1>2 DEF SearchTypeOK
<1>4. ReturnOK(root, croot, hash, xstack, ret')
  BY DEF SearchInv, CallOK, ReturnOK
<1>5. SearchInv'
  BY <1>1, <1>4 DEF SearchInv
<1>. QED
  BY <1>1, <1>3, <1>5, ExtendsItself DEF SearchStepOK

LEMMA StepConstant ==
  ASSUME SearchTypeOK, SearchInv, PassConstant
  PROVE  SearchStepOK
<1>1. ret' = Result(xarg, IF xarg = One THEN 1 ELSE 0) /\ IsConstant(xarg)
  BY DEF PassConstant
<1>2. GoodResult(ret', xarg, xcare)
  BY <1>1, ConstantResult DEF SearchTypeOK
<1>3. ret'.f = xarg /\ ret'.cost = IF xarg = One THEN 1 ELSE 0
  BY <1>1 DEF Result
<1>4. Returns(hash, ret', xarg, xcare)
  BY <1>1, <1>2, <1>3, ConstantLeast DEF Returns, Known, Chosen, PairCost
<1>. QED
  BY <1>4, StepReturn DEF PassConstant

LEMMA StepMemo ==
  ASSUME SearchTypeOK, SearchInv, PassMemo
  PROVE  SearchStepOK
<1>1. /\ ret' = Result(hash[<<xarg, xcare>>].fret, hash[<<xarg, xcare>>].cost)
      /\ ~IsConstant(xarg) /\ <<xarg, xcare>> \in DOMAIN hash
  BY DEF PassMemo
<1>2. EntryOK(hash, naive, xarg, xcare)
  BY <1>1 DEF SearchInv, TableOK
<1>3. ret'.f = hash[<<xarg, xcare>>].fret /\ ret'.cost = hash[<<xarg, xcare>>].cost
  BY <1>1 DEF Result
<1>4. Returns(hash, ret', xarg, xcare)
  BY <1>1, <1>2, <1>3 DEF EntryOK, Returns, Known, Chosen, PairCost
<1>. QED
  BY <1>4, StepReturn DEF PassMemo

(* A new activation, and its first call.                                    *)
LEMMA StepPush ==
  ASSUME SearchTypeOK, SearchInv, NewPair,
         NEW e \in {"C0", "C1", "open"}, xstack' = Append(xstack, Frame(e)),
         FrameOK(hash, Frame(e)),
         NEW fn \in Passes, ~naive => fn = "firstPass",
         NEW F, NEW C, Call(fn, F, C), F = AskedFn(Frame(e)), C = AskedCare(Frame(e)),
         UNCHANGED <<gvars, phase, care, croot, naive, hash, ret>>
  PROVE  SearchStepOK
<1>1. /\ root' = root /\ croot' = croot /\ naive' = naive /\ phase' = phase /\ hash' = hash
      /\ ret' = ret /\ xpc' = "call" /\ xfn' = fn /\ xarg' = F /\ xcare' = C
  BY DEF gvars, Call
<1>2. PICK fr : fr = Frame(e)
  OBVIOUS
<1>3. fr.f = xarg /\ fr.c = xcare /\ fr.fn = xfn
  BY <1>2 DEF Frame
<1>4. /\ xstack \in Seq(XFrames) /\ ChainUpTo(root, croot, hash, xstack, Len(xstack))
      /\ CallOK(root, croot, xstack, fr.f, fr.c) /\ FrameOK(hash, fr)
  BY <1>2, <1>3 DEF SearchTypeOK, SearchInv, NewPair
<1>5. PICK t : t = Append(xstack, fr)
  OBVIOUS
<1>6. /\ t \in Seq(XFrames) /\ ChainUpTo(root, croot, hash, t, Len(t))
      /\ CallOK(root, croot, t, AskedFn(fr), AskedCare(fr))
  BY <1>4, <1>5, ChainPush
<1>7. xstack' = t
  BY <1>2, <1>5
<1>8. OnlyFirst(naive, fn, t)
  <2>1. PICK n \in Nat : n = Len(xstack)
    BY <1>4, LenProperties
  <2>2. Len(t) = n + 1 /\ t[n + 1] = fr /\ \A k \in 1 .. n : t[k] = xstack[k]
    BY <1>4, <1>5, <2>1, AppendFacts DEF FrameOK
  <2>3. \A k \in 1 .. n + 1 : k = n + 1 \/ k \in 1 .. n
    OBVIOUS
  <2>. QED
    BY <2>1, <2>2, <2>3, <1>3 DEF OnlyFirst, SearchInv
<1>9. F \in Fns /\ C \in Fns
  BY <1>2, <1>4, AskedBelow
<1>10. SearchTypeOK'
  BY <1>1, <1>6, <1>7, <1>9 DEF SearchTypeOK
<1>11. SearchInv'
  BY <1>1, <1>2, <1>6, <1>7, <1>8 DEF SearchInv
<1>. QED
  BY <1>1, <1>10, <1>11, ExtendsItself DEF SearchStepOK

LEMMA FrameTypes ==
  ASSUME SearchTypeOK, NEW e \in {"C0", "C1", "open"}
  PROVE  /\ Frame(e) \in XFrames /\ Frame(e).fn = xfn /\ Frame(e).f = xarg
         /\ Frame(e).c = xcare /\ Frame(e).exp = e /\ Frame(e).got = <<>>
BY EmptySeq DEF SearchTypeOK, Frame, XFrames

LEMMA StepSkip ==
  ASSUME SearchTypeOK, SearchInv, PassSkip
  PROVE  SearchStepOK
<1>1. /\ NewPair
      /\ UNCHANGED <<gvars, phase, care, croot, naive, hash, ret>>
  BY DEF PassSkip
<1>2. "firstPass" \in Passes
  BY DEF Passes
<1>3. CASE /\ C0Of(xarg, xcare) = Zero
           /\ xstack' = Append(xstack, Frame("C0"))
           /\ Call("firstPass", T1(xarg), C1Of(xarg, xcare))
  <2>1. FrameOK(hash, Frame("C0"))
    BY <1>1, <1>3, FrameTypes DEF FrameOK, NewPair
  <2>2. T1(xarg) = AskedFn(Frame("C0")) /\ C1Of(xarg, xcare) = AskedCare(Frame("C0"))
    BY FrameTypes DEF AskedFn, AskedCare
  <2>. QED
    BY <1>1, <1>2, <1>3, <2>1, <2>2, StepPush
<1>4. CASE /\ C1Of(xarg, xcare) = Zero
           /\ xstack' = Append(xstack, Frame("C1"))
           /\ Call("firstPass", E0(xarg), C0Of(xarg, xcare))
  <2>1. FrameOK(hash, Frame("C1"))
    BY <1>1, <1>4, FrameTypes DEF FrameOK, NewPair
  <2>2. E0(xarg) = AskedFn(Frame("C1")) /\ C0Of(xarg, xcare) = AskedCare(Frame("C1"))
    BY FrameTypes DEF AskedFn, AskedCare
  <2>. QED
    BY <1>1, <1>2, <1>4, <2>1, <2>2, StepPush
<1>. QED
  BY <1>3, <1>4 DEF PassSkip

LEMMA StepEnter ==
  ASSUME SearchTypeOK, SearchInv, PassEnter
  PROVE  SearchStepOK
<1>1. /\ NewPair /\ C0Of(xarg, xcare) # Zero /\ C1Of(xarg, xcare) # Zero
      /\ xstack' = Append(xstack, Frame("open"))
      /\ Call(xfn, E0(xarg), C0Of(xarg, xcare))
      /\ UNCHANGED <<gvars, phase, care, croot, naive, hash, ret>>
  BY DEF PassEnter
<1>2. PICK fr : fr = Frame("open")
  OBVIOUS
<1>3. /\ fr \in XFrames /\ fr.fn = xfn /\ fr.f = xarg /\ fr.c = xcare /\ fr.exp = "open"
      /\ fr.got = <<>> /\ Len(fr.got) = 0
  BY <1>2, FrameTypes, EmptySeq
<1>4. FrameOK(hash, fr)
  <2>1. GotOK(hash, fr.fn, fr.f, fr.c, fr.got) /\ SomeCost(fr.got)
    BY <1>3 DEF GotOK, SomeCost
  <2>. QED
    BY <1>1, <1>3, <2>1 DEF FrameOK, NewPair
<1>5. AskedFn(fr) = E0(xarg) /\ AskedCare(fr) = C0Of(xarg, xcare)
  BY <1>3 DEF AskedFn, AskedCare, OpenFn, OpenCare
<1>6. xfn \in Passes /\ (~naive => xfn = "firstPass")
  BY DEF SearchTypeOK, SearchInv, OnlyFirst
<1>. QED
  BY <1>1, <1>2, <1>4, <1>5, <1>6, StepPush

(* The activation a result is returned to.                                  *)
LEMMA TopActivation ==
  ASSUME SearchTypeOK, SearchInv, NEW e, Returned(e)
  PROVE  /\ xstack \in Seq(XFrames) /\ xstack # <<>> /\ Len(xstack) \in Nat \ {0}
         /\ XTop = xstack[Len(xstack)] /\ XTop.exp = e
         /\ FrameOK(hash, XTop)
         /\ Returns(hash, ret, AskedFn(XTop), AskedCare(XTop))
         /\ ret \in Results
         /\ ~naive => XTop.fn = "firstPass"
<1>1. xstack \in Seq(XFrames) /\ xstack # <<>> /\ ret \in Results /\ XTop.exp = e /\ xpc = "return"
  BY DEF SearchTypeOK, Returned
<1>2. PICK n \in Nat \ {0} : n = Len(xstack)
  BY <1>1, PopProperties
<1>3. n \in 1 .. n
  OBVIOUS
<1>4. FrameOK(hash, xstack[n])
  BY <1>2, <1>3 DEF SearchInv, ChainUpTo
<1>5. ReturnOK(root, croot, hash, xstack, ret)
  BY <1>1 DEF SearchInv
<1>6. Returns(hash, ret, AskedFn(xstack[n]), AskedCare(xstack[n]))
  BY <1>2, <1>5 DEF ReturnOK, WantedFn, WantedCare
<1>7. ~naive => xstack[n].fn = "firstPass"
  BY <1>2, <1>3 DEF SearchInv, OnlyFirst
<1>. QED
  BY <1>1, <1>2, <1>4, <1>6, <1>7 DEF XTop

(* Its results with the new one.                                            *)
LEMMA GotFacts ==
  ASSUME SearchTypeOK, SearchInv, Returned("open")
  PROVE  /\ Got \in Seq(Results) /\ Len(XTop.got) \in Nat /\ Len(Got) = Len(XTop.got) + 1
         /\ GotOK(hash, XTop.fn, XTop.f, XTop.c, Got)
         /\ C0Of(XTop.f, XTop.c) # Zero /\ C1Of(XTop.f, XTop.c) # Zero
         /\ Len(Got) <= IF XTop.fn = "firstPassNaive" THEN 3 ELSE 4
<1>1. /\ FrameOK(hash, XTop) /\ XTop.exp = "open" /\ ret \in Results
      /\ Returns(hash, ret, AskedFn(XTop), AskedCare(XTop))
  BY TopActivation
<1>2. /\ XTop.got \in Seq(Results) /\ Len(XTop.got) \in Nat
      /\ XTop.fn \in Passes
  BY <1>1, FrameFacts
<1>3. /\ C0Of(XTop.f, XTop.c) # Zero /\ C1Of(XTop.f, XTop.c) # Zero
      /\ Len(XTop.got) < IF XTop.fn = "firstPassNaive" THEN 3 ELSE 4
      /\ GotOK(hash, XTop.fn, XTop.f, XTop.c, XTop.got)
  BY <1>1 DEF FrameOK
<1>4. /\ AskedFn(XTop) = OpenFn(XTop.f, XTop.got, Len(XTop.got) + 1)
      /\ AskedCare(XTop) = OpenCare(XTop.fn, XTop.f, XTop.c, Len(XTop.got) + 1)
  BY <1>1 DEF AskedFn, AskedCare
<1>5. GotOK(hash, XTop.fn, XTop.f, XTop.c, Append(XTop.got, ret))
  BY <1>1, <1>2, <1>3, <1>4, GotGrows
<1>6. Append(XTop.got, ret) \in Seq(Results) /\ Len(Append(XTop.got, ret)) = Len(XTop.got) + 1
  BY <1>1, <1>2, AppendFacts
<1>7. Len(XTop.got) + 1 <= IF XTop.fn = "firstPassNaive" THEN 3 ELSE 4
  BY <1>2, <1>3
<1>. QED
  BY <1>2, <1>3, <1>5, <1>6, <1>7 DEF Got

LEMMA StepNext ==
  ASSUME SearchTypeOK, SearchInv, PassNext
  PROVE  SearchStepOK
<1>1. /\ Returned("open") /\ ~Complete
      /\ xstack' = [xstack EXCEPT ![Len(xstack)].got = Got]
      /\ UNCHANGED <<gvars, phase, care, croot, naive, hash, ret>>
  BY DEF PassNext
<1>2. /\ root' = root /\ croot' = croot /\ naive' = naive /\ phase' = phase /\ hash' = hash
      /\ ret' = ret
  BY <1>1 DEF gvars
<1>3. PICK fr : fr = XTop
  OBVIOUS
<1>4. PICK n \in Nat \ {0} : n = Len(xstack)
  BY <1>1, TopActivation
<1>5. /\ xstack \in Seq(XFrames) /\ xstack # <<>> /\ fr = xstack[n] /\ fr.exp = "open"
      /\ FrameOK(hash, fr)
      /\ ~naive => fr.fn = "firstPass"
  BY <1>1, <1>3, <1>4, TopActivation
<1>6. PICK got : got = Got
  OBVIOUS
<1>7. PICK m \in Nat : m = Len(XTop.got)
  BY <1>1, GotFacts
<1>8. /\ got \in Seq(Results) /\ Len(got) = m + 1
      /\ GotOK(hash, fr.fn, fr.f, fr.c, got)
      /\ C0Of(fr.f, fr.c) # Zero /\ C1Of(fr.f, fr.c) # Zero
      /\ Len(got) < IF fr.fn = "firstPassNaive" THEN 3 ELSE 4
  <2>1. Len(got) # IF fr.fn = "firstPassNaive" THEN 3 ELSE 4
    BY <1>1, <1>3, <1>6 DEF Complete
  <2>2. /\ got \in Seq(Results) /\ Len(got) = m + 1
        /\ GotOK(hash, fr.fn, fr.f, fr.c, got)
        /\ C0Of(fr.f, fr.c) # Zero /\ C1Of(fr.f, fr.c) # Zero
        /\ Len(got) <= IF fr.fn = "firstPassNaive" THEN 3 ELSE 4
    BY <1>1, <1>3, <1>6, <1>7, GotFacts
  <2>. QED
    BY <2>1, <2>2
<1>9. fr.fn \in Passes /\ fr.f \in Fns /\ fr.c \in Fns /\ ~IsConstant(fr.f)
      /\ <<fr.f, fr.c>> \notin DOMAIN hash
  BY <1>5, FrameFacts
<1>10. PICK g : g = [fr EXCEPT !.got = got]
  OBVIOUS
<1>11. /\ g \in XFrames /\ g.fn = fr.fn /\ g.f = fr.f /\ g.c = fr.c /\ g.exp = "open"
       /\ g.got = got
  <2>1. fr \in XFrames
    BY <1>5 DEF FrameOK
  <2>. QED
    BY <2>1, <1>5, <1>8, <1>10 DEF XFrames
<1>12. FrameOK(hash, g)
  <2>1. g.exp # "C0" /\ g.exp # "C1"
    BY <1>11
  <2>2. SomeCost(got)
    <3>1. CASE m = 0
      BY <3>1, <1>8 DEF SomeCost
    <3>2. CASE m = 1
      BY <3>2, <1>6, <1>8 DEF SomeCost, PassNext, BothZero
    <3>3. CASE m >= 2
      <4>1. fr.got \in Seq(Results) /\ Len(fr.got) = m /\ ret \in Results
        BY <1>3, <1>5, <1>7, FrameFacts DEF SearchTypeOK
      <4>2. 1 \in 1 .. m /\ 2 \in 1 .. m
        BY <3>3
      <4>3. got[1] = fr.got[1] /\ got[2] = fr.got[2]
        BY <1>3, <1>6, <4>1, <4>2, AppendFacts DEF Got
      <4>. QED
        BY <3>3, <4>1, <4>3, <1>5 DEF FrameOK, SomeCost
    <3>. QED
      BY <3>1, <3>2, <3>3
  <2>. QED
    BY <2>1, <2>2, <1>8, <1>9, <1>11 DEF FrameOK
<1>13. PICK t : t = xstack'
  OBVIOUS
<1>14. /\ t \in Seq(XFrames) /\ Len(t) = n /\ t[n] = g
       /\ \A k \in 1 .. n - 1 : t[k] = xstack[k]
  <2>1. t = [xstack EXCEPT ![n] = g]
    BY <1>1, <1>3, <1>4, <1>5, <1>6, <1>10, <1>13
  <2>2. n \in 1 .. Len(xstack)
    BY <1>4
  <2>. QED
    BY <2>1, <2>2, <1>4, <1>5, <1>11
<1>15. /\ ChainUpTo(root, croot, hash, t, Len(t))
       /\ CallOK(root, croot, t, AskedFn(g), AskedCare(g))
  <2>1. /\ g.f = xstack[Len(xstack)].f /\ g.c = xstack[Len(xstack)].c
        /\ Len(t) = Len(xstack) /\ t[Len(xstack)] = g
        /\ \A k \in 1 .. Len(xstack) - 1 : t[k] = xstack[k]
    BY <1>4, <1>5, <1>11, <1>14
  <2>2. ChainUpTo(root, croot, hash, xstack, Len(xstack))
    BY DEF SearchInv
  <2>. QED
    BY <2>1, <2>2, <1>5, <1>12, <1>14, ChainAdvance
<1>16. Call(fr.fn, AskedFn(g), AskedCare(g))
  <2>1. /\ AskedFn(g) = OpenFn(fr.f, got, m + 2)
        /\ AskedCare(g) = OpenCare(fr.fn, fr.f, fr.c, m + 2)
    <3>1. Len(got) + 1 = m + 2
      BY <1>8
    <3>. QED
      BY <3>1, <1>11 DEF AskedFn, AskedCare
  <2>2. /\ m + 1 = 1 => Call(fr.fn, T1(fr.f), C1Of(fr.f, fr.c))
        /\ m + 1 = 2 => Call(fr.fn, Xor(got[1].f, got[2].f),
                             IF fr.fn = "firstPassNaive" THEN C0Of(fr.f, fr.c) \cup C1Of(fr.f, fr.c)
                             ELSE C0Of(fr.f, fr.c))
        /\ m + 1 = 3 => Call(fr.fn, Xor(got[1].f, got[2].f), C1Of(fr.f, fr.c))
    <3>1. Len(Got) = 1 => Call(XTop.fn, T1(XTop.f), C1Of(XTop.f, XTop.c))
      BY DEF PassNext, Call
    <3>2. Len(Got) = 2 => Call(XTop.fn, Xor(Got[1].f, Got[2].f),
                               IF XTop.fn = "firstPassNaive"
                               THEN C0Of(XTop.f, XTop.c) \cup C1Of(XTop.f, XTop.c)
                               ELSE C0Of(XTop.f, XTop.c))
      BY DEF PassNext, Call
    <3>3. Len(Got) = 3 => Call(XTop.fn, Xor(Got[1].f, Got[2].f), C1Of(XTop.f, XTop.c))
      BY DEF PassNext, Call
    <3>. QED
      BY <3>1, <3>2, <3>3, <1>3, <1>6, <1>8
  <2>3. CASE m = 0
    <3>1. OpenFn(fr.f, got, m + 2) = T1(fr.f) /\ OpenCare(fr.fn, fr.f, fr.c, m + 2) = C1Of(fr.f, fr.c)
      BY <2>3 DEF OpenFn, OpenCare
    <3>2. Call(fr.fn, T1(fr.f), C1Of(fr.f, fr.c))
      BY <2>2, <2>3
    <3>. QED
      BY <2>1, <3>1, <3>2
  <2>4. CASE m = 1
    <3>1. PICK D : D = IF fr.fn = "firstPassNaive" THEN C0Of(fr.f, fr.c) \cup C1Of(fr.f, fr.c)
                       ELSE C0Of(fr.f, fr.c)
      OBVIOUS
    <3>2. OpenFn(fr.f, got, m + 2) = Xor(got[1].f, got[2].f)
      BY <2>4 DEF OpenFn
    <3>3. OpenCare(fr.fn, fr.f, fr.c, m + 2) = D
      BY <2>4, <3>1 DEF OpenCare
    <3>4. Call(fr.fn, Xor(got[1].f, got[2].f), D)
      BY <2>2, <2>4, <3>1
    <3>. QED
      BY <2>1, <3>2, <3>3, <3>4
  <2>5. CASE m = 2
    <3>1. fr.fn # "firstPassNaive"
      BY <2>5, <1>8
    <3>2. /\ OpenFn(fr.f, got, m + 2) = Xor(got[1].f, got[2].f)
          /\ OpenCare(fr.fn, fr.f, fr.c, m + 2) = C1Of(fr.f, fr.c)
      BY <2>5, <3>1 DEF OpenFn, OpenCare
    <3>3. Call(fr.fn, Xor(got[1].f, got[2].f), C1Of(fr.f, fr.c))
      BY <2>2, <2>5
    <3>. QED
      BY <2>1, <3>2, <3>3
  <2>6. m = 0 \/ m = 1 \/ m = 2
    BY <1>8
  <2>. QED
    BY <2>3, <2>4, <2>5, <2>6
<1>17. /\ xpc' = "call" /\ xfn' = fr.fn /\ xarg' = AskedFn(g) /\ xcare' = AskedCare(g)
  BY <1>16 DEF Call
<1>18. OnlyFirst(naive, fr.fn, t)
  <2>1. \A k \in 1 .. n : k = n \/ k \in 1 .. n - 1
    OBVIOUS
  <2>2. \A k \in 1 .. n - 1 : k \in 1 .. n
    OBVIOUS
  <2>3. ~naive => \A k \in 1 .. n : xstack[k].fn = "firstPass"
    BY <1>4 DEF SearchInv, OnlyFirst
  <2>. QED
    BY <2>1, <2>2, <2>3, <1>5, <1>11, <1>14 DEF OnlyFirst
<1>19. AskedFn(g) \in Fns /\ AskedCare(g) \in Fns
  BY <1>12, AskedBelow
<1>20. SearchTypeOK'
  BY <1>2, <1>9, <1>13, <1>14, <1>17, <1>19 DEF SearchTypeOK
<1>21. SearchInv'
  BY <1>2, <1>13, <1>15, <1>17, <1>18 DEF SearchInv
<1>. QED
  BY <1>2, <1>20, <1>21, ExtendsItself DEF SearchStepOK

(* An activation stores what it owes and returns it.                        *)
LEMMA StepReturnEntry ==
  ASSUME SearchTypeOK, SearchInv, NEW e, Returned(e),
         NEW entry, OwedEntry(hash, XTop.fn, XTop.f, XTop.c, entry), PassReturn(entry)
  PROVE  SearchStepOK
<1>1. /\ root' = root /\ croot' = croot /\ naive' = naive /\ phase' = phase
      /\ xpc' = xpc /\ xfn' = xfn /\ xarg' = xarg /\ xcare' = xcare
      /\ xstack' = Pop(xstack) /\ hash' = Store(hash, <<XTop.f, XTop.c>>, entry)
  BY DEF PassReturn, gvars
<1>2. /\ xstack \in Seq(XFrames) /\ xstack # <<>>
      /\ XTop = xstack[Len(xstack)] /\ FrameOK(hash, XTop)
      /\ ~naive => XTop.fn = "firstPass"
  BY TopActivation
<1>3. PICK n \in Nat \ {0} : n = Len(xstack)
  BY TopActivation
<1>4. PICK F : F = XTop.f
  OBVIOUS
<1>5. PICK C : C = XTop.c
  OBVIOUS
<1>6. F \in Fns /\ C \in Fns /\ ~IsConstant(F) /\ <<F, C>> \notin DOMAIN hash
  BY <1>2, <1>4, <1>5, FrameFacts
<1>7. /\ entry \in Entries /\ GoodResult(Result(entry.fret, entry.cost), F, C)
      /\ Least(entry.cost, F, C)
      /\ ~naive \/ C = One => ClosedOK(hash, F, C, entry)
  BY <1>2, <1>4, <1>5 DEF OwedEntry, Follows
<1>8. PICK g : g = Store(hash, <<F, C>>, entry)
  OBVIOUS
<1>9. PICK x : x = Result(entry.fret, entry.cost)
  OBVIOUS
<1>10. /\ TableOK(g, naive) /\ Extends(hash, g) /\ DOMAIN g = DOMAIN hash \cup {<<F, C>>}
       /\ Returns(g, x, F, C)
  <2>1. TableOK(hash, naive)
    BY DEF SearchInv
  <2>. QED
    BY <2>1, <1>6, <1>7, <1>8, <1>9, StoreTable
<1>11. PICK t : t = Pop(xstack)
  OBVIOUS
<1>12. /\ t \in Seq(XFrames)
       /\ ChainUpTo(root, croot, g, t, Len(t)) /\ ReturnOK(root, croot, g, t, x)
  <2>1. F = xstack[Len(xstack)].f /\ C = xstack[Len(xstack)].c
    BY <1>2, <1>4, <1>5
  <2>2. ChainUpTo(root, croot, hash, xstack, Len(xstack))
    BY DEF SearchInv
  <2>3. /\ DOMAIN g = DOMAIN hash \cup {<<xstack[Len(xstack)].f, xstack[Len(xstack)].c>>}
        /\ Returns(g, x, xstack[Len(xstack)].f, xstack[Len(xstack)].c)
    BY <2>1, <1>10
  <2>. QED
    BY <2>2, <2>3, <1>2, <1>10, <1>11, ChainPop
<1>13. ret' = x /\ xpc' = "return" /\ hash' = g /\ xstack' = t
  BY <1>1, <1>4, <1>5, <1>8, <1>9, <1>11 DEF PassReturn, Returned
<1>14. OnlyFirst(naive, xfn, t)
  <2>1. Len(t) = n - 1 /\ \A k \in 1 .. n - 1 : t[k] = xstack[k]
    BY <1>2, <1>3, <1>11, PopProperties
  <2>2. \A k \in 1 .. n - 1 : k \in 1 .. n
    OBVIOUS
  <2>. QED
    BY <2>1, <2>2, <1>3 DEF OnlyFirst, SearchInv
<1>15. x \in Results
  BY <1>10 DEF Returns, GoodResult
<1>16. SearchTypeOK'
  BY <1>1, <1>12, <1>13, <1>15 DEF SearchTypeOK
<1>17. SearchInv'
  BY <1>1, <1>10, <1>12, <1>13, <1>14 DEF SearchInv
<1>. QED
  BY <1>10, <1>13, <1>16, <1>17 DEF SearchStepOK

LEMMA StepStoreSkip ==
  ASSUME SearchTypeOK, SearchInv, PassStoreSkip
  PROVE  SearchStepOK
<1>1. PICK e \in {"C0", "C1"} : Returned(e)
  BY DEF PassStoreSkip
<1>2. PICK fr : fr = XTop
  OBVIOUS
<1>3. fr.exp = e /\ FrameOK(hash, fr) /\ Returns(hash, ret, AskedFn(fr), AskedCare(fr))
  BY <1>1, <1>2, TopActivation
<1>4. fr.f \in Fns /\ fr.c \in Fns /\ ~IsConstant(fr.f)
  BY <1>3, FrameFacts
<1>5. \/ /\ e = "C0" /\ C0Of(fr.f, fr.c) = Zero
         /\ Returns(hash, ret, T1(fr.f), C1Of(fr.f, fr.c))
      \/ /\ e = "C1" /\ C1Of(fr.f, fr.c) = Zero
         /\ Returns(hash, ret, E0(fr.f), C0Of(fr.f, fr.c))
  BY <1>1, <1>3 DEF FrameOK, AskedFn, AskedCare
<1>6. OwedEntry(hash, fr.fn, fr.f, fr.c, Entry(ret.f, Zero, e, ret.cost))
  BY <1>4, <1>5, SkipEntry
<1>7. PassReturn(Entry(ret.f, Zero, e, ret.cost))
  BY <1>2, <1>3 DEF PassStoreSkip
<1>. QED
  BY <1>1, <1>2, <1>6, <1>7, StepReturnEntry

(* Both halves are cared about: their results are in.                       *)
LEMMA OpenHalves ==
  ASSUME SearchTypeOK, SearchInv, Returned("open"), Len(Got) >= 2
  PROVE  /\ BothHalves(XTop.f, XTop.c, Got[1], Got[2])
         /\ Returns(hash, Got[1], E0(XTop.f), C0Of(XTop.f, XTop.c))
         /\ Returns(hash, Got[2], T1(XTop.f), C1Of(XTop.f, XTop.c))
<1>1. FrameOK(hash, XTop)
  BY TopActivation
<1>2. XTop.f \in Fns /\ XTop.c \in Fns /\ ~IsConstant(XTop.f)
  BY <1>1, FrameFacts
<1>3. /\ Got \in Seq(Results) /\ GotOK(hash, XTop.fn, XTop.f, XTop.c, Got)
      /\ C0Of(XTop.f, XTop.c) # Zero /\ C1Of(XTop.f, XTop.c) # Zero
  BY GotFacts
<1>. QED
  BY <1>2, <1>3, GotHalves

LEMMA StepStoreZero ==
  ASSUME SearchTypeOK, SearchInv, PassStoreZero
  PROVE  SearchStepOK
<1>1. Returned("open") /\ Len(Got) = 2 /\ Got[1].cost = 0 /\ Got[2].cost = 0
      /\ PassReturn(Entry(Zero, Zero, "F0", 0))
  BY DEF PassStoreZero, BothZero
<1>2. BothHalves(XTop.f, XTop.c, Got[1], Got[2])
  BY <1>1, OpenHalves
<1>3. OwedEntry(hash, XTop.fn, XTop.f, XTop.c, Entry(Zero, Zero, "F0", 0))
  BY <1>1, <1>2, ZeroEntry
<1>. QED
  BY <1>1, <1>3, StepReturnEntry

(* All results are in: those for F2, and the decision.                      *)
LEMMA CompleteFacts ==
  ASSUME SearchTypeOK, SearchInv, Returned("open"), Complete
  PROVE  /\ BothHalves(XTop.f, XTop.c, Got[1], Got[2])
         /\ Returns(hash, Got[1], E0(XTop.f), C0Of(XTop.f, XTop.c))
         /\ Returns(hash, Got[2], T1(XTop.f), C1Of(XTop.f, XTop.c))
         /\ ~(Got[1].cost = 0 /\ Got[2].cost = 0)
         /\ XorResults(hash, XTop.fn, XTop.f, XTop.c, Got, Half1)
<1>1. FrameOK(hash, XTop) /\ XTop.exp = "open" /\ ret \in Results
  BY TopActivation
<1>2. XTop.fn \in Passes /\ XTop.got \in Seq(Results)
  BY <1>1, FrameFacts
<1>3. /\ Got \in Seq(Results) /\ GotOK(hash, XTop.fn, XTop.f, XTop.c, Got)
      /\ Len(XTop.got) \in Nat /\ Len(Got) = Len(XTop.got) + 1
  BY GotFacts
<1>4. Len(Got) = IF XTop.fn = "firstPassNaive" THEN 3 ELSE 4
  BY DEF Complete
<1>5. Len(Got) >= 2 /\ Len(XTop.got) >= 2
  <2>1. Len(Got) = 3 \/ Len(Got) = 4
    BY <1>4
  <2>. QED
    BY <2>1, <1>3
<1>6. ~(Got[1].cost = 0 /\ Got[2].cost = 0)
  <2>1. SomeCost(XTop.got)
    BY <1>1 DEF FrameOK
  <2>2. Got[1] = XTop.got[1] /\ Got[2] = XTop.got[2]
    <3>1. 1 \in 1 .. Len(XTop.got) /\ 2 \in 1 .. Len(XTop.got)
      BY <1>3, <1>5
    <3>. QED
      BY <3>1, <1>1, <1>2, AppendFacts DEF Got
  <2>. QED
    BY <2>1, <2>2, <1>5 DEF SomeCost
<1>7. XTop.f \in Fns /\ ~IsConstant(XTop.f)
  BY <1>1, FrameFacts
<1>8. PICK r : r = Half1
  OBVIOUS
<1>9. r = IF XTop.fn = "firstPassNaive" THEN Got[3] ELSE Got[4]
  BY <1>8 DEF Half1
<1>10. XorResults(hash, XTop.fn, XTop.f, XTop.c, Got, r)
  BY <1>2, <1>3, <1>4, <1>7, <1>9, GotXors
<1>. QED
  BY <1>5, <1>6, <1>8, <1>10, OpenHalves

(* Where everything is cared about the costs compared are the least ones of *)
(* the two halves and of their XOR, so that the kept sum is the least.      *)
LEMMA CheapestKept ==
  ASSUME NEW F \in Fns, ~IsConstant(F), NEW h, NEW r, NEW s, NEW t, NEW u, NEW C, C = One,
         Returns(h, r, E0(F), C0Of(F, C)), Returns(h, s, T1(F), C1Of(F, C)),
         Returns(h, t, Xor(r.f, s.f), C0Of(F, C)), Returns(h, u, Xor(r.f, s.f), C1Of(F, C)),
         NEW k, k = s.cost + t.cost \/ k = r.cost + u.cost \/ k = r.cost + s.cost,
         k <= s.cost + t.cost, k <= r.cost + u.cost, k <= r.cost + s.cost
  PROVE  k = OptCost[F]
<1>1. C0Of(F, C) = One /\ C1Of(F, C) = One
  BY FullHalves
<1>2. E0(F) \in Fns /\ T1(F) \in Fns /\ X2(F) \in Fns
  BY CofactorTypes
<1>3. r.f = E0(F) /\ s.f = T1(F)
  BY <1>1, <1>2, FullResult DEF Returns
<1>4. Xor(r.f, s.f) = X2(F)
  BY <1>3 DEF X2
<1>5. /\ r.cost = OptCost[E0(F)] /\ s.cost = OptCost[T1(F)]
      /\ t.cost = OptCost[X2(F)] /\ u.cost = OptCost[X2(F)]
  BY <1>1, <1>4 DEF Returns, Least
<1>6. PICK a \in Nat, b \in Nat, c \in Nat :
        a = OptCost[E0(F)] /\ b = OptCost[T1(F)] /\ c = OptCost[X2(F)]
  BY <1>2, OptCostType
<1>7. k \in Nat /\ IsLeastSum(k, a, b, c)
  BY <1>5, <1>6 DEF IsLeastSum
<1>. QED
  BY <1>6, <1>7, CheapestIsLeast

LEMMA StepStore ==
  ASSUME SearchTypeOK, SearchInv, PassStore
  PROVE  SearchStepOK
<1>1. Returned("open") /\ Complete
  BY DEF PassStore
<1>2. /\ BothHalves(XTop.f, XTop.c, Got[1], Got[2])
      /\ Returns(hash, Got[1], E0(XTop.f), C0Of(XTop.f, XTop.c))
      /\ Returns(hash, Got[2], T1(XTop.f), C1Of(XTop.f, XTop.c))
      /\ ~(Got[1].cost = 0 /\ Got[2].cost = 0)
  BY <1>1, CompleteFacts
<1>3. PICK D0, D1 :
        /\ C0Of(XTop.f, XTop.c) \subseteq D0 /\ C1Of(XTop.f, XTop.c) \subseteq D1
        /\ Returns(hash, Half0, Xor(Got[1].f, Got[2].f), D0)
        /\ Returns(hash, Half1, Xor(Got[1].f, Got[2].f), D1)
        /\ Follows(XTop.fn, XTop.c) => D0 = C0Of(XTop.f, XTop.c) /\ D1 = C1Of(XTop.f, XTop.c)
  BY <1>1, CompleteFacts DEF XorResults, Half0
<1>4. PICK k : k = CASE Choice = "nD" -> Got[2].cost + Half0.cost
                      [] Choice = "pD" -> Got[1].cost + Half1.cost
                      [] Choice = "Sh" -> Got[1].cost + Got[2].cost
  OBVIOUS
<1>5. Got[1].cost \in Nat /\ Got[2].cost \in Nat /\ Half0.cost \in Nat /\ Half1.cost \in Nat
  BY <1>2, <1>3 DEF Returns, GoodResult, Results
<1>6. Least(k, XTop.f, XTop.c)
  <2>1. PICK r, s, t, u : r = Got[1] /\ s = Got[2] /\ t = Half0 /\ u = Half1
    OBVIOUS
  <2>2. /\ k = s.cost + t.cost \/ k = r.cost + u.cost \/ k = r.cost + s.cost
        /\ k <= s.cost + t.cost /\ k <= r.cost + u.cost /\ k <= r.cost + s.cost
    BY <1>4, <1>5, <2>1 DEF Choice, NDCost, PDCost, ShCost
  <2>3. XTop.f \in Fns /\ ~IsConstant(XTop.f)
    BY <1>2 DEF BothHalves
  <2>. SUFFICES ASSUME XTop.c = One PROVE k = OptCost[XTop.f]
    BY DEF Least
  <2>4. PICK F, C : F = XTop.f /\ C = XTop.c
    OBVIOUS
  <2>5. /\ Returns(hash, r, E0(F), C0Of(F, C)) /\ Returns(hash, s, T1(F), C1Of(F, C))
        /\ Returns(hash, t, Xor(r.f, s.f), C0Of(F, C)) /\ Returns(hash, u, Xor(r.f, s.f), C1Of(F, C))
    BY <1>2, <1>3, <2>1, <2>4 DEF Follows
  <2>6. k = OptCost[F]
    BY <2>2, <2>3, <2>4, <2>5, CheapestKept
  <2>. QED
    BY <2>4, <2>6
<1>7. CASE Choice = "nD"
  <2>1. PassReturn(Entry(Xor(WhereNot(TopVar(XTop.f), Half0.f), Got[2].f),
                         Xor(Got[1].f, Got[2].f), "nD", Got[2].cost + Half0.cost))
    BY <1>7 DEF PassStore, NDCost, PassReturn
  <2>2. OwedEntry(hash, XTop.fn, XTop.f, XTop.c,
                  Entry(Xor(WhereNot(TopVar(XTop.f), Half0.f), Got[2].f),
                        Xor(Got[1].f, Got[2].f), "nD", Got[2].cost + Half0.cost))
    BY <1>2, <1>3, <1>4, <1>6, <1>7, NegativeEntry
  <2>. QED
    BY <1>1, <2>1, <2>2, StepReturnEntry
<1>8. CASE Choice = "pD"
  <2>1. PassReturn(Entry(Xor(Where(TopVar(XTop.f), Half1.f), Got[1].f),
                         Xor(Got[1].f, Got[2].f), "pD", Got[1].cost + Half1.cost))
    BY <1>8 DEF PassStore, PDCost, PassReturn
  <2>2. OwedEntry(hash, XTop.fn, XTop.f, XTop.c,
                  Entry(Xor(Where(TopVar(XTop.f), Half1.f), Got[1].f),
                        Xor(Got[1].f, Got[2].f), "pD", Got[1].cost + Half1.cost))
    BY <1>2, <1>3, <1>4, <1>6, <1>8, PositiveEntry
  <2>. QED
    BY <1>1, <2>1, <2>2, StepReturnEntry
<1>9. CASE Choice = "Sh"
  <2>1. PassReturn(Entry(Xor(WhereNot(TopVar(XTop.f), Got[1].f), Where(TopVar(XTop.f), Got[2].f)),
                         Xor(Got[1].f, Got[2].f), "Sh", Got[1].cost + Got[2].cost))
    BY <1>9 DEF PassStore, ShCost, PassReturn
  <2>2. OwedEntry(hash, XTop.fn, XTop.f, XTop.c,
                  Entry(Xor(WhereNot(TopVar(XTop.f), Got[1].f), Where(TopVar(XTop.f), Got[2].f)),
                        Xor(Got[1].f, Got[2].f), "Sh", Got[1].cost + Got[2].cost))
    BY <1>2, <1>4, <1>6, <1>9, ShannonEntry
  <2>. QED
    BY <1>1, <2>1, <2>2, StepReturnEntry
<1>10. Choice \in {"nD", "pD", "Sh"}
  BY DEF Choice
<1>. QED
  BY <1>7, <1>8, <1>9, <1>10

(* The second pass leaves what the first pass made alone.                   *)
LEMMA SearchKept ==
  ASSUME SearchTypeOK, SearchInv, UNCHANGED <<svars, root>>, phase' \in {"search", "gen"}
  PROVE  SearchStepOK
<1>1. /\ root' = root /\ croot' = croot /\ naive' = naive /\ hash' = hash
      /\ xpc' = xpc /\ xfn' = xfn /\ xarg' = xarg /\ xcare' = xcare /\ xstack' = xstack /\ ret' = ret
  BY DEF svars
<1>2. SearchTypeOK'
  BY <1>1 DEF SearchTypeOK
<1>3. SearchInv'
  BY <1>1 DEF SearchInv
<1>. QED
  BY <1>1, <1>2, <1>3, ExtendsItself DEF SearchStepOK

WalkAction ==
  WalkConstant \/ WalkF0 \/ WalkSkip \/ WalkEnter \/ WalkSecond \/ WalkLeave

SearchAction ==
  \/ PassConstant \/ PassMemo \/ PassSkip \/ PassEnter \/ PassNext
  \/ PassStoreSkip \/ PassStoreZero \/ PassStore

LEMMA NextCases ==
  ASSUME [Next]_isfvars
  PROVE  SearchAction \/ StartGen \/ WalkAction \/ UNCHANGED isfvars
BY DEF Next, SearchAction, WalkAction, Terminated

LEMMA WalkKeeps ==
  ASSUME WalkAction
  PROVE  UNCHANGED <<svars, root, phase>> /\ phase = "gen"
<1>1. CASE WalkConstant
  BY <1>1 DEF WalkConstant, GenZero, GenOne
<1>2. CASE WalkF0
  BY <1>2 DEF WalkF0, Decided, Visiting
<1>3. CASE WalkSkip
  BY <1>3 DEF WalkSkip, Decided, Visiting
<1>4. CASE WalkEnter
  BY <1>4 DEF WalkEnter, Decided, Visiting
<1>5. CASE WalkSecond
  BY <1>5 DEF WalkSecond
<1>6. CASE WalkLeave
  BY <1>6 DEF WalkLeave, GenLeave
<1>. QED
  BY <1>1, <1>2, <1>3, <1>4, <1>5, <1>6 DEF WalkAction

LEMMA SearchStep ==
  ASSUME SearchTypeOK, SearchInv, [Next]_isfvars
  PROVE  SearchStepOK
<1>1. CASE SearchAction
  BY <1>1, StepConstant, StepMemo, StepSkip, StepEnter, StepNext, StepStoreSkip, StepStoreZero,
     StepStore DEF SearchAction
<1>2. CASE StartGen
  <2>1. UNCHANGED <<svars, root>> /\ phase' = "gen"
    BY <1>2 DEF StartGen, gvars
  <2>. QED
    BY <2>1, SearchKept
<1>3. CASE WalkAction
  <2>1. UNCHANGED <<svars, root, phase>>
    BY <1>3, WalkKeeps
  <2>2. UNCHANGED <<svars, root>> /\ phase' \in {"search", "gen"}
    BY <2>1 DEF SearchTypeOK
  <2>. QED
    BY <2>2, SearchKept
<1>4. CASE UNCHANGED isfvars
  <2>1. UNCHANGED <<svars, root>> /\ phase' \in {"search", "gen"}
    BY <1>4 DEF isfvars, gvars, SearchTypeOK
  <2>. QED
    BY <2>1, SearchKept
<1>. QED
  BY <1>1, <1>2, <1>3, <1>4, NextCases

LEMMA SearchCorrect == Spec => [](SearchTypeOK /\ SearchInv)
<1>1. Init => SearchTypeOK /\ SearchInv
  BY SearchInit
<1>2. (SearchTypeOK /\ SearchInv) /\ [Next]_isfvars => (SearchTypeOK /\ SearchInv)'
  BY SearchStep DEF SearchStepOK
<1>. QED
  BY <1>1, <1>2, PTL DEF Spec

(* The function that the first pass stores for a pair agrees with F         *)
(* wherever it is cared about (computeFirstPass, its entries in _hash).     *)
THEOREM MemoCorrect == Spec => []MemoAgreesOnCare
<1>1. SearchTypeOK /\ SearchInv => MemoAgreesOnCare
  <2>. SUFFICES ASSUME SearchInv, NEW p \in DOMAIN hash
       PROVE  hash[p].fret \cap p[2] = p[1] \cap p[2]
    BY DEF MemoAgreesOnCare
  <2>1. DOMAIN hash \subseteq Fns \X Fns
    BY DEF SearchInv, TableOK
  <2>2. PICK F \in Fns, C \in Fns : p = <<F, C>>
    BY <2>1
  <2>3. GoodResult(Result(hash[p].fret, hash[p].cost), F, C)
    BY <2>2 DEF SearchInv, TableOK, EntryOK
  <2>4. Agree(hash[p].fret, F, C)
    BY <2>3 DEF GoodResult, Result
  <2>5. hash[p].fret \cap C = F \cap C
    BY <2>4 DEF Agree
  <2>. QED
    BY <2>2, <2>5
<1>. QED
  BY <1>1, SearchCorrect, PTL

(* The two functions an expansion combines differ (the three assertions of  *)
(* computeFirstPass).                                                       *)
THEOREM CombinesCorrect == Spec => []CombinesDifferent
<1>1. SearchTypeOK /\ SearchInv => CombinesDifferent
  <2>. SUFFICES ASSUME SearchTypeOK, SearchInv, Returned("open"), Complete
       PROVE  CASE Choice = "nD" -> Got[2].f # Half0.f
                [] Choice = "pD" -> Got[1].f # Half1.f
                [] Choice = "Sh" -> Got[1].f # Got[2].f
    BY DEF CombinesDifferent
  <2>1. PICK D0, D1 :
          /\ C0Of(XTop.f, XTop.c) \subseteq D0 /\ C1Of(XTop.f, XTop.c) \subseteq D1
          /\ Returns(hash, Half0, Xor(Got[1].f, Got[2].f), D0)
          /\ Returns(hash, Half1, Xor(Got[1].f, Got[2].f), D1)
    BY CompleteFacts DEF XorResults, Half0
  <2>2. /\ BothHalves(XTop.f, XTop.c, Got[1], Got[2])
        /\ ~(Got[1].cost = 0 /\ Got[2].cost = 0)
    BY CompleteFacts
  <2>3. /\ GoodResult(Half0, Xor(Got[1].f, Got[2].f), D0)
        /\ GoodResult(Half1, Xor(Got[1].f, Got[2].f), D1)
    BY <2>1 DEF Returns
  <2>4. /\ NDCost <= ShCost => Got[2].f # Half0.f
        /\ PDCost <= ShCost => Got[1].f # Half1.f
        /\ PDCost > ShCost => Got[1].f # Got[2].f
    BY <2>1, <2>2, <2>3, ChosenDiffer DEF NDCost, PDCost, ShCost
  <2>5. PDCost \in Nat /\ ShCost \in Nat /\ NDCost \in Nat
    BY <2>2, <2>3, BothFacts DEF GoodResult, Results, NDCost, PDCost, ShCost
  <2>6. /\ Choice = "nD" => NDCost <= ShCost
        /\ Choice = "pD" => PDCost <= ShCost
        /\ Choice = "Sh" => PDCost > ShCost
    BY <2>5 DEF Choice
  <2>7. Choice \in {"nD", "pD", "Sh"}
    BY DEF Choice
  <2>8. CASE Choice = "nD"
    BY <2>4, <2>6, <2>8
  <2>9. CASE Choice = "pD"
    BY <2>4, <2>6, <2>9
  <2>10. CASE Choice = "Sh"
    BY <2>4, <2>6, <2>10
  <2>. QED
    BY <2>7, <2>8, <2>9, <2>10
<1>. QED
  BY <1>1, SearchCorrect, PTL

-----------------------------------------------------------------------------
(* The second pass, with or without -n: its types, and that every open      *)
(* activation belongs to an entry of the table.                             *)
WFrames == [f : Fns, c : Fns, var : Vars, exp : ExpTypes, half : {1, 2}]

WalkTypeOK ==
  /\ arg \in Fns /\ care \in Fns /\ pc \in {"call", "return"}
  /\ stack \in Seq(WFrames)
  /\ vars \in Seq(Vars) /\ values \in [Vars -> VarValues] /\ esop \in Seq(Cubes)

FrameStored(h, fr) ==
  /\ ~IsConstant(fr.f) /\ <<fr.f, fr.c>> \in DOMAIN h
  /\ h[<<fr.f, fr.c>>].exp = fr.exp /\ fr.var = TopVar(fr.f)

AllStored(h, s) == \A k \in 1 .. Len(s) : FrameStored(h, s[k])

PhaseOK ==
  /\ phase = "search" => /\ pc = "call" /\ arg = root /\ care = croot
                         /\ stack = <<>> /\ vars = <<>> /\ esop = <<>>
                         /\ values = [v \in Vars |-> "DONTCARE"]
  /\ phase = "gen" => xstack = <<>> /\ xpc = "return"

WalkStoredInv == WalkTypeOK /\ AllStored(hash, stack) /\ PhaseOK

LEMMA WalkTypeInit == ASSUME Init PROVE WalkStoredInv
<1>1. root \in Fns /\ croot \in Fns
  BY RootsAssumption, IsfAssumption DEF Init, GInit
<1>2. /\ pc = "call" /\ arg = root /\ care = croot /\ phase = "search"
      /\ stack = <<>> /\ vars = <<>> /\ esop = <<>>
      /\ values = [v \in Vars |-> "DONTCARE"]
  BY DEF Init, GInit
<1>3. Len(stack) = 0 /\ stack \in Seq(WFrames) /\ vars \in Seq(Vars) /\ esop \in Seq(Cubes)
  BY <1>2, EmptySeq
<1>4. values \in [Vars -> VarValues]
  BY <1>2 DEF VarValues
<1>. QED
  BY <1>1, <1>2, <1>3, <1>4 DEF WalkStoredInv, WalkTypeOK, AllStored, PhaseOK

(* The entry of a pair that the second pass looks up.                       *)
LEMMA FoundFacts ==
  ASSUME SearchInv, NEW F, NEW C, <<F, C>> \in DOMAIN hash
  PROVE  /\ F \in Fns /\ C \in Fns /\ ~IsConstant(F)
         /\ hash[<<F, C>>] \in Entries
         /\ GoodResult(Result(hash[<<F, C>>].fret, hash[<<F, C>>].cost), F, C)
         /\ ~naive \/ C = One => ClosedOK(hash, F, C, hash[<<F, C>>])
         /\ TopVar(F) \in Vars
BY TopVarProperties DEF SearchInv, TableOK, EntryOK

LEMMA TrailCubeIsCube ==
  ASSUME vars \in Seq(Vars)
  PROVE  TrailCube \in Cubes
<1>1. Trail \subseteq Vars
  <2>1. \A k \in 1 .. Len(vars) : vars[k] \in Vars
    BY ElementOfSeq
  <2>. QED
    BY <2>1 DEF Trail
<1>2. /\ {v \in Trail : values[v] # "DONTCARE"} \in Minterms
      /\ {v \in Trail : values[v] = "POSITIVE"} \in Minterms
  BY <1>1 DEF Minterms
<1>3. {v \in Trail : values[v] = "POSITIVE"} \subseteq {v \in Trail : values[v] # "DONTCARE"}
  OBVIOUS
<1>. QED
  BY <1>2, <1>3 DEF TrailCube, Cubes

(* The open activation that the walk returns to.                            *)
LEMMA WalkTop ==
  ASSUME WalkStoredInv, SearchInv, stack # <<>>
  PROVE  /\ Len(stack) \in Nat \ {0} /\ Top = stack[Len(stack)] /\ Top \in WFrames
         /\ FrameStored(hash, Top)
<1>1. PICK n \in Nat \ {0} : n = Len(stack)
  BY PopProperties DEF WalkStoredInv, WalkTypeOK
<1>2. n \in 1 .. n
  OBVIOUS
<1>3. stack[n] \in WFrames
  BY <1>1, PopProperties DEF WalkStoredInv, WalkTypeOK
<1>. QED
  BY <1>1, <1>2, <1>3 DEF WalkStoredInv, AllStored, Top

LEMMA ChildFns == \A F, v, e : FirstChild(F, v, e) \in Fns /\ SecondChild(F, v, e) \in Fns
BY HalfTypes, XorTypes DEF FirstChild, SecondChild

LEMMA ValueFacts ==
  \A e : FirstValue(e) \in VarValues /\ SecondValue(e) \in VarValues /\ "DONTCARE" \in VarValues
BY DEF FirstValue, SecondValue, VarValues

LEMMA StoredEnter ==
  ASSUME WalkStoredInv, SearchInv, WalkEnter
  PROVE  WalkTypeOK' /\ AllStored(hash, stack')
<1>1. phase = "gen" /\ pc = "call" /\ <<arg, care>> \in DOMAIN hash /\ Found.exp \in ExpTypes
  BY DEF WalkEnter, Decided, Visiting
<1>2. PICK e \in ExpTypes : e = Found.exp
  BY <1>1
<1>3. PICK v \in Vars : v = TopVar(arg)
  BY <1>1, FoundFacts
<1>4. /\ stack' = Append(stack, [f |-> arg, c |-> care, var |-> v, exp |-> e, half |-> 1])
      /\ vars' = Append(vars, v)
      /\ values' = [values EXCEPT ![v] = FirstValue(e)]
      /\ arg' = FirstChild(arg, v, e)
      /\ care' = IF e = "nD" THEN C1Of(arg, care) ELSE C0Of(arg, care)
      /\ pc' = pc /\ esop' = esop
  BY <1>2, <1>3 DEF WalkEnter
<1>5. PICK fr : fr = [f |-> arg, c |-> care, var |-> v, exp |-> e, half |-> 1]
  OBVIOUS
<1>6. fr \in WFrames /\ fr.f = arg /\ fr.c = care /\ fr.var = v /\ fr.exp = e
  BY <1>5 DEF WalkStoredInv, WalkTypeOK, WFrames
<1>7. FrameStored(hash, fr)
  BY <1>1, <1>2, <1>3, <1>6 DEF FrameStored, Found, WalkEnter, Decided, Visiting
<1>8. /\ Append(stack, fr) \in Seq(WFrames) /\ Len(stack) \in Nat
      /\ Len(Append(stack, fr)) = Len(stack) + 1 /\ Append(stack, fr)[Len(stack) + 1] = fr
      /\ \A k \in 1 .. Len(stack) : Append(stack, fr)[k] = stack[k]
  BY <1>6, AppendFacts DEF WalkStoredInv, WalkTypeOK
<1>9. AllStored(hash, stack')
  <2>1. \A k \in 1 .. Len(stack) + 1 : k = Len(stack) + 1 \/ k \in 1 .. Len(stack)
    BY <1>8
  <2>2. AllStored(hash, Append(stack, fr))
    BY <2>1, <1>7, <1>8 DEF AllStored, WalkStoredInv
  <2>. QED
    BY <2>2, <1>4, <1>5
<1>10. arg' \in Fns /\ care' \in Fns
  BY <1>4, ChildFns, CareTypes
<1>11. vars' \in Seq(Vars)
  BY <1>4, AppendFacts DEF WalkStoredInv, WalkTypeOK
<1>12. values' \in [Vars -> VarValues]
  BY <1>4, ValueFacts DEF WalkStoredInv, WalkTypeOK
<1>. QED
  BY <1>4, <1>5, <1>8, <1>9, <1>10, <1>11, <1>12 DEF WalkTypeOK, WalkStoredInv

(* The second half of an activation, as both variants call it.              *)
LEMMA WalkSecondFacts ==
  ASSUME WalkStoredInv, SearchInv, WalkSecond
  PROVE  /\ stack # <<>> /\ pc = "return" /\ phase = "gen" /\ Top.half = 1
         /\ arg' = SecondArg(Top.f, hash[<<Top.f, Top.c>>])
         /\ ~naive \/ Top.c = One => care' = SecondCare(Top.f, Top.c, Top.exp)
         /\ care' \in Fns
<1>1. stack # <<>> /\ pc = "return" /\ phase = "gen" /\ Top.half = 1
  BY DEF WalkSecond
<1>2. FrameStored(hash, Top) /\ Top \in WFrames
  BY <1>1, WalkTop
<1>3. hash[<<Top.f, Top.c>>].exp = Top.exp /\ Top.exp \in ExpTypes
  BY <1>2 DEF FrameStored, WFrames
<1>4. arg' = SecondArg(Top.f, hash[<<Top.f, Top.c>>])
  BY <1>3 DEF WalkSecond, SecondArg
<1>5. PICK C0 \in Fns : C0 = C0Of(Top.f, Top.c)
  BY CareTypes
<1>6. PICK C1 \in Fns : C1 = C1Of(Top.f, Top.c)
  BY CareTypes
<1>7. care' = CASE Top.exp = "Sh" -> C1
                [] Top.exp # "Sh" /\ naive -> C0 \cup C1
                [] Top.exp = "nD" /\ ~naive -> C0
                [] Top.exp = "pD" /\ ~naive -> C1
  BY <1>5, <1>6 DEF WalkSecond
<1>8. Top.exp = "Sh" \/ Top.exp = "nD" \/ Top.exp = "pD"
  BY <1>3 DEF ExpTypes
<1>9. ~naive \/ Top.c = One => care' = IF Top.exp = "nD" THEN C0 ELSE C1
  <2>1. Top.c = One => C0 = One /\ C1 = One
    BY <1>2, <1>5, <1>6, FullHalves DEF FrameStored, WFrames
  <2>2. Top.c = One => care' = One
    BY <2>1, <1>7, <1>8
  <2>. QED
    BY <2>1, <2>2, <1>7, <1>8
<1>10. care' = C0 \/ care' = C1 \/ care' = C0 \cup C1
  BY <1>7, <1>8
<1>11. C0 \cup C1 \in Fns
  BY DEF Fns
<1>. QED
  BY <1>1, <1>4, <1>5, <1>6, <1>9, <1>10, <1>11 DEF SecondCare

LEMMA SecondStack ==
  ASSUME WalkStoredInv, SearchInv, WalkSecond
  PROVE  /\ stack' \in Seq(WFrames) /\ Len(stack') = Len(stack)
         /\ \A k \in 1 .. Len(stack) : /\ stack'[k].f = stack[k].f /\ stack'[k].c = stack[k].c
                                       /\ stack'[k].var = stack[k].var
                                       /\ stack'[k].exp = stack[k].exp
                                       /\ stack'[k].half = IF k = Len(stack) THEN 2
                                                           ELSE stack[k].half
<1>1. PICK n \in Nat \ {0} : n = Len(stack)
  BY WalkSecondFacts, WalkTop
<1>2. stack \in Seq(WFrames) /\ stack[n] \in WFrames /\ \A k \in 1 .. n : stack[k] \in WFrames
  BY <1>1, WalkSecondFacts, WalkTop, ElementOfSeq DEF WalkStoredInv, WalkTypeOK
<1>3. PICK fr : fr = [stack[n] EXCEPT !.half = 2]
  OBVIOUS
<1>4. /\ fr \in WFrames /\ fr.f = stack[n].f /\ fr.c = stack[n].c /\ fr.var = stack[n].var
      /\ fr.exp = stack[n].exp /\ fr.half = 2
  BY <1>2, <1>3 DEF WFrames
<1>5. PICK t : t = stack'
  OBVIOUS
<1>6. t = [stack EXCEPT ![n] = fr]
  BY <1>1, <1>3, <1>5 DEF WalkSecond
<1>7. n \in 1 .. Len(stack)
  BY <1>1
<1>8. /\ t \in Seq(WFrames) /\ Len(t) = n /\ t[n] = fr
      /\ \A k \in 1 .. n : k # n => t[k] = stack[k]
  BY <1>1, <1>2, <1>4, <1>6, <1>7
<1>9. \A k \in 1 .. n : /\ t[k].f = stack[k].f /\ t[k].c = stack[k].c
                        /\ t[k].var = stack[k].var /\ t[k].exp = stack[k].exp
                        /\ t[k].half = IF k = n THEN 2 ELSE stack[k].half
  BY <1>4, <1>8
<1>. QED
  BY <1>1, <1>5, <1>8, <1>9

LEMMA StoredSecond ==
  ASSUME WalkStoredInv, SearchInv, WalkSecond
  PROVE  WalkTypeOK' /\ AllStored(hash, stack')
<1>1. FrameStored(hash, Top) /\ Top \in WFrames
  BY WalkSecondFacts, WalkTop
<1>2. pc' = "call" /\ vars' = vars /\ esop' = esop
      /\ values' = [values EXCEPT ![Top.var] = SecondValue(Top.exp)]
  BY DEF WalkSecond
<1>3. arg' \in Fns
  <2>1. hash[<<Top.f, Top.c>>] \in Entries
    BY <1>1, FoundFacts DEF FrameStored
  <2>. QED
    BY <2>1, WalkSecondFacts, CofactorTypes DEF SecondArg, Entries
<1>4. AllStored(hash, stack')
  <2>1. PICK t : t = stack'
    OBVIOUS
  <2>2. /\ Len(t) = Len(stack)
        /\ \A k \in 1 .. Len(stack) : /\ t[k].f = stack[k].f /\ t[k].c = stack[k].c
                                      /\ t[k].var = stack[k].var /\ t[k].exp = stack[k].exp
    BY <2>1, SecondStack
  <2>3. AllStored(hash, t)
    BY <2>2 DEF AllStored, FrameStored, WalkStoredInv
  <2>. QED
    BY <2>1, <2>3
<1>5. values' \in [Vars -> VarValues]
  BY <1>2, ValueFacts DEF WalkStoredInv, WalkTypeOK
<1>6. care' \in Fns /\ stack' \in Seq(WFrames)
  BY WalkSecondFacts, SecondStack
<1>. QED
  BY <1>2, <1>3, <1>4, <1>5, <1>6 DEF WalkStoredInv, WalkTypeOK

LEMMA StoredLeave ==
  ASSUME WalkStoredInv, SearchInv, WalkLeave
  PROVE  WalkTypeOK' /\ AllStored(hash, stack')
<1>1. /\ stack # <<>> /\ stack' = Pop(stack) /\ vars' = Pop(vars)
      /\ values' = [values EXCEPT ![Top.var] = "DONTCARE"]
      /\ arg' = arg /\ care' = care /\ pc' = pc /\ esop' = esop
  BY DEF WalkLeave, GenLeave
<1>2. PICK n \in Nat \ {0} : n = Len(stack)
  BY <1>1, WalkTop
<1>3. PICK t : t = Pop(stack)
  OBVIOUS
<1>4. t \in Seq(WFrames) /\ Len(t) = n - 1 /\ \A k \in 1 .. n - 1 : t[k] = stack[k]
  BY <1>1, <1>2, <1>3, PopProperties DEF WalkStoredInv, WalkTypeOK
<1>5. AllStored(hash, t)
  <2>1. \A k \in 1 .. n - 1 : k \in 1 .. n
    OBVIOUS
  <2>. QED
    BY <2>1, <1>2, <1>4 DEF AllStored, WalkStoredInv
<1>6. vars' \in Seq(Vars)
  BY <1>1, PopProperties DEF WalkStoredInv, WalkTypeOK
<1>7. values' \in [Vars -> VarValues]
  BY <1>1, ValueFacts DEF WalkStoredInv, WalkTypeOK
<1>. QED
  BY <1>1, <1>3, <1>4, <1>5, <1>6, <1>7 DEF WalkStoredInv, WalkTypeOK

LEMMA StoredOther ==
  ASSUME WalkStoredInv, SearchInv, WalkConstant \/ WalkF0 \/ WalkSkip
  PROVE  WalkTypeOK' /\ AllStored(hash, stack')
<1>1. CASE WalkConstant
  <2>1. /\ arg' = arg /\ care' = care /\ pc' = "return" /\ stack' = stack /\ vars' = vars
        /\ values' = values /\ (esop' = esop \/ esop' = Append(esop, TrailCube))
    BY <1>1 DEF WalkConstant, GenZero, GenOne
  <2>2. esop' \in Seq(Cubes)
    BY <2>1, TrailCubeIsCube, AppendFacts DEF WalkStoredInv, WalkTypeOK
  <2>. QED
    BY <2>1, <2>2 DEF WalkStoredInv, WalkTypeOK
<1>2. CASE WalkF0
  <2>1. /\ arg' = arg /\ care' = care /\ pc' = "return" /\ stack' = stack /\ vars' = vars
        /\ values' = values /\ esop' = esop
    BY <1>2 DEF WalkF0
  <2>. QED
    BY <2>1 DEF WalkStoredInv, WalkTypeOK
<1>3. CASE WalkSkip
  <2>1. /\ pc' = pc /\ stack' = stack /\ vars' = vars /\ values' = values /\ esop' = esop
        /\ (arg' = T1(arg) /\ care' = C1Of(arg, care)) \/ (arg' = E0(arg) /\ care' = C0Of(arg, care))
    BY <1>3 DEF WalkSkip
  <2>2. arg' \in Fns /\ care' \in Fns
    BY <2>1, CofactorTypes, CareTypes
  <2>. QED
    BY <2>1, <2>2 DEF WalkStoredInv, WalkTypeOK
<1>. QED
  BY <1>1, <1>2, <1>3

LEMMA StoreKeepsWalk ==
  ASSUME PassStore
  PROVE  UNCHANGED <<gvars, phase, care, croot>>
<1>1. CASE Choice = "nD"
  BY <1>1 DEF PassStore, PassReturn
<1>2. CASE Choice = "pD"
  BY <1>2 DEF PassStore, PassReturn
<1>3. CASE Choice = "Sh"
  BY <1>3 DEF PassStore, PassReturn
<1>4. Choice \in {"nD", "pD", "Sh"}
  BY DEF Choice
<1>. QED
  BY <1>1, <1>2, <1>3, <1>4

LEMMA WalkStoredStep ==
  ASSUME SearchTypeOK, SearchInv, WalkStoredInv, [Next]_isfvars
  PROVE  WalkStoredInv'
<1>1. CASE SearchAction
  <2>1. /\ root' = root /\ pc' = pc /\ arg' = arg /\ stack' = stack /\ vars' = vars
        /\ values' = values /\ esop' = esop /\ phase' = phase /\ care' = care /\ croot' = croot
    <3>1. CASE PassStore
      BY <3>1, StoreKeepsWalk DEF gvars
    <3>2. CASE ~PassStore
      BY <1>1, <3>2 DEF SearchAction, PassConstant, PassMemo, PassSkip, PassEnter, PassNext,
         PassStoreSkip, PassStoreZero, PassReturn, gvars
    <3>. QED
      BY <3>1, <3>2
  <2>2. xpc = "call" \/ xstack # <<>>
    BY <1>1 DEF SearchAction, PassConstant, PassMemo, PassSkip, PassEnter, PassNext,
       PassStoreSkip, PassStoreZero, PassStore, NewPair, Returned
  <2>3. phase # "gen"
    BY <2>2 DEF WalkStoredInv, PhaseOK
  <2>4. phase = "search" /\ stack = <<>>
    BY <2>3 DEF SearchTypeOK, WalkStoredInv, PhaseOK
  <2>5. Len(stack) = 0
    BY <2>4
  <2>. QED
    BY <2>1, <2>3, <2>5 DEF WalkStoredInv, WalkTypeOK, PhaseOK, AllStored
<1>2. CASE StartGen
  <2>1. /\ root' = root /\ pc' = pc /\ arg' = arg /\ stack' = stack /\ vars' = vars
        /\ values' = values /\ esop' = esop /\ care' = care /\ hash' = hash
        /\ xpc' = "return" /\ xstack' = <<>> /\ phase' = "gen"
    BY <1>2 DEF StartGen, gvars, svars
  <2>. QED
    BY <2>1 DEF WalkStoredInv, WalkTypeOK, PhaseOK
<1>3. CASE WalkAction
  <2>1. /\ phase' = phase /\ phase = "gen" /\ hash' = hash
        /\ xstack' = xstack /\ xpc' = xpc
    BY <1>3, WalkKeeps DEF svars
  <2>2. WalkTypeOK' /\ AllStored(hash, stack')
    BY <1>3, StoredEnter, StoredSecond, StoredLeave, StoredOther DEF WalkAction
  <2>. QED
    BY <2>1, <2>2 DEF WalkStoredInv, PhaseOK
<1>4. CASE UNCHANGED isfvars
  <2>1. /\ root' = root /\ pc' = pc /\ arg' = arg /\ stack' = stack /\ vars' = vars
        /\ values' = values /\ esop' = esop /\ care' = care /\ hash' = hash /\ croot' = croot
        /\ xpc' = xpc /\ xstack' = xstack /\ phase' = phase
    BY <1>4 DEF isfvars, gvars, svars
  <2>. QED
    BY <2>1 DEF WalkStoredInv, WalkTypeOK, PhaseOK
<1>. QED
  BY <1>1, <1>2, <1>3, <1>4, NextCases

LEMMA WalkStoredCorrect == Spec => [](SearchTypeOK /\ SearchInv /\ WalkStoredInv)
<1>1. Init => SearchTypeOK /\ SearchInv /\ WalkStoredInv
  BY SearchInit, WalkTypeInit
<1>2. (SearchTypeOK /\ SearchInv /\ WalkStoredInv) /\ [Next]_isfvars
        => (SearchTypeOK /\ SearchInv /\ WalkStoredInv)'
  BY SearchStep, WalkStoredStep DEF SearchStepOK
<1>. QED
  BY <1>1, <1>2, PTL DEF Spec

(* The variables of both passes have their types, and no activation of the  *)
(* first pass ever waits with more than three results.                      *)
THEOREM IsfTypeCorrect == Spec => []TypeOK
<1>1. SearchTypeOK /\ SearchInv /\ WalkStoredInv => TypeOK
  <2>. SUFFICES ASSUME SearchTypeOK, SearchInv, WalkStoredInv PROVE TypeOK
    OBVIOUS
  <2>1. DOMAIN hash \subseteq Fns \X Fns
    BY DEF SearchInv, TableOK
  <2>2. ASSUME NEW p \in DOMAIN hash
        PROVE  hash[p] \in Entries
    <3>1. PICK F \in Fns, C \in Fns : p = <<F, C>>
      BY <2>1
    <3>2. <<F, C>> \in DOMAIN hash
      BY <3>1
    <3>3. hash[<<F, C>>] \in Entries
      BY <3>2, FoundFacts
    <3>. QED
      BY <3>1, <3>3
  <2>3. ASSUME NEW k \in 1 .. Len(xstack)
        PROVE  xstack[k].got \in Seq(Results) /\ Len(xstack[k].got) <= 3
    <3>1. FrameOK(hash, xstack[k])
      BY DEF SearchInv, ChainUpTo
    <3>2. xstack[k].got \in Seq(Results) /\ xstack[k].exp \in {"C0", "C1", "open"}
          /\ Len(xstack[k].got) \in Nat
      BY <3>1, FrameFacts
    <3>3. CASE xstack[k].exp = "open"
      BY <3>1, <3>2, <3>3 DEF FrameOK
    <3>4. CASE xstack[k].exp # "open"
      <4>1. xstack[k].got = <<>>
        BY <3>1, <3>2, <3>4 DEF FrameOK
      <4>2. Len(xstack[k].got) = 0
        BY <4>1
      <4>. QED
        BY <3>2, <4>2
    <3>. QED
      BY <3>2, <3>3, <3>4
  <2>. QED
    BY <2>1, <2>2, <2>3 DEF TypeOK, SearchTypeOK, WalkStoredInv, WalkTypeOK, WFrames, Entries, Passes
<1>. QED
  BY <1>1, WalkStoredCorrect, PTL

-----------------------------------------------------------------------------
(* The second pass as a walk of Psdkro over the results.                    *)
AArg == ResultOf(arg, care)
AStack == [i \in DOMAIN stack |->
            [f |-> ResultOf(stack[i].f, stack[i].c), var |-> stack[i].var,
             exp |-> stack[i].exp, half |-> stack[i].half]]

W == INSTANCE PsdkroProofs WITH
  Roots <- Fns,
  root  <- RootResult,
  arg   <- ResultOf(arg, care),
  stack <- [i \in DOMAIN stack |->
             [f |-> ResultOf(stack[i].f, stack[i].c), var |-> stack[i].var,
              exp |-> stack[i].exp, half |-> stack[i].half]]

LEMMA SameFns == W!Fns = Fns /\ W!Vars = Vars /\ W!Zero = Zero /\ W!One = One
BY DEF W!Fns, Fns, W!Minterms, Minterms, W!Vars, Vars, W!Zero, Zero, W!One, One

LEMMA MappedInit == W!GInit => W!GInv
BY W!GInvInit, NAssumption, SameFns

LEMMA MappedStep == W!GInv /\ [W!GNext]_W!gvars => W!GInv'
BY W!GInvStep, NAssumption, SameFns

LEMMA MappedEnd == W!GInv => W!EsopRealisesRoot
BY W!GInvEnd, NAssumption, SameFns

LEMMA SameRealises == \A F : W!Realises(esop, F) => Realises(esop, F)
<1>1. \A c : W!CubeMinterms(c) = CubeMinterms(c)
  BY DEF W!CubeMinterms, CubeMinterms, W!Minterms, Minterms, W!Vars, Vars
<1>2. \A m : W!Covering(esop, m) = Covering(esop, m)
  BY <1>1 DEF W!Covering, Covering
<1>3. \A S : W!Odd(S) <=> Odd(S)
  <2>1. \A S : W!Cardinality(S) = Cardinality(S)
    BY Zenon DEF W!Cardinality, Cardinality
  <2>. QED
    BY <2>1 DEF W!Odd, Odd
<1>4. W!Minterms = Minterms
  BY DEF W!Minterms, Minterms, W!Vars, Vars
<1>. QED
  BY <1>2, <1>3, <1>4 DEF W!Realises, Realises

(* The steps of the walk, written with AArg and AStack.                     *)
LEMMA MapInit ==
  RootResult \in Fns /\ pc = "call" /\ AArg = RootResult /\ AStack = <<>> /\ vars = <<>>
  /\ values = [v \in Vars |-> "DONTCARE"] /\ esop = <<>> => W!GInit
BY SameFns DEF W!GInit, AArg, AStack

LEMMA MapZero ==
  pc = "call" /\ AArg = Zero /\ pc' = "return" /\ RootResult' = RootResult /\ AArg' = AArg
  /\ AStack' = AStack /\ vars' = vars /\ values' = values /\ esop' = esop => W!GenZero
BY SameFns DEF W!GenZero, AArg, AStack

LEMMA MapOne ==
  pc = "call" /\ AArg = One /\ pc' = "return" /\ RootResult' = RootResult /\ AArg' = AArg
  /\ AStack' = AStack /\ vars' = vars /\ values' = values /\ esop' = Append(esop, TrailCube)
  => W!GenOne
BY SameFns DEF W!GenOne, AArg, AStack, TrailCube, W!TrailCube, Trail, W!Trail

LEMMA MapEnter ==
  ASSUME NEW v, NEW e
  PROVE  pc = "call" /\ AStack' = Append(AStack, [f |-> AArg, var |-> v, exp |-> e, half |-> 1])
         /\ vars' = Append(vars, v) /\ values' = [values EXCEPT ![v] = FirstValue(e)]
         /\ AArg' = FirstChild(AArg, v, e) /\ RootResult' = RootResult /\ pc' = pc
         /\ esop' = esop
         => W!GenEnter(v, e)
BY DEF W!GenEnter, AArg, AStack, FirstValue, W!FirstValue, FirstChild, W!FirstChild,
   E, W!E, T, W!T, Minterms, W!Minterms, Vars, W!Vars

ATop == AStack[Len(AStack)]

LEMMA MapSecond ==
  pc = "return" /\ AStack # <<>> /\ ATop.half = 1
  /\ AStack' = [AStack EXCEPT ![Len(AStack)].half = 2]
  /\ values' = [values EXCEPT ![ATop.var] = SecondValue(ATop.exp)]
  /\ AArg' = SecondChild(ATop.f, ATop.var, ATop.exp) /\ pc' = "call"
  /\ RootResult' = RootResult /\ vars' = vars /\ esop' = esop
  => W!GenSecond
BY DEF W!GenSecond, AArg, AStack, ATop, W!Top, SecondValue, W!SecondValue, SecondChild,
   W!SecondChild, E, W!E, T, W!T, Xor, W!Xor, Minterms, W!Minterms, Vars, W!Vars

LEMMA MapLeave ==
  pc = "return" /\ AStack # <<>> /\ ATop.half = 2
  /\ AStack' = Pop(AStack) /\ vars' = Pop(vars)
  /\ values' = [values EXCEPT ![ATop.var] = "DONTCARE"]
  /\ RootResult' = RootResult /\ pc' = pc /\ AArg' = AArg /\ esop' = esop
  => W!GenLeave
BY DEF W!GenLeave, AArg, AStack, ATop, W!Top, Pop, W!Pop

LEMMA MapNext ==
  W!GenZero \/ W!GenOne \/ (\E v \in Vars \ Trail, e \in ExpTypes : W!GenEnter(v, e))
  \/ W!GenSecond \/ W!GenLeave
  => W!GNext
BY SameFns DEF W!GNext, Trail, W!Trail, ExpTypes, W!ExpTypes

(* The walk is the one that IsfExtract names.                               *)
LEMMA SameNext == W!GNext => Walk!GNext
BY DEF W!GNext, Walk!GNext, W!GenZero, Walk!GenZero, W!GenOne, Walk!GenOne,
   W!GenEnter, Walk!GenEnter, W!GenSecond, Walk!GenSecond, W!GenLeave, Walk!GenLeave,
   W!Zero, Walk!Zero, W!One, Walk!One, W!Minterms, Walk!Minterms, W!Vars, Walk!Vars,
   W!TrailCube, Walk!TrailCube, W!Trail, Walk!Trail, W!ExpTypes, Walk!ExpTypes,
   W!FirstValue, Walk!FirstValue, W!FirstChild, Walk!FirstChild, W!E, Walk!E, W!T, Walk!T,
   W!Top, Walk!Top, W!SecondValue, Walk!SecondValue, W!SecondChild, Walk!SecondChild,
   W!Xor, Walk!Xor, W!Pop, Walk!Pop

(* The stack of the walk as a function of the table and the stack.          *)
MapFrame(h, fr) == [f |-> Chosen(h, fr.f, fr.c), var |-> fr.var, exp |-> fr.exp, half |-> fr.half]
MapStack(h, s) == [k \in DOMAIN s |-> MapFrame(h, s[k])]

LEMMA MapStackIs ==
  /\ AStack = MapStack(hash, stack) /\ AStack' = MapStack(hash', stack')
  /\ AArg = Chosen(hash, arg, care) /\ AArg' = Chosen(hash', arg', care')
  /\ RootResult = Chosen(hash, root, croot) /\ RootResult' = Chosen(hash', root', croot')
BY DEF AStack, AArg, MapStack, MapFrame, Chosen, ResultOf, RootResult

LEMMA SequencesEqual ==
  ASSUME NEW S, NEW s \in Seq(S), NEW t \in Seq(S), Len(s) = Len(t),
         \A k \in 1 .. Len(s) : s[k] = t[k]
  PROVE  s = t
OBVIOUS

LEMMA MapFrameFacts ==
  ASSUME NEW h, NEW fr \in WFrames, Chosen(h, fr.f, fr.c) \in Fns
  PROVE  /\ MapFrame(h, fr) \in Frames
         /\ MapFrame(h, fr).f = Chosen(h, fr.f, fr.c) /\ MapFrame(h, fr).var = fr.var
         /\ MapFrame(h, fr).exp = fr.exp /\ MapFrame(h, fr).half = fr.half
BY DEF MapFrame, WFrames, Frames

LEMMA MapStackFacts ==
  ASSUME NEW h, NEW s \in Seq(WFrames), \A k \in 1 .. Len(s) : Chosen(h, s[k].f, s[k].c) \in Fns
  PROVE  /\ MapStack(h, s) \in Seq(Frames) /\ Len(MapStack(h, s)) = Len(s)
         /\ \A k \in 1 .. Len(s) : MapStack(h, s)[k] = MapFrame(h, s[k])
<1>1. PICK n \in Nat : n = Len(s)
  BY LenProperties
<1>2. DOMAIN s = 1 .. n /\ \A k \in 1 .. n : s[k] \in WFrames
  BY <1>1, LenProperties, ElementOfSeq
<1>3. \A k \in 1 .. n : MapFrame(h, s[k]) \in Frames
  BY <1>1, <1>2, MapFrameFacts
<1>4. PICK t : t = MapStack(h, s)
  OBVIOUS
<1>5. t = [k \in 1 .. n |-> MapFrame(h, s[k])]
  BY <1>2, <1>4 DEF MapStack
<1>6. t \in [1 .. n -> Frames]
  BY <1>3, <1>5
<1>7. t \in Seq(Frames) /\ Len(t) = n
  BY <1>6, SeqDef, LenProperties
<1>. QED
  BY <1>1, <1>4, <1>5, <1>7

LEMMA StoredFunctions ==
  ASSUME SearchInv, NEW s, AllStored(hash, s)
  PROVE  \A k \in 1 .. Len(s) : /\ Chosen(hash, s[k].f, s[k].c) \in Fns
                                /\ Chosen(hash, s[k].f, s[k].c) = hash[<<s[k].f, s[k].c>>].fret
<1>. SUFFICES ASSUME NEW k \in 1 .. Len(s)
     PROVE  /\ Chosen(hash, s[k].f, s[k].c) \in Fns
            /\ Chosen(hash, s[k].f, s[k].c) = hash[<<s[k].f, s[k].c>>].fret
  OBVIOUS
<1>1. <<s[k].f, s[k].c>> \in DOMAIN hash /\ ~IsConstant(s[k].f)
  BY DEF AllStored, FrameStored
<1>2. hash[<<s[k].f, s[k].c>>] \in Entries
  BY <1>1, FoundFacts
<1>. QED
  BY <1>1, <1>2 DEF Chosen, Entries

-----------------------------------------------------------------------------
(* What holds of the walk without -n, and of every walk where everything is *)
(* cared about: the pair about to be visited is in the table, and its       *)
(* function is further down than all open activations.                      *)
Deeper(F, s, n) == \A j \in 1 .. n : FreeUpTo(F, s[j].var)

PathOK(h, s, vs, p, F, C) ==
  /\ Len(vs) = Len(s) /\ \A k \in 1 .. Len(s) : vs[k] = s[k].var
  /\ \A k \in 1 .. Len(s) : Deeper(s[k].f, s, k - 1)
  /\ p = "call" => Known(h, F, C) /\ Deeper(F, s, Len(s))

Followed(nv, C) == ~nv \/ C = One
CareOK(nv, s, p, C) ==
  /\ \A k \in 1 .. Len(s) : Followed(nv, s[k].c)
  /\ p = "call" => Followed(nv, C)

Walking ==
  /\ SearchTypeOK /\ SearchInv /\ WalkStoredInv
  /\ phase = "gen" /\ PathOK(hash, stack, vars, pc, arg, care) /\ CareOK(naive, stack, pc, care)

WalkedTo == PathOK(hash, stack', vars', pc', arg', care') /\ W!GNext

LEMMA WalkingKeeps ==
  ASSUME Walking, WalkAction
  PROVE  /\ hash' = hash /\ root' = root /\ croot' = croot /\ naive' = naive /\ phase' = phase
         /\ RootResult' = RootResult
BY WalkKeeps, MapStackIs DEF svars

LEMMA StackTypes ==
  ASSUME Walking
  PROVE  /\ stack \in Seq(WFrames) /\ Len(stack) \in Nat /\ vars \in Seq(Vars)
         /\ AStack = MapStack(hash, stack) /\ AStack \in Seq(Frames) /\ Len(AStack) = Len(stack)
         /\ \A k \in 1 .. Len(stack) :
              /\ stack[k] \in WFrames /\ FrameStored(hash, stack[k])
              /\ AStack[k] = MapFrame(hash, stack[k]) /\ AStack[k] \in Frames
              /\ Chosen(hash, stack[k].f, stack[k].c) \in Fns
<1>1. stack \in Seq(WFrames) /\ vars \in Seq(Vars) /\ AllStored(hash, stack) /\ SearchInv
  BY DEF Walking, WalkStoredInv, WalkTypeOK
<1>2. Len(stack) \in Nat /\ \A k \in 1 .. Len(stack) : stack[k] \in WFrames
  BY <1>1, LenProperties, ElementOfSeq
<1>3. \A k \in 1 .. Len(stack) : Chosen(hash, stack[k].f, stack[k].c) \in Fns
  BY <1>1, StoredFunctions
<1>4. AStack = MapStack(hash, stack)
  BY MapStackIs
<1>5. /\ AStack \in Seq(Frames) /\ Len(AStack) = Len(stack)
      /\ \A k \in 1 .. Len(stack) : AStack[k] = MapFrame(hash, stack[k])
  BY <1>1, <1>3, <1>4, MapStackFacts
<1>6. \A k \in 1 .. Len(stack) : AStack[k] \in Frames
  BY <1>5, ElementOfSeq
<1>. QED
  BY <1>1, <1>2, <1>3, <1>4, <1>5, <1>6 DEF AllStored

LEMMA DeeperBelow ==
  ASSUME Walking, NEW F, NEW G, NEW n \in 0 .. Len(stack), Deeper(F, stack, n), NoEarlier(G, F)
  PROVE  Deeper(G, stack, n)
<1>1. \A k \in 1 .. Len(stack) : stack[k].var \in Vars
  BY StackTypes DEF WFrames
<1>2. \A k \in 1 .. n : k \in 1 .. Len(stack)
  BY StackTypes
<1>. QED
  BY <1>1, <1>2 DEF Deeper, NoEarlier

LEMMA VisitedFacts ==
  ASSUME Walking, pc = "call", ~IsConstant(arg)
  PROVE  /\ <<arg, care>> \in DOMAIN hash /\ arg \in Fns /\ care \in Fns /\ TopVar(arg) \in Vars
         /\ Found \in Entries /\ AArg = Found.fret /\ ClosedOK(hash, arg, care, Found)
         /\ Deeper(arg, stack, Len(stack))
<1>1. <<arg, care>> \in DOMAIN hash /\ Deeper(arg, stack, Len(stack))
  BY DEF Walking, PathOK, Known
<1>2. AArg = Found.fret
  BY MapStackIs DEF Chosen, Found
<1>. QED
  BY <1>1, <1>2, FoundFacts DEF Walking, Found, CareOK, Followed

LEMMA StackKept ==
  ASSUME hash' = hash, stack' = stack
  PROVE  AStack' = AStack
BY MapStackIs

LEMMA WalkStepConstant ==
  ASSUME Walking, WalkConstant
  PROVE  WalkedTo
<1>1. /\ pc = "call" /\ pc' = "return" /\ stack' = stack /\ vars' = vars /\ values' = values
      /\ arg' = arg /\ care' = care
      /\ \/ arg = Zero /\ esop' = esop
         \/ arg = One /\ esop' = Append(esop, TrailCube)
  BY DEF WalkConstant, GenZero, GenOne
<1>2. RootResult' = RootResult /\ hash' = hash
  BY WalkingKeeps DEF WalkAction
<1>3. AArg = arg /\ AArg' = AArg
  BY <1>1, <1>2, MapStackIs DEF Chosen, IsConstant
<1>4. AStack' = AStack
  BY <1>1, <1>2, StackKept
<1>5. W!GNext
  BY <1>1, <1>2, <1>3, <1>4, MapZero, MapOne, MapNext
<1>. QED
  BY <1>1, <1>5 DEF WalkedTo, Walking, PathOK

LEMMA WalkStepF0 ==
  ASSUME Walking, WalkF0
  PROVE  WalkedTo
<1>1. /\ pc = "call" /\ pc' = "return" /\ stack' = stack /\ vars' = vars /\ values' = values
      /\ arg' = arg /\ care' = care /\ esop' = esop
      /\ ~IsConstant(arg) /\ Found.exp = "F0"
  BY DEF WalkF0, Decided, Visiting
<1>2. RootResult' = RootResult /\ hash' = hash
  BY WalkingKeeps DEF WalkAction
<1>3. AArg = Zero /\ AArg' = AArg
  BY <1>1, <1>2, VisitedFacts, MapStackIs DEF ClosedOK
<1>4. AStack' = AStack
  BY <1>1, <1>2, StackKept
<1>5. W!GNext
  BY <1>1, <1>2, <1>3, <1>4, MapZero, MapNext
<1>. QED
  BY <1>1, <1>5 DEF WalkedTo, Walking, PathOK

(* A skipped variable is a stuttering step of the walk.                     *)
LEMMA WalkStepSkip ==
  ASSUME Walking, WalkSkip
  PROVE  PathOK(hash, stack', vars', pc', arg', care') /\ UNCHANGED W!gvars
<1>1. /\ pc' = pc /\ stack' = stack /\ vars' = vars /\ values' = values /\ esop' = esop
      /\ pc = "call" /\ ~IsConstant(arg)
      /\ \/ Found.exp = "C0" /\ arg' = T1(arg) /\ care' = C1Of(arg, care)
         \/ Found.exp = "C1" /\ arg' = E0(arg) /\ care' = C0Of(arg, care)
  BY DEF WalkSkip, Decided, Visiting
<1>2. RootResult' = RootResult /\ hash' = hash
  BY WalkingKeeps DEF WalkAction
<1>3. Known(hash, arg', care') /\ Chosen(hash, arg', care') = Found.fret
  BY <1>1, VisitedFacts DEF ClosedOK
<1>4. AArg' = AArg
  BY <1>1, <1>2, <1>3, VisitedFacts, MapStackIs
<1>5. AStack' = AStack
  BY <1>1, <1>2, StackKept
<1>6. Deeper(arg', stack, Len(stack))
  <2>1. NoEarlier(arg', arg)
    BY <1>1, VisitedFacts, HalvesBelow
  <2>2. Len(stack) \in 0 .. Len(stack)
    BY StackTypes
  <2>. QED
    BY <1>1, <2>1, <2>2, VisitedFacts, DeeperBelow
<1>7. UNCHANGED W!gvars
  BY <1>1, <1>2, <1>4, <1>5 DEF W!gvars, AArg, AStack
<1>. QED
  BY <1>1, <1>3, <1>6, <1>7 DEF Walking, PathOK

LEMMA WalkStepEnter ==
  ASSUME Walking, WalkEnter
  PROVE  WalkedTo
<1>1. pc = "call" /\ ~IsConstant(arg) /\ Found.exp \in ExpTypes
  BY DEF WalkEnter, Decided, Visiting
<1>2. PICK e \in ExpTypes : e = Found.exp
  BY <1>1
<1>3. PICK v \in Vars : v = TopVar(arg)
  BY <1>1, VisitedFacts
<1>4. /\ stack' = Append(stack, [f |-> arg, c |-> care, var |-> v, exp |-> e, half |-> 1])
      /\ vars' = Append(vars, v)
      /\ values' = [values EXCEPT ![v] = FirstValue(e)]
      /\ arg' = FirstChild(arg, v, e)
      /\ care' = FirstCare(arg, care, e)
      /\ pc' = pc /\ esop' = esop
  BY <1>2, <1>3 DEF WalkEnter, FirstCare
<1>5. PICK fr : fr = [f |-> arg, c |-> care, var |-> v, exp |-> e, half |-> 1]
  OBVIOUS
<1>6. /\ fr \in WFrames /\ fr.f = arg /\ fr.c = care /\ fr.var = v /\ fr.exp = e /\ fr.half = 1
  BY <1>1, <1>5, VisitedFacts DEF WFrames
<1>7. RootResult' = RootResult /\ hash' = hash
  BY WalkingKeeps DEF WalkAction
<1>8. PICK n \in Nat : n = Len(stack)
  BY StackTypes
<1>9. PICK t : t = stack'
  OBVIOUS
<1>10. t \in Seq(WFrames) /\ Len(t) = n + 1 /\ t[n + 1] = fr /\ \A k \in 1 .. n : t[k] = stack[k]
  <2>1. t = Append(stack, fr)
    BY <1>4, <1>5, <1>9
  <2>. QED
    BY <2>1, <1>6, <1>8, StackTypes, AppendFacts
<1>11. PICK afr : afr = [f |-> AArg, var |-> v, exp |-> e, half |-> 1]
  OBVIOUS
<1>12. AArg \in Fns /\ AArg = Chosen(hash, arg, care)
  BY <1>1, VisitedFacts, MapStackIs DEF Entries
<1>13. MapFrame(hash, fr) = afr /\ afr \in Frames
  BY <1>6, <1>11, <1>12 DEF MapFrame, Frames
<1>14. AStack' = Append(AStack, afr)
  <2>1. \A k \in 1 .. n + 1 : k = n + 1 \/ k \in 1 .. n
    OBVIOUS
  <2>2. \A k \in 1 .. Len(t) : Chosen(hash, t[k].f, t[k].c) \in Fns
    BY <2>1, <1>6, <1>8, <1>10, <1>12, StackTypes
  <2>3. /\ MapStack(hash, t) \in Seq(Frames) /\ Len(MapStack(hash, t)) = n + 1
        /\ \A k \in 1 .. n + 1 : MapStack(hash, t)[k] = MapFrame(hash, t[k])
    BY <2>2, <1>10, MapStackFacts
  <2>4. /\ AStack \in Seq(Frames) /\ Len(AStack) = n
        /\ \A k \in 1 .. n : AStack[k] = MapFrame(hash, stack[k])
    BY <1>8, StackTypes
  <2>5. PICK u : u = Append(AStack, afr)
    OBVIOUS
  <2>6. u \in Seq(Frames) /\ Len(u) = n + 1 /\ u[n + 1] = afr /\ \A k \in 1 .. n : u[k] = AStack[k]
    BY <2>4, <2>5, <1>13, AppendFacts
  <2>7. \A k \in 1 .. n + 1 : MapStack(hash, t)[k] = u[k]
    BY <2>1, <2>3, <2>4, <2>6, <1>10, <1>13
  <2>8. MapStack(hash, t) = u
    BY <2>3, <2>6, <2>7, SequencesEqual
  <2>. QED
    BY <2>5, <2>8, <1>7, <1>9, MapStackIs
<1>15. Known(hash, arg', care') /\ AArg' = FirstChild(AArg, v, e)
  <2>1. /\ Known(hash, FirstChild(arg, v, e), FirstCare(arg, care, e))
        /\ Chosen(hash, FirstChild(arg, v, e), FirstCare(arg, care, e)) = FirstChild(Found.fret, v, e)
    BY <1>1, <1>2, <1>3, VisitedFacts DEF ClosedOK
  <2>. QED
    BY <2>1, <1>1, <1>4, <1>7, VisitedFacts, MapStackIs
<1>16. v \notin Trail
  <2>. SUFFICES ASSUME v \in Trail PROVE FALSE
    OBVIOUS
  <2>1. PICK k \in 1 .. Len(vars) : v = vars[k]
    BY DEF Trail
  <2>2. k \in 1 .. Len(stack) /\ v = stack[k].var
    BY <2>1 DEF Walking, PathOK
  <2>3. FreeUpTo(arg, v)
    BY <2>2, <1>1, VisitedFacts DEF Deeper
  <2>4. v < TopVar(arg)
    BY <2>3, <1>1, VisitedFacts, FreeUpToBefore
  <2>. QED
    BY <2>4, <1>3, NAssumption DEF Vars
<1>17. W!GNext
  BY <1>1, <1>2, <1>3, <1>4, <1>7, <1>11, <1>14, <1>15, <1>16, MapEnter, MapNext
<1>18. PathOK(hash, t, vars', pc', arg', care')
  <2>1. \A k \in 1 .. n + 1 : k = n + 1 \/ k \in 1 .. n
    OBVIOUS
  <2>2. /\ Len(vars) = n /\ vars \in Seq(Vars) /\ (\A k \in 1 .. n : vars[k] = stack[k].var)
        /\ \A k \in 1 .. n : Deeper(stack[k].f, stack, k - 1)
    BY <1>8, StackTypes DEF Walking, PathOK
  <2>3. Len(vars') = n + 1 /\ \A k \in 1 .. n + 1 : vars'[k] = t[k].var
    <3>1. /\ Len(Append(vars, v)) = n + 1 /\ Append(vars, v)[n + 1] = v
          /\ \A k \in 1 .. n : Append(vars, v)[k] = vars[k]
      BY <2>2, AppendFacts
    <3>. QED
      BY <3>1, <2>1, <2>2, <1>4, <1>6, <1>10
  <2>4. \A F, k : k \in 0 .. n => (Deeper(F, t, k) <=> Deeper(F, stack, k))
    <3>1. \A k \in 0 .. n : \A j \in 1 .. k : j \in 1 .. n
      OBVIOUS
    <3>. QED
      BY <3>1, <1>10 DEF Deeper
  <2>5. \A k \in 1 .. n + 1 : Deeper(t[k].f, t, k - 1)
    <3>1. \A k \in 1 .. n : Deeper(t[k].f, t, k - 1)
      <4>1. \A k \in 1 .. n : k - 1 \in 0 .. n
        OBVIOUS
      <4>. QED
        BY <4>1, <2>2, <2>4, <1>10
    <3>2. Deeper(arg, t, n)
      BY <2>4, <1>1, <1>8, VisitedFacts
    <3>3. (n + 1) - 1 = n
      OBVIOUS
    <3>. QED
      BY <3>1, <3>2, <3>3, <2>1, <1>6, <1>10
  <2>6. NoEarlier(arg', arg) /\ FreeUpTo(arg', v)
    <3>1. arg' = E0(arg) \/ arg' = T1(arg)
      BY <1>3, <1>4 DEF FirstChild, E0, T1
    <3>. QED
      BY <3>1, <1>1, <1>3, VisitedFacts, HalvesBelow
  <2>7. Deeper(arg', t, n + 1)
    <3>1. Deeper(arg', stack, n)
      BY <2>6, <1>1, <1>8, VisitedFacts, DeeperBelow
    <3>. QED
      BY <3>1, <2>1, <2>6, <1>6, <1>10 DEF Deeper
  <2>. QED
    BY <2>3, <2>5, <2>7, <1>10, <1>15 DEF PathOK
<1>. QED
  BY <1>9, <1>17, <1>18 DEF WalkedTo

LEMMA TopFollowed ==
  ASSUME Walking, stack # <<>>
  PROVE  Followed(naive, Top.c)
<1>1. PICK n \in Nat \ {0} : n = Len(stack)
  BY WalkTop DEF Walking
<1>2. n \in 1 .. n
  OBVIOUS
<1>. QED
  BY <1>1, <1>2 DEF Top, Walking, CareOK

LEMMA WalkStepSecond ==
  ASSUME Walking, WalkSecond
  PROVE  WalkedTo
<1>1. /\ stack # <<>> /\ pc = "return" /\ Top.half = 1
      /\ arg' = SecondArg(Top.f, hash[<<Top.f, Top.c>>])
      /\ care' = SecondCare(Top.f, Top.c, Top.exp)
  BY WalkSecondFacts, TopFollowed DEF Walking, Followed
<1>2. /\ pc' = "call" /\ vars' = vars /\ esop' = esop
      /\ values' = [values EXCEPT ![Top.var] = SecondValue(Top.exp)]
  BY DEF WalkSecond
<1>3. RootResult' = RootResult /\ hash' = hash
  BY WalkingKeeps DEF WalkAction
<1>4. PICK n \in Nat \ {0} : n = Len(stack)
  BY <1>1, WalkTop DEF Walking
<1>5. PICK fr : fr = stack[n]
  OBVIOUS
<1>6. n \in 1 .. n /\ Top = fr
  BY <1>4, <1>5 DEF Top
<1>7. /\ fr \in WFrames /\ FrameStored(hash, fr) /\ AStack[n] = MapFrame(hash, fr)
      /\ AStack \in Seq(Frames) /\ Len(AStack) = n /\ Chosen(hash, fr.f, fr.c) \in Fns
      /\ \A k \in 1 .. n : /\ stack[k] \in WFrames /\ AStack[k] = MapFrame(hash, stack[k])
                           /\ AStack[k] \in Frames
                           /\ Chosen(hash, stack[k].f, stack[k].c) \in Fns
  BY <1>4, <1>5, <1>6, StackTypes
<1>8. PICK en : en = hash[<<fr.f, fr.c>>]
  OBVIOUS
<1>9. /\ ~IsConstant(fr.f) /\ fr.f \in Fns /\ en.exp = fr.exp /\ fr.exp \in ExpTypes
      /\ fr.var = TopVar(fr.f) /\ fr.var \in Vars
      /\ Chosen(hash, fr.f, fr.c) = en.fret /\ ClosedOK(hash, fr.f, fr.c, en)
  <2>1. Followed(naive, fr.c)
    BY <1>1, <1>6, TopFollowed
  <2>. QED
    BY <2>1, <1>7, <1>8, FoundFacts DEF FrameStored, WFrames, Walking, Chosen, Followed
<1>10. /\ Known(hash, arg', care')
       /\ Chosen(hash, arg', care') = SecondChild(en.fret, fr.var, fr.exp)
       /\ FreeUpTo(arg', fr.var) /\ NoEarlier(arg', fr.f)
  BY <1>1, <1>6, <1>8, <1>9 DEF ClosedOK
<1>11. /\ ATop.f = en.fret /\ ATop.var = fr.var /\ ATop.exp = fr.exp /\ ATop.half = fr.half
  BY <1>7, <1>9, MapFrameFacts DEF ATop
<1>12. AArg' = SecondChild(ATop.f, ATop.var, ATop.exp)
  BY <1>3, <1>10, <1>11, MapStackIs
<1>13. PICK t : t = stack'
  OBVIOUS
<1>14. /\ t \in Seq(WFrames) /\ Len(t) = n
       /\ \A k \in 1 .. n : /\ t[k].f = stack[k].f /\ t[k].c = stack[k].c
                            /\ t[k].var = stack[k].var /\ t[k].exp = stack[k].exp
                            /\ t[k].half = IF k = n THEN 2 ELSE stack[k].half
  BY <1>4, <1>13, SecondStack DEF Walking
<1>15. AStack' = [AStack EXCEPT ![Len(AStack)].half = 2]
  <2>1. \A k \in 1 .. Len(t) : Chosen(hash, t[k].f, t[k].c) \in Fns
    BY <1>7, <1>14
  <2>2. /\ MapStack(hash, t) \in Seq(Frames) /\ Len(MapStack(hash, t)) = n
        /\ \A k \in 1 .. n : MapStack(hash, t)[k] = MapFrame(hash, t[k])
    BY <2>1, <1>14, MapStackFacts
  <2>3. PICK afr : afr = [AStack[n] EXCEPT !.half = 2]
    OBVIOUS
  <2>4. /\ afr \in Frames /\ afr.f = AStack[n].f /\ afr.var = AStack[n].var
        /\ afr.exp = AStack[n].exp /\ afr.half = 2
    BY <2>3, <1>6, <1>7 DEF Frames
  <2>5. PICK u : u = [AStack EXCEPT ![n] = afr]
    OBVIOUS
  <2>6. /\ u \in Seq(Frames) /\ Len(u) = n /\ u[n] = afr
        /\ \A k \in 1 .. n : k # n => u[k] = AStack[k]
    BY <2>4, <2>5, <1>6, <1>7
  <2>7. ASSUME NEW k \in 1 .. n PROVE MapStack(hash, t)[k] = u[k]
    <3>1. MapStack(hash, t)[k] = MapFrame(hash, t[k]) /\ AStack[k] = MapFrame(hash, stack[k])
      BY <2>2, <1>7
    <3>2. CASE k = n
      <4>1. /\ MapFrame(hash, t[n])
                 = [f |-> Chosen(hash, fr.f, fr.c), var |-> fr.var, exp |-> fr.exp, half |-> 2]
        BY <1>5, <1>6, <1>14 DEF MapFrame
      <4>2. afr = [f |-> Chosen(hash, fr.f, fr.c), var |-> fr.var, exp |-> fr.exp, half |-> 2]
        BY <2>3, <1>7 DEF MapFrame
      <4>. QED
        BY <3>1, <3>2, <4>1, <4>2, <2>6
    <3>3. CASE k # n
      <4>1. t[k].half = stack[k].half
        BY <3>3, <1>14
      <4>. QED
        BY <3>1, <3>3, <4>1, <2>6, <1>14 DEF MapFrame
    <3>. QED
      BY <3>2, <3>3
  <2>8. MapStack(hash, t) = u
    BY <2>2, <2>6, <2>7, SequencesEqual
  <2>9. AStack' = u
    BY <2>8, <1>3, <1>13, MapStackIs
  <2>. QED
    BY <2>3, <2>5, <2>9, <1>7
<1>16. W!GNext
  <2>1. AStack # <<>>
    BY <1>7, EmptySeq
  <2>2. values' = [values EXCEPT ![ATop.var] = SecondValue(ATop.exp)] /\ ATop.half = 1
    BY <1>1, <1>2, <1>6, <1>11
  <2>. QED
    BY <2>1, <2>2, <1>1, <1>2, <1>3, <1>12, <1>15, MapSecond, MapNext
<1>17. PathOK(hash, t, vars, pc', arg', care')
  <2>1. /\ Len(vars) = n /\ \A k \in 1 .. n : vars[k] = stack[k].var
        /\ \A k \in 1 .. n : Deeper(stack[k].f, stack, k - 1)
    BY <1>4 DEF Walking, PathOK
  <2>2. \A F, k : k \in 0 .. n => (Deeper(F, t, k) <=> Deeper(F, stack, k))
    <3>1. \A k \in 0 .. n : \A j \in 1 .. k : j \in 1 .. n
      OBVIOUS
    <3>. QED
      BY <3>1, <1>14 DEF Deeper
  <2>3. \A k \in 1 .. n : Deeper(t[k].f, t, k - 1)
    <3>1. \A k \in 1 .. n : k - 1 \in 0 .. n
      OBVIOUS
    <3>. QED
      BY <3>1, <2>1, <2>2, <1>14
  <2>4. Deeper(arg', stack, n)
    <3>1. Deeper(fr.f, stack, n - 1)
      BY <2>1, <1>5, <1>6
    <3>2. n - 1 \in 0 .. Len(stack)
      BY <1>4
    <3>3. Deeper(arg', stack, n - 1)
      BY <3>1, <3>2, <1>10, DeeperBelow
    <3>4. \A k \in 1 .. n : k = n \/ k \in 1 .. n - 1
      OBVIOUS
    <3>. QED
      BY <3>3, <3>4, <1>5, <1>10 DEF Deeper
  <2>5. n \in 0 .. n
    OBVIOUS
  <2>. QED
    BY <2>1, <2>2, <2>3, <2>4, <2>5, <1>10, <1>14 DEF PathOK
<1>. QED
  BY <1>2, <1>13, <1>16, <1>17 DEF WalkedTo

LEMMA WalkStepLeave ==
  ASSUME Walking, WalkLeave
  PROVE  WalkedTo
<1>1. /\ stack # <<>> /\ pc = "return" /\ Top.half = 2
      /\ stack' = Pop(stack) /\ vars' = Pop(vars)
      /\ values' = [values EXCEPT ![Top.var] = "DONTCARE"]
      /\ arg' = arg /\ care' = care /\ pc' = pc /\ esop' = esop
  BY DEF WalkLeave, GenLeave
<1>2. RootResult' = RootResult /\ hash' = hash
  BY WalkingKeeps DEF WalkAction
<1>3. PICK n \in Nat \ {0} : n = Len(stack)
  BY <1>1, WalkTop DEF Walking
<1>4. PICK fr : fr = stack[n]
  OBVIOUS
<1>5. n \in 1 .. n /\ Top = fr
  BY <1>3, <1>4 DEF Top
<1>6. /\ stack \in Seq(WFrames) /\ vars \in Seq(Vars)
      /\ fr \in WFrames /\ AStack[n] = MapFrame(hash, fr) /\ Chosen(hash, fr.f, fr.c) \in Fns
      /\ AStack \in Seq(Frames) /\ Len(AStack) = n
      /\ \A k \in 1 .. n : /\ AStack[k] = MapFrame(hash, stack[k])
                           /\ Chosen(hash, stack[k].f, stack[k].c) \in Fns
  BY <1>3, <1>4, <1>5, StackTypes
<1>7. PICK t : t = Pop(stack)
  OBVIOUS
<1>8. t \in Seq(WFrames) /\ Len(t) = n - 1 /\ \A k \in 1 .. n - 1 : t[k] = stack[k]
  BY <1>1, <1>3, <1>6, <1>7, PopProperties
<1>9. \A k \in 1 .. n - 1 : k \in 1 .. n
  OBVIOUS
<1>10. ATop.var = fr.var /\ ATop.half = fr.half
  BY <1>6, MapFrameFacts DEF ATop
<1>11. AStack # <<>>
  BY <1>6, EmptySeq
<1>12. AStack' = Pop(AStack)
  <2>1. \A k \in 1 .. Len(t) : Chosen(hash, t[k].f, t[k].c) \in Fns
    BY <1>6, <1>8, <1>9
  <2>2. /\ MapStack(hash, t) \in Seq(Frames) /\ Len(MapStack(hash, t)) = n - 1
        /\ \A k \in 1 .. n - 1 : MapStack(hash, t)[k] = MapFrame(hash, t[k])
    BY <2>1, <1>8, MapStackFacts
  <2>3. PICK u : u = Pop(AStack)
    OBVIOUS
  <2>4. u \in Seq(Frames) /\ Len(u) = n - 1 /\ \A k \in 1 .. n - 1 : u[k] = AStack[k]
    BY <2>3, <1>6, <1>11, PopProperties
  <2>5. \A k \in 1 .. n - 1 : MapStack(hash, t)[k] = u[k]
    BY <2>2, <2>4, <1>6, <1>8, <1>9
  <2>6. MapStack(hash, t) = u
    BY <2>2, <2>4, <2>5, SequencesEqual
  <2>. QED
    BY <2>3, <2>6, <1>1, <1>2, <1>7, MapStackIs
<1>13. AArg' = AArg
  BY <1>1, <1>2, MapStackIs
<1>14. W!GNext
  BY <1>1, <1>2, <1>5, <1>10, <1>11, <1>12, <1>13, MapLeave, MapNext
<1>15. PathOK(hash, t, vars', pc', arg', care')
  <2>1. /\ Len(vars) = n /\ \A k \in 1 .. n : vars[k] = stack[k].var
        /\ \A k \in 1 .. n : Deeper(stack[k].f, stack, k - 1)
    BY <1>3 DEF Walking, PathOK
  <2>2. Len(vars') = n - 1 /\ \A k \in 1 .. n - 1 : vars'[k] = vars[k]
    <3>1. vars # <<>>
      BY <2>1, EmptySeq
    <3>. QED
      BY <3>1, <2>1, <1>1, <1>6, PopProperties
  <2>3. \A k \in 1 .. n - 1 : vars'[k] = t[k].var
    BY <2>1, <2>2, <1>8, <1>9
  <2>4. \A k \in 1 .. n - 1 : Deeper(t[k].f, t, k - 1)
    <3>1. \A k \in 1 .. n - 1 : \A j \in 1 .. k - 1 : j \in 1 .. n - 1
      OBVIOUS
    <3>. QED
      BY <3>1, <2>1, <1>8, <1>9 DEF Deeper
  <2>5. pc' # "call"
    BY <1>1
  <2>. QED
    BY <2>2, <2>3, <2>4, <2>5, <1>8 DEF PathOK
<1>. QED
  BY <1>1, <1>7, <1>14, <1>15 DEF WalkedTo

(* The walk follows only pairs it finds: without -n all, with -n those that *)
(* are cared about everywhere, whose halves are so too.                     *)
LEMMA FollowedHalves ==
  ASSUME NEW nv, NEW F \in Fns, ~IsConstant(F), NEW C, Followed(nv, C)
  PROVE  \A e : /\ Followed(nv, C0Of(F, C)) /\ Followed(nv, C1Of(F, C))
                /\ Followed(nv, FirstCare(F, C, e)) /\ Followed(nv, SecondCare(F, C, e))
BY FullHalves DEF Followed, FirstCare, SecondCare

LEMMA CareStep ==
  ASSUME Walking, WalkAction
  PROVE  CareOK(naive, stack', pc', care')
<1>1. PICK n \in Nat : n = Len(stack)
  BY StackTypes
<1>2. \A k \in 1 .. n : Followed(naive, stack[k].c)
  BY <1>1 DEF Walking, CareOK
<1>3. CASE WalkConstant \/ WalkF0
  <2>1. pc' = "return" /\ stack' = stack
    BY <1>3 DEF WalkConstant, GenZero, GenOne, WalkF0
  <2>. QED
    BY <2>1, <1>1, <1>2 DEF CareOK
<1>4. CASE WalkSkip
  <2>1. /\ stack' = stack /\ pc = "call" /\ ~IsConstant(arg)
        /\ care' = C1Of(arg, care) \/ care' = C0Of(arg, care)
    BY <1>4 DEF WalkSkip, Decided, Visiting
  <2>2. arg \in Fns /\ Followed(naive, care)
    BY <2>1, VisitedFacts DEF Walking, CareOK
  <2>3. Followed(naive, care')
    BY <2>1, <2>2, FollowedHalves
  <2>. QED
    BY <2>1, <2>3, <1>1, <1>2 DEF CareOK
<1>5. CASE WalkEnter
  <2>1. pc = "call" /\ ~IsConstant(arg) /\ Found.exp \in ExpTypes
    BY <1>5 DEF WalkEnter, Decided, Visiting
  <2>2. arg \in Fns /\ care \in Fns /\ TopVar(arg) \in Vars /\ Followed(naive, care)
    BY <2>1, VisitedFacts DEF Walking, CareOK
  <2>3. PICK fr : fr = [f |-> arg, c |-> care, var |-> TopVar(arg), exp |-> Found.exp, half |-> 1]
    OBVIOUS
  <2>4. fr \in WFrames /\ fr.c = care
    BY <2>1, <2>2, <2>3 DEF WFrames
  <2>5. stack' = Append(stack, fr) /\ care' = FirstCare(arg, care, Found.exp)
    BY <1>5, <2>3 DEF WalkEnter, FirstCare
  <2>6. Len(stack') = n + 1 /\ stack'[n + 1] = fr /\ \A k \in 1 .. n : stack'[k] = stack[k]
    BY <1>1, <2>4, <2>5, StackTypes, AppendFacts
  <2>7. Followed(naive, care')
    BY <2>1, <2>2, <2>5, FollowedHalves
  <2>8. \A k \in 1 .. n + 1 : k = n + 1 \/ k \in 1 .. n
    OBVIOUS
  <2>. QED
    BY <2>2, <2>4, <2>6, <2>7, <2>8, <1>2 DEF CareOK
<1>6. CASE WalkSecond
  <2>1. /\ Len(stack') = n /\ \A k \in 1 .. n : stack'[k].c = stack[k].c
    BY <1>1, <1>6, SecondStack DEF Walking
  <2>2. /\ stack # <<>>
        /\ ~naive \/ Top.c = One => care' = SecondCare(Top.f, Top.c, Top.exp)
    BY <1>6, WalkSecondFacts DEF Walking
  <2>3. Top.f \in Fns /\ ~IsConstant(Top.f) /\ Followed(naive, Top.c)
    BY <2>2, WalkTop, TopFollowed DEF Walking, WFrames, FrameStored
  <2>4. Followed(naive, care')
    BY <2>2, <2>3, FollowedHalves DEF Followed
  <2>. QED
    BY <2>1, <2>4, <1>2 DEF CareOK
<1>7. CASE WalkLeave
  <2>1. stack # <<>> /\ stack' = Pop(stack) /\ pc' = pc /\ pc = "return"
    BY <1>7 DEF WalkLeave, GenLeave
  <2>2. Len(stack') = n - 1 /\ \A k \in 1 .. n - 1 : stack'[k] = stack[k]
    BY <2>1, <1>1, StackTypes, PopProperties
  <2>3. \A k \in 1 .. n - 1 : k \in 1 .. n
    OBVIOUS
  <2>. QED
    BY <2>1, <2>2, <2>3, <1>2 DEF CareOK
<1>. QED
  BY <1>3, <1>4, <1>5, <1>6, <1>7 DEF WalkAction

-----------------------------------------------------------------------------
(* The ledger of the cubes: those emitted, those the open activations still *)
(* owe and those of the call that runs are what the root's pair cost.       *)
OwedCost(h, fr) ==
  IF fr.half = 1
  THEN PairCost(h, SecondArg(fr.f, h[<<fr.f, fr.c>>]), SecondCare(fr.f, fr.c, fr.exp)) ELSE 0
OwedCosts(h, s) == [k \in 1 .. Len(s) |-> OwedCost(h, s[k])]
DueCost(h, p, F, C) == IF p = "call" THEN PairCost(h, F, C) ELSE 0
CostsOK == Ledger(OwedCosts(hash, stack), Len(stack), Len(esop), DueCost(hash, pc, arg, care),
                  PairCost(hash, root, croot))

LEMMA PairCostType ==
  ASSUME SearchInv, NEW F, NEW C, Known(hash, F, C)
  PROVE  PairCost(hash, F, C) \in Nat
<1>1. CASE IsConstant(F)
  BY <1>1 DEF PairCost
<1>2. CASE ~IsConstant(F)
  BY <1>2, FoundFacts DEF PairCost, Known, Entries
<1>. QED
  BY <1>1, <1>2

LEMMA CostsStart ==
  ASSUME SearchInv, Known(hash, root, croot), stack = <<>>, esop = <<>>, pc = "call",
         arg = root, care = croot,
         hash' = hash, stack' = stack, esop' = esop, pc' = pc, arg' = arg, care' = care,
         root' = root, croot' = croot
  PROVE  CostsOK'
<1>1. PICK d \in Nat : d = PairCost(hash, root, croot)
  BY PairCostType
<1>2. PICK o : o = OwedCosts(hash, stack)
  OBVIOUS
<1>3. Ledger(o, 0, 0, d, d)
  BY LedgerStart
<1>4. Len(stack) = 0 /\ Len(esop) = 0 /\ DueCost(hash, pc, arg, care) = d
  BY <1>1, EmptySeq DEF DueCost
<1>5. CostsOK
  BY <1>1, <1>2, <1>3, <1>4 DEF CostsOK
<1>6. CostsOK' = CostsOK
  BY DEF CostsOK, OwedCosts
<1>. QED
  BY <1>5, <1>6

(* The terms of the ledger, and their types.                                *)
LEMMA CostTerms ==
  ASSUME Walking
  PROVE  \E o, n, l, d, total :
           /\ o = OwedCosts(hash, stack) /\ n = Len(stack) /\ l = Len(esop)
           /\ d = DueCost(hash, pc, arg, care) /\ total = PairCost(hash, root, croot)
           /\ n \in Nat /\ l \in Nat /\ d \in Nat
<1>1. Len(stack) \in Nat /\ Len(esop) \in Nat
  BY LenProperties DEF Walking, WalkStoredInv, WalkTypeOK
<1>2. DueCost(hash, pc, arg, care) \in Nat
  BY PairCostType DEF DueCost, Walking, PathOK
<1>. QED
  BY <1>1, <1>2

(* A call that returns at once: as many cubes are emitted as it cost.       *)
LEMMA CostsEmit ==
  ASSUME Walking, CostsOK, WalkConstant \/ WalkF0
  PROVE  CostsOK'
<1>1. PICK o, n, l, d, total :
        /\ o = OwedCosts(hash, stack) /\ n = Len(stack) /\ l = Len(esop)
        /\ d = DueCost(hash, pc, arg, care) /\ total = PairCost(hash, root, croot)
        /\ n \in Nat /\ l \in Nat /\ d \in Nat
  BY CostTerms
<1>2. Ledger(o, n, l, d, total)
  BY <1>1 DEF CostsOK
<1>3. hash' = hash /\ root' = root /\ croot' = croot
  BY WalkingKeeps DEF WalkAction
<1>4. pc = "call" /\ pc' = "return" /\ stack' = stack
  BY DEF WalkConstant, GenZero, GenOne, WalkF0, Decided, Visiting
<1>5. PICK m : m = Len(esop')
  OBVIOUS
<1>6. m = l + d
  <2>1. CASE WalkF0
    <3>1. ~IsConstant(arg) /\ Found.exp = "F0" /\ esop' = esop
      BY <2>1 DEF WalkF0, Decided, Visiting
    <3>2. d = 0
      BY <3>1, <1>1, <1>4, VisitedFacts DEF DueCost, PairCost, ClosedOK, Found
    <3>. QED
      BY <3>1, <3>2, <1>1, <1>5
  <2>2. CASE arg = Zero /\ esop' = esop
    <3>1. d = 0
      BY <2>2, <1>1, <1>4, ZeroOne DEF DueCost, PairCost, IsConstant
    <3>. QED
      BY <2>2, <3>1, <1>1, <1>5
  <2>3. CASE arg = One /\ esop' = Append(esop, TrailCube)
    <3>1. d = 1
      BY <2>3, <1>1, <1>4 DEF DueCost, PairCost, IsConstant
    <3>2. TrailCube \in Cubes /\ esop \in Seq(Cubes)
      BY TrailCubeIsCube DEF Walking, WalkStoredInv, WalkTypeOK
    <3>3. m = l + 1
      BY <2>3, <3>2, <1>1, <1>5, AppendFacts
    <3>. QED
      BY <3>1, <3>3
  <2>. QED
    BY <2>1, <2>2, <2>3 DEF WalkConstant, GenZero, GenOne
<1>7. Ledger(o, n, m, 0, total)
  BY <1>1, <1>2, <1>6, LedgerEmit
<1>8. OwedCosts(hash', stack') = o /\ Len(stack') = n
  BY <1>1, <1>3, <1>4
<1>9. DueCost(hash', pc', arg', care') = 0
  BY <1>4 DEF DueCost
<1>. QED
  BY <1>1, <1>3, <1>5, <1>7, <1>8, <1>9 DEF CostsOK

(* A skipped variable costs nothing.                                        *)
LEMMA CostsSkip ==
  ASSUME Walking, CostsOK, WalkSkip
  PROVE  CostsOK'
<1>1. /\ pc' = pc /\ stack' = stack /\ esop' = esop /\ pc = "call" /\ ~IsConstant(arg)
      /\ \/ Found.exp = "C0" /\ arg' = T1(arg) /\ care' = C1Of(arg, care)
         \/ Found.exp = "C1" /\ arg' = E0(arg) /\ care' = C0Of(arg, care)
  BY DEF WalkSkip, Decided, Visiting
<1>2. hash' = hash /\ root' = root /\ croot' = croot
  BY WalkingKeeps DEF WalkAction
<1>3. PairCost(hash, arg', care') = Found.cost
  BY <1>1, VisitedFacts DEF ClosedOK
<1>4. PairCost(hash, arg, care) = Found.cost
  BY <1>1 DEF PairCost, Found
<1>5. DueCost(hash', pc', arg', care') = DueCost(hash, pc, arg, care)
  BY <1>1, <1>2, <1>3, <1>4 DEF DueCost
<1>. QED
  BY <1>1, <1>2, <1>5 DEF CostsOK

LEMMA CostsEnter ==
  ASSUME Walking, CostsOK, WalkEnter
  PROVE  CostsOK'
<1>1. PICK o, n, l, d, total :
        /\ o = OwedCosts(hash, stack) /\ n = Len(stack) /\ l = Len(esop)
        /\ d = DueCost(hash, pc, arg, care) /\ total = PairCost(hash, root, croot)
        /\ n \in Nat /\ l \in Nat /\ d \in Nat
  BY CostTerms
<1>2. Ledger(o, n, l, d, total)
  BY <1>1 DEF CostsOK
<1>3. hash' = hash /\ root' = root /\ croot' = croot
  BY WalkingKeeps DEF WalkAction
<1>4. pc = "call" /\ ~IsConstant(arg) /\ Found.exp \in ExpTypes
  BY DEF WalkEnter, Decided, Visiting
<1>5. PICK e, v, en :
        e = Found.exp /\ v = TopVar(arg) /\ en = Found /\ e \in ExpTypes /\ v \in Vars
  BY <1>4, VisitedFacts
<1>6. PICK fr : fr = [f |-> arg, c |-> care, var |-> v, exp |-> e, half |-> 1]
  OBVIOUS
<1>7. /\ fr \in WFrames /\ fr.f = arg /\ fr.c = care /\ fr.exp = e /\ fr.half = 1
  BY <1>4, <1>5, <1>6, VisitedFacts DEF WFrames
<1>8. /\ stack' = Append(stack, fr) /\ arg' = FirstChild(arg, v, e)
      /\ care' = FirstCare(arg, care, e) /\ pc' = pc /\ esop' = esop
  BY <1>5, <1>6 DEF WalkEnter, FirstCare
<1>9. PICK t : t = stack'
  OBVIOUS
<1>10. Len(t) = n + 1 /\ t[n + 1] = fr /\ \A k \in 1 .. n : t[k] = stack[k]
  BY <1>1, <1>7, <1>8, <1>9, StackTypes, AppendFacts
<1>11. /\ Known(hash, FirstChild(arg, v, e), FirstCare(arg, care, e))
       /\ Known(hash, SecondArg(arg, en), SecondCare(arg, care, e))
       /\ en.cost = PairCost(hash, FirstChild(arg, v, e), FirstCare(arg, care, e))
                      + PairCost(hash, SecondArg(arg, en), SecondCare(arg, care, e))
  BY <1>4, <1>5, VisitedFacts DEF ClosedOK
<1>12. PICK x \in Nat : x = PairCost(hash, FirstChild(arg, v, e), FirstCare(arg, care, e))
  BY <1>11, PairCostType DEF Walking
<1>13. PICK y \in Nat : y = PairCost(hash, SecondArg(arg, en), SecondCare(arg, care, e))
  BY <1>11, PairCostType DEF Walking
<1>14. d = en.cost
  BY <1>1, <1>4, <1>5 DEF DueCost, PairCost, Found
<1>15. d = x + y
  BY <1>11, <1>12, <1>13, <1>14
<1>16. PICK p : p = OwedCosts(hash, t)
  OBVIOUS
<1>17. p[n + 1] = y
  <2>1. n + 1 \in 1 .. n + 1
    BY <1>1
  <2>2. p[n + 1] = OwedCost(hash, fr)
    BY <2>1, <1>10, <1>16 DEF OwedCosts
  <2>3. OwedCost(hash, fr) = y
    BY <1>5, <1>7, <1>13 DEF OwedCost, Found
  <2>. QED
    BY <2>2, <2>3
<1>18. \A k \in 1 .. n : p[k] = o[k]
  <2>1. \A k \in 1 .. n : k \in 1 .. n + 1
    BY <1>1
  <2>. QED
    BY <2>1, <1>1, <1>10, <1>16 DEF OwedCosts
<1>19. Ledger(p, n + 1, l, x, total)
  BY <1>1, <1>2, <1>15, <1>17, <1>18, LedgerPush
<1>20. DueCost(hash', pc', arg', care') = x
  BY <1>3, <1>4, <1>8, <1>12 DEF DueCost
<1>. QED
  BY <1>1, <1>3, <1>8, <1>9, <1>10, <1>16, <1>19, <1>20 DEF CostsOK

LEMMA CostsSecond ==
  ASSUME Walking, CostsOK, WalkSecond
  PROVE  CostsOK'
<1>1. PICK o, n, l, d, total :
        /\ o = OwedCosts(hash, stack) /\ n = Len(stack) /\ l = Len(esop)
        /\ d = DueCost(hash, pc, arg, care) /\ total = PairCost(hash, root, croot)
        /\ n \in Nat /\ l \in Nat /\ d \in Nat
  BY CostTerms
<1>2. hash' = hash /\ root' = root /\ croot' = croot
  BY WalkingKeeps DEF WalkAction
<1>3. /\ stack # <<>> /\ pc = "return" /\ Top.half = 1
      /\ arg' = SecondArg(Top.f, hash[<<Top.f, Top.c>>])
      /\ care' = SecondCare(Top.f, Top.c, Top.exp)
  BY WalkSecondFacts, TopFollowed DEF Walking, Followed
<1>4. pc' = "call" /\ esop' = esop
  BY DEF WalkSecond
<1>5. PICK j \in Nat : j + 1 = n
  <2>1. n \in Nat \ {0}
    BY <1>1, <1>3, WalkTop DEF Walking
  <2>2. n - 1 \in Nat /\ (n - 1) + 1 = n
    BY <2>1
  <2>. QED
    BY <2>2
<1>6. j + 1 \in 1 .. j + 1
  OBVIOUS
<1>7. Top = stack[j + 1]
  BY <1>1, <1>5 DEF Top
<1>8. Ledger(o, j + 1, l, 0, total)
  BY <1>1, <1>3, <1>5 DEF CostsOK, DueCost
<1>9. PICK x \in Nat : x = PairCost(hash, arg', care')
  <2>1. Known(hash, arg', care')
    BY WalkStepSecond, <1>4 DEF WalkedTo, PathOK
  <2>. QED
    BY <2>1, PairCostType DEF Walking
<1>10. o[j + 1] = x
  <2>1. o[j + 1] = OwedCost(hash, Top)
    BY <1>1, <1>5, <1>6, <1>7 DEF OwedCosts
  <2>. QED
    BY <2>1, <1>3, <1>9 DEF OwedCost
<1>11. PICK t : t = stack'
  OBVIOUS
<1>12. /\ Len(t) = j + 1
       /\ \A k \in 1 .. j + 1 : /\ t[k].f = stack[k].f /\ t[k].c = stack[k].c
                                /\ t[k].exp = stack[k].exp
                                /\ t[k].half = IF k = j + 1 THEN 2 ELSE stack[k].half
  BY <1>1, <1>5, <1>11, SecondStack DEF Walking
<1>13. PICK p : p = OwedCosts(hash, t)
  OBVIOUS
<1>14. p[j + 1] = 0
  <2>1. p[j + 1] = OwedCost(hash, t[j + 1])
    BY <1>6, <1>12, <1>13 DEF OwedCosts
  <2>2. t[j + 1].half = 2
    BY <1>6, <1>12
  <2>. QED
    BY <2>1, <2>2 DEF OwedCost
<1>15. \A k \in 1 .. j : p[k] = o[k]
  <2>. SUFFICES ASSUME NEW k \in 1 .. j PROVE p[k] = o[k]
    OBVIOUS
  <2>1. k \in 1 .. j + 1 /\ k # j + 1
    OBVIOUS
  <2>2. p[k] = OwedCost(hash, t[k]) /\ o[k] = OwedCost(hash, stack[k])
    BY <2>1, <1>1, <1>5, <1>12, <1>13 DEF OwedCosts
  <2>3. OwedCost(hash, t[k]) = OwedCost(hash, stack[k])
    BY <2>1, <1>12 DEF OwedCost
  <2>. QED
    BY <2>2, <2>3
<1>16. Ledger(p, j + 1, l, x, total)
  BY <1>1, <1>8, <1>10, <1>14, <1>15, LedgerTurn
<1>17. DueCost(hash', pc', arg', care') = x
  BY <1>2, <1>4, <1>9 DEF DueCost
<1>. QED
  BY <1>1, <1>2, <1>4, <1>11, <1>12, <1>13, <1>16, <1>17 DEF CostsOK

LEMMA CostsLeave ==
  ASSUME Walking, CostsOK, WalkLeave
  PROVE  CostsOK'
<1>1. PICK o, n, l, d, total :
        /\ o = OwedCosts(hash, stack) /\ n = Len(stack) /\ l = Len(esop)
        /\ d = DueCost(hash, pc, arg, care) /\ total = PairCost(hash, root, croot)
        /\ n \in Nat /\ l \in Nat /\ d \in Nat
  BY CostTerms
<1>2. hash' = hash /\ root' = root /\ croot' = croot
  BY WalkingKeeps DEF WalkAction
<1>3. /\ stack # <<>> /\ pc = "return" /\ Top.half = 2
      /\ stack' = Pop(stack) /\ pc' = pc /\ esop' = esop
  BY DEF WalkLeave, GenLeave
<1>4. PICK j \in Nat : j + 1 = n
  <2>1. n \in Nat \ {0}
    BY <1>1, <1>3, WalkTop DEF Walking
  <2>2. n - 1 \in Nat /\ (n - 1) + 1 = n
    BY <2>1
  <2>. QED
    BY <2>2
<1>5. Top = stack[j + 1] /\ j + 1 \in 1 .. j + 1
  BY <1>1, <1>4 DEF Top
<1>6. PICK t : t = stack'
  OBVIOUS
<1>7. Len(t) = j /\ \A k \in 1 .. j : t[k] = stack[k]
  <2>1. /\ Len(Pop(stack)) = Len(stack) - 1
        /\ \A k \in 1 .. Len(stack) - 1 : Pop(stack)[k] = stack[k]
    BY <1>3, StackTypes, PopProperties
  <2>2. Len(stack) - 1 = j
    BY <1>1, <1>4
  <2>. QED
    BY <2>1, <2>2, <1>3, <1>6
<1>8. Ledger(o, j + 1, l, d, total)
  BY <1>1, <1>4 DEF CostsOK
<1>9. o[j + 1] = 0
  <2>1. o[j + 1] = OwedCost(hash, Top)
    BY <1>1, <1>4, <1>5 DEF OwedCosts
  <2>. QED
    BY <2>1, <1>3 DEF OwedCost
<1>10. PICK p : p = OwedCosts(hash, t)
  OBVIOUS
<1>11. \A k \in 1 .. j : p[k] = o[k]
  <2>1. \A k \in 1 .. j : k \in 1 .. j + 1
    OBVIOUS
  <2>. QED
    BY <2>1, <1>1, <1>4, <1>7, <1>10 DEF OwedCosts
<1>12. Ledger(p, j, l, d, total)
  BY <1>8, <1>9, <1>11, LedgerPop
<1>13. DueCost(hash', pc', arg', care') = 0 /\ d = 0
  BY <1>1, <1>3 DEF DueCost
<1>. QED
  BY <1>1, <1>2, <1>3, <1>6, <1>7, <1>10, <1>12, <1>13 DEF CostsOK

LEMMA CostsStep ==
  ASSUME Walking, CostsOK, WalkAction
  PROVE  CostsOK'
BY CostsEmit, CostsSkip, CostsEnter, CostsSecond, CostsLeave DEF WalkAction

(* At the end everything is emitted.                                        *)
LEMMA CostsEnd ==
  ASSUME WalkStoredInv, CostsOK, GenDone
  PROVE  Len(esop) = PairCost(hash, root, croot)
<1>1. pc = "return" /\ Len(stack) = 0
  BY EmptySeq DEF GenDone
<1>2. PICK o, l, total :
        o = OwedCosts(hash, stack) /\ l = Len(esop) /\ total = PairCost(hash, root, croot)
  OBVIOUS
<1>3. l \in Nat
  BY <1>2, LenProperties DEF WalkStoredInv, WalkTypeOK
<1>4. Ledger(o, 0, l, 0, total)
  BY <1>1, <1>2 DEF CostsOK, DueCost
<1>. QED
  BY <1>2, <1>3, <1>4, LedgerEnd

-----------------------------------------------------------------------------
(* The second pass starts with what the first pass returned for the root.   *)
LEMMA RootReturned ==
  ASSUME SearchTypeOK, SearchInv, xstack = <<>>, xpc = "return"
  PROVE  /\ Known(hash, root, croot) /\ RootResult \in Fns /\ Agree(RootResult, root, croot)
         /\ Least(PairCost(hash, root, croot), root, croot)
<1>1. Len(xstack) = 0
  BY EmptySeq
<1>2. Returns(hash, ret, root, croot)
  BY <1>1 DEF SearchInv, ReturnOK, WantedFn, WantedCare
<1>3. RootResult = ret.f
  BY <1>2, MapStackIs DEF Returns
<1>. QED
  BY <1>2, <1>3 DEF Returns, GoodResult, Results

(* Nothing is open when the second pass starts and when it ends.            *)
LEMMA NothingOpen == stack = <<>> => AStack = <<>>
<1>. SUFFICES ASSUME stack = <<>> PROVE AStack = <<>>
  OBVIOUS
<1>1. stack \in Seq(WFrames) /\ Len(stack) = 0
  BY EmptySeq
<1>2. MapStack(hash, stack) \in Seq(Frames) /\ Len(MapStack(hash, stack)) = 0
  <2>1. \A k \in 1 .. Len(stack) : Chosen(hash, stack[k].f, stack[k].c) \in Fns
    BY <1>1
  <2>2. PICK s \in Seq(WFrames) : s = stack
    BY <1>1
  <2>. QED
    BY <2>1, <2>2, <1>1, MapStackFacts
<1>3. MapStack(hash, stack) = <<>>
  BY <1>2, EmptySeq
<1>. QED
  BY <1>3, MapStackIs

StartState ==
  /\ RootResult \in Fns /\ pc = "call" /\ AArg = RootResult /\ AStack = <<>> /\ vars = <<>>
  /\ values = [v \in Vars |-> "DONTCARE"] /\ esop = <<>>

LEMMA MapStart == StartState => W!GInv
BY MapInit, MappedInit DEF StartState

GenInv ==
  (phase = "gen" /\ Followed(naive, croot)) =>
    /\ PathOK(hash, stack, vars, pc, arg, care) /\ CareOK(naive, stack, pc, care)
    /\ CostsOK
    /\ W!GInv

IsfInv == SearchTypeOK /\ SearchInv /\ WalkStoredInv /\ GenInv

LEMMA GenStart ==
  ASSUME IsfInv, StartGen
  PROVE  GenInv'
<1>1. /\ phase = "search" /\ xstack = <<>> /\ xpc = "return"
      /\ root' = root /\ pc' = pc /\ arg' = arg /\ stack' = stack /\ vars' = vars
      /\ values' = values /\ esop' = esop /\ care' = care /\ hash' = hash /\ croot' = croot
      /\ naive' = naive
  BY DEF StartGen, gvars, svars
<1>2. /\ pc = "call" /\ arg = root /\ care = croot /\ stack = <<>> /\ vars = <<>> /\ esop = <<>>
      /\ values = [v \in Vars |-> "DONTCARE"]
  BY <1>1 DEF IsfInv, WalkStoredInv, PhaseOK
<1>3. Known(hash, root, croot) /\ RootResult \in Fns
  BY <1>1, RootReturned DEF IsfInv
<1>4. RootResult' = RootResult /\ AArg = RootResult /\ AArg' = AArg /\ AStack = <<>> /\ AStack' = AStack
  BY <1>1, <1>2, MapStackIs, NothingOpen
<1>5. StartState'
  BY <1>1, <1>2, <1>3, <1>4 DEF StartState
<1>6. W!GInv'
  BY <1>5, MapStart, PTL
<1>7. PathOK(hash', stack', vars', pc', arg', care')
  <2>1. Len(stack) = 0 /\ Len(vars) = 0
    BY <1>2, EmptySeq
  <2>. QED
    BY <2>1, <1>1, <1>2, <1>3 DEF PathOK, Deeper
<1>8. Followed(naive, croot) => CareOK(naive', stack', pc', care')
  <2>1. Len(stack) = 0
    BY <1>2, EmptySeq
  <2>. QED
    BY <2>1, <1>1, <1>2 DEF CareOK
<1>9. CostsOK'
  BY <1>1, <1>2, <1>3, CostsStart DEF IsfInv
<1>. QED
  BY <1>1, <1>6, <1>7, <1>8, <1>9 DEF GenInv

LEMMA WalkingStep ==
  ASSUME Walking, WalkAction
  PROVE  PathOK(hash, stack', vars', pc', arg', care') /\ (W!GNext \/ UNCHANGED W!gvars)
BY WalkStepConstant, WalkStepF0, WalkStepSkip, WalkStepEnter, WalkStepSecond, WalkStepLeave
   DEF WalkAction, WalkedTo

LEMMA GenStep ==
  ASSUME IsfInv, [Next]_isfvars
  PROVE  GenInv'
<1>1. CASE SearchAction
  <2>1. /\ phase' = phase
        /\ xpc = "call" \/ xstack # <<>>
    <3>1. CASE PassStore
      BY <3>1, StoreKeepsWalk DEF PassStore, Returned
    <3>2. CASE ~PassStore
      BY <1>1, <3>2 DEF SearchAction, PassConstant, PassMemo, PassSkip, PassEnter, PassNext,
         PassStoreSkip, PassStoreZero, PassReturn, NewPair, Returned
    <3>. QED
      BY <3>1, <3>2
  <2>2. phase # "gen"
    BY <2>1 DEF IsfInv, WalkStoredInv, PhaseOK
  <2>. QED
    BY <2>1, <2>2 DEF GenInv
<1>2. CASE StartGen
  BY <1>2, GenStart
<1>3. CASE WalkAction
  <2>1. phase = "gen" /\ phase' = phase /\ naive' = naive /\ hash' = hash /\ croot' = croot
    BY <1>3, WalkKeeps DEF svars
  <2>2. CASE ~Followed(naive, croot)
    BY <2>1, <2>2 DEF GenInv
  <2>3. CASE Followed(naive, croot)
    <3>1. Walking /\ CostsOK /\ W!GInv
      BY <2>1, <2>3 DEF IsfInv, GenInv, Walking
    <3>2. PathOK(hash, stack', vars', pc', arg', care') /\ (W!GNext \/ UNCHANGED W!gvars)
      BY <1>3, <3>1, WalkingStep
    <3>3. CareOK(naive, stack', pc', care')
      BY <1>3, <3>1, CareStep
    <3>4. CostsOK'
      BY <1>3, <3>1, CostsStep
    <3>5. W!GInv'
      BY <3>1, <3>2, MappedStep
    <3>. QED
      BY <2>1, <3>2, <3>3, <3>4, <3>5 DEF GenInv
  <2>. QED
    BY <2>2, <2>3
<1>4. CASE UNCHANGED isfvars
  <2>1. /\ root' = root /\ pc' = pc /\ arg' = arg /\ stack' = stack /\ vars' = vars
        /\ values' = values /\ esop' = esop /\ care' = care /\ hash' = hash /\ croot' = croot
        /\ naive' = naive /\ phase' = phase
    BY <1>4 DEF isfvars, gvars, svars
  <2>2. UNCHANGED W!gvars
    <3>1. RootResult' = RootResult /\ AArg' = AArg /\ AStack' = AStack
      BY <2>1, MapStackIs
    <3>. QED
      BY <2>1, <3>1 DEF W!gvars, AArg, AStack
  <2>3. W!GInv => W!GInv'
    BY <2>2, MappedStep
  <2>4. CostsOK' = CostsOK
    BY <2>1 DEF CostsOK, OwedCosts
  <2>. QED
    BY <2>1, <2>3, <2>4 DEF IsfInv, GenInv
<1>. QED
  BY <1>1, <1>2, <1>3, <1>4, NextCases

LEMMA IsfCorrect == Spec => []IsfInv
<1>1. Init => IsfInv
  <2>1. Init => GenInv
    BY DEF Init, GenInv
  <2>. QED
    BY <2>1, SearchInit, WalkTypeInit DEF IsfInv
<1>2. IsfInv /\ [Next]_isfvars => IsfInv'
  BY SearchStep, WalkStoredStep, GenStep DEF IsfInv, SearchStepOK
<1>. QED
  BY <1>1, <1>2, PTL DEF Spec

(* Without -n the second pass finds every pair it visits: the assertion of  *)
(* secondPass, for every root and care function.                            *)
THEOREM LookupCorrect == Spec => []LookupFinds
<1>1. IsfInv => LookupFinds
  BY DEF IsfInv, GenInv, PathOK, Known, LookupFinds, Missed, Visiting, Followed
<1>. QED
  BY <1>1, IsfCorrect, PTL

LEMMA RightAtEnd ==
  ASSUME IsfInv, Extracted, Followed(naive, croot)
  PROVE  RightOnCare
<1>1. phase = "gen" /\ pc = "return" /\ stack = <<>>
  BY DEF Extracted, GenDone
<1>2. W!EsopRealisesRoot
  BY <1>1, MappedEnd DEF IsfInv, GenInv
<1>3. AStack = <<>>
  BY <1>1, NothingOpen
<1>4. W!GenDone
  BY <1>1, <1>3 DEF W!GenDone, AStack
<1>5. Realises(esop, RootResult)
  <2>1. W!Realises(esop, RootResult)
    BY <1>2, <1>4 DEF W!EsopRealisesRoot
  <2>. QED
    BY <2>1, SameRealises
<1>6. Agree(RootResult, root, croot) /\ croot \in Fns
  BY <1>1, RootReturned DEF IsfInv, WalkStoredInv, PhaseOK, SearchTypeOK
<1>. QED
  BY <1>5, <1>6 DEF RightOnCare, Realises, Agree, Fns

(* The ESOP that isfextract writes agrees with the function wherever it is  *)
(* cared about (extract, the two passes one after the other).               *)
THEOREM EsopCorrectOnCare == Spec => []EsopAgreesOnCare
<1>1. IsfInv => EsopAgreesOnCare
  BY RightAtEnd DEF EsopAgreesOnCare, Followed
<1>. QED
  BY <1>1, IsfCorrect, PTL

(* Where everything is cared about, -n too finds every pair it visits and   *)
(* writes an ESOP of the function: its faults need a don't-care.            *)
FullCareIsRight == croot = One => ~Missed /\ (Extracted => RightOnCare)

THEOREM FullCareRight == Spec => []FullCareIsRight
<1>1. IsfInv => FullCareIsRight
  <2>. SUFFICES ASSUME IsfInv, croot = One PROVE ~Missed /\ (Extracted => RightOnCare)
    BY DEF FullCareIsRight
  <2>1. Followed(naive, croot)
    BY DEF Followed
  <2>2. ~Missed
    BY <2>1 DEF IsfInv, GenInv, PathOK, Known, Missed, Visiting
  <2>. QED
    BY <2>1, <2>2, RightAtEnd
<1>. QED
  BY <1>1, IsfCorrect, PTL

(* Without -n the second pass emits as many cubes as the first pass counted *)
(* for the pair of the root (the costs in _hash, the cubes in _esop).       *)
THEOREM CostIsCubeCountCorrect == Spec => []CostIsCubeCount
<1>1. IsfInv => CostIsCubeCount
  <2>. SUFFICES ASSUME IsfInv, Extracted, ~naive PROVE Len(esop) = PairCost(hash, root, croot)
    BY DEF CostIsCubeCount, PairCost
  <2>1. CostsOK /\ WalkStoredInv
    BY DEF IsfInv, GenInv, Followed, Extracted
  <2>. QED
    BY <2>1, CostsEnd DEF Extracted
<1>. QED
  BY <1>1, IsfCorrect, PTL

(* With nothing left open isfextract is exact, with -n and without: it      *)
(* emits the least number of cubes that expansions in the order can reach.  *)
THEOREM FullCareCorrect == Spec => []FullCareIsExact
<1>1. IsfInv => FullCareIsExact
  <2>. SUFFICES ASSUME IsfInv, Extracted, croot = One PROVE Len(esop) = OptCost[root]
    BY DEF FullCareIsExact
  <2>1. phase = "gen" /\ CostsOK /\ WalkStoredInv
    BY DEF IsfInv, GenInv, Followed, Extracted
  <2>2. Len(esop) = PairCost(hash, root, croot)
    BY <2>1, CostsEnd DEF Extracted
  <2>3. xstack = <<>> /\ xpc = "return"
    BY <2>1 DEF WalkStoredInv, PhaseOK
  <2>4. Least(PairCost(hash, root, croot), root, croot)
    BY <2>3, RootReturned DEF IsfInv
  <2>. QED
    BY <2>2, <2>4 DEF Least
<1>. QED
  BY <1>1, IsfCorrect, PTL

(* The second pass is a walk of Psdkro over the result functions: every     *)
(* step of it is one of the walk's or a stutter.                            *)
THEOREM IsfRefinement == Spec => ImplementsPsdkro
<1>1. IsfInv /\ [Next]_isfvars
        => [phase = "gen" /\ ~naive => Walk!GNext \/ UNCHANGED Walk!gvars]_<<gvars, care>>
  <2>. SUFFICES ASSUME IsfInv, [Next]_isfvars, phase = "gen", ~naive
       PROVE  Walk!GNext \/ UNCHANGED Walk!gvars \/ UNCHANGED <<gvars, care>>
    OBVIOUS
  <2>1. CASE SearchAction
    <3>1. xpc = "call" \/ xstack # <<>>
      BY <2>1 DEF SearchAction, PassConstant, PassMemo, PassSkip, PassEnter, PassNext,
         PassStoreSkip, PassStoreZero, PassStore, NewPair, Returned
    <3>. QED
      BY <3>1 DEF IsfInv, WalkStoredInv, PhaseOK
  <2>2. CASE StartGen
    BY <2>2 DEF StartGen
  <2>3. CASE WalkAction
    <3>1. Walking
      BY DEF IsfInv, GenInv, Walking, Followed
    <3>2. W!GNext \/ UNCHANGED W!gvars
      BY <2>3, <3>1, WalkingStep
    <3>3. UNCHANGED W!gvars => UNCHANGED Walk!gvars
      BY DEF W!gvars, Walk!gvars
    <3>. QED
      BY <3>2, <3>3, SameNext
  <2>4. CASE UNCHANGED isfvars
    BY <2>4 DEF isfvars
  <2>. QED
    BY <2>1, <2>2, <2>3, <2>4, NextCases
<1>. QED
  BY <1>1, IsfCorrect, PTL DEF Spec, ImplementsPsdkro

=============================================================================
