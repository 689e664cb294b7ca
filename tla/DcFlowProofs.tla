---------------------------- MODULE DcFlowProofs ----------------------------
(***************************************************************************)
(* Proofs about dcextract and dcmin, for every number of inputs, every      *)
(* output, every depth of division, every choice of the inputs to divide by, *)
(* every ESOP that the parts may get, every group size and every number of  *)
(* iterations: no division loses a minterm or counts it twice; cutting into *)
(* groups, minimising and joining keep the function; the file written at    *)
(* the end is an ESOP of the output that was extracted.                     *)
(***************************************************************************)
EXTENDS DcFlow, FiniteSetTheorems, SequenceTheorems, WellFoundedInduction, TLAPS

-----------------------------------------------------------------------------
(* Lemmas about parity.                                                     *)
LEMMA OddAdd ==
  ASSUME NEW S, IsFiniteSet(S), NEW x, x \notin S
  PROVE  Odd(S \cup {x}) <=> ~Odd(S)
<1>1. Cardinality(S) \in Nat /\ Cardinality(S \cup {x}) = Cardinality(S) + 1
  BY FS_CardinalityType, FS_AddElement
<1>. QED
  BY <1>1 DEF Odd

LEMMA OddRemove ==
  ASSUME NEW S, IsFiniteSet(S), NEW x \in S
  PROVE  Odd(S \ {x}) <=> ~Odd(S)
<1>1. IsFiniteSet(S \ {x})
  BY FS_RemoveElement
<1>2. x \notin S \ {x} /\ (S \ {x}) \cup {x} = S
  OBVIOUS
<1>3. Odd((S \ {x}) \cup {x}) <=> ~Odd(S \ {x})
  BY <1>1, <1>2, OddAdd
<1>. QED
  BY <1>2, <1>3

(* The parity of a disjoint union is the XOR of the parities.               *)
LEMMA OddUnion ==
  ASSUME NEW S, IsFiniteSet(S), NEW U, IsFiniteSet(U), S \cap U = {}
  PROVE  Odd(S \cup U) <=> ~(Odd(S) <=> Odd(U))
<1>1. Cardinality(S) \in Nat /\ Cardinality(U) \in Nat
  BY FS_CardinalityType
<1>2. Cardinality(S \cap U) = 0
  BY FS_EmptySet, Zenon
<1>3. Cardinality(S \cup U) = Cardinality(S) + Cardinality(U) - Cardinality(S \cap U)
  BY FS_Union
<1>4. Cardinality(S \cup U) = Cardinality(S) + Cardinality(U)
  BY <1>1, <1>2, <1>3
<1>. QED
  BY <1>1, <1>4 DEF Odd

(* Moving a set of positions along a sequence keeps its parity.             *)
LEMMA OddShift ==
  ASSUME NEW S, IsFiniteSet(S), S \subseteq Nat, NEW n \in Nat,
         NEW U, U = {n + k : k \in S}
  PROVE  IsFiniteSet(U) /\ (Odd(U) <=> Odd(S))
<1>. DEFINE g == [k \in S |-> n + k]
<1>1. g \in Bijection(S, U)
  <2>1. g \in [S -> U]
    OBVIOUS
  <2>2. ASSUME NEW a \in S, NEW b \in S, g[a] = g[b]
        PROVE  a = b
    <3>1. a \in Nat /\ b \in Nat /\ n + a = n + b
      BY <2>2
    <3>. QED
      BY <3>1
  <2>3. \A u \in U : \E k \in S : g[k] = u
    OBVIOUS
  <2>. QED
    BY <2>1, <2>2, <2>3 DEF Bijection, Injection, Surjection, IsInjective
<1>2. ExistsBijection(S, U)
  BY <1>1 DEF ExistsBijection
<1>3. IsFiniteSet(U) /\ Cardinality(U) = Cardinality(S)
  BY <1>2, FS_Bijection
<1>. QED
  BY <1>3 DEF Odd

-----------------------------------------------------------------------------
(* Lemmas about sequences and cubes.                                        *)

(* Popping drops just the last element.                                     *)
LEMMA PopProperties ==
  ASSUME NEW S, NEW s \in Seq(S), s # <<>>
  PROVE  /\ Len(s) \in Nat \ {0}
         /\ s[Len(s)] \in S
         /\ Pop(s) \in Seq(S)
         /\ Len(Pop(s)) = Len(s) - 1
         /\ \A j \in 1 .. Len(s) - 1 : Pop(s)[j] = s[j]
<1>1. Len(s) \in Nat \ {0}
  BY EmptySeq, LenProperties
<1>2. \A j \in 1 .. Len(s) : s[j] \in S
  BY ElementOfSeq
<1>3. \A j \in 1 .. Len(s) - 1 : s[j] \in S
  BY <1>1, <1>2
<1>4. 1 \in Int /\ Len(s) - 1 \in Int
  BY <1>1
<1>5. /\ Pop(s) \in Seq(S)
      /\ Len(Pop(s)) = IF 1 <= Len(s) - 1 THEN (Len(s) - 1) - 1 + 1 ELSE 0
      /\ \A j \in 1 .. (Len(s) - 1) - 1 + 1 : Pop(s)[j] = s[1 + j - 1]
  BY <1>3, <1>4, SubSeqProperties DEF Pop
<1>6. \A n \in Nat \ {0} : (IF 1 <= n - 1 THEN (n - 1) - 1 + 1 ELSE 0) = n - 1
  OBVIOUS
<1>7. Len(Pop(s)) = Len(s) - 1
  BY <1>1, <1>5, <1>6
<1>8. \A j \in 1 .. Len(s) - 1 : Pop(s)[j] = s[j]
  BY <1>1, <1>5
<1>. QED
  BY <1>1, <1>2, <1>5, <1>7, <1>8

(* Appending keeps what is there.                                           *)
LEMMA AppendFacts ==
  ASSUME NEW S, NEW s \in Seq(S), NEW x \in S
  PROVE  /\ Append(s, x) \in Seq(S)
         /\ Len(s) \in Nat
         /\ Len(Append(s, x)) = Len(s) + 1
         /\ Append(s, x)[Len(s) + 1] = x
         /\ \A j \in 1 .. Len(s) : Append(s, x)[j] = s[j]
OBVIOUS

(* So does concatenating, and the second sequence moves behind the first.   *)
LEMMA ConcatFacts ==
  ASSUME NEW S, NEW s \in Seq(S), NEW t \in Seq(S)
  PROVE  /\ s \o t \in Seq(S)
         /\ Len(s) \in Nat /\ Len(t) \in Nat
         /\ Len(s \o t) = Len(s) + Len(t)
         /\ \A j \in 1 .. Len(s) : (s \o t)[j] = s[j]
         /\ \A j \in 1 .. Len(t) : (s \o t)[Len(s) + j] = t[j]
OBVIOUS

(* A cube as text is of its type and covers the cube's minterms.            *)
LEMMA StrFacts ==
  ASSUME NEW c \in Cubes, NEW m \in Minterms
  PROVE  /\ Str(c) \in TextCubes
         /\ TextCovers(Str(c), m) <=> m \in CubeMinterms(c)
<1>1. Str(c) \in TextCubes
  BY DEF Str, TextCubes
<1>2. c.care \subseteq Vars /\ c.pol \subseteq c.care
  BY DEF Cubes, Minterms
<1>3. ASSUME NEW v \in Vars
      PROVE  Admits(Str(c)[v], m, v) <=> (v \in c.care => (v \in m <=> v \in c.pol))
  BY DEF Str, Admits
<1>4. TextCovers(Str(c), m) <=> \A v \in Vars : v \in c.care => (v \in m <=> v \in c.pol)
  BY <1>3 DEF TextCovers
<1>5. m \in CubeMinterms(c) <=> \A v \in Vars : v \in c.care => (v \in m <=> v \in c.pol)
  BY <1>2 DEF CubeMinterms, Minterms
<1>. QED
  BY <1>1, <1>4, <1>5

(* Giving an input that a cube does not mention the character of a half     *)
(* leaves the cube only the minterms of that half.                          *)
LEMMA MarkFacts ==
  ASSUME NEW t \in TextCubes, NEW v \in Vars, NEW half \in {0, 1}, NEW m \in Minterms,
         t[v] = "-", NEW u, u = [t EXCEPT ![v] = Character(half)]
  PROVE  /\ u \in TextCubes
         /\ TextCovers(u, m) <=> TextCovers(t, m) /\ (v \in m <=> half = 1)
<1>1. u \in TextCubes /\ u[v] = Character(half) /\ \A w \in Vars \ {v} : u[w] = t[w]
  BY DEF TextCubes, Character
<1>2. Admits(t[v], m, v)
  BY DEF Admits
<1>3. Admits(u[v], m, v) <=> (v \in m <=> half = 1)
  BY <1>1 DEF Admits, Character
<1>. QED
  BY <1>1, <1>2, <1>3 DEF TextCovers

-----------------------------------------------------------------------------
(* The types of dcextract's variables.  The number of cubes that a division *)
(* found in the list is never more than there are now.                      *)
Divisions == [f : Fns, minIdx : Vars, half : {0, 1}, before : Nat]

DivideTypeOK ==
  /\ root \in Fns /\ part \in Fns
  /\ dpc \in {"call", "return", "written"}
  /\ nCofVar \in Nat
  /\ divisions \in Seq(Divisions)
  /\ cofVarList \subseteq Vars
  /\ esop \in Seq(TextCubes)
  /\ plaFile \in Seq(TextCubes)

BeforeInList == \A j \in 1 .. Len(divisions) : divisions[j].before <= Len(esop)

LEMMA TopFacts ==
  ASSUME DivideTypeOK, divisions # <<>>
  PROVE  /\ Len(divisions) \in Nat \ {0}
         /\ Top = divisions[Len(divisions)]
         /\ Top \in Divisions
         /\ Top.f \in Fns /\ Top.minIdx \in Vars /\ Top.half \in {0, 1} /\ Top.before \in Nat
<1>1. Len(divisions) \in Nat \ {0} /\ divisions[Len(divisions)] \in Divisions
  BY PopProperties DEF DivideTypeOK
<1>. QED
  BY <1>1 DEF Top, Divisions

(* Marking the cubes of a half that is complete: a cube behind the ones the *)
(* division found keeps only the minterms of the half.                      *)
LEMMA MarkedCubes ==
  ASSUME DivideTypeOK, divisions # <<>>, MarkNewCubes
  PROVE  /\ esop' \in Seq(TextCubes)
         /\ Len(esop') = Len(esop)
         /\ \A m \in Minterms : \A k \in 1 .. Len(esop) :
              TextCovers(esop'[k], m)
                <=> TextCovers(esop[k], m) /\ (Top.before < k => InHalf(m, Top, Top.half))
<1>. DEFINE v == Top.minIdx
            half == Top.half
            mark(k) == [esop[k] EXCEPT ![v] = Character(half)]
<1>1. v \in Vars /\ half \in {0, 1} /\ Top.before \in Nat
  BY TopFacts
<1>2. /\ Len(esop) \in Nat
      /\ DOMAIN esop = 1 .. Len(esop)
      /\ \A k \in 1 .. Len(esop) : esop[k] \in TextCubes
  BY ElementOfSeq, LenProperties DEF DivideTypeOK
<1>3. \A k \in 1 .. Len(esop) : k \in New <=> Top.before < k
  BY <1>1, <1>2 DEF New
<1>4. \A k \in New : k \in 1 .. Len(esop) /\ esop[k][v] = "-"
  BY <1>1, <1>2 DEF MarkNewCubes, New
<1>5. esop' = [k \in 1 .. Len(esop) |-> IF k \in New THEN mark(k) ELSE esop[k]]
  BY <1>2 DEF MarkNewCubes
<1>6. \A k \in New : mark(k) \in TextCubes
  <2>. SUFFICES ASSUME NEW k \in New PROVE mark(k) \in TextCubes
    OBVIOUS
  <2>1. {} \in Minterms
    BY DEF Minterms
  <2>2. esop[k] \in TextCubes /\ esop[k][v] = "-"
    BY <1>2, <1>4
  <2>. HIDE DEF v, half
  <2>. QED
    BY <1>1, <2>1, <2>2, MarkFacts
<1>7. esop' \in Seq(TextCubes) /\ Len(esop') = Len(esop)
  <2>1. \A k \in 1 .. Len(esop) : (IF k \in New THEN mark(k) ELSE esop[k]) \in TextCubes
    BY <1>2, <1>6
  <2>2. esop' \in [1 .. Len(esop) -> TextCubes]
    BY <1>5, <2>1, Zenon
  <2>. QED
    BY <1>2, <2>2, SeqDef, LenProperties
<1>8. ASSUME NEW m \in Minterms, NEW k \in 1 .. Len(esop)
      PROVE  TextCovers(esop'[k], m)
               <=> TextCovers(esop[k], m) /\ (Top.before < k => InHalf(m, Top, half))
  <2>1. CASE k \in New
    <3>1. TextCovers(mark(k), m) <=> TextCovers(esop[k], m) /\ (v \in m <=> half = 1)
      <4>1. esop[k] \in TextCubes /\ esop[k][v] = "-"
        BY <1>2, <1>4, <2>1
      <4>. HIDE DEF v, half
      <4>. QED
        BY <1>1, <4>1, MarkFacts
    <3>2. esop'[k] = mark(k)
      BY <1>5, <2>1
    <3>. QED
      BY <1>3, <2>1, <3>1, <3>2 DEF InHalf
  <2>2. CASE k \notin New
    BY <1>3, <1>5, <2>2
  <2>. QED
    BY <2>1, <2>2
<1>. QED
  BY <1>7, <1>8

LEMMA DivideTypeInit == ASSUME DivideInit PROVE DivideTypeOK /\ BeforeInList
<1>1. Roots \subseteq Fns /\ CofVarNums \subseteq Nat
  BY DivideAssumption, NAssumption
<1>2. Len(divisions) = 0
  BY EmptySeq DEF DivideInit
<1>. QED
  BY <1>1, <1>2, EmptySeq DEF DivideInit, DivideTypeOK, BeforeInList

(* What SolvePart appends.                                                  *)
LEMMA SolvedCubes ==
  ASSUME NEW F \in Fns, NEW C \in Extracted(F), NEW u, u = [k \in DOMAIN C |-> Str(C[k])]
  PROVE  /\ C \in Seq(Cubes)
         /\ Realises(C, F)
         /\ u \in Seq(TextCubes)
         /\ Len(u) = Len(C)
         /\ Len(C) \in Nat
         /\ \A m \in Minterms : \A k \in 1 .. Len(C) :
              TextCovers(u[k], m) <=> m \in CubeMinterms(C[k])
<1>1. C \in Seq(Cubes) /\ Realises(C, F)
  BY ExtractedAssumption
<1>2. /\ Len(C) \in Nat
      /\ DOMAIN C = 1 .. Len(C)
      /\ \A k \in 1 .. Len(C) : C[k] \in Cubes
  BY <1>1, ElementOfSeq, LenProperties
<1>3. {} \in Minterms
  BY DEF Minterms
<1>4. \A k \in 1 .. Len(C) : Str(C[k]) \in TextCubes
  BY <1>2, <1>3, StrFacts
<1>5. u \in [1 .. Len(C) -> TextCubes]
  BY <1>2, <1>4
<1>6. u \in Seq(TextCubes) /\ Len(u) = Len(C)
  BY <1>2, <1>5, SeqDef, LenProperties
<1>7. ASSUME NEW m \in Minterms, NEW k \in 1 .. Len(C)
      PROVE  TextCovers(u[k], m) <=> m \in CubeMinterms(C[k])
  <2>1. u[k] = Str(C[k]) /\ C[k] \in Cubes
    BY <1>2
  <2>. QED
    BY <2>1, StrFacts
<1>. QED
  BY <1>1, <1>2, <1>6, <1>7

(* What OtherHalf does to the divisions.                                    *)
LEMMA OtherHalfFacts ==
  ASSUME DivideTypeOK, OtherHalf
  PROVE  /\ divisions' \in Seq(Divisions)
         /\ Len(divisions') = Len(divisions)
         /\ \A j \in 1 .. Len(divisions) - 1 : divisions'[j] = divisions[j]
         /\ divisions'[Len(divisions)].f = Top.f
         /\ divisions'[Len(divisions)].minIdx = Top.minIdx
         /\ divisions'[Len(divisions)].half = 1
         /\ divisions'[Len(divisions)].before = Len(esop)
<1>. DEFINE n == Len(divisions)
            d == [Top EXCEPT !.half = 1, !.before = Len(esop)]
<1>1. n \in Nat \ {0} /\ Top = divisions[n] /\ Top \in Divisions
  BY TopFacts DEF OtherHalf
<1>2. Len(esop) \in Nat
  BY LenProperties DEF DivideTypeOK
<1>3. /\ d \in Divisions /\ d.f = Top.f /\ d.minIdx = Top.minIdx
      /\ d.half = 1 /\ d.before = Len(esop)
  BY <1>1, <1>2 DEF Divisions
<1>4. divisions' = [divisions EXCEPT ![n] = d]
  BY <1>1 DEF OtherHalf
<1>5. divisions \in Seq(Divisions) /\ n \in 1 .. Len(divisions)
  BY <1>1 DEF DivideTypeOK
<1>. HIDE DEF d
<1>6. /\ divisions' \in Seq(Divisions)
      /\ Len(divisions') = n
      /\ \A j \in 1 .. n : divisions'[j] = IF j = n THEN d ELSE divisions[j]
  BY <1>3, <1>4, <1>5, ExceptSeq
<1>. QED
  BY <1>1, <1>3, <1>6

LEMMA CofactorTypes ==
  ASSUME NEW F, NEW v
  PROVE  E(F, v) \in Fns /\ T(F, v) \in Fns
BY DEF E, T, Fns

LEMMA DivideTypeStep ==
  ASSUME DivideTypeOK, BeforeInList, [DivideNext]_dvars
  PROVE  DivideTypeOK' /\ BeforeInList'
<1>. DEFINE n == Len(divisions)
<1>1. /\ n \in Nat /\ Len(esop) \in Nat
      /\ \A j \in 1 .. n : divisions[j] \in Divisions
  BY ElementOfSeq, LenProperties DEF DivideTypeOK
<1>2. CASE SolvePart
  <2>1. PICK C \in Extracted(part) : esop' = esop \o [k \in DOMAIN C |-> Str(C[k])]
    BY <1>2 DEF SolvePart
  <2>2. PICK u : u = [k \in DOMAIN C |-> Str(C[k])]
    OBVIOUS
  <2>3. u \in Seq(TextCubes) /\ esop \in Seq(TextCubes) /\ esop' = esop \o u
    BY <2>1, <2>2, SolvedCubes DEF DivideTypeOK
  <2>4. esop' \in Seq(TextCubes) /\ Len(esop') >= Len(esop) /\ Len(esop') \in Nat
    BY <2>3, ConcatFacts
  <2>5. divisions' = divisions /\ \A j \in 1 .. n : divisions[j].before \in Nat
    BY <1>1, <1>2 DEF SolvePart, Divisions
  <2>. QED
    BY <1>1, <1>2, <2>4, <2>5 DEF SolvePart, DivideTypeOK, BeforeInList
<1>3. ASSUME NEW v \in Vars, Divide(v)
      PROVE  DivideTypeOK' /\ BeforeInList'
  <2>. DEFINE d == [f |-> part, minIdx |-> v, half |-> 0, before |-> Len(esop)]
  <2>1. d \in Divisions /\ d.before = Len(esop)
    BY <1>1 DEF DivideTypeOK, Divisions
  <2>2. divisions' = Append(divisions, d)
    BY <1>3 DEF Divide
  <2>. HIDE DEF d
  <2>3. /\ divisions' \in Seq(Divisions)
        /\ Len(divisions') = n + 1
        /\ divisions'[n + 1] = d
        /\ \A j \in 1 .. n : divisions'[j] = divisions[j]
    BY <2>1, <2>2, AppendFacts DEF DivideTypeOK
  <2>4. BeforeInList'
    BY <1>1, <1>3, <2>1, <2>3 DEF BeforeInList, Divide
  <2>5. nCofVar' \in Nat /\ part' \in Fns /\ cofVarList' \subseteq Vars
    BY <1>3, CofactorTypes DEF Divide, DivideTypeOK
  <2>. QED
    BY <1>3, <2>3, <2>4, <2>5 DEF Divide, DivideTypeOK
<1>4. CASE OtherHalf
  <2>1. divisions # <<>> /\ MarkNewCubes
    BY <1>4 DEF OtherHalf
  <2>2. esop' \in Seq(TextCubes) /\ Len(esop') = Len(esop)
    BY <2>1, MarkedCubes
  <2>3. BeforeInList'
    BY <1>1, <1>4, <2>2, OtherHalfFacts DEF BeforeInList
  <2>. QED
    BY <1>4, <2>2, <2>3, OtherHalfFacts, CofactorTypes DEF OtherHalf, DivideTypeOK
<1>5. CASE LeaveDivision
  <2>1. divisions # <<>> /\ MarkNewCubes
    BY <1>5 DEF LeaveDivision
  <2>2. esop' \in Seq(TextCubes) /\ Len(esop') = Len(esop)
    BY <2>1, MarkedCubes
  <2>3. /\ divisions' \in Seq(Divisions)
        /\ Len(divisions') = n - 1
        /\ \A j \in 1 .. n - 1 : divisions'[j] = divisions[j]
    BY <1>5, <2>1, PopProperties DEF LeaveDivision, DivideTypeOK
  <2>4. BeforeInList'
    BY <1>1, <2>2, <2>3 DEF BeforeInList
  <2>. QED
    BY <1>5, <2>2, <2>3, <2>4 DEF LeaveDivision, DivideTypeOK
<1>6. CASE WritePla
  BY <1>6 DEF WritePla, DivideTypeOK, BeforeInList
<1>7. CASE UNCHANGED dvars
  BY <1>7 DEF dvars, DivideTypeOK, BeforeInList
<1>. QED
  BY <1>2, <1>3, <1>4, <1>5, <1>6, <1>7 DEF DivideNext

(* The steps of dcmin, and the reading of the file, are not steps of        *)
(* dcextract.                                                               *)
LEMMA DvarsStep == ASSUME [Next]_vars PROVE [DivideNext]_dvars
BY DEF Next, Extract, Read, Minimize, Terminated, vars

(* The variables of dcextract keep their types, also while dcmin runs.      *)
THEOREM DivideTypeCorrect == Spec => [](DivideTypeOK /\ BeforeInList)
<1>1. Init => DivideTypeOK /\ BeforeInList
  BY DivideTypeInit DEF Init
<1>2. DivideTypeOK /\ BeforeInList /\ [Next]_vars => (DivideTypeOK /\ BeforeInList)'
  BY DivideTypeStep, DvarsStep
<1>. QED
  BY <1>1, <1>2, PTL DEF Spec

-----------------------------------------------------------------------------
(* The ledger, with the state it is about as parameters.                    *)
Halves(m, ds, n) == \A j \in 1 .. n : InHalf(m, ds[j], ds[j].half)
Unwritten(m, s, ds) ==
  {k \in 1 .. Len(s) :
     /\ TextCovers(s[k], m)
     /\ \A j \in 1 .. Len(ds) : ds[j].before < k => InHalf(m, ds[j], ds[j].half)}
Left(m, ds) ==
  {j \in 1 .. Len(ds) :
     ds[j].half = 0 /\ InHalf(m, ds[j], 1) /\ Halves(m, ds, j - 1) /\ m \in ds[j].f}
Solving(m, pc, p, ds) == pc = "call" /\ Halves(m, ds, Len(ds)) /\ m \in p
Balanced(m, r, pc, p, s, ds) ==
  (m \in r <=> Solving(m, pc, p, ds)) <=> (Odd(Unwritten(m, s, ds)) <=> Odd(Left(m, ds)))

LEMMA LedgerBooks ==
  ASSUME DivideTypeOK
  PROVE  DivideLedger <=> \A m \in Minterms : Balanced(m, root, dpc, part, esop, divisions)
<1>1. DOMAIN esop = 1 .. Len(esop) /\ DOMAIN divisions = 1 .. Len(divisions)
  BY LenProperties DEF DivideTypeOK
<1>2. ASSUME NEW m
      PROVE  /\ CubesNow(m) = Unwritten(m, esop, divisions)
             /\ HalvesLeft(m) = Left(m, divisions)
             /\ InPart(m) <=> Solving(m, dpc, part, divisions)
  BY <1>1 DEF CubesNow, TextCovering, Unwritten, HalvesLeft, InHalves, Left, Halves, InPart, Solving
<1>. QED
  BY <1>2 DEF DivideLedger, Balanced

LEMMA LedgerBooksNext ==
  ASSUME DivideTypeOK'
  PROVE  DivideLedger' <=> \A m \in Minterms : Balanced(m, root', dpc', part', esop', divisions')
<1>1. (DOMAIN esop)' = 1 .. Len(esop') /\ (DOMAIN divisions)' = 1 .. Len(divisions')
  BY LenProperties DEF DivideTypeOK
<1>2. ASSUME NEW m
      PROVE  /\ CubesNow(m)' = Unwritten(m, esop', divisions')
             /\ HalvesLeft(m)' = Left(m, divisions')
             /\ InPart(m)' <=> Solving(m, dpc', part', divisions')
  BY <1>1 DEF CubesNow, TextCovering, Unwritten, HalvesLeft, InHalves, Left, Halves, InPart, Solving
<1>. QED
  BY <1>2 DEF DivideLedger, Balanced

LEMMA LedgerFinite ==
  ASSUME DivideTypeOK, NEW m
  PROVE  IsFiniteSet(Unwritten(m, esop, divisions)) /\ IsFiniteSet(Left(m, divisions))
<1>1. Len(esop) \in Nat /\ Len(divisions) \in Nat
  BY LenProperties DEF DivideTypeOK
<1>2. IsFiniteSet(1 .. Len(esop)) /\ IsFiniteSet(1 .. Len(divisions))
  BY <1>1, FS_Interval
<1>3. Unwritten(m, esop, divisions) \subseteq 1 .. Len(esop) /\ Left(m, divisions) \subseteq 1 .. Len(divisions)
  BY DEF Unwritten, Left
<1>. QED
  BY <1>2, <1>3, FS_Subset

(* Halves of divisions that a step leaves alone, and of one more division.  *)
LEMMA SameHalves ==
  ASSUME NEW m, NEW ds, NEW es, NEW n \in Nat, \A j \in 1 .. n : ds[j] = es[j]
  PROVE  Halves(m, ds, n) <=> Halves(m, es, n)
BY DEF Halves

LEMMA MoreHalves ==
  ASSUME NEW m, NEW ds, NEW n \in Nat \ {0}
  PROVE  Halves(m, ds, n) <=> Halves(m, ds, n - 1) /\ InHalf(m, ds[n], ds[n].half)
<1>1. \A j : j \in 1 .. n <=> j \in 1 .. n - 1 \/ j = n
  OBVIOUS
<1>. QED
  BY <1>1 DEF Halves

(* SolvePart: the ESOP of the part takes its place in the ledger.           *)
LEMMA BalanceSolve ==
  ASSUME DivideTypeOK, BeforeInList, SolvePart,
         NEW m \in Minterms, Balanced(m, root, dpc, part, esop, divisions)
  PROVE  Balanced(m, root', dpc', part', esop', divisions')
<1>. DEFINE n == Len(divisions)
            l == Len(esop)
<1>1. PICK C \in Extracted(part) : esop' = esop \o [k \in DOMAIN C |-> Str(C[k])]
  BY DEF SolvePart
<1>2. PICK u : u = [k \in DOMAIN C |-> Str(C[k])]
  OBVIOUS
<1>3. /\ C \in Seq(Cubes) /\ Realises(C, part)
      /\ u \in Seq(TextCubes)
      /\ Len(u) = Len(C) /\ Len(C) \in Nat
      /\ \A k \in 1 .. Len(C) : TextCovers(u[k], m) <=> m \in CubeMinterms(C[k])
  BY <1>2, SolvedCubes DEF DivideTypeOK
<1>4. /\ esop' = esop \o u
      /\ l \in Nat
      /\ Len(esop') = l + Len(C)
      /\ \A k \in 1 .. l : esop'[k] = esop[k]
      /\ \A k \in 1 .. Len(C) : esop'[l + k] = u[k]
  <2>1. esop' = esop \o u /\ esop \in Seq(TextCubes) /\ u \in Seq(TextCubes)
    BY <1>1, <1>2, <1>3 DEF DivideTypeOK
  <2>2. /\ l \in Nat
        /\ Len(esop \o u) = l + Len(u)
        /\ \A k \in 1 .. l : (esop \o u)[k] = esop[k]
        /\ \A k \in 1 .. Len(u) : (esop \o u)[l + k] = u[k]
    BY <2>1, ConcatFacts
  <2>. HIDE DEF l
  <2>. QED
    BY <1>3, <2>1, <2>2
<1>5. /\ n \in Nat
      /\ \A j \in 1 .. n : divisions[j].before \in Nat /\ divisions[j].before <= l
  <2>1. n \in Nat /\ \A j \in 1 .. n : divisions[j] \in Divisions
    BY ElementOfSeq, LenProperties DEF DivideTypeOK
  <2>2. \A d \in Divisions : d.before \in Nat
    BY DEF Divisions
  <2>. QED
    BY <2>1, <2>2 DEF BeforeInList
<1>6. divisions' = divisions /\ root' = root /\ dpc = "call" /\ dpc' = "return"
  BY DEF SolvePart
<1>7. Covering(C, m) \subseteq Nat /\ IsFiniteSet(Covering(C, m))
  <2>1. IsFiniteSet(1 .. Len(C)) /\ Covering(C, m) \subseteq 1 .. Len(C)
    BY <1>3, FS_Interval DEF Covering
  <2>. QED
    BY <1>3, <2>1, FS_Subset
<1>8. PICK U : U = {l + k : k \in Covering(C, m)}
  OBVIOUS
<1>9. IsFiniteSet(U) /\ (Odd(U) <=> m \in part)
  <2>1. PICK S : S = Covering(C, m)
    OBVIOUS
  <2>2. IsFiniteSet(S) /\ S \subseteq Nat /\ U = {l + k : k \in S} /\ l \in Nat
    BY <1>4, <1>7, <1>8, <2>1
  <2>. HIDE DEF l
  <2>3. IsFiniteSet(U) /\ (Odd(U) <=> Odd(S))
    BY <2>2, OddShift
  <2>. QED
    BY <1>3, <2>1, <2>3 DEF Realises
<1>10. CASE Halves(m, divisions, n)
  <2>1. Unwritten(m, esop', divisions) = Unwritten(m, esop, divisions) \cup U
    <3>1. ASSUME NEW k \in 1 .. l
          PROVE  k \in Unwritten(m, esop', divisions) <=> k \in Unwritten(m, esop, divisions)
      BY <1>3, <1>4 DEF Unwritten
    <3>2. ASSUME NEW k \in 1 .. Len(C)
          PROVE  l + k \in Unwritten(m, esop', divisions) <=> k \in Covering(C, m)
      BY <1>3, <1>4, <1>10 DEF Unwritten, Halves, Covering
    <3>3. \A k : k \in 1 .. l + Len(C) <=> k \in 1 .. l \/ \E c \in 1 .. Len(C) : k = l + c
      <4>1. ASSUME NEW k \in 1 .. l + Len(C), k \notin 1 .. l
            PROVE  k - l \in 1 .. Len(C) /\ k = l + (k - l)
        BY <1>3, <1>4, <4>1
      <4>. QED
        BY <1>3, <1>4, <4>1
    <3>4. Unwritten(m, esop', divisions) \subseteq 1 .. l + Len(C)
      BY <1>4 DEF Unwritten
    <3>5. Unwritten(m, esop, divisions) \subseteq 1 .. l /\ Covering(C, m) \subseteq 1 .. Len(C)
      BY DEF Unwritten, Covering
    <3>. QED
      BY <1>8, <3>1, <3>2, <3>3, <3>4, <3>5
  <2>2. Unwritten(m, esop, divisions) \cap U = {}
    BY <1>3, <1>4, <1>8 DEF Unwritten, Covering
  <2>3. Odd(Unwritten(m, esop', divisions)) <=> ~(Odd(Unwritten(m, esop, divisions)) <=> Odd(U))
    BY <1>9, <2>1, <2>2, LedgerFinite, OddUnion
  <2>. QED
    BY <1>6, <1>9, <1>10, <2>3 DEF Balanced, Solving
<1>11. CASE ~Halves(m, divisions, n)
  <2>1. PICK j \in 1 .. n : ~InHalf(m, divisions[j], divisions[j].half)
    BY <1>11 DEF Halves
  <2>2. \A k \in Unwritten(m, esop', divisions) : k \in 1 .. l
    <3>1. TAKE k \in Unwritten(m, esop', divisions)
    <3>2. /\ k \in 1 .. Len(esop')
          /\ divisions[j].before < k => InHalf(m, divisions[j], divisions[j].half)
      BY <2>1 DEF Unwritten
    <3>3. ~(divisions[j].before < k) /\ divisions[j].before \in Nat /\ divisions[j].before <= l
      BY <1>5, <2>1, <3>2
    <3>. QED
      BY <1>3, <1>4, <3>2, <3>3
  <2>3. \A k \in 1 .. l : k \in 1 .. Len(esop')
    BY <1>3, <1>4
  <2>4. \A k \in 1 .. l : k \in Unwritten(m, esop', divisions) <=> k \in Unwritten(m, esop, divisions)
    BY <1>4, <2>3 DEF Unwritten
  <2>5. Unwritten(m, esop, divisions) \subseteq 1 .. l
    BY DEF Unwritten
  <2>6. Unwritten(m, esop', divisions) = Unwritten(m, esop, divisions)
    BY <2>2, <2>4, <2>5
  <2>. QED
    BY <1>6, <1>11, <2>6 DEF Balanced, Solving
<1>. QED
  BY <1>10, <1>11

(* Divide: of the minterms of the part, the half x = 0 is solved next and   *)
(* the half x = 1 is left for later.                                        *)
LEMMA BalanceDivide ==
  ASSUME DivideTypeOK, NEW v \in Vars, Divide(v),
         NEW m \in Minterms, Balanced(m, root, dpc, part, esop, divisions)
  PROVE  Balanced(m, root', dpc', part', esop', divisions')
<1>. DEFINE n == Len(divisions)
            d == [f |-> part, minIdx |-> v, half |-> 0, before |-> Len(esop)]
<1>1. n \in Nat /\ Len(esop) \in Nat
  BY LenProperties DEF DivideTypeOK
<1>2. /\ d \in Divisions
      /\ d.f = part /\ d.minIdx = v /\ d.half = 0 /\ d.before = Len(esop)
  BY <1>1 DEF DivideTypeOK, Divisions
<1>3. /\ divisions' = Append(divisions, d)
      /\ root' = root /\ esop' = esop /\ part' = E(part, v)
      /\ dpc = "call" /\ dpc' = "call"
  BY DEF Divide
<1>. HIDE DEF d
<1>4. /\ Len(divisions') = n + 1
      /\ divisions'[n + 1] = d
      /\ \A j \in 1 .. n : divisions'[j] = divisions[j]
  BY <1>2, <1>3, AppendFacts DEF DivideTypeOK
<1>5. \A j \in 1 .. n + 1 : j \in 1 .. n \/ j = n + 1
  BY <1>1
<1>6. \A j \in 1 .. n : j \in 1 .. n + 1
  BY <1>1
<1>7. Unwritten(m, esop', divisions') = Unwritten(m, esop, divisions)
  <2>1. \A k \in 1 .. Len(esop) : ~(d.before < k)
    BY <1>1, <1>2
  <2>2. ASSUME NEW k \in 1 .. Len(esop)
        PROVE  (\A j \in 1 .. n + 1 : divisions'[j].before < k => InHalf(m, divisions'[j], divisions'[j].half))
                 <=> \A j \in 1 .. n : divisions[j].before < k => InHalf(m, divisions[j], divisions[j].half)
    BY <1>4, <1>5, <1>6, <2>1
  <2>. QED
    BY <1>3, <1>4, <2>2 DEF Unwritten
<1>8. \A k \in 0 .. n : Halves(m, divisions', k) <=> Halves(m, divisions, k)
  BY <1>1, <1>4 DEF Halves
<1>9. Halves(m, divisions', n + 1) <=> Halves(m, divisions, n) /\ v \notin m
  <2>1. n + 1 \in Nat \ {0} /\ (n + 1) - 1 = n /\ n \in 0 .. n
    BY <1>1
  <2>2. Halves(m, divisions', n + 1) <=> Halves(m, divisions', n) /\ InHalf(m, d, d.half)
    BY <1>4, <2>1, MoreHalves
  <2>. QED
    BY <1>2, <1>8, <2>1, <2>2 DEF InHalf
<1>10. Solving(m, dpc', part', divisions') <=> Halves(m, divisions, n) /\ v \notin m /\ m \in part
  <2>1. v \notin m => m \ {v} = m
    OBVIOUS
  <2>. QED
    BY <1>3, <1>4, <1>9, <2>1 DEF Solving, E
<1>11. \A j \in 1 .. n : j \in Left(m, divisions') <=> j \in Left(m, divisions)
  <2>1. \A j \in 1 .. n : j - 1 \in 0 .. n
    BY <1>1
  <2>. QED
    BY <1>4, <1>6, <1>8, <2>1 DEF Left
<1>12. n + 1 \in Left(m, divisions') <=> Halves(m, divisions, n) /\ v \in m /\ m \in part
  <2>1. n + 1 \in 1 .. n + 1 /\ (n + 1) - 1 = n /\ n \in 0 .. n
    BY <1>1
  <2>2. n + 1 \in Left(m, divisions') <=> InHalf(m, d, 1) /\ Halves(m, divisions', n) /\ m \in part
    BY <1>2, <1>4, <2>1 DEF Left
  <2>. QED
    BY <1>2, <1>8, <2>1, <2>2 DEF InHalf
<1>13. Left(m, divisions') \subseteq 1 .. n + 1 /\ Left(m, divisions) \subseteq 1 .. n /\ n + 1 \notin 1 .. n
  BY <1>1, <1>4 DEF Left
<1>14. IsFiniteSet(Left(m, divisions)) /\ n + 1 \notin Left(m, divisions)
  BY <1>13, LedgerFinite
<1>15. CASE Halves(m, divisions, n) /\ v \in m /\ m \in part
  <2>1. Left(m, divisions') = Left(m, divisions) \cup {n + 1}
    BY <1>5, <1>11, <1>12, <1>13, <1>15
  <2>2. Odd(Left(m, divisions')) <=> ~Odd(Left(m, divisions))
    BY <1>14, <2>1, OddAdd
  <2>. QED
    BY <1>3, <1>7, <1>10, <1>15, <2>2 DEF Balanced, Solving
<1>16. CASE ~(Halves(m, divisions, n) /\ v \in m /\ m \in part)
  <2>1. Left(m, divisions') = Left(m, divisions)
    BY <1>5, <1>11, <1>12, <1>13, <1>16
  <2>. QED
    BY <1>3, <1>7, <1>10, <1>16, <2>1 DEF Balanced, Solving
<1>. QED
  BY <1>15, <1>16

(* OtherHalf: the cubes of the half x = 0 carry their value themselves now, *)
(* and the half x = 1 is no longer left but solved next.                    *)
LEMMA BalanceOther ==
  ASSUME DivideTypeOK, BeforeInList, OtherHalf,
         NEW m \in Minterms, Balanced(m, root, dpc, part, esop, divisions)
  PROVE  Balanced(m, root', dpc', part', esop', divisions')
<1>. DEFINE n == Len(divisions)
            v == Top.minIdx
<1>1. /\ n \in Nat \ {0} /\ Len(esop) \in Nat
      /\ Top = divisions[n] /\ Top.half = 0
  BY TopFacts, LenProperties DEF DivideTypeOK, OtherHalf
<1>2. /\ Len(divisions') = n
      /\ \A j \in 1 .. n - 1 : divisions'[j] = divisions[j]
      /\ divisions'[n].f = Top.f
      /\ divisions'[n].minIdx = v
      /\ divisions'[n].half = 1
      /\ divisions'[n].before = Len(esop)
  BY OtherHalfFacts
<1>3. /\ Len(esop') = Len(esop)
      /\ \A k \in 1 .. Len(esop) :
           TextCovers(esop'[k], m)
             <=> TextCovers(esop[k], m) /\ (Top.before < k => InHalf(m, Top, Top.half))
  BY MarkedCubes DEF OtherHalf
<1>4. root' = root /\ part' = T(Top.f, v) /\ dpc = "return" /\ dpc' = "call"
  BY DEF OtherHalf
<1>5. \A j : j \in 1 .. n <=> j \in 1 .. n - 1 \/ j = n
  BY <1>1
<1>6. Unwritten(m, esop', divisions') = Unwritten(m, esop, divisions)
  <2>1. ASSUME NEW k \in 1 .. Len(esop)
        PROVE  (\A j \in 1 .. n : divisions'[j].before < k => InHalf(m, divisions'[j], divisions'[j].half))
                 <=> \A j \in 1 .. n - 1 : divisions[j].before < k => InHalf(m, divisions[j], divisions[j].half)
    <3>1. ~(divisions'[n].before < k)
      BY <1>1, <1>2
    <3>. QED
      BY <1>2, <1>5, <3>1
  <2>2. ASSUME NEW k \in 1 .. Len(esop)
        PROVE  (\A j \in 1 .. n : divisions[j].before < k => InHalf(m, divisions[j], divisions[j].half))
                 <=> /\ \A j \in 1 .. n - 1 : divisions[j].before < k => InHalf(m, divisions[j], divisions[j].half)
                     /\ Top.before < k => InHalf(m, Top, Top.half)
    BY <1>1, <1>5
  <2>. QED
    BY <1>2, <1>3, <2>1, <2>2 DEF Unwritten
<1>7. \A k \in 0 .. n - 1 : Halves(m, divisions', k) <=> Halves(m, divisions, k)
  <2>1. TAKE k \in 0 .. n - 1
  <2>2. k \in Nat /\ \A j \in 1 .. k : j \in 1 .. n - 1
    BY <1>1
  <2>3. \A j \in 1 .. k : divisions'[j] = divisions[j]
    BY <1>2, <2>2
  <2>. QED
    BY <2>3 DEF Halves
<1>8. n - 1 \in 0 .. n - 1 /\ \A j \in 1 .. n : j - 1 \in 0 .. n - 1
  BY <1>1
<1>9. Solving(m, dpc', part', divisions') <=> Halves(m, divisions, n - 1) /\ v \in m /\ m \in Top.f
  <2>1. Halves(m, divisions', n) <=> Halves(m, divisions', n - 1) /\ InHalf(m, divisions'[n], divisions'[n].half)
    BY <1>1, MoreHalves
  <2>2. Halves(m, divisions', n) <=> Halves(m, divisions, n - 1) /\ v \in m
    BY <1>2, <1>7, <1>8, <2>1 DEF InHalf
  <2>3. v \in m => m \cup {v} = m
    OBVIOUS
  <2>. QED
    BY <1>2, <1>4, <2>2, <2>3 DEF Solving, T
<1>10. \A j \in 1 .. n - 1 : j \in Left(m, divisions') <=> j \in Left(m, divisions)
  BY <1>2, <1>5, <1>7, <1>8 DEF Left
<1>11. n \notin Left(m, divisions')
  BY <1>2 DEF Left
<1>12. n \in Left(m, divisions) <=> Halves(m, divisions, n - 1) /\ v \in m /\ m \in Top.f
  BY <1>1 DEF Left, InHalf
<1>13. Left(m, divisions') \subseteq 1 .. n /\ Left(m, divisions) \subseteq 1 .. n
  BY <1>2 DEF Left
<1>14. ~Solving(m, dpc, part, divisions)
  BY <1>4 DEF Solving
<1>15. CASE n \in Left(m, divisions)
  <2>1. Left(m, divisions') = Left(m, divisions) \ {n}
    BY <1>1, <1>5, <1>10, <1>11, <1>13, <1>15
  <2>2. Odd(Left(m, divisions')) <=> ~Odd(Left(m, divisions))
    BY <1>15, <2>1, LedgerFinite, OddRemove
  <2>. QED
    BY <1>4, <1>6, <1>9, <1>12, <1>14, <1>15, <2>2 DEF Balanced
<1>16. CASE n \notin Left(m, divisions)
  <2>1. Left(m, divisions') = Left(m, divisions)
    BY <1>5, <1>10, <1>11, <1>13, <1>16
  <2>. QED
    BY <1>4, <1>6, <1>9, <1>12, <1>14, <1>16, <2>1 DEF Balanced
<1>. QED
  BY <1>15, <1>16

(* LeaveDivision: both halves are solved, and their cubes carry the values. *)
LEMMA BalanceLeave ==
  ASSUME DivideTypeOK, BeforeInList, LeaveDivision,
         NEW m \in Minterms, Balanced(m, root, dpc, part, esop, divisions)
  PROVE  Balanced(m, root', dpc', part', esop', divisions')
<1>. DEFINE n == Len(divisions)
<1>1. /\ n \in Nat \ {0} /\ Len(esop) \in Nat
      /\ Top = divisions[n] /\ Top.half = 1
  BY TopFacts, LenProperties DEF DivideTypeOK, LeaveDivision
<1>2. Len(divisions') = n - 1 /\ \A j \in 1 .. n - 1 : divisions'[j] = divisions[j]
  BY PopProperties DEF DivideTypeOK, LeaveDivision
<1>3. /\ Len(esop') = Len(esop)
      /\ \A k \in 1 .. Len(esop) :
           TextCovers(esop'[k], m)
             <=> TextCovers(esop[k], m) /\ (Top.before < k => InHalf(m, Top, Top.half))
  BY MarkedCubes DEF LeaveDivision
<1>4. root' = root /\ dpc = "return" /\ dpc' = "return"
  BY DEF LeaveDivision
<1>5. \A j : j \in 1 .. n <=> j \in 1 .. n - 1 \/ j = n
  BY <1>1
<1>6. Unwritten(m, esop', divisions') = Unwritten(m, esop, divisions)
  <2>1. ASSUME NEW k \in 1 .. Len(esop)
        PROVE  (\A j \in 1 .. n : divisions[j].before < k => InHalf(m, divisions[j], divisions[j].half))
                 <=> /\ \A j \in 1 .. n - 1 : divisions[j].before < k => InHalf(m, divisions[j], divisions[j].half)
                     /\ Top.before < k => InHalf(m, Top, Top.half)
    BY <1>1, <1>5
  <2>2. ASSUME NEW k \in 1 .. Len(esop)
        PROVE  (\A j \in 1 .. n - 1 : divisions'[j].before < k => InHalf(m, divisions'[j], divisions'[j].half))
                 <=> \A j \in 1 .. n - 1 : divisions[j].before < k => InHalf(m, divisions[j], divisions[j].half)
    BY <1>2
  <2>. QED
    BY <1>2, <1>3, <2>1, <2>2 DEF Unwritten
<1>7. Left(m, divisions') = Left(m, divisions)
  <2>1. n \notin Left(m, divisions)
    BY <1>1 DEF Left
  <2>2. \A j \in 1 .. n - 1 : Halves(m, divisions', j - 1) <=> Halves(m, divisions, j - 1)
    <3>1. TAKE j \in 1 .. n - 1
    <3>2. j - 1 \in Nat /\ \A k \in 1 .. j - 1 : k \in 1 .. n - 1
      BY <1>1
    <3>3. \A k \in 1 .. j - 1 : divisions'[k] = divisions[k]
      BY <1>2, <3>2
    <3>. QED
      BY <3>3 DEF Halves
  <2>3. \A j \in 1 .. n - 1 : j \in Left(m, divisions') <=> j \in Left(m, divisions)
    BY <1>2, <1>5, <2>2 DEF Left
  <2>4. Left(m, divisions') \subseteq 1 .. n - 1 /\ Left(m, divisions) \subseteq 1 .. n
    BY <1>2 DEF Left
  <2>. QED
    BY <1>5, <2>1, <2>3, <2>4
<1>. QED
  BY <1>4, <1>6, <1>7 DEF Balanced, Solving

LEMMA BalanceInit ==
  ASSUME DivideInit, NEW m \in Minterms
  PROVE  Balanced(m, root, dpc, part, esop, divisions)
<1>1. Len(esop) = 0 /\ Len(divisions) = 0
  BY EmptySeq DEF DivideInit
<1>2. Unwritten(m, esop, divisions) = {} /\ Left(m, divisions) = {}
  BY <1>1 DEF Unwritten, Left
<1>3. Solving(m, dpc, part, divisions) <=> m \in root
  BY <1>1 DEF DivideInit, Solving, Halves
<1>. QED
  BY <1>2, <1>3 DEF Balanced

LEMMA LedgerStep ==
  ASSUME DivideTypeOK, BeforeInList, DivideTypeOK', DivideLedger, [DivideNext]_dvars
  PROVE  DivideLedger'
<1>1. \A m \in Minterms : Balanced(m, root, dpc, part, esop, divisions)
  BY LedgerBooks
<1>2. SUFFICES ASSUME NEW m \in Minterms
               PROVE  Balanced(m, root', dpc', part', esop', divisions')
  BY LedgerBooksNext
<1>3. Balanced(m, root, dpc, part, esop, divisions)
  BY <1>1
<1>4. CASE WritePla \/ UNCHANGED dvars
  BY <1>3, <1>4 DEF WritePla, dvars, Balanced, Solving
<1>. QED
  BY <1>3, <1>4, BalanceSolve, BalanceDivide, BalanceOther, BalanceLeave DEF DivideNext

(* dcextract never loses a minterm or counts it twice: at every moment the  *)
(* cubes in the list, the halves still to visit and the part being solved    *)
(* XOR to the output, although the cubes of divisions that are still open    *)
(* lack the literals of these divisions.                                    *)
THEOREM DivideLedgerCorrect == Spec => []DivideLedger
<1>1. Init => DivideLedger
  BY BalanceInit, DivideTypeInit, LedgerBooks DEF Init
<1>2. DivideTypeOK /\ BeforeInList /\ DivideLedger /\ [Next]_vars => DivideLedger'
  BY LedgerStep, DvarsStep, DivideTypeStep
<1>. QED
  BY <1>1, <1>2, DivideTypeCorrect, PTL DEF Spec

-----------------------------------------------------------------------------
(* What reaches the file.                                                   *)
Written == dpc = "written" => divisions = <<>> /\ plaFile = esop

LEMMA WrittenStep == ASSUME Written, [DivideNext]_dvars PROVE Written'
BY DEF Written, DivideNext, SolvePart, Divide, OtherHalf, LeaveDivision, WritePla, dvars

LEMMA LedgerAtEnd ==
  ASSUME DivideTypeOK, DivideLedger, Written, dpc = "written"
  PROVE  TextRealises(plaFile, root)
<1>. SUFFICES ASSUME NEW m \in Minterms PROVE m \in root <=> Odd(TextCovering(esop, m))
  BY DEF TextRealises, Written
<1>1. Len(divisions) = 0 /\ DOMAIN esop = 1 .. Len(esop)
  BY EmptySeq, LenProperties DEF DivideTypeOK, Written
<1>2. Left(m, divisions) = {} /\ Unwritten(m, esop, divisions) = TextCovering(esop, m)
  BY <1>1 DEF Left, Unwritten, TextCovering
<1>3. ~Odd({})
  BY FS_EmptySet DEF Odd
<1>4. Balanced(m, root, dpc, part, esop, divisions)
  BY LedgerBooks
<1>. QED
  BY <1>2, <1>3, <1>4 DEF Balanced, Solving

(* The file that dcextract writes, and dcmin reads, is an ESOP of the       *)
(* output.                                                                  *)
THEOREM FileCorrect == Spec => [](dpc = "written" => TextRealises(plaFile, root))
<1>1. Init => Written
  BY DEF Init, DivideInit, Written
<1>2. Written /\ [Next]_vars => Written'
  BY WrittenStep, DvarsStep
<1>3. DivideTypeOK /\ DivideLedger /\ Written => (dpc = "written" => TextRealises(plaFile, root))
  BY LedgerAtEnd
<1>. QED
  BY <1>1, <1>2, <1>3, DivideTypeCorrect, DivideLedgerCorrect, PTL DEF Spec

-----------------------------------------------------------------------------
(* Literals.                                                                *)
LEMMA LitFacts ==
  ASSUME NEW v \in Vars, NEW a \in {"0", "1"}
  PROVE  /\ Lit(v, a) \in Nat
         /\ Lit(v, a) % 2 = 0 <=> a = "1"
         /\ (Lit(v, a) \div 2) + 1 = v
<1>1. v \in Nat \ {0}
  BY NAssumption DEF Vars
<1>2. CASE a = "0"
  <2>1. Lit(v, a) = 2 * (v - 1) + 1
    BY <1>2 DEF Lit
  <2>. QED
    BY <1>1, <1>2, <2>1
<1>3. CASE a = "1"
  <2>1. Lit(v, a) = 2 * (v - 1)
    BY <1>3 DEF Lit
  <2>. QED
    BY <1>1, <1>3, <2>1
<1>. QED
  BY <1>2, <1>3

(* Reading a cube keeps its minterms.                                       *)
LEMMA LitsCover ==
  ASSUME NEW t \in TextCubes, NEW m \in Minterms
  PROVE  LitCovers(Lits(t), m) <=> TextCovers(t, m)
<1>1. \A v \in Vars : t[v] \in {"0", "1", "-"}
  BY DEF TextCubes
<1>2. LitCovers(Lits(t), m)
        <=> \A v \in Vars : t[v] # "-" => (Lit(v, t[v]) % 2 = 0 <=> (Lit(v, t[v]) \div 2) + 1 \in m)
  BY DEF LitCovers, Lits
<1>3. ASSUME NEW v \in Vars
      PROVE  (t[v] # "-" => (Lit(v, t[v]) % 2 = 0 <=> (Lit(v, t[v]) \div 2) + 1 \in m))
               <=> Admits(t[v], m, v)
  <2>1. CASE t[v] = "-"
    BY <2>1 DEF Admits
  <2>2. CASE t[v] \in {"0", "1"}
    BY <2>2, LitFacts DEF Admits
  <2>. QED
    BY <1>1, <2>1, <2>2
<1>. QED
  BY <1>2, <1>3 DEF TextCovers

(* Writing a cube that was read gives its text again.                       *)
LEMMA TextOfLits ==
  ASSUME NEW t \in TextCubes
  PROVE  Text(Lits(t)) = t
<1>1. \A v \in Vars : t[v] \in {"0", "1", "-"}
  BY DEF TextCubes
<1>2. ASSUME NEW v \in Vars, NEW a \in {"0", "1"}
      PROVE  Lit(v, a) \in Lits(t) <=> t[v] = a
  <2>1. ASSUME NEW w \in Vars, t[w] # "-", Lit(v, a) = Lit(w, t[w])
        PROVE  t[v] = a
    <3>1. t[w] \in {"0", "1"}
      BY <1>1, <2>1
    <3>. QED
      BY <2>1, <3>1, LitFacts
  <2>. QED
    BY <2>1 DEF Lits
<1>3. \A v \in Vars : Text(Lits(t))[v] = t[v]
  BY <1>1, <1>2 DEF Text
<1>. QED
  BY <1>3 DEF Text, TextCubes

LEMMA TextFacts ==
  ASSUME NEW c \in LitCubes
  PROVE  Text(c) \in TextCubes /\ \A m \in Minterms : TextCovers(Text(c), m) <=> LitCovers(c, m)
<1>1. PICK t \in TextCubes : c = Lits(t)
  BY DEF LitCubes
<1>. QED
  BY <1>1, TextOfLits, LitsCover

-----------------------------------------------------------------------------
(* Induction: a set of numbers that has 1 and, with a number, the next is   *)
(* all of them.                                                             *)
LEMMA LeastNumber ==
  ASSUME NEW S, S \subseteq Nat, S # {}
  PROVE  \E x \in S : \A y \in S : x <= y
<1>1. PICK x \in S : \A y \in S : ~(<<y, x>> \in OpToRel(<, Nat))
  BY WFMin, NatLessThanWellFounded
<1>2. \A y \in S : ~(y < x)
  BY <1>1 DEF OpToRel
<1>. QED
  BY <1>2

LEMMA Upwards ==
  ASSUME NEW S, NEW n \in Nat,
         n > 0 => 1 \in S,
         \A k \in 1 .. n : k \in S /\ k < n => k + 1 \in S
  PROVE  1 .. n \subseteq S
<1>. SUFFICES ASSUME ~(1 .. n \subseteq S) PROVE FALSE
  OBVIOUS
<1>. PICK Missing : Missing = {k \in 1 .. n : k \notin S}
  OBVIOUS
<1>1. Missing \subseteq Nat /\ Missing # {}
  OBVIOUS
<1>2. PICK x \in Missing : \A y \in Missing : x <= y
  BY <1>1, LeastNumber
<1>3. x \in 1 .. n /\ x \notin S /\ x # 1
  OBVIOUS
<1>4. x - 1 \in 1 .. n /\ x - 1 < n /\ (x - 1) + 1 = x /\ x - 1 < x
  BY <1>3
<1>5. x - 1 \in S
  BY <1>2, <1>4
<1>. QED
  BY <1>3, <1>4, <1>5

-----------------------------------------------------------------------------
(* Joining sequences: the function that FlattenSeq evaluates.               *)
Joins(f, s, n) == f = [k \in 1 .. n |-> IF k = 1 THEN s[k] ELSE f[k - 1] \o s[k]]

LEMMA JoinsExist == ASSUME NEW s, NEW n \in Nat PROVE \E f : Joins(f, s, n)
<1>1. CASE n = 0
  <2>1. 1 .. n = {}
    BY <1>1
  <2>. DEFINE f == [k \in {} |-> s[k]]
  <2>2. f = [k \in 1 .. n |-> IF k = 1 THEN s[k] ELSE f[k - 1] \o s[k]]
    BY <2>1
  <2>. QED
    BY <2>2 DEF Joins
<1>2. CASE n > 0
  <2>. DEFINE Exist == {k \in 1 .. n : \E f : Joins(f, s, k)}
  <2>1. 1 \in Exist
    <3>. DEFINE f == [k \in 1 .. 1 |-> s[k]]
    <3>1. \A k \in 1 .. 1 : k = 1
      OBVIOUS
    <3>2. f = [k \in 1 .. 1 |-> IF k = 1 THEN s[k] ELSE f[k - 1] \o s[k]]
      BY <3>1
    <3>3. 1 \in 1 .. n
      BY <1>2
    <3>. QED
      BY <3>2, <3>3 DEF Joins
  <2>2. ASSUME NEW k \in 1 .. n, k \in Exist, k < n
        PROVE  k + 1 \in Exist
    <3>1. PICK f : Joins(f, s, k)
      BY <2>2
    <3>2. \A l \in 1 .. k : f[l] = IF l = 1 THEN s[l] ELSE f[l - 1] \o s[l]
      BY <3>1 DEF Joins
    <3>3. /\ k \in 1 .. k /\ k + 1 \in 1 .. k + 1 /\ k + 1 # 1 /\ (k + 1) - 1 = k
          /\ k + 1 \notin 1 .. k
      OBVIOUS
    <3>4. \A l \in 1 .. k : l \in 1 .. k + 1
      OBVIOUS
    <3>5. \A l \in 1 .. k + 1 : l = k + 1 \/ l \in 1 .. k
      OBVIOUS
    <3>6. \A l \in 1 .. k : l = 1 \/ l - 1 \in 1 .. k
      OBVIOUS
    <3>7. PICK x : x = f[k] \o s[k + 1]
      OBVIOUS
    <3>8. PICK h : h = [l \in 1 .. k + 1 |-> IF l = k + 1 THEN x ELSE f[l]]
      OBVIOUS
    <3>9. h[k + 1] = x /\ \A l \in 1 .. k : h[l] = f[l]
      BY <3>3, <3>4, <3>8
    <3>10. h = [l \in 1 .. k + 1 |-> IF l = 1 THEN s[l] ELSE h[l - 1] \o s[l]]
      <4>1. \A l \in 1 .. k + 1 : h[l] = IF l = 1 THEN s[l] ELSE h[l - 1] \o s[l]
        BY <3>2, <3>3, <3>5, <3>6, <3>7, <3>9
      <4>. QED
        BY <3>8, <4>1
    <3>11. k + 1 \in 1 .. n
      BY <2>2
    <3>. QED
      BY <3>10, <3>11 DEF Joins
  <2>. HIDE DEF Exist
  <2>3. 1 .. n \subseteq Exist
    BY <2>1, <2>2, Upwards
  <2>. QED
    BY <1>2, <2>3 DEF Exist
<1>. QED
  BY <1>1, <1>2

LEMMA FlattenIs ==
  ASSUME NEW s, Len(s) \in Nat \ {0}
  PROVE  \E f : Joins(f, s, Len(s)) /\ FlattenSeq(s) = f[Len(s)]
<1>. DEFINE f == CHOOSE g : g = [k \in 1 .. Len(s) |-> IF k = 1 THEN s[k] ELSE g[k - 1] \o s[k]]
<1>1. \E g : g = [k \in 1 .. Len(s) |-> IF k = 1 THEN s[k] ELSE g[k - 1] \o s[k]]
  BY JoinsExist DEF Joins
<1>2. f = [k \in 1 .. Len(s) |-> IF k = 1 THEN s[k] ELSE f[k - 1] \o s[k]]
  BY <1>1
<1>3. FlattenSeq(s) = f[Len(s)]
  BY DEF FlattenSeq
<1>. QED
  BY <1>2, <1>3 DEF Joins

(* What the joins of sequences are made of.                                 *)
LEMMA JoinsFacts ==
  ASSUME NEW f, NEW s, NEW n \in Nat \ {0}, Joins(f, s, n)
  PROVE  /\ f[1] = s[1]
         /\ \A k \in 1 .. n : k < n => f[k + 1] = f[k] \o s[k + 1]
<1>1. \A k \in 1 .. n : f[k] = IF k = 1 THEN s[k] ELSE f[k - 1] \o s[k]
  BY DEF Joins
<1>2. 1 \in 1 .. n
  OBVIOUS
<1>3. ASSUME NEW k \in 1 .. n, k < n
      PROVE  f[k + 1] = f[k] \o s[k + 1]
  <2>1. k + 1 \in 1 .. n /\ k + 1 # 1 /\ (k + 1) - 1 = k
    BY <1>3
  <2>. QED
    BY <1>1, <2>1
<1>. QED
  BY <1>1, <1>2, <1>3

LEMMA ElementsOf ==
  ASSUME NEW S, NEW s \in Seq(S)
  PROVE  /\ Len(s) \in Nat
         /\ \A k \in 1 .. Len(s) : s[k] \in S
BY LenProperties, ElementOfSeq

LEMMA JoinsTypes ==
  ASSUME NEW S, NEW s \in Seq(Seq(S)), NEW f, Joins(f, s, Len(s))
  PROVE  \A k \in 1 .. Len(s) : f[k] \in Seq(S)
<1>1. PICK n \in Nat : n = Len(s)
  BY LenProperties
<1>2. \A k \in 1 .. n : s[k] \in Seq(S)
  BY <1>1, ElementsOf
<1>3. CASE n = 0
  BY <1>1, <1>3
<1>4. CASE n > 0
  <2>1. f[1] = s[1] /\ \A k \in 1 .. n : k < n => f[k + 1] = f[k] \o s[k + 1]
    <3>1. n \in Nat \ {0} /\ Joins(f, s, n)
      BY <1>1, <1>4
    <3>. QED
      BY <3>1, JoinsFacts
  <2>2. PICK X : X = {k \in 1 .. n : f[k] \in Seq(S)}
    OBVIOUS
  <2>3. 1 \in 1 .. n /\ \A k \in 1 .. n : k < n => k + 1 \in 1 .. n
    BY <1>4
  <2>4. 1 \in X
    BY <1>2, <2>1, <2>2, <2>3
  <2>5. \A k \in 1 .. n : k \in X /\ k < n => k + 1 \in X
    <3>. SUFFICES ASSUME NEW k \in 1 .. n, k \in X, k < n PROVE k + 1 \in X
      OBVIOUS
    <3>1. f[k] \in Seq(S) /\ s[k + 1] \in Seq(S) /\ f[k + 1] = f[k] \o s[k + 1]
      BY <1>2, <2>1, <2>2, <2>3
    <3>. QED
      BY <2>2, <2>3, <3>1, ConcatProperties
  <2>6. 1 .. n \subseteq X
    BY <2>4, <2>5, Upwards
  <2>. QED
    BY <1>1, <2>2, <2>6
<1>. QED
  BY <1>1, <1>3, <1>4

LEMMA FlattenType ==
  ASSUME NEW S, NEW s \in Seq(Seq(S))
  PROVE  FlattenSeq(s) \in Seq(S)
<1>1. CASE Len(s) = 0
  <2>1. s = <<>>
    BY <1>1, EmptySeq
  <2>2. FlattenSeq(s) = s
    BY <1>1 DEF FlattenSeq
  <2>. QED
    BY <2>1, <2>2, EmptySeq
<1>2. CASE Len(s) # 0
  <2>1. Len(s) \in Nat \ {0} /\ Len(s) \in 1 .. Len(s)
    BY <1>2, LenProperties
  <2>2. PICK f : Joins(f, s, Len(s)) /\ FlattenSeq(s) = f[Len(s)]
    BY <2>1, FlattenIs
  <2>3. \A k \in 1 .. Len(s) : f[k] \in Seq(S)
    BY <2>2, JoinsTypes
  <2>. QED
    BY <2>1, <2>2, <2>3
<1>. QED
  BY <1>1, <1>2

-----------------------------------------------------------------------------
(* One ESOP takes the place of another: no longer, of the same function.     *)
Esops == Seq(LitCubes)
Parity(s, m) == Odd(LitCovering(s, m))
Keeps(s, t) ==
  /\ Len(t) <= Len(s)
  /\ \A m \in Minterms : Parity(t, m) <=> Parity(s, m)

(* The parity of two ESOPs together is the XOR of theirs.                   *)
LEMMA ParityConcat ==
  ASSUME NEW s \in Esops, NEW t \in Esops, NEW m
  PROVE  Parity(s \o t, m) <=> ~(Parity(s, m) <=> Parity(t, m))
<1>1. PICK l \in Nat : l = Len(s)
  BY LenProperties DEF Esops
<1>2. PICK n \in Nat : n = Len(t)
  BY LenProperties DEF Esops
<1>3. PICK u : u = s \o t
  OBVIOUS
<1>4. /\ DOMAIN s = 1 .. l /\ DOMAIN t = 1 .. n /\ DOMAIN u = 1 .. l + n
      /\ \A k \in 1 .. l : u[k] = s[k]
      /\ \A k \in 1 .. n : u[l + k] = t[k]
  <2>1. s \in Seq(LitCubes) /\ t \in Seq(LitCubes)
    BY DEF Esops
  <2>2. u \in Seq(LitCubes) /\ Len(u) = l + n
    BY <1>1, <1>2, <1>3, <2>1, ConcatFacts
  <2>3. DOMAIN s = 1 .. l /\ DOMAIN t = 1 .. n /\ DOMAIN u = 1 .. l + n
    BY <1>1, <1>2, <2>1, <2>2, LenProperties
  <2>. QED
    BY <1>1, <1>2, <1>3, <2>1, <2>3, ConcatFacts
<1>5. PICK A : A = LitCovering(s, m)
  OBVIOUS
<1>6. PICK B : B = LitCovering(t, m)
  OBVIOUS
<1>7. A \subseteq 1 .. l /\ B \subseteq 1 .. n
  BY <1>4, <1>5, <1>6 DEF LitCovering
<1>8. IsFiniteSet(A) /\ IsFiniteSet(B) /\ B \subseteq Nat
  <2>1. IsFiniteSet(1 .. l) /\ IsFiniteSet(1 .. n) /\ 1 .. n \subseteq Nat
    BY FS_Interval
  <2>. QED
    BY <1>7, <2>1, FS_Subset
<1>9. PICK C : C = {l + k : k \in B}
  OBVIOUS
<1>10. IsFiniteSet(C) /\ (Odd(C) <=> Odd(B))
  BY <1>8, <1>9, OddShift
<1>11. A \cap C = {}
  <2>1. ASSUME NEW k \in B PROVE l + k \notin 1 .. l
    BY <1>7, <2>1
  <2>. QED
    BY <1>7, <1>9, <2>1
<1>12. LitCovering(u, m) = A \cup C
  <2>1. \A k \in 1 .. l : k \in 1 .. l + n
    OBVIOUS
  <2>2. \A k \in 1 .. n : l + k \in 1 .. l + n
    OBVIOUS
  <2>3. ASSUME NEW k \in 1 .. l + n
        PROVE  k \in 1 .. l \/ \E c \in 1 .. n : k = l + c
    <3>1. CASE k <= l
      BY <3>1
    <3>2. CASE k > l
      <4>1. k - l \in 1 .. n /\ k = l + (k - l)
        BY <3>2
      <4>. QED
        BY <4>1
    <3>. QED
      BY <3>1, <3>2
  <2>4. \A k \in 1 .. l : k \in LitCovering(u, m) <=> k \in A
    BY <1>4, <1>5, <2>1 DEF LitCovering
  <2>5. \A k \in 1 .. n : l + k \in LitCovering(u, m) <=> k \in B
    BY <1>4, <1>6, <2>2 DEF LitCovering
  <2>6. LitCovering(u, m) \subseteq 1 .. l + n
    BY <1>4 DEF LitCovering
  <2>7. ASSUME NEW k \in LitCovering(u, m) PROVE k \in A \cup C
    <3>1. k \in 1 .. l \/ \E c \in 1 .. n : k = l + c
      BY <2>3, <2>6
    <3>. QED
      BY <1>9, <2>4, <2>5, <3>1
  <2>8. \A k \in A : k \in LitCovering(u, m)
    BY <1>7, <2>4
  <2>9. \A k \in C : k \in LitCovering(u, m)
    BY <1>7, <1>9, <2>5
  <2>. QED
    BY <2>7, <2>8, <2>9
<1>13. Odd(LitCovering(u, m)) <=> ~(Odd(A) <=> Odd(C))
  BY <1>8, <1>10, <1>11, <1>12, OddUnion
<1>. QED
  BY <1>3, <1>5, <1>6, <1>10, <1>13 DEF Parity

LEMMA KeepsConcat ==
  ASSUME NEW s \in Esops, NEW t \in Esops, NEW u \in Esops, NEW x \in Esops,
         Keeps(s, u), Keeps(t, x)
  PROVE  Keeps(s \o t, u \o x)
<1>1. /\ Len(s) \in Nat /\ Len(t) \in Nat /\ Len(u) \in Nat /\ Len(x) \in Nat
      /\ Len(s \o t) = Len(s) + Len(t) /\ Len(u \o x) = Len(u) + Len(x)
  BY ConcatFacts DEF Esops
<1>2. Len(u \o x) <= Len(s \o t)
  BY <1>1 DEF Keeps
<1>3. ASSUME NEW m \in Minterms PROVE Parity(u \o x, m) <=> Parity(s \o t, m)
  <2>1. (Parity(u, m) <=> Parity(s, m)) /\ (Parity(x, m) <=> Parity(t, m))
    BY DEF Keeps
  <2>. QED
    BY <2>1, ParityConcat
<1>. QED
  BY <1>2, <1>3 DEF Keeps

(* Joining lists of ESOPs that take the place of each other, one by one.     *)
LEMMA FlattenKeeps ==
  ASSUME NEW s \in Seq(Esops), NEW t \in Seq(Esops), Len(t) = Len(s),
         \A k \in 1 .. Len(s) : Keeps(s[k], t[k])
  PROVE  Keeps(FlattenSeq(s), FlattenSeq(t))
<1>1. PICK n \in Nat : n = Len(s)
  BY LenProperties
<1>2. \A k \in 1 .. n : s[k] \in Esops /\ t[k] \in Esops
  BY <1>1, ElementsOf
<1>3. CASE n = 0
  <2>1. FlattenSeq(s) = s /\ FlattenSeq(t) = t
    BY <1>1, <1>3 DEF FlattenSeq
  <2>2. s = <<>> /\ t = <<>>
    BY <1>1, <1>3, EmptySeq
  <2>. QED
    BY <1>1, <2>1, <2>2 DEF Keeps
<1>4. CASE n > 0
  <2>1. n \in Nat \ {0} /\ Len(s) = n /\ Len(t) = n
    BY <1>1, <1>4
  <2>2. PICK f : Joins(f, s, n) /\ FlattenSeq(s) = f[n]
    BY <2>1, FlattenIs
  <2>3. PICK g : Joins(g, t, n) /\ FlattenSeq(t) = g[n]
    BY <2>1, FlattenIs
  <2>4. \A k \in 1 .. n : f[k] \in Esops /\ g[k] \in Esops
    BY <2>1, <2>2, <2>3, JoinsTypes DEF Esops
  <2>5. /\ f[1] = s[1] /\ \A k \in 1 .. n : k < n => f[k + 1] = f[k] \o s[k + 1]
        /\ g[1] = t[1] /\ \A k \in 1 .. n : k < n => g[k + 1] = g[k] \o t[k + 1]
    <3>1. f[1] = s[1] /\ \A k \in 1 .. n : k < n => f[k + 1] = f[k] \o s[k + 1]
      BY <2>1, <2>2, JoinsFacts
    <3>2. g[1] = t[1] /\ \A k \in 1 .. n : k < n => g[k + 1] = g[k] \o t[k + 1]
      BY <2>1, <2>3, JoinsFacts
    <3>. QED
      BY <3>1, <3>2
  <2>6. PICK X : X = {k \in 1 .. n : Keeps(f[k], g[k])}
    OBVIOUS
  <2>7. 1 \in 1 .. n /\ n \in 1 .. n /\ \A k \in 1 .. n : k < n => k + 1 \in 1 .. n
    BY <1>4
  <2>8. 1 \in X
    BY <2>1, <2>5, <2>6, <2>7
  <2>9. \A k \in 1 .. n : k \in X /\ k < n => k + 1 \in X
    <3>. SUFFICES ASSUME NEW k \in 1 .. n, k \in X, k < n PROVE k + 1 \in X
      OBVIOUS
    <3>1. k + 1 \in 1 .. n
      BY <2>7
    <3>2. Keeps(f[k], g[k]) /\ Keeps(s[k + 1], t[k + 1])
      BY <2>1, <2>6, <3>1
    <3>3. Keeps(f[k] \o s[k + 1], g[k] \o t[k + 1])
      BY <1>2, <2>4, <3>1, <3>2, KeepsConcat
    <3>. QED
      BY <2>5, <2>6, <3>1, <3>3
  <2>10. 1 .. n \subseteq X
    BY <2>8, <2>9, Upwards
  <2>. QED
    BY <2>2, <2>3, <2>6, <2>7, <2>10
<1>. QED
  BY <1>3, <1>4

-----------------------------------------------------------------------------
(* Cutting an ESOP into groups loses no cube and keeps their order.          *)
LEMMA GroupCount ==
  ASSUME NEW l \in Nat \ {0}, NEW size \in Nat \ {0},
         NEW n, n = (l + size - 1) \div size
  PROVE  n \in Nat \ {0} /\ (n - 1) * size < l /\ l <= n * size
<1>1. PICK a \in Nat : a = l + size - 1
  OBVIOUS
<1>2. n = a \div size /\ n \in Nat
  BY <1>1
<1>3. PICK p \in Nat : p = size * n
  BY <1>2
<1>4. p <= a /\ a < p + size
  BY <1>1, <1>2, <1>3
<1>5. n # 0
  BY <1>1, <1>3, <1>4
<1>6. n * size = p /\ (n - 1) * size = p - size
  BY <1>2, <1>3
<1>. QED
  BY <1>1, <1>2, <1>4, <1>5, <1>6

LEMMA GroupsFacts ==
  ASSUME NEW S, NEW cubes \in Seq(S), NEW size \in Nat \ {0}
  PROVE  Groups(cubes, size) \in Seq(Seq(S)) /\ FlattenSeq(Groups(cubes, size)) = cubes
<1>1. PICK l \in Nat : l = Len(cubes)
  BY LenProperties
<1>2. PICK n : n = IF cubes = <<>> THEN 1 ELSE (l + size - 1) \div size
  OBVIOUS
<1>3. PICK s : s = Groups(cubes, size)
  OBVIOUS
<1>4. n \in Nat \ {0} /\ (n - 1) * size <= l /\ l <= n * size
  <2>1. CASE cubes = <<>>
    BY <1>1, <1>2, <2>1, EmptySeq
  <2>2. CASE cubes # <<>>
    <3>1. l \in Nat \ {0} /\ n = (l + size - 1) \div size
      BY <1>1, <1>2, <2>2, EmptySeq
    <3>2. n \in Nat \ {0} /\ (n - 1) * size < l /\ l <= n * size
      BY <3>1, GroupCount
    <3>3. (n - 1) * size \in Nat
      BY <3>2
    <3>. QED
      BY <3>2, <3>3
  <2>. QED
    BY <2>1, <2>2
<1>5. PICK times : times = [k \in Nat |-> k * size]
  OBVIOUS
<1>6. /\ times[0] = 0 /\ times[n - 1] <= l
      /\ \A a \in Nat : times[a] \in Nat /\ times[a] = a * size
      /\ \A a \in Nat : \A b \in Nat : a <= b => times[a] <= times[b]
  <2>1. \A a \in Nat : a * size \in Nat
    OBVIOUS
  <2>2. ASSUME NEW a \in Nat, NEW b \in Nat, a <= b PROVE a * size <= b * size
    BY <2>2
  <2>3. \A a \in Nat : times[a] = a * size
    BY <1>5
  <2>4. n - 1 \in Nat /\ 0 * size = 0
    BY <1>4
  <2>. QED
    BY <1>4, <2>1, <2>2, <2>3, <2>4
(* Where the cubes of group g end.                                          *)
<1>7. PICK end : end = [g \in 0 .. n |-> IF g < n THEN times[g] ELSE l]
  OBVIOUS
<1>8. /\ end[0] = 0 /\ end[n] = l
      /\ \A g \in 1 .. n : end[g - 1] = times[g - 1]
      /\ \A g \in 1 .. n : /\ end[g - 1] \in Nat /\ end[g] \in Nat
                           /\ end[g - 1] <= end[g] /\ end[g] <= l
  <2>1. 0 \in 0 .. n /\ n \in 0 .. n /\ 0 < n
    BY <1>4
  <2>2. ASSUME NEW g \in 1 .. n
        PROVE  /\ end[g - 1] = times[g - 1]
               /\ end[g] = IF g < n THEN times[g] ELSE l
    <3>1. g - 1 \in 0 .. n /\ g \in 0 .. n /\ g - 1 < n
      BY <1>4
    <3>. QED
      BY <1>7, <3>1
  <2>3. ASSUME NEW g \in 1 .. n
        PROVE  /\ end[g - 1] \in Nat /\ end[g] \in Nat
               /\ end[g - 1] <= end[g] /\ end[g] <= l
    <3>1. g - 1 \in Nat /\ g \in Nat /\ n - 1 \in Nat /\ g - 1 <= g /\ g - 1 <= n - 1
      BY <1>4
    <3>2. times[g - 1] \in Nat /\ times[g] \in Nat /\ times[n - 1] \in Nat
      BY <1>6, <3>1
    <3>3. times[g - 1] <= times[g] /\ times[g - 1] <= times[n - 1] /\ times[n - 1] <= l
      BY <1>6, <3>1
    <3>4. end[g - 1] = times[g - 1]
      BY <2>2
    <3>5. CASE g < n
      <4>1. g <= n - 1 /\ end[g] = times[g]
        BY <1>4, <2>2, <3>1, <3>5
      <4>2. times[g] <= times[n - 1]
        BY <1>6, <3>1, <4>1
      <4>3. end[g] <= l
        BY <3>2, <3>3, <4>1, <4>2
      <4>. QED
        BY <3>2, <3>3, <3>4, <4>1, <4>3
    <3>6. CASE ~(g < n)
      <4>1. end[g] = l
        BY <2>2, <3>6
      <4>. QED
        BY <3>2, <3>3, <3>4, <4>1
    <3>. QED
      BY <3>5, <3>6
  <2>4. end[0] = 0
    BY <1>4, <1>7, <1>6, <2>1
  <2>5. end[n] = l
    BY <1>4, <1>7, <2>1
  <2>. QED
    BY <2>2, <2>3, <2>4, <2>5
<1>9. s = [g \in 1 .. n |-> SubSeq(cubes, end[g - 1] + 1, end[g])]
  <2>1. s = [g \in 1 .. n |-> SubSeq(cubes, (g - 1) * size + 1, IF g < n THEN g * size ELSE Len(cubes))]
    BY <1>1, <1>2, <1>3 DEF Groups
  <2>2. ASSUME NEW g \in 1 .. n
        PROVE  (IF g < n THEN g * size ELSE Len(cubes)) = end[g] /\ (g - 1) * size = end[g - 1]
    <3>1. g \in 0 .. n /\ g \in Nat /\ g - 1 \in Nat
      BY <1>4
    <3>2. times[g] = g * size /\ times[g - 1] = (g - 1) * size
      BY <1>6, <3>1
    <3>. QED
      BY <1>1, <1>7, <1>8, <3>1, <3>2
  <2>. QED
    BY <2>1, <2>2
<1>10. ASSUME NEW x \in Nat, NEW y \in Nat, x <= y, y <= l
      PROVE  /\ SubSeq(cubes, x + 1, y) \in Seq(S)
             /\ SubSeq(cubes, 1, x) \o SubSeq(cubes, x + 1, y) = SubSeq(cubes, 1, y)
  <2>1. \A k \in x + 1 .. y : cubes[k] \in S
    <3>1. \A k \in x + 1 .. y : k \in 1 .. Len(cubes)
      BY <1>1, <1>10
    <3>. QED
      BY <3>1, ElementsOf
  <2>2. x + 1 \in Int /\ y \in Int
    OBVIOUS
  <2>3. SubSeq(cubes, x + 1, y) \in Seq(S)
    BY <2>1, <2>2, SubSeqProperties
  <2>4. 1 \in 1 .. Len(cubes) + 1 /\ x \in 1 - 1 .. Len(cubes) /\ y \in x .. Len(cubes)
    BY <1>1, <1>10
  <2>5. SubSeq(cubes, 1, x) \o SubSeq(cubes, x + 1, y) = SubSeq(cubes, 1, y)
    BY <2>4, ConcatAdjacentSubSeq
  <2>. QED
    BY <2>3, <2>5
<1>11. ASSUME NEW g \in 1 .. n
      PROVE  /\ s[g] = SubSeq(cubes, end[g - 1] + 1, end[g])
             /\ s[g] \in Seq(S)
             /\ SubSeq(cubes, 1, end[g - 1]) \o s[g] = SubSeq(cubes, 1, end[g])
  <2>1. s[g] = SubSeq(cubes, end[g - 1] + 1, end[g])
    BY <1>9
  <2>2. PICK x \in Nat : x = end[g - 1]
    BY <1>8
  <2>3. PICK y \in Nat : y = end[g]
    BY <1>8
  <2>4. x <= y /\ y <= l
    BY <1>8, <2>2, <2>3
  <2>5. /\ SubSeq(cubes, x + 1, y) \in Seq(S)
        /\ SubSeq(cubes, 1, x) \o SubSeq(cubes, x + 1, y) = SubSeq(cubes, 1, y)
    BY <1>10, <2>4
  <2>. QED
    BY <2>1, <2>2, <2>3, <2>5
<1>12. s \in Seq(Seq(S)) /\ Len(s) = n
  <2>1. s \in [1 .. n -> Seq(S)]
    BY <1>9, <1>11
  <2>2. s \in Seq(Seq(S))
    BY <1>4, <2>1, SeqDef
  <2>3. DOMAIN s = 1 .. n
    BY <1>9
  <2>. QED
    BY <1>4, <2>2, <2>3, LenProperties
<1>13. PICK f : Joins(f, s, n) /\ FlattenSeq(s) = f[n]
  BY <1>4, <1>12, FlattenIs
<1>14. f[1] = s[1] /\ \A k \in 1 .. n : k < n => f[k + 1] = f[k] \o s[k + 1]
  BY <1>4, <1>13, JoinsFacts
<1>15. PICK X : X = {g \in 1 .. n : f[g] = SubSeq(cubes, 1, end[g])}
  OBVIOUS
<1>16. 1 \in 1 .. n /\ n \in 1 .. n /\ \A k \in 1 .. n : k < n => k + 1 \in 1 .. n /\ (k + 1) - 1 = k
  BY <1>4
<1>17. 1 \in X
  <2>1. s[1] = SubSeq(cubes, end[1 - 1] + 1, end[1]) /\ 1 - 1 = 0
    BY <1>11, <1>16
  <2>2. end[0] + 1 = 1
    BY <1>8
  <2>. QED
    BY <1>14, <1>15, <1>16, <2>1, <2>2
<1>18. \A k \in 1 .. n : k \in X /\ k < n => k + 1 \in X
  <2>. SUFFICES ASSUME NEW k \in 1 .. n, k \in X, k < n PROVE k + 1 \in X
    OBVIOUS
  <2>1. k + 1 \in 1 .. n /\ (k + 1) - 1 = k
    BY <1>16
  <2>2. SubSeq(cubes, 1, end[k]) \o s[k + 1] = SubSeq(cubes, 1, end[k + 1])
    BY <1>11, <2>1
  <2>. QED
    BY <1>14, <1>15, <2>1, <2>2
<1>19. 1 .. n \subseteq X
  BY <1>4, <1>17, <1>18, Upwards
<1>20. FlattenSeq(s) = cubes
  BY <1>1, <1>8, <1>13, <1>15, <1>16, <1>19, SubSeqFull
<1>. QED
  BY <1>3, <1>12, <1>20

LEMMA FlattenOne ==
  ASSUME NEW S, NEW s \in Seq(S), Len(s) = 1
  PROVE  FlattenSeq(s) = s[1]
<1>1. Len(s) \in Nat \ {0}
  OBVIOUS
<1>2. PICK f : Joins(f, s, Len(s)) /\ FlattenSeq(s) = f[Len(s)]
  BY <1>1, FlattenIs
<1>3. f[1] = s[1]
  BY <1>1, <1>2, JoinsFacts
<1>. QED
  BY <1>2, <1>3

-----------------------------------------------------------------------------
(* What exorcism returns is an ESOP that takes the place of the group.       *)
LEMMA SmallSetsFinite ==
  ASSUME NEW n \in Nat, NEW S, NEW C \in AtMost(n, S)
  PROVE  IsFiniteSet(C) /\ C \subseteq S
<1>1. CASE C = {}
  BY <1>1, FS_EmptySet
<1>2. CASE C # {}
  <2>1. PICK s \in [1 .. n -> S] : C = ToSet(s)
    BY <1>2 DEF AtMost
  <2>2. C = {s[k] : k \in 1 .. n} /\ s \in [1 .. n -> C]
    BY <2>1 DEF ToSet
  <2>3. s \in Surjection(1 .. n, C)
    BY <2>2 DEF Surjection
  <2>4. IsFiniteSet(1 .. n)
    BY FS_Interval
  <2>. QED
    BY <2>1, <2>2, <2>3, <2>4, FS_Surjection
<1>. QED
  BY <1>1, <1>2

LEMMA ListedSet ==
  ASSUME NEW S, NEW C, IsFiniteSet(C), C \subseteq S
  PROVE  SetToSeq(C) \in Seq(S)
<1>1. PICK n \in Nat : n = Cardinality(C)
  BY FS_CardinalityType
<1>2. ExistsBijection(1 .. n, C)
  BY <1>1, FS_CardinalityType
<1>3. PICK b : b \in Bijection(1 .. n, C)
  BY <1>2 DEF ExistsBijection
<1>4. b \in [1 .. n -> C] /\ IsInjective(b)
  BY <1>3 DEF Bijection, Injection, IsInjective
<1>5. SetToSeq(C) \in [1 .. n -> C]
  BY <1>1, <1>4 DEF SetToSeq
<1>6. SetToSeq(C) \in [1 .. n -> S]
  BY <1>5
<1>. QED
  BY <1>6, SeqDef

LEMMA ResultFacts ==
  ASSUME NEW e \in Esops, NEW r \in MyExorcism(e), r # NULL
  PROVE  r \in Esops /\ Keeps(e, r)
<1>1. r \in {x[1] : x \in {d \in MinimalEsops : Len(d[1]) <= Len(e) /\ d[2] = Value(e)}}
  BY DEF MyExorcism
<1>2. PICK d \in MinimalEsops : r = d[1] /\ Len(d[1]) <= Len(e) /\ d[2] = Value(e)
  BY <1>1
<1>3. PICK C \in Minimal : d = <<SetToSeq(C), Value(SetToSeq(C))>>
  BY <1>2 DEF MinimalEsops
<1>4. r = SetToSeq(C) /\ Value(r) = Value(e) /\ Len(r) <= Len(e)
  BY <1>2, <1>3
<1>5. CubesMax \in Nat /\ C \in AtMost(CubesMax, LitCubes)
  BY MinimizeAssumption DEF Minimal
<1>6. IsFiniteSet(C) /\ C \subseteq LitCubes
  BY <1>5, SmallSetsFinite
<1>7. r \in Esops
  BY <1>4, <1>6, ListedSet DEF Esops
<1>8. \A m \in Minterms : Parity(r, m) <=> Parity(e, m)
  <2>1. \A s : \A m \in Minterms : m \in Value(s) <=> Parity(s, m)
    BY DEF Value, Parity
  <2>. QED
    BY <1>4, <2>1
<1>. QED
  BY <1>4, <1>7, <1>8 DEF Keeps

-----------------------------------------------------------------------------
(* The types of dcmin's variables.                                          *)
MinimizeTypeOK ==
  /\ mpc \in {"start", "iterate", "exorcism", "done", "crashed"}
  /\ inFile \in Seq(TextCubes) /\ outFile \in Seq(TextCubes)
  /\ mpc # "start" => fGroupSize \in GroupSizes /\ fIteration \in Iterations
  /\ i \in Nat
  /\ vEsopList \in Seq(Esops \cup {NULL})
  /\ vEsopList_tem \in Seq(Esops)
  /\ mpc # "exorcism" => vEsopList_tem = <<>>

(* A list without null pointers is a list of ESOPs.                         *)
Clean(s) == \A g \in 1 .. Len(s) : s[g] # NULL

LEMMA CleanType ==
  ASSUME NEW s \in Seq(Esops \cup {NULL}), Clean(s)
  PROVE  s \in Seq(Esops)
<1>1. PICK n \in Nat : n = Len(s)
  BY LenProperties
<1>2. s \in [1 .. n -> Esops \cup {NULL}]
  BY <1>1, LenProperties
<1>3. s \in [1 .. n -> Esops]
  BY <1>1, <1>2 DEF Clean
<1>. QED
  BY <1>3, SeqDef

(* An ESOP as text, and the ESOP in memory that is its reading.             *)
FromText(file, s) ==
  /\ Len(s) <= Len(file)
  /\ \A m \in Minterms : Parity(s, m) <=> Odd(TextCovering(file, m))

LEMMA FromTextKeeps ==
  ASSUME NEW file \in Seq(TextCubes), NEW s \in Esops, NEW t \in Esops,
         FromText(file, s), Keeps(s, t)
  PROVE  FromText(file, t)
<1>1. Len(s) \in Nat /\ Len(t) \in Nat /\ Len(file) \in Nat
  BY LenProperties DEF Esops
<1>. QED
  BY <1>1 DEF FromText, Keeps

LEMMA ReadFacts ==
  ASSUME NEW file \in Seq(TextCubes), NEW s, s = [k \in DOMAIN file |-> Lits(file[k])]
  PROVE  s \in Esops /\ FromText(file, s)
<1>1. PICK n \in Nat : n = Len(file)
  BY LenProperties
<1>2. DOMAIN file = 1 .. n /\ \A k \in 1 .. n : file[k] \in TextCubes
  BY <1>1, LenProperties, ElementsOf
<1>3. s \in [1 .. n -> LitCubes]
  BY <1>2 DEF LitCubes
<1>4. s \in Esops /\ Len(s) = n
  <2>1. s \in Seq(LitCubes)
    BY <1>3, SeqDef
  <2>2. DOMAIN s = 1 .. n
    BY <1>3
  <2>. QED
    BY <1>1, <2>1, <2>2, LenProperties DEF Esops
<1>5. ASSUME NEW m \in Minterms
      PROVE  LitCovering(s, m) = TextCovering(file, m)
  <2>1. \A k \in 1 .. n : LitCovers(s[k], m) <=> TextCovers(file[k], m)
    BY <1>2, LitsCover
  <2>. QED
    BY <1>2, <1>3, <2>1 DEF LitCovering, TextCovering
<1>. QED
  BY <1>1, <1>4, <1>5 DEF FromText, Parity

LEMMA WriteFacts ==
  ASSUME NEW s \in Esops, NEW file, file = [k \in DOMAIN s |-> Text(s[k])]
  PROVE  /\ file \in Seq(TextCubes)
         /\ \A m \in Minterms : Odd(TextCovering(file, m)) <=> Parity(s, m)
<1>1. PICK n \in Nat : n = Len(s)
  BY LenProperties DEF Esops
<1>2. DOMAIN s = 1 .. n /\ \A k \in 1 .. n : s[k] \in LitCubes
  BY <1>1, LenProperties, ElementsOf DEF Esops
<1>3. file \in [1 .. n -> TextCubes]
  BY <1>2, TextFacts
<1>4. file \in Seq(TextCubes)
  BY <1>3, SeqDef
<1>5. ASSUME NEW m \in Minterms
      PROVE  TextCovering(file, m) = LitCovering(s, m)
  <2>1. \A k \in 1 .. n : TextCovers(file[k], m) <=> LitCovers(s[k], m)
    BY <1>2, TextFacts
  <2>. QED
    BY <1>2, <1>3, <2>1 DEF LitCovering, TextCovering
<1>. QED
  BY <1>4, <1>5 DEF Parity

-----------------------------------------------------------------------------
(* The steps of dcmin keep the types.                                       *)
LEMMA MinimizeTypeInit == ASSUME MinimizeInit PROVE MinimizeTypeOK
BY EmptySeq DEF MinimizeInit, MinimizeTypeOK

LEMMA ResultType ==
  ASSUME NEW e \in Esops, NEW r \in MyExorcism(e)
  PROVE  r \in Esops \cup {NULL}
BY ResultFacts

LEMMA JoinedType ==
  ASSUME MinimizeTypeOK, ~HasNull
  PROVE  /\ vEsopList \in Seq(Esops)
         /\ AllCubes \in Esops
         /\ FlattenSeq(vEsopList) \in Esops
         /\ mpc # "exorcism" => AllCubes = FlattenSeq(vEsopList)
<1>1. DOMAIN vEsopList = 1 .. Len(vEsopList)
  BY LenProperties DEF MinimizeTypeOK
<1>2. vEsopList \in Seq(Esops)
  BY <1>1, CleanType DEF MinimizeTypeOK, HasNull, Clean
<1>3. vEsopList \o vEsopList_tem \in Seq(Esops)
  BY <1>2, ConcatProperties DEF MinimizeTypeOK
<1>4. AllCubes \in Esops /\ FlattenSeq(vEsopList) \in Esops
  BY <1>2, <1>3, FlattenType DEF AllCubes, Esops
<1>5. mpc # "exorcism" => vEsopList \o vEsopList_tem = vEsopList
  BY <1>2, ConcatEmptySeq DEF MinimizeTypeOK
<1>. QED
  BY <1>2, <1>4, <1>5 DEF AllCubes

LEMMA ReadType ==
  ASSUME MinimizeTypeOK, DivideTypeOK, Read
  PROVE  /\ MinimizeTypeOK'
         /\ ~HasNull' => FromText(inFile', AllCubes')
<1>1. PICK x : x = [k \in DOMAIN plaFile |-> Lits(plaFile[k])]
  OBVIOUS
<1>2. x \in Esops /\ FromText(plaFile, x)
  BY <1>1, ReadFacts DEF DivideTypeOK
<1>3. vEsopList' = <<x>> /\ inFile' = plaFile /\ vEsopList_tem' = <<>>
  BY <1>1 DEF Read, ReadPla, MinimizeTypeOK
<1>4. /\ <<x>> \in Seq(Esops) /\ <<x>> \in Seq(Esops \cup {NULL})
      /\ Len(<<x>>) = 1 /\ <<x>>[1] = x
  BY <1>2
<1>5. MinimizeTypeOK'
  BY <1>3, <1>4 DEF Read, ReadPla, MinimizeTypeOK, DivideTypeOK
<1>6. AllCubes' = x
  <2>1. <<x>> \o <<>> = <<x>>
    BY <1>4, ConcatEmptySeq
  <2>2. AllCubes' = FlattenSeq(<<x>>)
    BY <1>3, <2>1 DEF AllCubes
  <2>. QED
    BY <1>4, <2>2, FlattenOne
<1>. QED
  BY <1>2, <1>3, <1>5, <1>6

(* Split: the groups together are the cubes that were there.                *)
LEMMA SplitFacts ==
  ASSUME MinimizeTypeOK, Split
  PROVE  MinimizeTypeOK' /\ AllCubes' = AllCubes
<1>1. vEsopList \in Seq(Esops) /\ AllCubes = FlattenSeq(vEsopList) /\ FlattenSeq(vEsopList) \in Esops
  BY JoinedType DEF Split
<1>2. fGroupSize \in Nat \ {0}
  BY MinimizeAssumption DEF MinimizeTypeOK, Split
<1>3. PICK c : c = FlattenSeq(vEsopList)
  OBVIOUS
<1>4. PICK s : s = Groups(c, fGroupSize)
  OBVIOUS
<1>5. c \in Seq(LitCubes)
  BY <1>1, <1>3 DEF Esops
<1>6. s \in Seq(Seq(LitCubes)) /\ FlattenSeq(s) = c
  BY <1>2, <1>4, <1>5, GroupsFacts
<1>7. vEsopList_tem' = s /\ vEsopList' = <<>>
  BY <1>3, <1>4 DEF Split
<1>8. s \in Seq(Esops) /\ <<>> \in Seq(Esops \cup {NULL})
  BY <1>6, EmptySeq DEF Esops
<1>9. MinimizeTypeOK'
  BY <1>7, <1>8 DEF Split, MinimizeTypeOK
<1>10. <<>> \o s = s
  BY <1>8, ConcatEmptySeq
<1>. QED
  BY <1>1, <1>3, <1>6, <1>7, <1>9, <1>10 DEF AllCubes

(* MinimizeGroup: the result takes the place of the first group.             *)
LEMMA GroupFacts ==
  ASSUME MinimizeTypeOK, MinimizeGroup
  PROVE  /\ MinimizeTypeOK'
         /\ ~HasNull' => ~HasNull /\ Keeps(AllCubes, AllCubes')
<1>1. PICK r \in MyExorcism(Head(vEsopList_tem)) : vEsopList' = Append(vEsopList, r)
  BY DEF MinimizeGroup
<1>2. PICK e : e = Head(vEsopList_tem)
  OBVIOUS
<1>3. PICK s : s = vEsopList
  OBVIOUS
<1>4. PICK t : t = vEsopList_tem
  OBVIOUS
<1>5. PICK u : u = Tail(vEsopList_tem)
  OBVIOUS
<1>6. t \in Seq(Esops) /\ t # <<>> /\ s \in Seq(Esops \cup {NULL})
  BY <1>3, <1>4 DEF MinimizeTypeOK, MinimizeGroup
<1>7. /\ e \in Esops /\ u \in Seq(Esops) /\ e = t[1]
      /\ Len(u) = Len(t) - 1 /\ Len(t) \in Nat \ {0}
      /\ \A k \in 1 .. Len(u) : u[k] = t[k + 1]
  BY <1>2, <1>4, <1>5, <1>6, HeadTailProperties, EmptySeq
<1>8. r \in Esops \cup {NULL}
  BY <1>1, <1>2, <1>7, ResultType
<1>9. PICK p : p = Append(s, r)
  OBVIOUS
<1>10. /\ p \in Seq(Esops \cup {NULL})
       /\ Len(s) \in Nat /\ Len(p) = Len(s) + 1 /\ p[Len(s) + 1] = r
       /\ \A k \in 1 .. Len(s) : p[k] = s[k]
  BY <1>6, <1>8, <1>9, AppendFacts
<1>11. vEsopList' = p /\ vEsopList_tem' = u
  BY <1>1, <1>3, <1>5, <1>9 DEF MinimizeGroup
<1>12. MinimizeTypeOK'
  BY <1>7, <1>10, <1>11 DEF MinimizeGroup, MinimizeTypeOK
<1>13. ASSUME ~HasNull'
       PROVE  ~HasNull /\ Keeps(AllCubes, AllCubes')
  <2>1. PICK n \in Nat : n = Len(s)
    BY <1>10
  <2>2. DOMAIN p = 1 .. n + 1 /\ DOMAIN s = 1 .. n
    BY <1>6, <1>10, <2>1, LenProperties
  <2>3. \A k \in 1 .. n + 1 : p[k] # NULL
    BY <1>11, <1>13, <2>2 DEF HasNull
  <2>4. n + 1 \in 1 .. n + 1 /\ \A k \in 1 .. n : k \in 1 .. n + 1
    OBVIOUS
  <2>5. r # NULL /\ \A k \in 1 .. n : s[k] # NULL
    BY <1>10, <2>1, <2>3, <2>4
  <2>6. ~HasNull
    BY <1>3, <2>2, <2>5 DEF HasNull
  <2>7. r \in Esops /\ Keeps(e, r)
    BY <1>1, <1>2, <1>7, <2>5, ResultFacts
  <2>8. s \in Seq(Esops) /\ p \in Seq(Esops)
    BY <1>6, <1>10, <2>1, <2>3, <2>5, CleanType DEF Clean
  <2>9. PICK a : a = s \o t
    OBVIOUS
  <2>10. PICK b : b = p \o u
    OBVIOUS
  <2>11. PICK l \in Nat \ {0} : l = Len(t)
    BY <1>7
  <2>12. /\ a \in Seq(Esops) /\ b \in Seq(Esops)
         /\ Len(a) = n + l /\ Len(b) = n + l
    <3>1. Len(u) = l - 1 /\ Len(p) = n + 1
      BY <1>7, <1>10, <2>1, <2>11
    <3>2. a \in Seq(Esops) /\ Len(a) = n + l
      BY <1>6, <2>1, <2>8, <2>9, <2>11, ConcatProperties
    <3>3. b \in Seq(Esops) /\ Len(b) = Len(p) + Len(u)
      BY <1>7, <2>8, <2>10, ConcatProperties
    <3>. QED
      BY <3>1, <3>2, <3>3
  <2>13. \A k \in 1 .. n + l : a[k] = IF k <= n THEN s[k] ELSE t[k - n]
    BY <1>6, <2>1, <2>8, <2>9, <2>11, ConcatProperties
  <2>14. \A k \in 1 .. n + l : b[k] = IF k <= n + 1 THEN p[k] ELSE u[k - (n + 1)]
    <3>1. Len(u) = l - 1 /\ Len(p) = n + 1 /\ (n + 1) + (l - 1) = n + l
      BY <1>7, <1>10, <2>1, <2>11
    <3>. QED
      BY <1>7, <2>8, <2>10, <3>1, ConcatProperties
  <2>15. ASSUME NEW k \in 1 .. n + l
         PROVE  Keeps(a[k], b[k])
    <3>1. a[k] \in Esops
      BY <2>12, ElementsOf
    <3>2. Keeps(a[k], a[k])
      <4>1. Len(a[k]) \in Nat
        BY <3>1, LenProperties DEF Esops
      <4>. QED
        BY <4>1 DEF Keeps
    <3>3. CASE k <= n
      <4>1. k \in 1 .. n /\ k <= n + 1
        BY <3>3
      <4>. QED
        BY <1>10, <2>1, <2>13, <2>14, <3>2, <3>3, <4>1
    <3>4. CASE k = n + 1
      <4>1. ~(k <= n) /\ k <= n + 1 /\ k - n = 1
        BY <3>4
      <4>2. a[k] = e /\ b[k] = r
        BY <1>7, <1>10, <2>1, <2>13, <2>14, <3>4, <4>1
      <4>. QED
        BY <2>7, <4>2
    <3>5. CASE k > n + 1
      <4>1. ~(k <= n) /\ ~(k <= n + 1)
        BY <3>5
      <4>2. Len(u) = l - 1
        BY <1>7, <2>11
      <4>3. k - (n + 1) \in 1 .. Len(u) /\ (k - (n + 1)) + 1 = k - n
        BY <3>5, <4>2
      <4>4. u[k - (n + 1)] = t[k - n]
        BY <1>7, <4>3
      <4>. QED
        BY <2>13, <2>14, <3>2, <4>1, <4>4
    <3>. QED
      BY <3>3, <3>4, <3>5
  <2>16. Keeps(FlattenSeq(a), FlattenSeq(b))
    BY <2>12, <2>15, FlattenKeeps
  <2>. QED
    BY <1>3, <1>4, <1>11, <2>6, <2>9, <2>10, <2>16 DEF AllCubes
<1>. QED
  BY <1>12, <1>13

LEMMA WrittenFacts ==
  ASSUME MinimizeTypeOK, WriteResult
  PROVE  /\ MinimizeTypeOK'
         /\ \A m \in Minterms : Odd(TextCovering(outFile', m)) <=> Parity(AllCubes, m)
<1>1. FlattenSeq(vEsopList) \in Esops /\ AllCubes = FlattenSeq(vEsopList)
  BY JoinedType DEF WriteResult
<1>2. outFile' = [k \in DOMAIN FlattenSeq(vEsopList) |-> Text(FlattenSeq(vEsopList)[k])]
  BY DEF WriteResult
<1>3. /\ outFile' \in Seq(TextCubes)
      /\ \A m \in Minterms : Odd(TextCovering(outFile', m)) <=> Parity(FlattenSeq(vEsopList), m)
  BY <1>1, <1>2, WriteFacts
<1>. QED
  BY <1>1, <1>3 DEF WriteResult, MinimizeTypeOK

LEMMA NextJoinedType ==
  ASSUME MinimizeTypeOK', ~HasNull'
  PROVE  AllCubes' \in Esops
<1>1. /\ vEsopList' \in Seq(Esops \cup {NULL}) /\ vEsopList_tem' \in Seq(Esops)
  BY DEF MinimizeTypeOK
<1>2. DOMAIN vEsopList' = 1 .. Len(vEsopList')
  BY <1>1, LenProperties
<1>3. vEsopList' \in Seq(Esops)
  BY <1>1, <1>2, CleanType DEF HasNull, Clean
<1>4. vEsopList' \o vEsopList_tem' \in Seq(Esops)
  BY <1>1, <1>3, ConcatProperties
<1>. QED
  BY <1>4, FlattenType DEF AllCubes, Esops

-----------------------------------------------------------------------------
LEMMA OtherSteps ==
  ASSUME MinimizeTypeOK, EndIteration \/ UseNull \/ UNCHANGED mvars
  PROVE  /\ MinimizeTypeOK'
         /\ AllCubes' = AllCubes /\ (HasNull' <=> HasNull)
         /\ inFile' = inFile /\ outFile' = outFile
<1>1. vEsopList' = vEsopList /\ vEsopList_tem' = vEsopList_tem /\ inFile' = inFile /\ outFile' = outFile
  BY DEF EndIteration, UseNull, mvars
<1>2. MinimizeTypeOK'
  BY DEF MinimizeTypeOK, EndIteration, UseNull, mvars
<1>. QED
  BY <1>1, <1>2 DEF AllCubes, HasNull

LEMMA MinimizeTypeStep ==
  ASSUME MinimizeTypeOK, DivideTypeOK, [Next]_vars
  PROVE  MinimizeTypeOK'
<1>1. CASE UNCHANGED mvars \/ EndIteration \/ UseNull
  BY <1>1, OtherSteps
<1>2. CASE Read
  BY <1>2, ReadType
<1>3. CASE Split
  BY <1>3, SplitFacts
<1>4. CASE MinimizeGroup
  BY <1>4, GroupFacts
<1>5. CASE WriteResult
  BY <1>5, WrittenFacts
<1>. QED
  BY <1>1, <1>2, <1>3, <1>4, <1>5 DEF Next, Extract, Minimize, MinimizeNext, Terminated, vars

(* The variables of dcmin keep their types: only the lists of groups may     *)
(* hold the null pointer, and the groups still to minimise never do.         *)
THEOREM MinimizeTypeCorrect == Spec => []MinimizeTypeOK
<1>1. Init => MinimizeTypeOK
  BY MinimizeTypeInit DEF Init
<1>2. MinimizeTypeOK /\ DivideTypeOK /\ [Next]_vars => MinimizeTypeOK'
  BY MinimizeTypeStep
<1>3. DivideTypeOK /\ BeforeInList => DivideTypeOK
  OBVIOUS
<1>. QED
  BY <1>1, <1>2, <1>3, DivideTypeCorrect, PTL DEF Spec

-----------------------------------------------------------------------------
(* The ledger of the groups.                                                *)
WrittenOK == mpc = "done" =>
  \A m \in Minterms : Odd(TextCovering(outFile, m)) <=> Odd(TextCovering(inFile, m))
GroupsOK == mpc \in {"iterate", "exorcism", "done"} /\ ~HasNull => FromText(inFile, AllCubes)

LEMMA GroupsBooks == GroupsLedger <=> GroupsOK /\ WrittenOK
BY DEF GroupsLedger, GroupsOK, WrittenOK, FromText, Parity

LEMMA GroupsStep ==
  ASSUME MinimizeTypeOK, MinimizeTypeOK', DivideTypeOK, GroupsOK, WrittenOK, [Next]_vars
  PROVE  GroupsOK' /\ WrittenOK'
<1>1. CASE Read
  <2>1. ~HasNull' => FromText(inFile', AllCubes')
    BY <1>1, ReadType
  <2>2. mpc' = "iterate"
    BY <1>1 DEF Read, ReadPla
  <2>. QED
    BY <2>1, <2>2 DEF GroupsOK, WrittenOK
<1>2. CASE Split
  <2>1. AllCubes' = AllCubes /\ inFile' = inFile /\ mpc = "iterate" /\ mpc' = "exorcism" /\ ~HasNull
    BY <1>2, SplitFacts DEF Split
  <2>. QED
    BY <2>1 DEF GroupsOK, WrittenOK
<1>3. CASE MinimizeGroup
  <2>1. inFile' = inFile /\ mpc = "exorcism" /\ mpc' = "exorcism"
    BY <1>3 DEF MinimizeGroup
  <2>2. ASSUME ~HasNull' PROVE FromText(inFile', AllCubes')
    <3>1. ~HasNull /\ Keeps(AllCubes, AllCubes')
      BY <1>3, <2>2, GroupFacts
    <3>2. AllCubes \in Esops /\ FromText(inFile, AllCubes)
      BY <2>1, <3>1, JoinedType DEF GroupsOK
    <3>3. AllCubes' \in Esops
      BY <2>2, NextJoinedType
    <3>4. inFile \in Seq(TextCubes)
      BY DEF MinimizeTypeOK
    <3>. QED
      BY <2>1, <3>1, <3>2, <3>3, <3>4, FromTextKeeps
  <2>. QED
    BY <2>1, <2>2 DEF GroupsOK, WrittenOK
<1>4. CASE WriteResult
  <2>1. /\ inFile' = inFile /\ mpc = "iterate" /\ mpc' = "done" /\ ~HasNull
        /\ vEsopList' = vEsopList /\ vEsopList_tem' = vEsopList_tem
    BY <1>4 DEF WriteResult
  <2>2. AllCubes' = AllCubes
    BY <2>1 DEF AllCubes
  <2>3. FromText(inFile, AllCubes)
    BY <2>1 DEF GroupsOK
  <2>4. \A m \in Minterms : Odd(TextCovering(outFile', m)) <=> Parity(AllCubes, m)
    BY <1>4, WrittenFacts
  <2>. QED
    BY <2>1, <2>2, <2>3, <2>4 DEF GroupsOK, WrittenOK, FromText
<1>5. CASE EndIteration
  <2>1. mpc = "exorcism" /\ mpc' = "iterate"
    BY <1>5 DEF EndIteration
  <2>. QED
    BY <1>5, <2>1, OtherSteps DEF GroupsOK, WrittenOK
<1>6. CASE UseNull
  <2>1. mpc' = "crashed"
    BY <1>6 DEF UseNull
  <2>. QED
    BY <2>1 DEF GroupsOK, WrittenOK
<1>7. CASE UNCHANGED mvars
  <2>1. mpc' = mpc
    BY <1>7 DEF mvars
  <2>. QED
    BY <1>7, <2>1, OtherSteps DEF GroupsOK, WrittenOK
<1>. QED
  BY <1>1, <1>2, <1>3, <1>4, <1>5, <1>6, <1>7
  DEF Next, Extract, Minimize, MinimizeNext, Terminated, vars

(* Cutting, minimising and joining keep the function, also between two       *)
(* groups, and never make the ESOP longer, as long as exorcism took every    *)
(* group; what is written is an ESOP of the function of the file read,       *)
(* whatever exorcism did.                                                   *)
THEOREM GroupsLedgerCorrect == Spec => []GroupsLedger
<1>1. Init => GroupsOK /\ WrittenOK
  BY DEF Init, MinimizeInit, GroupsOK, WrittenOK
<1>2. /\ MinimizeTypeOK /\ MinimizeTypeOK' /\ DivideTypeOK /\ GroupsOK /\ WrittenOK /\ [Next]_vars
      => GroupsOK' /\ WrittenOK'
  BY GroupsStep
<1>3. (DivideTypeOK /\ BeforeInList => DivideTypeOK) /\ (GroupsOK /\ WrittenOK => GroupsLedger)
  BY GroupsBooks
<1>. QED
  BY <1>1, <1>2, <1>3, DivideTypeCorrect, MinimizeTypeCorrect, PTL DEF Spec

-----------------------------------------------------------------------------
(* Both commands together.                                                  *)
FileRead == mpc # "start" => dpc = "written" /\ inFile = plaFile

LEMMA FileReadStep ==
  ASSUME MinimizeTypeOK, FileRead, [Next]_vars
  PROVE  FileRead'
<1>1. CASE Extract
  BY <1>1 DEF FileRead, Extract, DivideNext, SolvePart, Divide, OtherHalf, LeaveDivision, WritePla, mvars
<1>2. CASE Read
  BY <1>2 DEF FileRead, Read, ReadPla, dvars
<1>3. CASE Minimize
  <2>1. mpc # "start" /\ inFile' = inFile
    BY <1>3 DEF Minimize, MinimizeNext, Split, MinimizeGroup, EndIteration, WriteResult, UseNull
  <2>. QED
    BY <1>3, <2>1 DEF FileRead, Minimize, dvars
<1>4. CASE Terminated \/ UNCHANGED vars
  BY <1>4 DEF FileRead, Terminated, vars, dvars, mvars
<1>. QED
  BY <1>1, <1>2, <1>3, <1>4 DEF Next

(* The file that dcmin writes, after dcextract wrote the one it reads, is an *)
(* ESOP of the output, for every depth of division, group size and number   *)
(* of iterations.                                                           *)
THEOREM FlowCorrect == Spec => [](mpc = "done" => TextRealises(outFile, root))
<1>1. Init => FileRead
  BY DEF Init, MinimizeInit, FileRead
<1>2. MinimizeTypeOK /\ FileRead /\ [Next]_vars => FileRead'
  BY FileReadStep
<1>3. /\ GroupsLedger /\ FileRead /\ (dpc = "written" => TextRealises(plaFile, root))
      => (mpc = "done" => TextRealises(outFile, root))
  BY GroupsBooks DEF WrittenOK, FileRead, TextRealises
<1>. QED
  BY <1>1, <1>2, <1>3, GroupsLedgerCorrect, MinimizeTypeCorrect, FileCorrect, PTL DEF Spec

=============================================================================
