---------------------------- MODULE PsdkroProofs ----------------------------
(***************************************************************************)
(* Proofs about the walk of Psdkro, for every number of variables and      *)
(* every set of roots: its types, that the shared trail always describes   *)
(* the open activations, that the emitted cubes realise the root, and what *)
(* the searches count and the walk emits.                                  *)
(***************************************************************************)
EXTENDS Psdkro, FiniteSetTheorems, SequenceTheorems, WellFoundedInduction, TLAPS

-----------------------------------------------------------------------------
(* Lemmas about the operators of BoolFun and Psdkro.                        *)

(* The children of an expansion are functions again.                        *)
LEMMA ChildTypes ==
  ASSUME NEW F, NEW v, NEW e
  PROVE  FirstChild(F, v, e) \in Fns /\ SecondChild(F, v, e) \in Fns
BY DEF FirstChild, SecondChild, E, T, Xor, Fns

(* The value of a branch is one of the three.                               *)
LEMMA ValueTypes ==
  ASSUME NEW e
  PROVE  FirstValue(e) \in VarValues /\ SecondValue(e) \in VarValues
BY DEF FirstValue, SecondValue, VarValues

(* Popping drops just the last element; an empty sequence stays empty.      *)
LEMMA PopProperties ==
  ASSUME NEW S, NEW s \in Seq(S)
  PROVE  /\ Pop(s) \in Seq(S)
         /\ s # <<>> => /\ Len(s) \in Nat \ {0}
                        /\ s[Len(s)] \in S
                        /\ Len(Pop(s)) = Len(s) - 1
                        /\ \A i \in 1 .. Len(s) - 1 : Pop(s)[i] = s[i]
<1>1. Len(s) \in Nat /\ (s # <<>> => Len(s) # 0)
  BY EmptySeq, LenProperties
<1>2. \A i \in 1 .. Len(s) : s[i] \in S
  BY ElementOfSeq
<1>3. \A i \in 1 .. Len(s) - 1 : s[i] \in S
  BY <1>1, <1>2
<1>4. 1 \in Int /\ Len(s) - 1 \in Int
  BY <1>1
<1>5. /\ Pop(s) \in Seq(S)
      /\ Len(Pop(s)) = IF 1 <= Len(s) - 1 THEN (Len(s) - 1) - 1 + 1 ELSE 0
      /\ \A i \in 1 .. (Len(s) - 1) - 1 + 1 : Pop(s)[i] = s[1 + i - 1]
  BY <1>3, <1>4, SubSeqProperties DEF Pop
<1>6. ASSUME s # <<>> PROVE Len(Pop(s)) = Len(s) - 1
  <2>1. \A n \in Nat \ {0} : (IF 1 <= n - 1 THEN (n - 1) - 1 + 1 ELSE 0) = n - 1
    OBVIOUS
  <2>2. Len(s) \in Nat \ {0}
    BY <1>1, <1>6
  <2>. QED
    BY <1>5, <2>1, <2>2
<1>7. \A i \in 1 .. Len(s) - 1 : Pop(s)[i] = s[i]
  BY <1>1, <1>5
<1>. QED
  BY <1>1, <1>2, <1>5, <1>6, <1>7

(* Appending keeps what is there.                                           *)
LEMMA AppendFacts ==
  ASSUME NEW S, NEW s \in Seq(S), NEW x \in S
  PROVE  /\ Append(s, x) \in Seq(S)
         /\ Len(s) \in Nat
         /\ Len(Append(s, x)) = Len(s) + 1
         /\ Append(s, x)[Len(s) + 1] = x
         /\ \A i \in 1 .. Len(s) : Append(s, x)[i] = s[i]
OBVIOUS

(* The cube of the trail is a cube, and it covers the minterms that agree   *)
(* with the trail's values.                                                 *)
LEMMA TrailCubeType ==
  ASSUME GTypeOK
  PROVE  TrailCube \in Cubes
<1>1. Trail \subseteq Vars
  BY ElementOfSeq DEF GTypeOK, Trail
<1>. QED
  BY <1>1 DEF TrailCube, Cubes, Minterms

LEMMA TrailCubeCovers ==
  ASSUME GTypeOK, NEW m \in Minterms
  PROVE  m \in CubeMinterms(TrailCube) <=> \A v \in Trail : LitHolds(m, v, values[v])
<1>1. Trail \subseteq Vars
  BY ElementOfSeq DEF GTypeOK, Trail
<1>2. \A v \in Trail : values[v] \in VarValues
  BY <1>1 DEF GTypeOK
<1>. QED
  BY <1>1, <1>2 DEF TrailCube, CubeMinterms, LitHolds, VarValues, Minterms

-----------------------------------------------------------------------------
(* Type correctness.                                                        *)
LEMMA TypeInit == ASSUME GInit PROVE GTypeOK
BY RootsAssumption, EmptySeq DEF GInit, GTypeOK, VarValues, Fns

LEMMA TypeStep == ASSUME GTypeOK, [GNext]_gvars PROVE GTypeOK'
<1>1. CASE GenZero
  BY <1>1 DEF GenZero, GTypeOK
<1>2. CASE GenOne
  BY <1>2, TrailCubeType DEF GenOne, GTypeOK
<1>3. ASSUME NEW v \in Vars \ Trail, NEW e \in ExpTypes, GenEnter(v, e)
      PROVE  GTypeOK'
  <2>1. [f |-> arg, var |-> v, exp |-> e, half |-> 1] \in Frames
    BY DEF GTypeOK, Frames
  <2>2. stack' \in Seq(Frames)
    BY <1>3, <2>1 DEF GTypeOK, GenEnter
  <2>. QED
    BY <1>3, <2>2, ChildTypes, ValueTypes DEF GTypeOK, GenEnter
<1>4. CASE GenSecond
  <2>1. Len(stack) \in 1 .. Len(stack) /\ Top \in Frames
    BY <1>4, PopProperties DEF GTypeOK, GenSecond, Top
  <2>2. [Top EXCEPT !.half = 2] \in Frames
    BY <2>1 DEF Frames
  <2>3. stack' = [stack EXCEPT ![Len(stack)] = [Top EXCEPT !.half = 2]]
    BY <1>4 DEF GenSecond, Top
  <2>4. stack' \in Seq(Frames)
    BY <2>1, <2>2, <2>3, ExceptSeq DEF GTypeOK
  <2>. QED
    BY <1>4, <2>1, <2>4, ChildTypes, ValueTypes DEF GTypeOK, GenSecond
<1>5. CASE GenLeave
  BY <1>5, PopProperties DEF VarValues, GenLeave, GTypeOK
<1>6. CASE UNCHANGED gvars
  BY <1>6 DEF gvars, GTypeOK
<1>. QED
  BY <1>1, <1>2, <1>3, <1>4, <1>5, <1>6 DEF GNext

(* The walk keeps its variables in their types.                             *)
THEOREM TypeCorrect == GSpec => []GTypeOK
BY TypeInit, TypeStep, PTL DEF GSpec

-----------------------------------------------------------------------------
(* The trail describes the open activations.                                *)
LEMMA TrailInit == ASSUME GInit PROVE TrailMatchesStack
<1>1. Len(stack) = 0 /\ Len(vars) = 0 /\ Trail = {}
  BY EmptySeq DEF GInit, Trail
<1>. QED
  BY <1>1 DEF GInit, TrailMatchesStack

(* The frames of the stack, and the top one, are frames.                    *)
LEMMA StackFrames ==
  ASSUME GTypeOK
  PROVE  /\ Len(stack) \in Nat
         /\ \A i \in 1 .. Len(stack) :
              stack[i] \in Frames /\ stack[i].var \in Vars /\ stack[i].half \in {1, 2}
<1>1. stack \in Seq(Frames)
  BY DEF GTypeOK
<1>2. Len(stack) \in Nat /\ \A i \in 1 .. Len(stack) : stack[i] \in Frames
  BY <1>1, ElementOfSeq, LenProperties
<1>3. \A fr \in Frames : fr.var \in Vars /\ fr.half \in {1, 2}
  BY DEF Frames
<1>. QED
  BY <1>2, <1>3

LEMMA TopFacts ==
  ASSUME GTypeOK, stack # <<>>
  PROVE  /\ Len(stack) \in Nat \ {0}
         /\ Top = stack[Len(stack)]
         /\ Top \in Frames
         /\ Top.var \in Vars
<1>1. Len(stack) \in Nat \ {0}
  BY PopProperties DEF GTypeOK
<1>. QED
  BY <1>1, StackFrames DEF Top

LEMMA TrailEnter ==
  ASSUME GTypeOK, TrailMatchesStack, NEW v \in Vars \ Trail, NEW e \in ExpTypes, GenEnter(v, e)
  PROVE  TrailMatchesStack'
<1>. DEFINE n == Len(stack)
            fr == [f |-> arg, var |-> v, exp |-> e, half |-> 1]
<1>1. fr \in Frames
  BY DEF GTypeOK, Frames
<1>2. /\ n \in Nat
      /\ Len(stack') = n + 1
      /\ stack'[n + 1] = fr
      /\ \A i \in 1 .. n : stack'[i] = stack[i]
  BY <1>1 DEF GTypeOK, GenEnter
<1>3. /\ Len(vars) = n
      /\ Len(vars') = n + 1
      /\ vars'[n + 1] = v
      /\ \A i \in 1 .. n : vars'[i] = vars[i]
  BY DEF GTypeOK, GenEnter, TrailMatchesStack
<1>4. \A i \in 1 .. n : vars[i] \in Trail /\ vars[i] = stack[i].var /\ vars[i] # v
  BY <1>3 DEF TrailMatchesStack, Trail
<1>5. Trail' = Trail \cup {v}
  BY <1>2, <1>3 DEF Trail
<1>6. /\ values'[v] = FirstValue(e)
      /\ \A w \in Vars \ {v} : values'[w] = values[w]
  BY DEF GTypeOK, GenEnter
<1>7. \A i \in 1 .. n : stack[i].var \in Vars \ {v}
  BY <1>4, StackFrames
<1>8. FrameValue(fr) = FirstValue(e)
  BY DEF FrameValue
<1>9. \A i \in 1 .. Len(stack') : vars'[i] = stack'[i].var
  BY <1>2, <1>3, <1>4
<1>10. \A i \in 1 .. Len(stack') : values'[stack'[i].var] = FrameValue(stack'[i])
  BY <1>2, <1>6, <1>7, <1>8 DEF TrailMatchesStack
<1>11. \A i, j \in 1 .. Len(stack') : i # j => stack'[i].var # stack'[j].var
  BY <1>2, <1>7 DEF TrailMatchesStack
<1>12. \A w \in Vars \ Trail' : values'[w] = "DONTCARE"
  BY <1>5, <1>6 DEF TrailMatchesStack
<1>. QED
  BY <1>2, <1>3, <1>9, <1>10, <1>11, <1>12 DEF TrailMatchesStack, FrameValue

LEMMA TrailSecond ==
  ASSUME GTypeOK, TrailMatchesStack, GenSecond
  PROVE  TrailMatchesStack'
<1>. DEFINE n == Len(stack)
<1>1. n \in Nat \ {0} /\ Top = stack[n] /\ Top.var \in Vars
  BY TopFacts DEF GenSecond
<1>2. /\ Len(stack') = n
      /\ stack'[n] = [Top EXCEPT !.half = 2]
      /\ \A i \in 1 .. n - 1 : stack'[i] = stack[i]
  BY <1>1 DEF GTypeOK, GenSecond
<1>3. stack'[n].var = Top.var /\ stack'[n].exp = Top.exp /\ stack'[n].half = 2
  BY <1>1, <1>2, TopFacts DEF GenSecond, Frames
<1>4. /\ values'[Top.var] = SecondValue(Top.exp)
      /\ \A w \in Vars \ {Top.var} : values'[w] = values[w]
  BY <1>1 DEF GTypeOK, GenSecond
<1>5. \A i \in 1 .. n - 1 : stack[i].var \in Vars \ {Top.var}
  BY <1>1, StackFrames DEF TrailMatchesStack
<1>6. vars' = vars /\ Trail' = Trail
  BY DEF GenSecond, Trail
<1>7. \A i \in 1 .. n : stack'[i].var = stack[i].var
  <2>1. \A i \in 1 .. n : i = n \/ i \in 1 .. n - 1
    BY <1>1
  <2>2. stack'[n].var = stack[n].var
    BY <1>1, <1>3
  <2>3. \A i \in 1 .. n - 1 : stack'[i].var = stack[i].var
    BY <1>2
  <2>. QED
    BY <2>1, <2>2, <2>3
<1>8. \A i \in 1 .. n : values'[stack'[i].var] = FrameValue(stack'[i])
  <2>1. values'[stack'[n].var] = FrameValue(stack'[n])
    BY <1>3, <1>4 DEF FrameValue
  <2>2. \A i \in 1 .. n - 1 : values'[stack'[i].var] = FrameValue(stack'[i])
    BY <1>1, <1>2, <1>4, <1>5 DEF TrailMatchesStack
  <2>. QED
    BY <1>1, <2>1, <2>2
<1>9. Top.var \in Trail
  BY <1>1 DEF TrailMatchesStack, Trail
<1>10. \A w \in Vars \ Trail' : values'[w] = "DONTCARE"
  BY <1>4, <1>6, <1>9 DEF TrailMatchesStack
<1>. QED
  BY <1>2, <1>6, <1>7, <1>8, <1>10 DEF TrailMatchesStack, FrameValue

LEMMA TrailLeave ==
  ASSUME GTypeOK, TrailMatchesStack, GenLeave
  PROVE  TrailMatchesStack'
<1>. DEFINE n == Len(stack)
<1>1. n \in Nat \ {0} /\ Top = stack[n] /\ Top.var \in Vars
  BY TopFacts DEF GenLeave
<1>2. Len(stack') = n - 1 /\ \A i \in 1 .. n - 1 : stack'[i] = stack[i]
  BY PopProperties DEF GTypeOK, GenLeave
<1>3. Len(vars) = n /\ vars # <<>>
  BY <1>1, EmptySeq DEF TrailMatchesStack
<1>4. Len(vars') = n - 1 /\ \A i \in 1 .. n - 1 : vars'[i] = vars[i]
  BY <1>3, PopProperties DEF GTypeOK, GenLeave
<1>5. /\ values'[Top.var] = "DONTCARE"
      /\ \A w \in Vars \ {Top.var} : values'[w] = values[w]
  BY <1>1 DEF GTypeOK, GenLeave
<1>6. \A i \in 1 .. n - 1 : stack[i].var \in Vars \ {Top.var}
  BY <1>1, StackFrames DEF TrailMatchesStack
<1>7. Trail' = Trail \ {Top.var}
  <2>1. Trail = {stack[i].var : i \in 1 .. n}
    BY <1>3 DEF Trail, TrailMatchesStack
  <2>2. Trail' = {stack[i].var : i \in 1 .. n - 1}
    BY <1>1, <1>4 DEF Trail, TrailMatchesStack
  <2>. QED
    BY <1>1, <1>6, <2>1, <2>2
<1>8. \A i \in 1 .. n - 1 : values'[stack'[i].var] = FrameValue(stack'[i])
  BY <1>1, <1>2, <1>5, <1>6 DEF TrailMatchesStack
<1>9. \A i \in 1 .. n - 1 : vars'[i] = stack'[i].var
  BY <1>1, <1>2, <1>4 DEF TrailMatchesStack
<1>10. \A i, j \in 1 .. n - 1 : i # j => stack'[i].var # stack'[j].var
  BY <1>1, <1>2 DEF TrailMatchesStack
<1>11. \A w \in Vars \ Trail' : values'[w] = "DONTCARE"
  BY <1>5, <1>7 DEF TrailMatchesStack
<1>. QED
  BY <1>2, <1>4, <1>8, <1>9, <1>10, <1>11 DEF TrailMatchesStack, FrameValue

LEMMA TrailStep ==
  ASSUME GTypeOK, TrailMatchesStack, [GNext]_gvars
  PROVE  TrailMatchesStack'
<1>1. CASE GenZero \/ GenOne \/ UNCHANGED gvars
  BY <1>1 DEF GenZero, GenOne, gvars, TrailMatchesStack, Trail, FrameValue
<1>. QED
  BY <1>1, TrailEnter, TrailSecond, TrailLeave DEF GNext

(* The shared trail describes the open activations in every state.          *)
THEOREM TrailCorrect == GSpec => []TrailMatchesStack
<1>1. GTypeOK /\ TrailMatchesStack /\ [GNext]_gvars => TrailMatchesStack'
  BY TrailStep
<1>. QED
  BY TrailInit, <1>1, TypeCorrect, PTL DEF GSpec

-----------------------------------------------------------------------------
(* The ledger of minterms.                                                  *)

(* Adding an element, or removing one, changes the parity of a finite set.  *)
LEMMA OddAdd ==
  ASSUME NEW S, IsFiniteSet(S), NEW x, x \notin S
  PROVE  Odd(S \cup {x}) <=> ~Odd(S)
<1>1. Cardinality(S) \in Nat /\ Cardinality(S \cup {x}) = Cardinality(S) + 1
  BY FS_CardinalityType, FS_AddElement
<1>. QED
  BY <1>1 DEF Odd

LEMMA OddRemove ==
  ASSUME NEW S, IsFiniteSet(S), NEW x \in S
  PROVE  Odd(S \ {x}) <=> ~Odd(S)
<1>1. /\ Cardinality(S) \in Nat
      /\ Cardinality(S \ {x}) \in Nat
      /\ Cardinality(S \ {x}) = Cardinality(S) - 1
  BY FS_CardinalityType, FS_RemoveElement
<1>. QED
  BY <1>1 DEF Odd

LEMMA OddEmpty == ~Odd({})
BY FS_EmptySet DEF Odd

(* Both sets of the ledger are finite.                                      *)
LEMMA LedgerFinite ==
  ASSUME GTypeOK, NEW m
  PROVE  IsFiniteSet(Covering(esop, m)) /\ IsFiniteSet(Awaiting(m, stack))
<1>1. Len(esop) \in Nat /\ Len(stack) \in Nat
  BY LenProperties DEF GTypeOK
<1>2. IsFiniteSet(1 .. Len(esop)) /\ IsFiniteSet(1 .. Len(stack))
  BY <1>1, FS_Interval
<1>. QED
  BY <1>2, FS_Subset DEF Covering, Awaiting

(* An expansion is right: a minterm is in F exactly if it is in one but not *)
(* both of the kept children, each below the literal of its branch.         *)
LEMMA Expansion ==
  ASSUME NEW F \in Fns, NEW v \in Vars, NEW e \in ExpTypes, NEW m \in Minterms
  PROVE  m \in F <=> ~(   (LitHolds(m, v, FirstValue(e)) /\ m \in FirstChild(F, v, e))
                      <=> (LitHolds(m, v, SecondValue(e)) /\ m \in SecondChild(F, v, e)))
<1>1. CASE v \in m
  <2>1. m \cup {v} = m
    BY <1>1
  <2>2. m \in T(F, v) <=> m \in F
    BY <2>1 DEF T
  <2>. QED
    BY <1>1, <2>2 DEF LitHolds, FirstValue, SecondValue, FirstChild, SecondChild, Xor, ExpTypes
<1>2. CASE v \notin m
  <2>1. m \ {v} = m
    BY <1>2
  <2>2. m \in E(F, v) <=> m \in F
    BY <2>1 DEF E
  <2>. QED
    BY <1>2, <2>2 DEF LitHolds, FirstValue, SecondValue, FirstChild, SecondChild, Xor, ExpTypes
<1>. QED
  BY <1>1, <1>2

(* Frames above k do not matter to the path of length k.                    *)
LEMMA SamePath ==
  ASSUME NEW m, NEW s, NEW t, NEW k \in Nat, \A j \in 1 .. k : s[j] = t[j]
  PROVE  OnPath(m, s, k) <=> OnPath(m, t, k)
BY DEF OnPath

(* One more frame: its literal must hold as well.                           *)
LEMMA LongerPath ==
  ASSUME NEW m, NEW s, NEW k \in Nat \ {0}
  PROVE  OnPath(m, s, k) <=> OnPath(m, s, k - 1) /\ LitHolds(m, s[k].var, FrameValue(s[k]))
<1>1. \A j : j \in 1 .. k <=> j \in 1 .. k - 1 \/ j = k
  OBVIOUS
<1>. QED
  BY <1>1 DEF OnPath

LEMMA LedgerInit == ASSUME GInit PROVE MintermLedger
<1>. SUFFICES ASSUME NEW m \in Minterms
     PROVE  (m \in root <=> Visited(m)) <=> (Odd(Covering(esop, m)) <=> Odd(Awaiting(m, stack)))
  BY DEF MintermLedger
<1>1. Len(stack) = 0 /\ Len(esop) = 0
  BY EmptySeq DEF GInit
<1>2. Covering(esop, m) = {} /\ Awaiting(m, stack) = {}
  BY <1>1 DEF Covering, Awaiting
<1>3. Visited(m) <=> m \in root
  BY <1>1 DEF GInit, Visited, OnPath
<1>. QED
  BY <1>2, <1>3, OddEmpty

LEMMA LedgerZero ==
  ASSUME MintermLedger, GenZero
  PROVE  MintermLedger'
<1>1. \A m \in Minterms : ~Visited(m) /\ ~Visited(m)'
  BY DEF GenZero, Visited, Zero
<1>2. root' = root /\ esop' = esop /\ stack' = stack
  BY DEF GenZero
<1>. QED
  BY <1>1, <1>2 DEF MintermLedger

(* The path to the function being visited is described by the trail.        *)
LEMMA PathIsTrail ==
  ASSUME GTypeOK, TrailMatchesStack, NEW m \in Minterms
  PROVE  OnPath(m, stack, Len(stack)) <=> m \in CubeMinterms(TrailCube)
<1>1. Trail = {stack[i].var : i \in 1 .. Len(stack)}
  BY DEF Trail, TrailMatchesStack
<1>2. \A i \in 1 .. Len(stack) : values[stack[i].var] = FrameValue(stack[i])
  BY DEF TrailMatchesStack
<1>. QED
  BY <1>1, <1>2, TrailCubeCovers DEF OnPath

LEMMA LedgerOne ==
  ASSUME GTypeOK, TrailMatchesStack, MintermLedger, GenOne
  PROVE  MintermLedger'
<1>. SUFFICES ASSUME NEW m \in Minterms
     PROVE  (m \in root' <=> Visited(m)')
              <=> (Odd(Covering(esop', m)) <=> Odd(Awaiting(m, stack')))
  BY DEF MintermLedger
<1>. DEFINE n == Len(esop)
<1>1. /\ n \in Nat
      /\ Len(esop') = n + 1
      /\ esop'[n + 1] = TrailCube
      /\ \A i \in 1 .. n : esop'[i] = esop[i]
  BY TrailCubeType DEF GTypeOK, GenOne
<1>2. Visited(m) <=> m \in CubeMinterms(TrailCube)
  BY PathIsTrail DEF GenOne, Visited, One
<1>3. ~Visited(m)' /\ root' = root /\ stack' = stack
  BY DEF GenOne, Visited
<1>4. CASE Visited(m)
  <2>1. Covering(esop', m) = Covering(esop, m) \cup {n + 1}
    BY <1>1, <1>2, <1>4 DEF Covering
  <2>2. n + 1 \notin Covering(esop, m)
    BY <1>1 DEF Covering
  <2>3. Odd(Covering(esop', m)) <=> ~Odd(Covering(esop, m))
    BY <2>1, <2>2, OddAdd, LedgerFinite
  <2>. QED
    BY <1>3, <1>4, <2>3 DEF MintermLedger
<1>5. CASE ~Visited(m)
  <2>1. Covering(esop', m) = Covering(esop, m)
    BY <1>1, <1>2, <1>5 DEF Covering
  <2>. QED
    BY <1>3, <1>5, <2>1 DEF MintermLedger
<1>. QED
  BY <1>4, <1>5

LEMMA LedgerEnter ==
  ASSUME GTypeOK, MintermLedger, NEW v \in Vars \ Trail, NEW e \in ExpTypes, GenEnter(v, e)
  PROVE  MintermLedger'
<1>. SUFFICES ASSUME NEW m \in Minterms
     PROVE  (m \in root' <=> Visited(m)')
              <=> (Odd(Covering(esop', m)) <=> Odd(Awaiting(m, stack')))
  BY DEF MintermLedger
<1>. DEFINE n == Len(stack)
            fr == [f |-> arg, var |-> v, exp |-> e, half |-> 1]
            first == LitHolds(m, v, FirstValue(e)) /\ m \in FirstChild(arg, v, e)
            second == LitHolds(m, v, SecondValue(e)) /\ m \in SecondChild(arg, v, e)
<1>1. fr \in Frames
  BY DEF GTypeOK, Frames
<1>2. /\ n \in Nat
      /\ Len(stack') = n + 1
      /\ stack'[n + 1] = fr
      /\ \A i \in 1 .. n : stack'[i] = stack[i]
  BY <1>1 DEF GTypeOK, GenEnter
<1>3. \A k \in 0 .. n : OnPath(m, stack', k) <=> OnPath(m, stack, k)
  BY <1>2 DEF OnPath
<1>4. Visited(m)' <=> first /\ OnPath(m, stack, n)
  <2>1. FrameValue(fr) = FirstValue(e)
    BY DEF FrameValue
  <2>2. n + 1 \in Nat \ {0} /\ (n + 1) - 1 = n
    BY <1>2
  <2>3. OnPath(m, stack', n + 1) <=> OnPath(m, stack', n) /\ LitHolds(m, v, FirstValue(e))
    BY <1>2, <2>1, <2>2, LongerPath
  <2>. QED
    BY <1>2, <1>3, <2>3 DEF GenEnter, Visited
<1>5. Visited(m) <=> m \in arg /\ OnPath(m, stack, n)
  BY DEF GenEnter, Visited
<1>6. m \in arg <=> ~(first <=> second)
  BY Expansion DEF GTypeOK
<1>7. \A i \in 1 .. n : i \in Awaiting(m, stack') <=> i \in Awaiting(m, stack)
  BY <1>2, <1>3 DEF Awaiting
<1>8. n + 1 \in Awaiting(m, stack') <=> second /\ OnPath(m, stack, n)
  BY <1>2, <1>3 DEF Awaiting, Awaits
<1>9. n + 1 \notin Awaiting(m, stack) /\ Awaiting(m, stack) \subseteq 1 .. n
  BY <1>2 DEF Awaiting
<1>10. Awaiting(m, stack') \subseteq 1 .. n + 1
  BY <1>2 DEF Awaiting
<1>11. root' = root /\ esop' = esop
  BY DEF GenEnter
<1>12. CASE second /\ OnPath(m, stack, n)
  <2>1. Awaiting(m, stack') = Awaiting(m, stack) \cup {n + 1}
    BY <1>2, <1>7, <1>8, <1>9, <1>10, <1>12
  <2>2. Odd(Awaiting(m, stack')) <=> ~Odd(Awaiting(m, stack))
    BY <1>9, <2>1, OddAdd, LedgerFinite
  <2>. QED
    BY <1>4, <1>5, <1>6, <1>11, <1>12, <2>2 DEF MintermLedger
<1>13. CASE ~(second /\ OnPath(m, stack, n))
  <2>1. \A i \in 1 .. n + 1 : i \in 1 .. n \/ i = n + 1
    BY <1>2
  <2>2. n + 1 \notin Awaiting(m, stack')
    BY <1>8, <1>13
  <2>3. Awaiting(m, stack') = Awaiting(m, stack)
    BY <1>7, <1>9, <1>10, <2>1, <2>2
  <2>. QED
    BY <1>4, <1>5, <1>6, <1>11, <1>13, <2>3 DEF MintermLedger
<1>. QED
  BY <1>12, <1>13

LEMMA LedgerSecond ==
  ASSUME GTypeOK, MintermLedger, GenSecond
  PROVE  MintermLedger'
<1>. SUFFICES ASSUME NEW m \in Minterms
     PROVE  (m \in root' <=> Visited(m)')
              <=> (Odd(Covering(esop', m)) <=> Odd(Awaiting(m, stack')))
  BY DEF MintermLedger
<1>. DEFINE n == Len(stack)
            second == LitHolds(m, Top.var, SecondValue(Top.exp))
                        /\ m \in SecondChild(Top.f, Top.var, Top.exp)
<1>1. n \in Nat \ {0} /\ Top = stack[n] /\ Top \in Frames /\ Top.half = 1
  BY TopFacts DEF GenSecond
<1>2. /\ Len(stack') = n
      /\ stack'[n] = [Top EXCEPT !.half = 2]
      /\ \A i \in 1 .. n - 1 : stack'[i] = stack[i]
  BY <1>1 DEF GTypeOK, GenSecond
<1>3. stack'[n].var = Top.var /\ stack'[n].exp = Top.exp /\ stack'[n].half = 2
  BY <1>1, <1>2 DEF Frames
<1>4. \A k \in 0 .. n - 1 : OnPath(m, stack', k) <=> OnPath(m, stack, k)
  BY <1>1, <1>2 DEF OnPath
<1>5. ~Visited(m)
  BY DEF GenSecond, Visited
<1>6. Visited(m)' <=> second /\ OnPath(m, stack, n - 1)
  <2>1. FrameValue(stack'[n]) = SecondValue(Top.exp)
    BY <1>3 DEF FrameValue
  <2>2. OnPath(m, stack', n) <=> OnPath(m, stack', n - 1) /\ LitHolds(m, Top.var, SecondValue(Top.exp))
    BY <1>1, <1>3, <2>1, LongerPath
  <2>3. OnPath(m, stack', n - 1) <=> OnPath(m, stack, n - 1)
    BY <1>1, <1>4
  <2>. QED
    BY <1>2, <2>2, <2>3 DEF GenSecond, Visited
<1>7. n \in Awaiting(m, stack) <=> second /\ OnPath(m, stack, n - 1)
  BY <1>1 DEF Awaiting, Awaits
<1>8. n \notin Awaiting(m, stack')
  BY <1>3 DEF Awaiting, Awaits
<1>9. \A i \in 1 .. n - 1 : i \in Awaiting(m, stack') <=> i \in Awaiting(m, stack)
  BY <1>1, <1>2, <1>4 DEF Awaiting
<1>10. Awaiting(m, stack) \subseteq 1 .. n /\ Awaiting(m, stack') \subseteq 1 .. n
  BY <1>2 DEF Awaiting
<1>11. \A i \in 1 .. n : i \in 1 .. n - 1 \/ i = n
  BY <1>1
<1>12. Awaiting(m, stack') = Awaiting(m, stack) \ {n}
  BY <1>1, <1>8, <1>9, <1>10, <1>11
<1>13. root' = root /\ esop' = esop
  BY DEF GenSecond
<1>14. CASE n \in Awaiting(m, stack)
  <2>1. Odd(Awaiting(m, stack')) <=> ~Odd(Awaiting(m, stack))
    BY <1>12, <1>14, OddRemove, LedgerFinite
  <2>. QED
    BY <1>5, <1>6, <1>7, <1>13, <1>14, <2>1 DEF MintermLedger
<1>15. CASE n \notin Awaiting(m, stack)
  <2>1. Awaiting(m, stack') = Awaiting(m, stack)
    BY <1>12, <1>15
  <2>. QED
    BY <1>5, <1>6, <1>7, <1>13, <1>15, <2>1 DEF MintermLedger
<1>. QED
  BY <1>14, <1>15

LEMMA LedgerLeave ==
  ASSUME GTypeOK, MintermLedger, GenLeave
  PROVE  MintermLedger'
<1>. SUFFICES ASSUME NEW m \in Minterms
     PROVE  (m \in root' <=> Visited(m)')
              <=> (Odd(Covering(esop', m)) <=> Odd(Awaiting(m, stack')))
  BY DEF MintermLedger
<1>. DEFINE n == Len(stack)
<1>1. n \in Nat \ {0} /\ Top = stack[n] /\ Top.half = 2
  BY TopFacts DEF GenLeave
<1>2. Len(stack') = n - 1 /\ \A i \in 1 .. n - 1 : stack'[i] = stack[i]
  BY PopProperties DEF GTypeOK, GenLeave
<1>3. \A k \in 0 .. n - 1 : OnPath(m, stack', k) <=> OnPath(m, stack, k)
  BY <1>1, <1>2 DEF OnPath
<1>4. n \notin Awaiting(m, stack)
  BY <1>1 DEF Awaiting, Awaits
<1>5. \A i \in 1 .. n - 1 : i \in Awaiting(m, stack') <=> i \in Awaiting(m, stack)
  BY <1>1, <1>2, <1>3 DEF Awaiting
<1>6. Awaiting(m, stack) \subseteq 1 .. n /\ Awaiting(m, stack') \subseteq 1 .. n - 1
  BY <1>2 DEF Awaiting
<1>7. \A i \in 1 .. n : i \in 1 .. n - 1 \/ i = n
  BY <1>1
<1>8. Awaiting(m, stack') = Awaiting(m, stack)
  BY <1>4, <1>5, <1>6, <1>7
<1>9. ~Visited(m) /\ ~Visited(m)' /\ root' = root /\ esop' = esop
  BY DEF GenLeave, Visited
<1>. QED
  BY <1>8, <1>9 DEF MintermLedger

LEMMA LedgerStep ==
  ASSUME GTypeOK, TrailMatchesStack, MintermLedger, [GNext]_gvars
  PROVE  MintermLedger'
<1>1. CASE UNCHANGED gvars
  BY <1>1 DEF gvars, MintermLedger, Visited
<1>. QED
  BY <1>1, LedgerZero, LedgerOne, LedgerEnter, LedgerSecond, LedgerLeave DEF GNext

(* The ledger balances in every state.                                      *)
THEOREM LedgerCorrect == GSpec => []MintermLedger
<1>1. GTypeOK /\ TrailMatchesStack /\ MintermLedger /\ [GNext]_gvars => MintermLedger'
  BY LedgerStep
<1>. QED
  BY LedgerInit, <1>1, TypeCorrect, TrailCorrect, PTL DEF GSpec

(* When the walk is over nothing is open: the cubes alone make the root.    *)
LEMMA LedgerAtEnd ==
  ASSUME GTypeOK, MintermLedger
  PROVE  EsopRealisesRoot
<1>. SUFFICES ASSUME GenDone, NEW m \in Minterms
     PROVE  m \in root <=> Odd(Covering(esop, m))
  BY DEF EsopRealisesRoot, Realises
<1>1. Len(stack) = 0
  BY EmptySeq DEF GenDone
<1>2. Awaiting(m, stack) = {} /\ ~Visited(m)
  BY <1>1 DEF GenDone, Awaiting, Visited
<1>. QED
  BY <1>2, OddEmpty DEF MintermLedger

(* The ESOP that genPSDKRO leaves in _esop realises _FRoot, for every       *)
(* number of variables and however the expansions were chosen.              *)
THEOREM EsopCorrect == GSpec => []EsopRealisesRoot
BY LedgerAtEnd, LedgerCorrect, TypeCorrect, PTL

-----------------------------------------------------------------------------
(* No cube is emitted twice.  Follow the path from the root: a cube that    *)
(* was emitted agrees with the path up to some activation that is in its    *)
(* second branch, where the cube has the value of the first; or, once the   *)
(* call below the path has returned, it may agree with the whole path.      *)
ValueIn(c, v) ==
  IF v \notin c.care THEN "DONTCARE" ELSE IF v \in c.pol THEN "POSITIVE" ELSE "NEGATIVE"
Agrees(c, s, k) == \A j \in 1 .. k : ValueIn(c, s[j].var) = FrameValue(s[j])
Parts(c, fr) == fr.half = 2 /\ ValueIn(c, fr.var) = FirstValue(fr.exp)
Apart(c, s) == \E k \in 1 .. Len(s) : Agrees(c, s, k - 1) /\ Parts(c, s[k])
CubesApart ==
  \A i \in 1 .. Len(esop) :
    Apart(esop[i], stack) \/ (pc = "return" /\ Agrees(esop[i], stack, Len(stack)))

(* The two branches of an expansion give the variable different values.     *)
LEMMA BranchesDiffer ==
  ASSUME NEW e \in ExpTypes
  PROVE  FirstValue(e) # SecondValue(e)
BY DEF ExpTypes, FirstValue, SecondValue

LEMMA TrailCubeAgrees ==
  ASSUME GTypeOK, TrailMatchesStack
  PROVE  Agrees(TrailCube, stack, Len(stack))
<1>1. \A v \in Trail : v \in Vars /\ values[v] \in VarValues
  BY ElementOfSeq DEF GTypeOK, Trail
<1>2. \A v \in Trail : ValueIn(TrailCube, v) = values[v]
  BY <1>1 DEF ValueIn, TrailCube, VarValues
<1>3. \A j \in 1 .. Len(stack) : stack[j].var \in Trail /\ values[stack[j].var] = FrameValue(stack[j])
  BY DEF TrailMatchesStack, Trail
<1>. QED
  BY <1>2, <1>3 DEF Agrees

(* A cube that is apart from the path is not the cube of the path.          *)
LEMMA ApartDiffers ==
  ASSUME GTypeOK, TrailMatchesStack, NEW c, Apart(c, stack)
  PROVE  c # TrailCube
<1>1. PICK k \in 1 .. Len(stack) : Parts(c, stack[k])
  BY DEF Apart
<1>2. stack[k].exp \in ExpTypes
  <2>1. \A fr \in Frames : fr.exp \in ExpTypes
    BY DEF Frames
  <2>. QED
    BY <2>1, StackFrames
<1>3. ValueIn(TrailCube, stack[k].var) = SecondValue(stack[k].exp)
  BY <1>1, TrailCubeAgrees DEF Agrees, Parts, FrameValue
<1>. QED
  BY <1>1, <1>2, <1>3, BranchesDiffer DEF Parts

LEMMA ApartInit == ASSUME GInit PROVE CubesApart /\ NoCubeTwice
<1>1. Len(esop) = 0
  BY EmptySeq DEF GInit
<1>. QED
  BY <1>1 DEF CubesApart, NoCubeTwice

LEMMA ApartOne ==
  ASSUME GTypeOK, TrailMatchesStack, CubesApart, NoCubeTwice, GenOne
  PROVE  CubesApart' /\ NoCubeTwice'
<1>. DEFINE n == Len(esop)
<1>1. /\ n \in Nat
      /\ Len(esop') = n + 1
      /\ esop'[n + 1] = TrailCube
      /\ \A i \in 1 .. n : esop'[i] = esop[i]
  BY TrailCubeType DEF GTypeOK, GenOne
<1>2. \A i \in 1 .. n : Apart(esop[i], stack)
  BY DEF CubesApart, GenOne
<1>3. stack' = stack /\ pc' = "return"
  BY DEF GenOne
<1>4. \A i \in 1 .. n + 1 : i \in 1 .. n \/ i = n + 1
  BY <1>1
<1>5. CubesApart'
  BY <1>1, <1>2, <1>3, <1>4, TrailCubeAgrees DEF CubesApart
<1>6. \A i \in 1 .. n : esop[i] # TrailCube
  BY <1>2, ApartDiffers
<1>7. NoCubeTwice'
  BY <1>1, <1>4, <1>6 DEF NoCubeTwice
<1>. QED
  BY <1>5, <1>7

LEMMA ApartEnter ==
  ASSUME GTypeOK, CubesApart, NEW v \in Vars \ Trail, NEW e \in ExpTypes, GenEnter(v, e)
  PROVE  CubesApart'
<1>1. [f |-> arg, var |-> v, exp |-> e, half |-> 1] \in Frames
  BY DEF GTypeOK, Frames
<1>2. /\ Len(stack) \in Nat
      /\ Len(stack') = Len(stack) + 1
      /\ \A i \in 1 .. Len(stack) : stack'[i] = stack[i]
  BY <1>1 DEF GTypeOK, GenEnter
<1>3. \A c : Apart(c, stack) => Apart(c, stack')
  BY <1>2 DEF Apart, Agrees
<1>. QED
  BY <1>3 DEF CubesApart, GenEnter

LEMMA ApartSecond ==
  ASSUME GTypeOK, CubesApart, GenSecond
  PROVE  CubesApart'
<1>. DEFINE n == Len(stack)
<1>1. n \in Nat \ {0} /\ Top = stack[n] /\ Top \in Frames /\ Top.half = 1
  BY TopFacts DEF GenSecond
<1>2. /\ Len(stack') = n
      /\ stack'[n] = [Top EXCEPT !.half = 2]
      /\ \A i \in 1 .. n - 1 : stack'[i] = stack[i]
  BY <1>1 DEF GTypeOK, GenSecond
<1>3. stack'[n].var = Top.var /\ stack'[n].exp = Top.exp /\ stack'[n].half = 2
  BY <1>1, <1>2 DEF Frames
<1>4. ASSUME NEW c, Apart(c, stack) PROVE Apart(c, stack')
  <2>1. PICK k \in 1 .. n : Agrees(c, stack, k - 1) /\ Parts(c, stack[k])
    BY <1>4 DEF Apart
  <2>2. k \in 1 .. n - 1
    BY <1>1, <2>1 DEF Parts
  <2>. QED
    BY <1>1, <1>2, <2>1, <2>2 DEF Apart, Agrees
<1>5. ASSUME NEW c, Agrees(c, stack, n) PROVE Apart(c, stack')
  <2>1. Agrees(c, stack', n - 1)
    BY <1>1, <1>2, <1>5 DEF Agrees
  <2>2. Parts(c, stack'[n])
    BY <1>1, <1>3, <1>5 DEF Agrees, Parts, FrameValue
  <2>. QED
    BY <1>1, <1>2, <2>1, <2>2 DEF Apart
<1>. QED
  BY <1>4, <1>5 DEF CubesApart, GenSecond

LEMMA ApartLeave ==
  ASSUME GTypeOK, CubesApart, GenLeave
  PROVE  CubesApart'
<1>. DEFINE n == Len(stack)
<1>1. n \in Nat \ {0}
  BY TopFacts DEF GenLeave
<1>2. Len(stack') = n - 1 /\ \A i \in 1 .. n - 1 : stack'[i] = stack[i]
  BY PopProperties DEF GTypeOK, GenLeave
<1>3. ASSUME NEW c, Agrees(c, stack, n - 1) PROVE Agrees(c, stack', n - 1)
  BY <1>2, <1>3 DEF Agrees
<1>4. ASSUME NEW c, Apart(c, stack) PROVE Apart(c, stack') \/ Agrees(c, stack', n - 1)
  <2>1. PICK k \in 1 .. n : Agrees(c, stack, k - 1) /\ Parts(c, stack[k])
    BY <1>4 DEF Apart
  <2>2. CASE k = n
    BY <1>3, <2>1, <2>2
  <2>3. CASE k \in 1 .. n - 1
    BY <1>1, <1>2, <2>1, <2>3 DEF Apart, Agrees
  <2>. QED
    BY <1>1, <2>2, <2>3
<1>5. ASSUME NEW c, Agrees(c, stack, n) PROVE Agrees(c, stack', n - 1)
  BY <1>1, <1>2, <1>5 DEF Agrees
<1>. QED
  BY <1>2, <1>4, <1>5 DEF CubesApart, GenLeave

LEMMA ApartStep ==
  ASSUME GTypeOK, TrailMatchesStack, CubesApart, NoCubeTwice, [GNext]_gvars
  PROVE  CubesApart' /\ NoCubeTwice'
<1>1. CASE GenOne
  BY <1>1, ApartOne
<1>2. CASE GenZero \/ UNCHANGED gvars
  BY <1>2 DEF GenZero, gvars, CubesApart, NoCubeTwice
<1>3. ASSUME NEW v \in Vars \ Trail, NEW e \in ExpTypes, GenEnter(v, e)
      PROVE  CubesApart' /\ NoCubeTwice'
  BY <1>3, ApartEnter DEF GenEnter, NoCubeTwice
<1>4. CASE GenSecond
  BY <1>4, ApartSecond DEF GenSecond, NoCubeTwice
<1>5. CASE GenLeave
  BY <1>5, ApartLeave DEF GenLeave, NoCubeTwice
<1>. QED
  BY <1>1, <1>2, <1>3, <1>4, <1>5 DEF GNext

(* No two of the cubes in _esop are equal, at any moment.                   *)
THEOREM CubesDistinct == GSpec => []NoCubeTwice
<1>1. GTypeOK /\ TrailMatchesStack /\ CubesApart /\ NoCubeTwice /\ [GNext]_gvars
        => CubesApart' /\ NoCubeTwice'
  BY ApartStep
<1>. QED
  BY ApartInit, <1>1, TypeCorrect, TrailCorrect, PTL DEF GSpec

-----------------------------------------------------------------------------
(* Functions the walk still has to visit do not depend on the variables of  *)
(* their path.  So a walk that expands at a variable its function depends   *)
(* on, as the commands do, never meets a variable twice.                    *)
Free(F, v) == E(F, v) = T(F, v)
FreeOf(F, s, k) == \A j \in 1 .. k : Free(F, s[j].var)

BelowTrail ==
  /\ pc = "call" => FreeOf(arg, stack, Len(stack))
  /\ \A i \in 1 .. Len(stack) :
       stack[i].half = 1 =>
         FreeOf(SecondChild(stack[i].f, stack[i].var, stack[i].exp), stack, i)

(* A child is free of the variable expanded and of all F was free of.       *)
LEMMA FreeMeans ==
  ASSUME NEW F, NEW v
  PROVE  Free(F, v) <=> \A m \in Minterms : m \ {v} \in F <=> m \cup {v} \in F
BY DEF Free, E, T

LEMMA CofactorsFree ==
  ASSUME NEW F, NEW v \in Vars
  PROVE  Free(E(F, v), v) /\ Free(T(F, v), v)
<1>1. \A m \in Minterms :
        /\ m \ {v} \in Minterms /\ m \cup {v} \in Minterms
        /\ (m \ {v}) \ {v} = m \ {v} /\ (m \ {v}) \cup {v} = m \cup {v}
        /\ (m \cup {v}) \ {v} = m \ {v} /\ (m \cup {v}) \cup {v} = m \cup {v}
  BY DEF Minterms
<1>. QED
  BY <1>1, FreeMeans DEF E, T

LEMMA CofactorsKeepFree ==
  ASSUME NEW F, NEW v \in Vars, NEW w \in Vars, Free(F, w)
  PROVE  Free(E(F, v), w) /\ Free(T(F, v), w)
<1>1. CASE v = w
  BY <1>1, CofactorsFree
<1>2. CASE v # w
  <2>1. \A m \in Minterms :
          /\ m \ {v} \in Minterms /\ m \cup {v} \in Minterms
          /\ m \ {w} \in Minterms /\ m \cup {w} \in Minterms
          /\ (m \ {w}) \ {v} = (m \ {v}) \ {w} /\ (m \cup {w}) \ {v} = (m \ {v}) \cup {w}
          /\ (m \ {w}) \cup {v} = (m \cup {v}) \ {w} /\ (m \cup {w}) \cup {v} = (m \cup {v}) \cup {w}
    BY <1>2 DEF Minterms
  <2>2. \A m \in Minterms : m \ {w} \in F <=> m \cup {w} \in F
    BY FreeMeans
  <2>3. ASSUME NEW m \in Minterms
        PROVE  /\ m \ {w} \in E(F, v) <=> m \cup {w} \in E(F, v)
               /\ m \ {w} \in T(F, v) <=> m \cup {w} \in T(F, v)
    <3>1. /\ m \ {w} \in E(F, v) <=> (m \ {v}) \ {w} \in F
          /\ m \cup {w} \in E(F, v) <=> (m \ {v}) \cup {w} \in F
      BY <2>1 DEF E
    <3>2. /\ m \ {w} \in T(F, v) <=> (m \cup {v}) \ {w} \in F
          /\ m \cup {w} \in T(F, v) <=> (m \cup {v}) \cup {w} \in F
      BY <2>1 DEF T
    <3>3. m \ {v} \in Minterms /\ m \cup {v} \in Minterms
      BY <2>1
    <3>. QED
      BY <2>2, <3>1, <3>2, <3>3
  <2>. QED
    BY <2>3, FreeMeans
<1>. QED
  BY <1>1, <1>2

LEMMA XorFree ==
  ASSUME NEW F, NEW G, NEW v \in Vars, Free(F, v), Free(G, v)
  PROVE  Free(Xor(F, G), v)
<1>1. \A m \in Minterms : m \ {v} \in Minterms /\ m \cup {v} \in Minterms
  BY DEF Minterms
<1>. QED
  BY <1>1, FreeMeans DEF Xor

LEMMA ChildrenFree ==
  ASSUME NEW F, NEW v \in Vars, NEW e, NEW w \in Vars, v = w \/ Free(F, w)
  PROVE  Free(FirstChild(F, v, e), w) /\ Free(SecondChild(F, v, e), w)
<1>1. Free(E(F, v), w) /\ Free(T(F, v), w)
  BY CofactorsFree, CofactorsKeepFree
<1>. QED
  BY <1>1, XorFree DEF FirstChild, SecondChild

LEMMA BelowInit == ASSUME GInit PROVE BelowTrail
<1>1. Len(stack) = 0
  BY EmptySeq DEF GInit
<1>. QED
  BY <1>1 DEF BelowTrail, FreeOf

LEMMA BelowEnter ==
  ASSUME GTypeOK, BelowTrail, NEW v \in Vars, NEW e, e \in ExpTypes, GenEnter(v, e)
  PROVE  BelowTrail'
<1>. DEFINE n == Len(stack)
            fr == [f |-> arg, var |-> v, exp |-> e, half |-> 1]
<1>1. fr \in Frames
  BY DEF GTypeOK, Frames
<1>2. /\ n \in Nat
      /\ Len(stack') = n + 1
      /\ stack'[n + 1] = fr
      /\ \A i \in 1 .. n : stack'[i] = stack[i]
  BY <1>1 DEF GTypeOK, GenEnter
<1>3. \A j \in 1 .. n + 1 : stack'[j].var \in Vars /\ (stack'[j].var = v \/ Free(arg, stack'[j].var))
  BY <1>2, StackFrames DEF BelowTrail, FreeOf, GenEnter
<1>4. FreeOf(FirstChild(arg, v, e), stack', n + 1) /\ FreeOf(SecondChild(arg, v, e), stack', n + 1)
  BY <1>3, ChildrenFree DEF FreeOf
<1>5. ASSUME NEW i \in 1 .. n + 1, stack'[i].half = 1
      PROVE  FreeOf(SecondChild(stack'[i].f, stack'[i].var, stack'[i].exp), stack', i)
  <2>1. CASE i = n + 1
    BY <1>2, <1>4, <2>1
  <2>2. CASE i \in 1 .. n
    BY <1>2, <1>5, <2>2 DEF BelowTrail, FreeOf
  <2>. QED
    BY <1>2, <2>1, <2>2
<1>. QED
  BY <1>2, <1>4, <1>5 DEF BelowTrail, GenEnter

LEMMA BelowSecond ==
  ASSUME GTypeOK, BelowTrail, GenSecond
  PROVE  BelowTrail'
<1>. DEFINE n == Len(stack)
<1>1. n \in Nat \ {0} /\ Top = stack[n] /\ Top \in Frames /\ Top.half = 1
  BY TopFacts DEF GenSecond
<1>2. /\ Len(stack') = n
      /\ stack'[n] = [Top EXCEPT !.half = 2]
      /\ \A i \in 1 .. n - 1 : stack'[i] = stack[i]
  BY <1>1 DEF GTypeOK, GenSecond
<1>3. stack'[n].var = Top.var /\ stack'[n].half = 2
  BY <1>1, <1>2 DEF Frames
<1>4. \A i \in 1 .. n : i \in 1 .. n - 1 \/ i = n
  BY <1>1
<1>5. \A i \in 1 .. n : stack'[i].var = stack[i].var
  BY <1>1, <1>2, <1>3, <1>4
<1>6. FreeOf(arg', stack', n)
  BY <1>1, <1>5 DEF BelowTrail, FreeOf, GenSecond
<1>7. ASSUME NEW i \in 1 .. n, stack'[i].half = 1
      PROVE  FreeOf(SecondChild(stack'[i].f, stack'[i].var, stack'[i].exp), stack', i)
  <2>1. i \in 1 .. n - 1
    BY <1>3, <1>4, <1>7
  <2>2. FreeOf(SecondChild(stack[i].f, stack[i].var, stack[i].exp), stack, i)
    BY <1>2, <1>7, <2>1 DEF BelowTrail
  <2>3. \A j \in 1 .. i : j \in 1 .. n
    BY <1>1
  <2>. QED
    BY <1>2, <1>5, <2>1, <2>2, <2>3 DEF FreeOf
<1>. QED
  BY <1>2, <1>6, <1>7 DEF BelowTrail

LEMMA BelowLeave ==
  ASSUME GTypeOK, BelowTrail, GenLeave
  PROVE  BelowTrail'
<1>. DEFINE n == Len(stack)
<1>1. n \in Nat \ {0}
  BY TopFacts DEF GenLeave
<1>2. Len(stack') = n - 1 /\ \A i \in 1 .. n - 1 : stack'[i] = stack[i]
  BY PopProperties DEF GTypeOK, GenLeave
<1>3. ASSUME NEW i \in 1 .. n - 1, stack[i].half = 1
      PROVE  FreeOf(SecondChild(stack[i].f, stack[i].var, stack[i].exp), stack', i)
  BY <1>1, <1>2, <1>3 DEF BelowTrail, FreeOf
<1>. QED
  BY <1>1, <1>2, <1>3 DEF BelowTrail, GenLeave

LEMMA BelowStep ==
  ASSUME GTypeOK, BelowTrail, [GNext]_gvars
  PROVE  BelowTrail'
<1>1. CASE GenZero \/ GenOne \/ UNCHANGED gvars
  BY <1>1 DEF GenZero, GenOne, gvars, BelowTrail
<1>. QED
  BY <1>1, BelowEnter, BelowSecond, BelowLeave DEF GNext

-----------------------------------------------------------------------------
(* The variable of an inner node.                                           *)

LEMMA LeastExists ==
  ASSUME NEW S, S \subseteq Nat, S # {}
  PROVE  \E x \in S : \A y \in S : x <= y
<1>1. PICK x \in S : \A y \in S : ~(<<y, x>> \in OpToRel(<, Nat))
  BY WFMin, NatLessThanWellFounded
<1>2. \A y \in S : ~(y < x)
  BY <1>1 DEF OpToRel
<1>. QED
  BY <1>2

(* A function that is neither 0 nor 1 depends on some variable: of a true   *)
(* and a false minterm as close as can be, a variable they differ in.       *)
LEMMA DependsOnSome ==
  ASSUME NEW F \in Fns, ~IsConstant(F)
  PROVE  \E v \in Vars : ~Free(F, v)
<1>. SUFFICES ASSUME \A v \in Vars : Free(F, v) PROVE FALSE
  OBVIOUS
<1>. DEFINE Differ(m, k) == (m \ k) \cup (k \ m)
            Pairs == F \X (Minterms \ F)
            Dists == {Cardinality(Differ(p[1], p[2])) : p \in Pairs}
<1>1. Pairs # {}
  <2>1. F # {} /\ F # Minterms /\ F \subseteq Minterms
    BY DEF IsConstant, Zero, One, Fns
  <2>2. PICK m \in F, k \in Minterms \ F : TRUE
    BY <2>1
  <2>3. <<m, k>> \in Pairs
    BY <2>2
  <2>. QED
    BY <2>3
<1>2. \A p \in Pairs : p[1] \in F /\ p[1] \in Minterms /\ p[2] \in Minterms /\ p[2] \notin F
  BY DEF Fns
<1>3. IsFiniteSet(Vars)
  BY NAssumption, FS_Interval DEF Vars
<1>4. \A m, k \in Minterms : IsFiniteSet(Differ(m, k)) /\ Differ(m, k) \subseteq Vars
  <2>1. \A m, k \in Minterms : Differ(m, k) \subseteq Vars
    BY DEF Minterms
  <2>. QED
    BY <1>3, <2>1, FS_Subset
<1>5. Dists \subseteq Nat
  <2>1. SUFFICES ASSUME NEW x \in Dists PROVE x \in Nat
    OBVIOUS
  <2>2. PICK p \in Pairs : x = Cardinality(Differ(p[1], p[2]))
    OBVIOUS
  <2>3. p[1] \in Minterms /\ p[2] \in Minterms
    BY <1>2
  <2>4. IsFiniteSet(Differ(p[1], p[2]))
    BY <1>4, <2>3
  <2>. HIDE DEF Differ
  <2>. QED
    BY <2>2, <2>4, FS_CardinalityType
<1>6. PICK d \in Dists : \A x \in Dists : d <= x
  BY <1>1, <1>5, LeastExists
<1>7. PICK p \in Pairs : d = Cardinality(Differ(p[1], p[2]))
  BY <1>6
<1>. DEFINE m == p[1]
            k == p[2]
<1>8. m \in F /\ m \in Minterms /\ k \in Minterms /\ k \notin F
  BY <1>2
<1>9. PICK v : v \in Differ(m, k)
  BY <1>8 DEF Minterms
<1>10. v \in Vars
  BY <1>4, <1>8, <1>9
<1>. DEFINE closer == IF v \in k THEN m \cup {v} ELSE m \ {v}
<1>11. closer \in F
  <2>1. m \ {v} \in F <=> m \cup {v} \in F
    BY <1>8, <1>10, FreeMeans
  <2>2. m = m \ {v} \/ m = m \cup {v}
    OBVIOUS
  <2>3. m \ {v} \in F /\ m \cup {v} \in F
    BY <1>8, <2>1, <2>2
  <2>. QED
    BY <2>3
<1>12. Differ(closer, k) = Differ(m, k) \ {v}
  BY <1>9
<1>13. Cardinality(Differ(closer, k)) = Cardinality(Differ(m, k)) - 1
  <2>1. \A S : IsFiniteSet(S) /\ v \in S => Cardinality(S \ {v}) = Cardinality(S) - 1
    BY FS_RemoveElement
  <2>2. IsFiniteSet(Differ(m, k))
    BY <1>4, <1>8
  <2>. HIDE DEF Differ
  <2>3. Cardinality(Differ(m, k) \ {v}) = Cardinality(Differ(m, k)) - 1
    BY <1>9, <2>1, <2>2
  <2>. QED
    BY <1>12, <2>3
<1>14. <<closer, k>> \in Pairs
  BY <1>8, <1>11
<1>15. Cardinality(Differ(closer, k)) \in Dists
  <2>1. <<closer, k>>[1] = closer /\ <<closer, k>>[2] = k
    OBVIOUS
  <2>. QED
    BY <1>14, <2>1
<1>. QED
  <2>1. d \in Nat
    BY <1>5, <1>6
  <2>. HIDE DEF Differ, Dists
  <2>2. d <= Cardinality(Differ(closer, k))
    BY <1>6, <1>15
  <2>3. Cardinality(Differ(closer, k)) = d - 1
    BY <1>7, <1>13
  <2>. QED
    BY <2>1, <2>2, <2>3

(* TopVar is a variable the function depends on.                            *)
LEMMA TopVarProperties ==
  ASSUME NEW F \in Fns, ~IsConstant(F)
  PROVE  TopVar(F) \in Vars /\ ~Free(F, TopVar(F))
<1>1. Support(F) # {} /\ Support(F) \subseteq Vars /\ \A v \in Support(F) : ~Free(F, v)
  BY DependsOnSome DEF Support, Free
<1>2. Support(F) \subseteq Nat
  BY <1>1, NAssumption DEF Vars
<1>3. \E v \in Support(F) : \A w \in Support(F) : v <= w
  BY <1>1, <1>2, LeastExists
<1>4. TopVar(F) \in Support(F)
  BY <1>3 DEF TopVar, First
<1>. QED
  BY <1>1, <1>4

(* So it is not on the trail.                                               *)
LEMMA TopVarNotOnTrail ==
  ASSUME GTypeOK, TrailMatchesStack, BelowTrail, pc = "call", ~IsConstant(arg)
  PROVE  TopVar(arg) \in Vars \ Trail
<1>1. TopVar(arg) \in Vars /\ ~Free(arg, TopVar(arg))
  BY TopVarProperties DEF GTypeOK
<1>2. \A v \in Trail : Free(arg, v)
  BY DEF BelowTrail, FreeOf, Trail, TrailMatchesStack
<1>. QED
  BY <1>1, <1>2

-----------------------------------------------------------------------------
(* The three children among which the searches decide.                      *)
LEMMA CofactorTypes ==
  ASSUME NEW F
  PROVE  /\ E0(F) \in Fns /\ T1(F) \in Fns /\ X2(F) \in Fns
         /\ \A i \in Children : Child(F, i) \in Fns
BY DEF E0, T1, X2, E, T, Xor, Fns, Child, Children

LEMMA ChildCases ==
  ASSUME NEW F
  PROVE  /\ Child(F, 0) = E0(F) /\ Child(F, 1) = T1(F) /\ Child(F, 2) = X2(F)
         /\ 0 \in Children /\ 1 \in Children /\ 2 \in Children
         /\ \A i \in Children : i = 0 \/ i = 1 \/ i = 2
<1>1. /\ 0 \in Children /\ 1 \in Children /\ 2 \in Children
      /\ \A i \in Children : i = 0 \/ i = 1 \/ i = 2
  BY DEF Children
<1>2. Child(F, 0) = E0(F)
  BY DEF Child
<1>3. Child(F, 1) = T1(F)
  BY DEF Child
<1>4. Child(F, 2) = X2(F)
  BY DEF Child
<1>. QED
  BY <1>1, <1>2, <1>3, <1>4

(* The decision always drops one of the three children.                     *)
LEMMA DroppedIsChild ==
  ASSUME NEW c, NEW d \in Children
  PROVE  Dropped(c, d) \in Children
BY DEF Dropped, Children

-----------------------------------------------------------------------------
(* The children of an inner node are free of all variables up to its own,   *)
(* so no function is met again below itself.                                *)
FreeUpTo(F, v) == \A u \in Vars : u <= v => Free(F, u)

LEMMA TopVarFirst ==
  ASSUME NEW F \in Fns, ~IsConstant(F)
  PROVE  \A u \in Vars : u < TopVar(F) => Free(F, u)
<1>1. Support(F) # {} /\ Support(F) \subseteq Vars
  BY DependsOnSome DEF Support, Free
<1>2. Support(F) \subseteq Nat
  BY <1>1, NAssumption DEF Vars
<1>3. \E v \in Support(F) : \A w \in Support(F) : v <= w
  BY <1>1, <1>2, LeastExists
<1>4. \A w \in Support(F) : TopVar(F) <= w
  BY <1>3 DEF TopVar, First
<1>5. TopVar(F) \in Support(F)
  BY <1>3 DEF TopVar, First
<1>6. \A u \in Vars : ~Free(F, u) => u \in Support(F)
  BY DEF Support, Free
<1>7. \A u \in Vars : u \in Nat
  BY NAssumption DEF Vars
<1>. QED
  BY <1>2, <1>4, <1>5, <1>6, <1>7

LEMMA ChildFree ==
  ASSUME NEW F \in Fns, ~IsConstant(F), NEW i \in Children,
         NEW w \in Vars, w = TopVar(F) \/ Free(F, w)
  PROVE  Free(Child(F, i), w)
<1>1. TopVar(F) \in Vars
  BY TopVarProperties
<1>2. Free(E0(F), w) /\ Free(T1(F), w)
  BY <1>1, CofactorsFree, CofactorsKeepFree DEF E0, T1
<1>3. Free(X2(F), w)
  BY <1>2, XorFree DEF X2
<1>. QED
  BY <1>2, <1>3, ChildCases

LEMMA ChildBelow ==
  ASSUME NEW F \in Fns, ~IsConstant(F), NEW i \in Children
  PROVE  /\ FreeUpTo(Child(F, i), TopVar(F))
         /\ \A v : FreeUpTo(F, v) => FreeUpTo(Child(F, i), v)
<1>1. TopVar(F) \in Vars /\ \A u \in Vars : u \in Nat
  BY TopVarProperties, NAssumption DEF Vars
<1>2. \A u \in Vars : u <= TopVar(F) => u = TopVar(F) \/ Free(F, u)
  BY <1>1, TopVarFirst
<1>. QED
  BY <1>2, ChildFree DEF FreeUpTo

LEMMA NotAgain ==
  ASSUME NEW F \in Fns, ~IsConstant(F), NEW G, FreeUpTo(G, TopVar(F))
  PROVE  G # F
<1>1. TopVar(F) \in Vars /\ ~Free(F, TopVar(F)) /\ TopVar(F) <= TopVar(F)
  BY TopVarProperties, NAssumption DEF Vars
<1>. QED
  BY <1>1 DEF FreeUpTo

-----------------------------------------------------------------------------
(* The invariant of the walk in one piece, as implications: a command whose  *)
(* walk is one only under a mapping instantiates them.                      *)
GInv == GTypeOK /\ TrailMatchesStack /\ MintermLedger

LEMMA GInvInit == GInit => GInv
BY TypeInit, TrailInit, LedgerInit DEF GInv

LEMMA GInvStep == GInv /\ [GNext]_gvars => GInv'
BY TypeStep, TrailStep, LedgerStep DEF GInv

LEMMA GInvEnd == GInv => EsopRealisesRoot
BY LedgerAtEnd DEF GInv


-----------------------------------------------------------------------------
(* OptCost, the least number of cubes, is well defined; keeping the cheapest *)
(* two of three children attains it; and a walk whose expansions split a     *)
(* cost function emits exactly the cost of the root: a cube emitted, or a    *)
(* cost still to be paid by the function being visited and by the second     *)
(* children that open activations wait for.                                 *)

(* What holds for the constants, and for an inner function whenever it      *)
(* holds for its three children, holds for every function: children depend  *)
(* only on variables below that of their parent.                            *)
LEMMA TopVarAbove ==
  ASSUME NEW F \in Fns, ~IsConstant(F), NEW v \in Int, FreeUpTo(F, v)
  PROVE  v < TopVar(F)
<1>1. TopVar(F) \in Vars /\ ~Free(F, TopVar(F)) /\ TopVar(F) \in Int
  BY TopVarProperties, NAssumption DEF Vars
<1>. QED
  BY <1>1 DEF FreeUpTo

LEMMA BottomUp ==
  ASSUME NEW S,
         \A F \in Fns : IsConstant(F) => F \in S,
         \A F \in Fns : ~IsConstant(F) /\ (\A i \in Children : Child(F, i) \in S) => F \in S
  PROVE  Fns \subseteq S
<1>. SUFFICES ASSUME NEW H \in Fns, H \notin S PROVE FALSE
  OBVIOUS
<1>. PICK Missing : Missing = {F \in Fns : F \notin S}
  OBVIOUS
<1>1. \A F \in Missing : F \in Fns /\ ~IsConstant(F)
  OBVIOUS
<1>2. \A F \in Missing : TopVar(F) \in Int /\ N - TopVar(F) \in Nat
  BY <1>1, TopVarProperties, NAssumption DEF Vars
<1>. PICK Depths : Depths = {N - TopVar(F) : F \in Missing}
  OBVIOUS
<1>3. Depths \subseteq Nat /\ Depths # {}
  BY <1>2
<1>4. PICK d \in Depths : \A x \in Depths : d <= x
  BY <1>3, LeastExists
<1>5. PICK F \in Missing : d = N - TopVar(F)
  BY <1>4
<1>6. PICK i \in Children : Child(F, i) \notin S
  BY <1>1, <1>5
<1>7. PICK G : G = Child(F, i)
  OBVIOUS
<1>8. G \in Missing
  BY <1>6, <1>7, CofactorTypes
<1>9. FreeUpTo(G, TopVar(F))
  BY <1>1, <1>5, <1>7, ChildBelow
<1>10. TopVar(F) < TopVar(G)
  BY <1>1, <1>2, <1>5, <1>8, <1>9, TopVarAbove
<1>11. N - TopVar(F) <= N - TopVar(G)
  <2>1. N - TopVar(G) \in Depths
    BY <1>8
  <2>2. d <= N - TopVar(G)
    BY <1>4, <2>1
  <2>. QED
    BY <1>5, <2>2
<1>. QED
  BY <1>2, <1>5, <1>8, <1>10, <1>11, NAssumption

-----------------------------------------------------------------------------
(* Recursion over children.  A rule gives the value of a function from the  *)
(* values of its three children, and that of a constant from nothing: such  *)
(* a recursion has a solution.                                              *)
Triples == Nat \X Nat \X Nat
ChildCosts(f, F) == <<f[E0(F)], f[T1(F)], f[X2(F)]>>

IsRule(c) ==
  /\ c \in [Fns -> [Triples -> Nat]]
  /\ \A F \in Fns : IsConstant(F) => \A t, u \in Triples : c[F][t] = c[F][u]

SolvedFrom(c, f, v) ==
  /\ f \in [Fns -> Nat]
  /\ \A F \in Fns : FreeUpTo(F, v) => f[F] = c[F][ChildCosts(f, F)]

Solves(c, f) == f \in [Fns -> Nat] /\ \A F \in Fns : f[F] = c[F][ChildCosts(f, F)]

LEMMA ChildCostsType ==
  ASSUME NEW f \in [Fns -> Nat], NEW F
  PROVE  ChildCosts(f, F) \in Triples
<1>1. f[E0(F)] \in Nat /\ f[T1(F)] \in Nat /\ f[X2(F)] \in Nat
  BY CofactorTypes
<1>. QED
  BY <1>1 DEF ChildCosts, Triples

LEMMA SameChildCosts ==
  ASSUME NEW f, NEW g, NEW F, \A i \in Children : f[Child(F, i)] = g[Child(F, i)]
  PROVE  ChildCosts(f, F) = ChildCosts(g, F)
<1>1. f[E0(F)] = g[E0(F)] /\ f[T1(F)] = g[T1(F)] /\ f[X2(F)] = g[X2(F)]
  BY ChildCases
<1>. QED
  BY <1>1 DEF ChildCosts

LEMMA SolveMore ==
  ASSUME NEW c, IsRule(c), NEW v \in Nat, NEW f, SolvedFrom(c, f, v + 1)
  PROVE  \E h : SolvedFrom(c, h, v)
<1>0. f \in [Fns -> Nat]
  BY DEF SolvedFrom
<1>1. PICK h : h = [F \in Fns |-> IF FreeUpTo(F, v + 1) THEN f[F] ELSE c[F][ChildCosts(f, F)]]
  OBVIOUS
<1>2. \A F \in Fns : h[F] = IF FreeUpTo(F, v + 1) THEN f[F] ELSE c[F][ChildCosts(f, F)]
  BY <1>1
<1>3. \A F \in Fns : h[F] \in Nat
  <2>1. \A F \in Fns : c[F][ChildCosts(f, F)] \in Nat
    BY <1>0, ChildCostsType DEF IsRule
  <2>. QED
    BY <1>0, <1>2, <2>1
<1>4. h \in [Fns -> Nat]
  BY <1>1, <1>3
<1>5. ASSUME NEW F \in Fns, FreeUpTo(F, v) PROVE h[F] = c[F][ChildCosts(h, F)]
  <2>1. h[F] = c[F][ChildCosts(f, F)]
    BY <1>2 DEF SolvedFrom
  <2>2. CASE IsConstant(F)
    <3>1. ChildCosts(f, F) \in Triples /\ ChildCosts(h, F) \in Triples
      BY <1>0, <1>4, ChildCostsType
    <3>. QED
      BY <2>1, <2>2, <3>1 DEF IsRule
  <2>3. CASE ~IsConstant(F)
    <3>1. ASSUME NEW i \in Children PROVE f[Child(F, i)] = h[Child(F, i)]
      <4>1. v < TopVar(F) /\ TopVar(F) \in Vars /\ TopVar(F) \in Int
        BY <1>5, <2>3, TopVarAbove, TopVarProperties, NAssumption DEF Vars
      <4>2. FreeUpTo(Child(F, i), TopVar(F))
        BY <2>3, ChildBelow
      <4>3. \A u \in Vars : u <= v + 1 => u <= TopVar(F)
        BY <4>1, NAssumption DEF Vars
      <4>4. FreeUpTo(Child(F, i), v + 1)
        BY <4>2, <4>3 DEF FreeUpTo
      <4>5. Child(F, i) \in Fns
        BY CofactorTypes
      <4>. QED
        BY <1>2, <4>4, <4>5
    <3>. QED
      BY <2>1, <3>1, SameChildCosts
  <2>. QED
    BY <2>2, <2>3
<1>. QED
  BY <1>4, <1>5 DEF SolvedFrom

LEMMA SolutionExists ==
  ASSUME NEW c, IsRule(c)
  PROVE  \E f : Solves(c, f)
<1>1. \E f : SolvedFrom(c, f, N)
  <2>1. PICK t \in Triples : t = <<0, 0, 0>>
    BY DEF Triples
  <2>2. PICK f : f = [F \in Fns |-> c[F][t]]
    OBVIOUS
  <2>3. f \in [Fns -> Nat]
    BY <2>2 DEF IsRule
  <2>4. ASSUME NEW F \in Fns, FreeUpTo(F, N) PROVE f[F] = c[F][ChildCosts(f, F)]
    <3>1. \A v \in Vars : v <= N
      BY NAssumption DEF Vars
    <3>2. IsConstant(F)
      BY <2>4, <3>1, DependsOnSome DEF FreeUpTo
    <3>3. ChildCosts(f, F) \in Triples
      BY <2>3, ChildCostsType
    <3>. QED
      BY <2>2, <3>2, <3>3 DEF IsRule
  <2>. QED
    BY <2>3, <2>4 DEF SolvedFrom
<1>2. PICK Solvable : Solvable = {v \in 0 .. N : \E f : SolvedFrom(c, f, v)}
  OBVIOUS
<1>3. Solvable \subseteq Nat /\ Solvable # {}
  BY <1>1, <1>2, NAssumption
<1>4. PICK v \in Solvable : \A w \in Solvable : v <= w
  BY <1>3, LeastExists
<1>5. v = 0
  <2>. SUFFICES ASSUME v # 0 PROVE FALSE
    OBVIOUS
  <2>1. PICK w \in Nat : v = w + 1 /\ w \in 0 .. N
    <3>1. v - 1 \in Nat /\ v = (v - 1) + 1 /\ v - 1 \in 0 .. N
      BY <1>2, <1>4, NAssumption
    <3>. QED
      BY <3>1
  <2>2. PICK f : SolvedFrom(c, f, w + 1)
    BY <1>2, <1>4, <2>1
  <2>3. w \in Solvable
    BY <1>2, <2>1, <2>2, SolveMore
  <2>4. v <= w
    BY <1>4, <2>3
  <2>. QED
    BY <2>1, <2>4
<1>6. PICK f : SolvedFrom(c, f, 0)
  BY <1>2, <1>4, <1>5
<1>7. \A F \in Fns : FreeUpTo(F, 0)
  BY NAssumption DEF FreeUpTo, Vars
<1>8. Solves(c, f)
  BY <1>6, <1>7 DEF Solves, SolvedFrom
<1>. QED
  BY <1>8

-----------------------------------------------------------------------------
(* The decision: dropping a dearest child keeps the least sum of two.       *)
MinSum(a, b, c) == CHOOSE s \in {a + b, a + c, b + c} : \A t \in {a + b, a + c, b + c} : s <= t

IsLeastSum(s, a, b, c) ==
  /\ s = a + b \/ s = a + c \/ s = b + c
  /\ s <= a + b /\ s <= a + c /\ s <= b + c

LEMMA MinSumLeast ==
  ASSUME NEW a \in Nat, NEW b \in Nat, NEW c \in Nat, NEW s \in Nat, IsLeastSum(s, a, b, c)
  PROVE  MinSum(a, b, c) = s
<1>1. PICK Sums : Sums = {a + b, a + c, b + c}
  OBVIOUS
<1>2. Sums \subseteq Nat /\ s \in Sums /\ \A t \in Sums : s <= t
  BY <1>1 DEF IsLeastSum
<1>3. MinSum(a, b, c) = CHOOSE x \in Sums : \A t \in Sums : x <= t
  BY <1>1 DEF MinSum
<1>4. PICK x : x = CHOOSE y \in Sums : \A t \in Sums : y <= t
  OBVIOUS
<1>5. x \in Sums /\ \A t \in Sums : x <= t
  BY <1>2, <1>4
<1>6. x <= s /\ s <= x /\ x \in Nat /\ s \in Nat
  BY <1>2, <1>5
<1>. QED
  BY <1>3, <1>4, <1>6

(* Dropping a dearest child, whichever is preferred.                        *)
LEMMA DroppingKeepsLeast ==
  ASSUME NEW c, c[1] \in Nat, c[2] \in Nat, c[3] \in Nat, NEW d \in Children, NEW e,
         e = ExpDropping(Dropped(c, d))
  PROVE  e \in ExpTypes /\ KeptCost(c, e) = MinSum(c[1], c[2], c[3])
<1>0. PICK x \in Nat, y \in Nat, z \in Nat : x = c[1] /\ y = c[2] /\ z = c[3]
  OBVIOUS
<1>1. PICK i : i = Dropped(c, d)
  OBVIOUS
<1>2. i \in Dearest(c)
  <2>1. 0 \in Dearest(c) \/ 1 \in Dearest(c) \/ 2 \in Dearest(c)
    BY DEF Dearest, Children
  <2>. QED
    BY <1>1, <2>1 DEF Dropped
<1>3. e = ExpDropping(i)
  BY <1>1
<1>4. ExpDropping(0) = "nD" /\ ExpDropping(1) = "pD" /\ ExpDropping(2) = "Sh"
  BY DEF ExpDropping
<1>5. CASE i = 0
  <2>1. e = "nD" /\ c[2] <= c[1] /\ c[3] <= c[1]
    BY <1>2, <1>3, <1>4, <1>5 DEF Dearest, Children
  <2>2. KeptCost(c, e) = c[2] + c[3] /\ e \in ExpTypes
    BY <2>1 DEF KeptCost, ExpTypes
  <2>3. PICK s \in Nat : s = y + z
    BY <1>0
  <2>4. IsLeastSum(s, x, y, z)
    BY <1>0, <2>1, <2>3 DEF IsLeastSum
  <2>5. MinSum(x, y, z) = s
    BY <2>4, MinSumLeast
  <2>. QED
    BY <1>0, <2>2, <2>3, <2>5
<1>6. CASE i = 1
  <2>1. e = "pD" /\ c[1] <= c[2] /\ c[3] <= c[2]
    BY <1>2, <1>3, <1>4, <1>6 DEF Dearest, Children
  <2>2. KeptCost(c, e) = c[1] + c[3] /\ e \in ExpTypes
    BY <2>1 DEF KeptCost, ExpTypes
  <2>3. PICK s \in Nat : s = x + z
    BY <1>0
  <2>4. IsLeastSum(s, x, y, z)
    BY <1>0, <2>1, <2>3 DEF IsLeastSum
  <2>5. MinSum(x, y, z) = s
    BY <2>4, MinSumLeast
  <2>. QED
    BY <1>0, <2>2, <2>3, <2>5
<1>7. CASE i = 2
  <2>1. e = "Sh" /\ c[1] <= c[3] /\ c[2] <= c[3]
    BY <1>2, <1>3, <1>4, <1>7 DEF Dearest, Children
  <2>2. KeptCost(c, e) = c[1] + c[2] /\ e \in ExpTypes
    BY <2>1 DEF KeptCost, ExpTypes
  <2>3. PICK s \in Nat : s = x + y
    BY <1>0
  <2>4. IsLeastSum(s, x, y, z)
    BY <1>0, <2>1, <2>3 DEF IsLeastSum
  <2>5. MinSum(x, y, z) = s
    BY <2>4, MinSumLeast
  <2>. QED
    BY <1>0, <2>2, <2>3, <2>5
<1>. QED
  BY <1>2, <1>5, <1>6, <1>7 DEF Dearest, Children

-----------------------------------------------------------------------------
(* OptCost is the solution of its recursion.                                *)
OptRule ==
  [F \in Fns |-> [t \in Triples |->
     IF F = Zero THEN 0 ELSE IF F = One THEN 1 ELSE MinSum(t[1], t[2], t[3])]]

LEMMA MinSumType == ASSUME NEW a \in Nat, NEW b \in Nat, NEW c \in Nat PROVE MinSum(a, b, c) \in Nat
<1>1. PICK s \in Nat : IsLeastSum(s, a, b, c)
  <2>1. CASE a + b <= a + c /\ a + b <= b + c
    <3>1. PICK s \in Nat : s = a + b
      OBVIOUS
    <3>. QED
      BY <2>1, <3>1 DEF IsLeastSum
  <2>2. CASE a + c <= a + b /\ a + c <= b + c
    <3>1. PICK s \in Nat : s = a + c
      OBVIOUS
    <3>. QED
      BY <2>2, <3>1 DEF IsLeastSum
  <2>3. CASE b + c <= a + b /\ b + c <= a + c
    <3>1. PICK s \in Nat : s = b + c
      OBVIOUS
    <3>. QED
      BY <2>3, <3>1 DEF IsLeastSum
  <2>. QED
    BY <2>1, <2>2, <2>3
<1>. QED
  BY <1>1, MinSumLeast

LEMMA OptRuleIsRule == IsRule(OptRule)
<1>1. \A t \in Triples : MinSum(t[1], t[2], t[3]) \in Nat
  BY MinSumType DEF Triples
<1>. QED
  BY <1>1 DEF IsRule, OptRule, IsConstant

(* The body of OptCost, with the function it recurses on as a parameter.    *)
OptCostBody(f, F) ==
  IF F = Zero THEN 0 ELSE IF F = One THEN 1
  ELSE LET c == <<f[E0(F)], f[T1(F)], f[X2(F)]>>
           sums == {c[1] + c[2], c[1] + c[3], c[2] + c[3]}
       IN  CHOOSE s \in sums : \A t \in sums : s <= t

CostFrom(f, F) ==
  IF F = Zero THEN 0 ELSE IF F = One THEN 1
  ELSE MinSum(f[E0(F)], f[T1(F)], f[X2(F)])

LEMMA OptCostIs == OptCost = [F \in Fns |-> CostFrom(OptCost, F)]
<1>1. \A f, F : OptCostBody(f, F) = CostFrom(f, F)
  BY DEF OptCostBody, CostFrom, MinSum
<1>2. PICK f : Solves(OptRule, f)
  BY OptRuleIsRule, SolutionExists
<1>3. ASSUME NEW F \in Fns PROVE f[F] = OptCostBody(f, F)
  <2>1. f[F] = OptRule[F][ChildCosts(f, F)] /\ ChildCosts(f, F) \in Triples
    BY <1>2, ChildCostsType DEF Solves
  <2>2. OptRule[F][ChildCosts(f, F)] = CostFrom(f, F)
    BY <2>1 DEF OptRule, ChildCosts, CostFrom
  <2>. QED
    BY <1>1, <2>1, <2>2
<1>4. f = [F \in Fns |-> OptCostBody(f, F)]
  BY <1>2, <1>3 DEF Solves
<1>5. OptCost = CHOOSE g : g = [F \in Fns |-> OptCostBody(g, F)]
  BY DEF OptCost, OptCostBody
<1>6. OptCost = [F \in Fns |-> OptCostBody(OptCost, F)]
  BY <1>4, <1>5
<1>. QED
  BY <1>1, <1>6

LEMMA OptCostConstant == OptCost[Zero] = 0 /\ OptCost[One] = 1
<1>1. Zero \in Fns /\ One \in Fns /\ One # Zero
  <2>1. {} \in Minterms
    BY DEF Minterms
  <2>. QED
    BY <2>1 DEF Zero, One, Fns
<1>2. CostFrom(OptCost, Zero) = 0 /\ CostFrom(OptCost, One) = 1
  BY <1>1 DEF CostFrom
<1>3. \A F \in Fns : OptCost[F] = CostFrom(OptCost, F)
  BY OptCostIs
<1>. QED
  BY <1>1, <1>2, <1>3

LEMMA OptCostInner ==
  ASSUME NEW F \in Fns, ~IsConstant(F)
  PROVE  OptCost[F] = MinSum(OptCost[E0(F)], OptCost[T1(F)], OptCost[X2(F)])
<1>1. CostFrom(OptCost, F) = MinSum(OptCost[E0(F)], OptCost[T1(F)], OptCost[X2(F)])
  BY DEF CostFrom, IsConstant
<1>2. \A G \in Fns : OptCost[G] = CostFrom(OptCost, G)
  BY OptCostIs
<1>. QED
  BY <1>1, <1>2

LEMMA OptCostType == \A F \in Fns : OptCost[F] \in Nat
<1>. DEFINE S == {F \in Fns : OptCost[F] \in Nat}
<1>1. \A F \in Fns : IsConstant(F) => F \in S
  BY OptCostConstant DEF IsConstant
<1>2. ASSUME NEW F \in Fns, ~IsConstant(F), \A i \in Children : Child(F, i) \in S
      PROVE  F \in S
  <2>1. OptCost[E0(F)] \in Nat /\ OptCost[T1(F)] \in Nat /\ OptCost[X2(F)] \in Nat
    BY <1>2, ChildCases
  <2>2. OptCost[F] \in Nat
    BY <1>2, <2>1, OptCostInner, MinSumType
  <2>. QED
    BY <2>2
<1>3. Fns \subseteq S
  <2>. HIDE DEF S
  <2>. QED
    BY <1>1, <1>2, BottomUp
<1>. QED
  BY <1>3

(* The cost functions that a walk may spend: they split at the expansions.  *)
IsCost(w) == w \in [Fns -> Nat] /\ w[Zero] = 0 /\ w[One] = 1

Splits(w, F, e) ==
  w[F] = w[FirstChild(F, TopVar(F), e)] + w[SecondChild(F, TopVar(F), e)]

LEMMA OptCostIsCost == IsCost(OptCost)
<1>1. OptCost = [F \in Fns |-> OptCost[F]]
  BY OptCostIs
<1>. QED
  BY <1>1, OptCostType, OptCostConstant DEF IsCost

LEMMA KeptSplits ==
  ASSUME NEW w, NEW F \in Fns, NEW c, NEW e \in ExpTypes,
         c[1] = w[Child(F, 0)], c[2] = w[Child(F, 1)], c[3] = w[Child(F, 2)],
         w[F] = KeptCost(c, e)
  PROVE  Splits(w, F, e)
<1>1. c[1] = w[E0(F)] /\ c[2] = w[T1(F)] /\ c[3] = w[X2(F)]
  BY ChildCases
<1>2. CASE e = "nD"
  <2>1. FirstChild(F, TopVar(F), e) = T1(F) /\ SecondChild(F, TopVar(F), e) = X2(F)
    BY <1>2 DEF FirstChild, SecondChild, E0, T1, X2
  <2>2. KeptCost(c, e) = c[2] + c[3]
    BY <1>2 DEF KeptCost
  <2>. QED
    BY <1>1, <2>1, <2>2 DEF Splits
<1>3. CASE e = "pD"
  <2>1. FirstChild(F, TopVar(F), e) = E0(F) /\ SecondChild(F, TopVar(F), e) = X2(F)
    BY <1>3 DEF FirstChild, SecondChild, E0, T1, X2
  <2>2. KeptCost(c, e) = c[1] + c[3]
    BY <1>3 DEF KeptCost
  <2>. QED
    BY <1>1, <2>1, <2>2 DEF Splits
<1>4. CASE e = "Sh"
  <2>1. FirstChild(F, TopVar(F), e) = E0(F) /\ SecondChild(F, TopVar(F), e) = T1(F)
    BY <1>4 DEF FirstChild, SecondChild, E0, T1
  <2>2. KeptCost(c, e) = c[1] + c[2]
    BY <1>4 DEF KeptCost
  <2>. QED
    BY <1>1, <2>1, <2>2 DEF Splits
<1>. QED
  BY <1>2, <1>3, <1>4 DEF ExpTypes

(* A search that knows the least costs of the three children finds that of  *)
(* the function, and an expansion that attains it.                          *)
LEMMA DecisionIsLeast ==
  ASSUME NEW F \in Fns, ~IsConstant(F), NEW c, NEW d \in Children, NEW e,
         c[1] = OptCost[Child(F, 0)], c[2] = OptCost[Child(F, 1)], c[3] = OptCost[Child(F, 2)],
         e = ExpDropping(Dropped(c, d))
  PROVE  KeptCost(c, e) = OptCost[F] /\ Splits(OptCost, F, e)
<1>1. c[1] = OptCost[E0(F)] /\ c[2] = OptCost[T1(F)] /\ c[3] = OptCost[X2(F)]
  BY ChildCases
<1>2. c[1] \in Nat /\ c[2] \in Nat /\ c[3] \in Nat
  BY <1>1, CofactorTypes, OptCostType
<1>3. e \in ExpTypes /\ KeptCost(c, e) = MinSum(c[1], c[2], c[3])
  BY <1>2, DroppingKeepsLeast
<1>4. KeptCost(c, e) = OptCost[F]
  BY <1>1, <1>3, OptCostInner
<1>. QED
  BY <1>3, <1>4, KeptSplits

-----------------------------------------------------------------------------
(* The ledger of a walk: l cubes are emitted, the k-th of n open activations *)
(* still owes o[k], the call that runs will cost d; together they are the   *)
(* total.  b[k] is what the k outermost activations owe.                    *)
AddsUp(o, b, n) ==
  /\ b[0] = 0
  /\ \A k \in 0 .. n : b[k] \in Nat
  /\ \A k \in 1 .. n : b[k] = b[k - 1] + o[k]

Ledger(o, n, l, d, total) == \E b : AddsUp(o, b, n) /\ l + b[n] + d = total

LEMMA LedgerStart == ASSUME NEW o, NEW d \in Nat PROVE Ledger(o, 0, 0, d, d)
<1>1. PICK b : b = [k \in 0 .. 0 |-> 0]
  OBVIOUS
<1>2. AddsUp(o, b, 0) /\ b[0] = 0
  BY <1>1 DEF AddsUp
<1>3. 0 + b[0] + d = d
  BY <1>2
<1>. QED
  BY <1>2, <1>3 DEF Ledger

LEMMA LedgerEnd ==
  ASSUME NEW o, NEW l \in Nat, NEW total, Ledger(o, 0, l, 0, total)
  PROVE  l = total
<1>1. PICK b : AddsUp(o, b, 0) /\ l + b[0] + 0 = total
  BY DEF Ledger
<1>2. b[0] = 0
  BY <1>1 DEF AddsUp
<1>. QED
  BY <1>1, <1>2

LEMMA AddsUpPush ==
  ASSUME NEW o, NEW b, NEW n \in Nat, AddsUp(o, b, n), NEW p, NEW x \in Nat,
         p[n + 1] = x, \A k \in 1 .. n : p[k] = o[k]
  PROVE  \E c : AddsUp(p, c, n + 1) /\ c[n + 1] = b[n] + x
<1>1. PICK y \in Nat : y = b[n]
  BY DEF AddsUp
<1>2. PICK c : c = [k \in 0 .. n + 1 |-> IF k = n + 1 THEN y + x ELSE b[k]]
  OBVIOUS
<1>3. c[n + 1] = y + x /\ \A k \in 0 .. n : c[k] = b[k]
  BY <1>2
<1>4. c[0] = 0
  BY <1>3 DEF AddsUp
<1>5. ASSUME NEW k \in 0 .. n + 1 PROVE c[k] \in Nat
  <2>1. k = n + 1 \/ k \in 0 .. n
    OBVIOUS
  <2>. QED
    BY <2>1, <1>3 DEF AddsUp
<1>6. ASSUME NEW k \in 1 .. n + 1 PROVE c[k] = c[k - 1] + p[k]
  <2>1. CASE k = n + 1
    <3>1. k - 1 = n /\ n \in 0 .. n
      BY <2>1
    <3>. QED
      BY <1>1, <1>3, <2>1, <3>1
  <2>2. CASE k \in 1 .. n
    <3>1. k \in 0 .. n /\ k - 1 \in 0 .. n
      BY <2>2
    <3>. QED
      BY <1>3, <2>2, <3>1 DEF AddsUp
  <2>3. k = n + 1 \/ k \in 1 .. n
    OBVIOUS
  <2>. QED
    BY <2>1, <2>2, <2>3
<1>7. AddsUp(p, c, n + 1)
  BY <1>4, <1>5, <1>6 DEF AddsUp
<1>. QED
  BY <1>1, <1>3, <1>7

LEMMA AddsUpPop ==
  ASSUME NEW o, NEW b, NEW n \in Nat, AddsUp(o, b, n + 1), NEW p, \A k \in 1 .. n : p[k] = o[k]
  PROVE  AddsUp(p, b, n) /\ b[n] \in Nat /\ b[n + 1] = b[n] + o[n + 1]
<1>1. \A k \in 0 .. n : k \in 0 .. n + 1
  OBVIOUS
<1>2. \A k \in 1 .. n : k \in 1 .. n + 1
  OBVIOUS
<1>3. n + 1 \in 1 .. n + 1 /\ (n + 1) - 1 = n /\ n \in 0 .. n + 1
  OBVIOUS
<1>4. AddsUp(p, b, n)
  BY <1>1, <1>2 DEF AddsUp
<1>. QED
  BY <1>3, <1>4 DEF AddsUp

(* A call opens an activation: of its cost d it goes on with x and owes y.  *)
LEMMA LedgerPush ==
  ASSUME NEW o, NEW p, NEW n \in Nat, NEW l \in Nat, NEW d, NEW total, NEW x \in Nat, NEW y \in Nat,
         Ledger(o, n, l, d, total), d = x + y, p[n + 1] = y, \A k \in 1 .. n : p[k] = o[k]
  PROVE  Ledger(p, n + 1, l, x, total)
<1>1. PICK b : AddsUp(o, b, n) /\ l + b[n] + d = total
  BY DEF Ledger
<1>2. PICK z \in Nat : z = b[n]
  BY <1>1 DEF AddsUp
<1>3. PICK c : AddsUp(p, c, n + 1) /\ c[n + 1] = b[n] + y
  BY <1>1, AddsUpPush
<1>4. l + (z + y) + x = l + z + (x + y)
  OBVIOUS
<1>5. l + c[n + 1] + x = total
  BY <1>1, <1>2, <1>3, <1>4
<1>. QED
  BY <1>3, <1>5 DEF Ledger

(* The innermost activation pays what it owes: a call of that cost runs.    *)
LEMMA LedgerTurn ==
  ASSUME NEW o, NEW p, NEW n \in Nat, NEW l \in Nat, NEW total, NEW x \in Nat,
         Ledger(o, n + 1, l, 0, total), o[n + 1] = x, p[n + 1] = 0,
         \A k \in 1 .. n : p[k] = o[k]
  PROVE  Ledger(p, n + 1, l, x, total)
<1>1. PICK b : AddsUp(o, b, n + 1) /\ l + b[n + 1] + 0 = total
  BY DEF Ledger
<1>2. AddsUp(p, b, n) /\ b[n] \in Nat /\ b[n + 1] = b[n] + x
  BY <1>1, AddsUpPop
<1>3. PICK z \in Nat : z = b[n]
  BY <1>2
<1>4. PICK q : q = 0 /\ q \in Nat
  OBVIOUS
<1>5. PICK c : AddsUp(p, c, n + 1) /\ c[n + 1] = b[n] + q
  BY <1>2, <1>4, AddsUpPush
<1>6. l + (z + 0) + x = l + (z + x) + 0
  OBVIOUS
<1>7. l + c[n + 1] + x = total
  BY <1>1, <1>2, <1>3, <1>4, <1>5, <1>6
<1>. QED
  BY <1>5, <1>7 DEF Ledger

(* An activation that owes nothing is closed.                               *)
LEMMA LedgerPop ==
  ASSUME NEW o, NEW p, NEW n \in Nat, NEW l, NEW d, NEW total,
         Ledger(o, n + 1, l, d, total), o[n + 1] = 0, \A k \in 1 .. n : p[k] = o[k]
  PROVE  Ledger(p, n, l, d, total)
<1>1. PICK b : AddsUp(o, b, n + 1) /\ l + b[n + 1] + d = total
  BY DEF Ledger
<1>2. AddsUp(p, b, n) /\ b[n] \in Nat /\ b[n + 1] = b[n] + 0
  BY <1>1, AddsUpPop
<1>3. b[n + 1] = b[n]
  BY <1>2
<1>. QED
  BY <1>1, <1>2, <1>3 DEF Ledger

(* A call returns at once: the cubes it cost are emitted.                   *)
LEMMA LedgerEmit ==
  ASSUME NEW o, NEW n \in Nat, NEW l \in Nat, NEW d \in Nat, NEW total,
         Ledger(o, n, l, d, total), NEW m, m = l + d
  PROVE  Ledger(o, n, m, 0, total)
<1>1. PICK b : AddsUp(o, b, n) /\ l + b[n] + d = total
  BY DEF Ledger
<1>2. PICK z \in Nat : z = b[n]
  BY <1>1 DEF AddsUp
<1>3. m + z + 0 = l + z + d
  OBVIOUS
<1>4. m + b[n] + 0 = total
  BY <1>1, <1>2, <1>3
<1>. QED
  BY <1>1, <1>4 DEF Ledger

-----------------------------------------------------------------------------
(* The ledger of the walk of Psdkro, with the cost function w.              *)
Owed(w) ==
  [k \in 1 .. Len(stack) |->
     IF stack[k].half = 1 THEN w[SecondChild(stack[k].f, stack[k].var, stack[k].exp)] ELSE 0]
Due(w) == IF pc = "call" THEN w[arg] ELSE 0
CostLedger(w) == Ledger(Owed(w), Len(stack), Len(esop), Due(w), w[root])

LEMMA CostLedgerInit == ASSUME NEW w, IsCost(w), GInit PROVE CostLedger(w)
<1>1. Len(stack) = 0 /\ Len(esop) = 0 /\ Due(w) = w[root] /\ w[root] \in Nat
  BY EmptySeq, RootsAssumption DEF GInit, Due, IsCost
<1>2. PICK o, d : o = Owed(w) /\ d = w[root] /\ d \in Nat
  BY <1>1
<1>3. Ledger(o, 0, 0, d, d)
  BY <1>2, LedgerStart
<1>. QED
  BY <1>1, <1>2, <1>3 DEF CostLedger

LEMMA CostLedgerEnter ==
  ASSUME NEW w, IsCost(w), GTypeOK, CostLedger(w), ~IsConstant(arg), NEW e \in ExpTypes,
         GenEnter(TopVar(arg), e), Splits(w, arg, e)
  PROVE  CostLedger(w)'
<1>1. PICK n \in Nat, F \in Fns : n = Len(stack) /\ F = arg
  BY StackFrames DEF GTypeOK
<1>2. PICK fr : fr = [f |-> F, var |-> TopVar(F), exp |-> e, half |-> 1]
  OBVIOUS
<1>3. fr \in Frames
  BY <1>1, <1>2, TopVarProperties DEF Frames
<1>4. Len(stack') = n + 1 /\ stack'[n + 1] = fr /\ \A k \in 1 .. n : stack'[k] = stack[k]
  <2>1. stack' = Append(stack, fr) /\ stack \in Seq(Frames)
    BY <1>1, <1>2 DEF GenEnter, GTypeOK
  <2>. QED
    BY <1>1, <1>3, <2>1, AppendFacts
<1>5. PICK x \in Nat, y \in Nat :
        x = w[FirstChild(F, TopVar(F), e)] /\ y = w[SecondChild(F, TopVar(F), e)]
  BY ChildTypes DEF IsCost
<1>6. PICK o, p, l, d, total :
        /\ o = Owed(w) /\ p = Owed(w)' /\ l = Len(esop) /\ d = Due(w) /\ total = w[root]
        /\ l \in Nat
  BY LenProperties DEF GTypeOK
<1>7. Ledger(o, n, l, d, total)
  BY <1>1, <1>6 DEF CostLedger
<1>8. d = x + y
  BY <1>1, <1>5, <1>6 DEF GenEnter, Due, Splits
<1>9. p[n + 1] = y
  BY <1>2, <1>4, <1>5, <1>6 DEF Owed
<1>10. \A k \in 1 .. n : p[k] = o[k]
  <2>1. \A k \in 1 .. n : k \in 1 .. n + 1
    OBVIOUS
  <2>. QED
    BY <1>1, <1>4, <1>6, <2>1 DEF Owed
<1>11. Ledger(p, n + 1, l, x, total)
  BY <1>6, <1>7, <1>8, <1>9, <1>10, LedgerPush
<1>12. Due(w)' = x /\ esop' = esop /\ root' = root
  BY <1>1, <1>5 DEF GenEnter, Due
<1>. QED
  BY <1>4, <1>6, <1>11, <1>12 DEF CostLedger

LEMMA CostLedgerSecond ==
  ASSUME NEW w, IsCost(w), GTypeOK, CostLedger(w), GenSecond
  PROVE  CostLedger(w)'
<1>1. Len(stack) \in Nat \ {0} /\ Top = stack[Len(stack)] /\ Top \in Frames /\ Top.half = 1
  BY TopFacts DEF GenSecond
<1>2. PICK n \in Nat : n + 1 = Len(stack)
  <2>1. Len(stack) - 1 \in Nat /\ (Len(stack) - 1) + 1 = Len(stack)
    BY <1>1
  <2>. QED
    BY <2>1
<1>3. PICK fr : fr = [Top EXCEPT !.half = 2]
  OBVIOUS
<1>4. fr.half = 2
  BY <1>1, <1>3 DEF Frames
<1>5. n + 1 \in 1 .. n + 1
  OBVIOUS
<1>6. Len(stack') = n + 1 /\ stack'[n + 1] = fr /\ \A k \in 1 .. n : stack'[k] = stack[k]
  <2>1. stack' = [stack EXCEPT ![n + 1] = fr]
    BY <1>2, <1>3 DEF GenSecond, Top
  <2>. QED
    BY <1>2, <1>5, <2>1 DEF GTypeOK
<1>7. PICK x \in Nat : x = w[SecondChild(Top.f, Top.var, Top.exp)]
  BY <1>1, ChildTypes DEF Frames, IsCost
<1>8. PICK o, p, l, total :
        o = Owed(w) /\ p = Owed(w)' /\ l = Len(esop) /\ total = w[root] /\ l \in Nat
  BY LenProperties DEF GTypeOK
<1>9. Ledger(o, n + 1, l, 0, total)
  BY <1>2, <1>8 DEF CostLedger, GenSecond, Due
<1>10. o[n + 1] = x
  BY <1>1, <1>2, <1>5, <1>7, <1>8 DEF Owed
<1>11. p[n + 1] = 0
  BY <1>4, <1>5, <1>6, <1>8 DEF Owed
<1>12. \A k \in 1 .. n : p[k] = o[k]
  <2>1. \A k \in 1 .. n : k \in 1 .. n + 1
    OBVIOUS
  <2>. QED
    BY <1>2, <1>6, <1>8, <2>1 DEF Owed
<1>13. Ledger(p, n + 1, l, x, total)
  BY <1>8, <1>9, <1>10, <1>11, <1>12, LedgerTurn
<1>14. Due(w)' = x /\ esop' = esop /\ root' = root
  BY <1>7 DEF GenSecond, Due
<1>. QED
  BY <1>6, <1>8, <1>13, <1>14 DEF CostLedger

LEMMA CostLedgerLeave ==
  ASSUME NEW w, GTypeOK, CostLedger(w), GenLeave
  PROVE  CostLedger(w)'
<1>1. Len(stack) \in Nat \ {0} /\ Top = stack[Len(stack)] /\ Top.half = 2
  BY TopFacts DEF GenLeave
<1>2. PICK n \in Nat : n + 1 = Len(stack)
  <2>1. Len(stack) - 1 \in Nat /\ (Len(stack) - 1) + 1 = Len(stack)
    BY <1>1
  <2>. QED
    BY <2>1
<1>3. Len(stack') = n /\ \A k \in 1 .. n : stack'[k] = stack[k]
  <2>1. /\ Len(Pop(stack)) = Len(stack) - 1
        /\ \A k \in 1 .. Len(stack) - 1 : Pop(stack)[k] = stack[k]
    BY PopProperties DEF GenLeave, GTypeOK
  <2>2. stack' = Pop(stack) /\ Len(stack) - 1 = n
    BY <1>1, <1>2 DEF GenLeave
  <2>. QED
    BY <2>1, <2>2
<1>4. PICK o, p, l, d, total :
        /\ o = Owed(w) /\ p = Owed(w)' /\ l = Len(esop) /\ d = Due(w) /\ total = w[root]
  OBVIOUS
<1>5. Ledger(o, n + 1, l, d, total)
  BY <1>2, <1>4 DEF CostLedger
<1>6. o[n + 1] = 0
  <2>1. n + 1 \in 1 .. n + 1
    OBVIOUS
  <2>. QED
    BY <1>1, <1>2, <1>4, <2>1 DEF Owed
<1>7. \A k \in 1 .. n : p[k] = o[k]
  <2>1. \A k \in 1 .. n : k \in 1 .. n + 1
    OBVIOUS
  <2>. QED
    BY <1>2, <1>3, <1>4, <2>1 DEF Owed
<1>8. Ledger(p, n, l, d, total)
  BY <1>5, <1>6, <1>7, LedgerPop
<1>9. Due(w)' = Due(w) /\ esop' = esop /\ root' = root
  BY DEF GenLeave, Due
<1>. QED
  BY <1>3, <1>4, <1>8, <1>9 DEF CostLedger

LEMMA CostLedgerConstant ==
  ASSUME NEW w, IsCost(w), GTypeOK, CostLedger(w), GenZero \/ GenOne
  PROVE  CostLedger(w)'
<1>1. PICK n, o, l, d, total, m :
        /\ n \in Nat /\ l \in Nat /\ d \in Nat
        /\ n = Len(stack) /\ o = Owed(w) /\ l = Len(esop) /\ d = Due(w) /\ total = w[root]
        /\ m = Len(esop')
  BY StackFrames, LenProperties DEF GTypeOK, Due, IsCost
<1>2. Ledger(o, n, l, d, total)
  BY <1>1 DEF CostLedger
<1>3. m = l + d
  <2>1. CASE GenZero
    BY <1>1, <2>1 DEF GenZero, Due, IsCost
  <2>2. CASE GenOne
    <3>1. d = 1
      BY <1>1, <2>2 DEF GenOne, Due, IsCost
    <3>2. m = l + 1
      BY <1>1, <2>2, TrailCubeType, AppendFacts DEF GenOne, GTypeOK
    <3>. QED
      BY <3>1, <3>2
  <2>. QED
    BY <2>1, <2>2
<1>4. Ledger(o, n, m, 0, total)
  BY <1>1, <1>2, <1>3, LedgerEmit
<1>5. stack' = stack /\ root' = root /\ Due(w)' = 0
  BY DEF GenZero, GenOne, Due
<1>6. Owed(w)' = Owed(w)
  BY <1>5 DEF Owed
<1>. QED
  BY <1>1, <1>4, <1>5, <1>6 DEF CostLedger

(* So at the end as many cubes are emitted as the root costs.               *)
LEMMA CostLedgerEnd ==
  ASSUME NEW w, GTypeOK, CostLedger(w), GenDone
  PROVE  Len(esop) = w[root]
<1>1. Due(w) = 0 /\ Len(stack) = 0
  BY EmptySeq DEF GenDone, Due
<1>2. PICK o, l, total : o = Owed(w) /\ l = Len(esop) /\ l \in Nat /\ total = w[root]
  BY LenProperties DEF GTypeOK
<1>3. Ledger(o, 0, l, 0, total)
  BY <1>1, <1>2 DEF CostLedger
<1>. QED
  BY <1>2, <1>3, LedgerEnd
=============================================================================
