-------------------------- MODULE BddExtractProofs --------------------------
(***************************************************************************)
(* Proofs about bddextract, for every number of variables and every set of *)
(* roots: its types, that its second pass is a walk of Psdkro, so that its *)
(* ESOP realises the root, that no lookup of the second pass misses, and    *)
(* that the ESOP is minimal.                                               *)
(***************************************************************************)
EXTENDS BddExtract, PsdkroProofs

-----------------------------------------------------------------------------
(* Type correctness.                                                        *)
XFrames == [f : Fns, costs : Seq(Nat)]

SearchTypeOK ==
  /\ phase \in {"expand", "gen"}
  /\ DOMAIN hash \subseteq Fns
  /\ \A F \in DOMAIN hash : hash[F] \in [exp : ExpTypes, cost : Nat]
  /\ xpc \in {"call", "return"}
  /\ xarg \in Fns
  /\ xstack \in Seq(XFrames)
  /\ ret \in Nat

LEMMA TypeSplit == TypeOK <=> GTypeOK /\ SearchTypeOK
BY DEF TypeOK, SearchTypeOK, XFrames

LEMMA CheapestType ==
  ASSUME NEW c, c[1] \in Nat, c[2] \in Nat, c[3] \in Nat
  PROVE  Cheapest(c) \in [exp : ExpTypes, cost : Nat]
<1>1. Dropped(c, 0) \in Children
  BY DroppedIsChild DEF Children
<1>2. ExpDropping(Dropped(c, 0)) \in ExpTypes
  BY <1>1 DEF ExpDropping, Children, ExpTypes
<1>3. \A e \in ExpTypes : KeptCost(c, e) \in Nat
  BY DEF KeptCost, ExpTypes
<1>. QED
  BY <1>2, <1>3 DEF Cheapest

LEMMA ThreeCosts ==
  ASSUME NEW S, NEW s \in Seq(S), NEW x \in S
  PROVE  Len(s) = 2 =>
           Append(s, x)[1] \in S /\ Append(s, x)[2] \in S /\ Append(s, x)[3] \in S
<1>. DEFINE t == Append(s, x)
<1>1. t \in Seq(S) /\ Len(t) = Len(s) + 1
  BY AppendFacts
<1>. HIDE DEF t
<1>2. Len(s) = 2 => t[1] \in S /\ t[2] \in S /\ t[3] \in S
  BY <1>1, ElementOfSeq
<1>. QED
  BY <1>2 DEF t

LEMMA SearchTypeInit == ASSUME Init PROVE SearchTypeOK
BY RootsAssumption, EmptySeq DEF Init, GInit, SearchTypeOK, Fns

LEMMA SearchTypeStep ==
  ASSUME TypeOK, [Next]_bvars
  PROVE  SearchTypeOK'
<1>. USE TypeSplit
<1>1. CASE ExpandConstant
  BY <1>1 DEF ExpandConstant, SearchTypeOK
<1>2. CASE ExpandMemo
  BY <1>2 DEF ExpandMemo, SearchTypeOK
<1>3. CASE ExpandEnter
  <2>1. [f |-> xarg, costs |-> <<>>] \in XFrames
    BY EmptySeq DEF SearchTypeOK, XFrames
  <2>2. xstack' \in Seq(XFrames)
    BY <1>3, <2>1 DEF ExpandEnter, SearchTypeOK
  <2>3. xarg' \in Fns
    BY <1>3, CofactorTypes DEF ExpandEnter, Children
  <2>. QED
    BY <1>3, <2>2, <2>3 DEF ExpandEnter, SearchTypeOK
<1>4. CASE ExpandNext
  <2>1. Len(xstack) \in 1 .. Len(xstack) /\ XTop \in XFrames
    BY <1>4, PopProperties DEF SearchTypeOK, ExpandNext, XTop
  <2>2. XTop.f \in Fns /\ XTop.costs \in Seq(Nat) /\ Append(XTop.costs, ret) \in Seq(Nat)
    BY <2>1 DEF XFrames, SearchTypeOK
  <2>3. [XTop EXCEPT !.costs = Append(XTop.costs, ret)] \in XFrames
    BY <2>1, <2>2 DEF XFrames
  <2>4. xstack' = [xstack EXCEPT ![Len(xstack)] = [XTop EXCEPT !.costs = Append(XTop.costs, ret)]]
    BY <1>4 DEF ExpandNext, XTop
  <2>5. xstack' \in Seq(XFrames)
    BY <2>1, <2>3, <2>4, ExceptSeq DEF SearchTypeOK
  <2>6. Len(XTop.costs) + 1 \in Children
    BY <1>4, <2>2 DEF ExpandNext, Children
  <2>7. xarg' \in Fns
    BY <1>4, <2>6, CofactorTypes DEF ExpandNext
  <2>. QED
    BY <1>4, <2>5, <2>7 DEF ExpandNext, SearchTypeOK
<1>5. CASE ExpandStore
  <2>. DEFINE c == Append(XTop.costs, ret)
  <2>1. XTop \in XFrames
    BY <1>5, PopProperties DEF SearchTypeOK, ExpandStore, XTop
  <2>2. XTop.f \in Fns /\ XTop.costs \in Seq(Nat) /\ Len(XTop.costs) = 2
    BY <1>5, <2>1 DEF XFrames, ExpandStore
  <2>3. c[1] \in Nat /\ c[2] \in Nat /\ c[3] \in Nat
    BY <2>2, ThreeCosts, TypeSplit DEF SearchTypeOK
  <2>4. Cheapest(c) \in [exp : ExpTypes, cost : Nat]
    BY <2>3, CheapestType
  <2>5. hash' = Store(hash, XTop.f, Cheapest(c)) /\ ret' = Cheapest(c).cost
    BY <1>5 DEF ExpandStore
  <2>6. xstack' \in Seq(XFrames)
    BY <1>5, PopProperties DEF ExpandStore, SearchTypeOK
  <2>7. /\ DOMAIN hash' \subseteq Fns
        /\ \A F \in DOMAIN hash' : hash'[F] \in [exp : ExpTypes, cost : Nat]
    BY <2>2, <2>4, <2>5 DEF Store, SearchTypeOK
  <2>8. ret' \in Nat
    BY <2>4, <2>5
  <2>. QED
    BY <1>5, <2>6, <2>7, <2>8 DEF ExpandStore, SearchTypeOK
<1>6. CASE StartGen
  BY <1>6 DEF StartGen, SearchTypeOK
<1>7. CASE Gen
  BY <1>7 DEF Gen, xvars, SearchTypeOK
<1>8. CASE UNCHANGED bvars
  BY <1>8 DEF bvars, xvars, SearchTypeOK
<1>. QED
  BY <1>1, <1>2, <1>3, <1>4, <1>5, <1>6, <1>7, <1>8 DEF Next

-----------------------------------------------------------------------------
(* Every step of bddextract is a step of the walk or leaves it alone.       *)
LEMMA StepIsWalk ==
  ASSUME TypeOK, TrailMatchesStack, BelowTrail, [Next]_bvars
  PROVE  [GNext]_gvars
<1>1. CASE GenNode
  <2>1. pc = "call" /\ hash[arg].exp \in ExpTypes
    BY <1>1 DEF GenNode, GenEnter, TypeOK
  <2>2. TopVar(arg) \in Vars \ Trail
    BY <1>1, <2>1, TopVarNotOnTrail DEF GenNode, TypeOK
  <2>. QED
    BY <1>1, <2>1, <2>2 DEF GenNode, GNext
<1>2. CASE GenZero \/ GenOne \/ GenSecond \/ GenLeave
  BY <1>2 DEF GNext
<1>3. CASE UNCHANGED gvars
  BY <1>3
<1>4. CASE Gen
  BY <1>1, <1>2, <1>4 DEF Gen
<1>5. CASE ExpandConstant \/ ExpandMemo \/ ExpandEnter \/ ExpandNext \/ ExpandStore \/ StartGen
  <2>1. UNCHANGED gvars
    BY <1>5 DEF ExpandConstant, ExpandMemo, ExpandEnter, ExpandNext, ExpandStore, StartGen
  <2>. QED
    BY <2>1
<1>6. CASE UNCHANGED bvars
  BY <1>6 DEF bvars, gvars
<1>. QED
  BY <1>4, <1>5, <1>6 DEF Next

WalkInv == TypeOK /\ TrailMatchesStack /\ BelowTrail

LEMMA WalkInvInit == ASSUME Init PROVE WalkInv
<1>1. GInit
  BY DEF Init
<1>. QED
  BY <1>1, TypeInit, TrailInit, BelowInit, SearchTypeInit, TypeSplit DEF WalkInv

LEMMA WalkInvStep == ASSUME WalkInv, [Next]_bvars PROVE WalkInv'
<1>1. [GNext]_gvars
  BY StepIsWalk DEF WalkInv
<1>2. GTypeOK /\ SearchTypeOK
  BY TypeSplit DEF WalkInv
<1>3. GTypeOK' /\ TrailMatchesStack' /\ BelowTrail'
  BY <1>1, <1>2, TypeStep, TrailStep, BelowStep DEF WalkInv
<1>4. SearchTypeOK'
  BY SearchTypeStep DEF WalkInv
<1>5. TypeOK'
  BY <1>3, <1>4 DEF TypeOK, GTypeOK, SearchTypeOK, XFrames
<1>. QED
  BY <1>3, <1>5 DEF WalkInv

LEMMA WalkInvariant == Spec => []WalkInv
<1>1. WalkInv /\ [Next]_bvars => WalkInv'
  BY WalkInvStep
<1>. QED
  BY WalkInvInit, <1>1, PTL DEF Spec

(* The variables of bddextract keep their types.                            *)
THEOREM ExtractTypeCorrect == Spec => []TypeOK
<1>1. WalkInv => TypeOK
  BY DEF WalkInv
<1>. QED
  BY WalkInvariant, <1>1, PTL

(* bddextract implements the walk: whatever fullExpand decided, genPSDKRO   *)
(* takes steps that the abstract walk may take.                             *)
THEOREM Refinement == Spec => ImplementsPsdkro
<1>1. Init => GInit
  BY DEF Init
<1>2. WalkInv /\ [Next]_bvars => [GNext]_gvars
  BY StepIsWalk DEF WalkInv
<1>. QED
  BY <1>1, <1>2, WalkInvariant, PTL DEF Spec, GSpec, ImplementsPsdkro

(* So the ESOP that bddextract prints realises the function it was given.   *)
THEOREM ExtractCorrect == Spec => []EsopRealisesRoot
BY Refinement, EsopCorrect, PTL DEF ImplementsPsdkro

-----------------------------------------------------------------------------
(* No lookup misses.  The search may stop at a memoised function because    *)
(* the table is closed under children; it is closed because a frame is only *)
(* stored once its three children are known, and the cost a frame waits for *)
(* is that of the very child the search below it is at.                     *)
Known(F) == IsConstant(F) \/ F \in DOMAIN hash

Wanted(s, k) == IF k = 0 THEN root ELSE Child(s[k].f, Len(s[k].costs))

FrameKnown(fr) ==
  Len(fr.costs) \in Children /\ \A i \in Children : i < Len(fr.costs) => Known(Child(fr.f, i))

Chain(s) ==
  \A k \in 1 .. Len(s) : s[k].f = Wanted(s, k - 1) /\ FrameKnown(s[k])

SearchInv ==
  /\ MemoClosed
  /\ Chain(xstack)
  /\ xpc = "call" => xarg = Wanted(xstack, Len(xstack))
  /\ xpc = "return" => Known(Wanted(xstack, Len(xstack)))

GenInv ==
  /\ phase = "expand" => stack = <<>> /\ arg = root
  /\ phase = "gen" => /\ xstack = <<>>
                      /\ xpc = "return"
                      /\ pc = "call" => Known(arg)
                      /\ \A i \in 1 .. Len(stack) :
                           stack[i].f \in DOMAIN hash /\ stack[i].var = TopVar(stack[i].f)

LookupInv == WalkInv /\ SearchInv /\ GenInv

LEMMA ClosedMeans ==
  MemoClosed <=> \A F \in DOMAIN hash : \A i \in Children : Known(Child(F, i))
<1>1. ASSUME NEW F
      PROVE  (\A G \in {E0(F), T1(F), X2(F)} : IsConstant(G) \/ G \in DOMAIN hash)
               <=> \A i \in Children : Known(Child(F, i))
  BY ChildCases DEF Known
<1>. QED
  BY <1>1 DEF MemoClosed

(* The children that the walk visits are among the three of the search.     *)
LEMMA WalkChildren ==
  ASSUME NEW F, NEW e \in ExpTypes
  PROVE  /\ \E i \in Children : FirstChild(F, TopVar(F), e) = Child(F, i)
         /\ \E i \in Children : SecondChild(F, TopVar(F), e) = Child(F, i)
<1>1. FirstChild(F, TopVar(F), e) \in {E0(F), T1(F)}
  BY DEF FirstChild, E0, T1
<1>2. SecondChild(F, TopVar(F), e) \in {T1(F), X2(F)}
  BY DEF SecondChild, E0, T1, X2
<1>. QED
  BY <1>1, <1>2, ChildCases

LEMMA SearchFrames ==
  ASSUME TypeOK
  PROVE  /\ xstack \in Seq(XFrames)
         /\ Len(xstack) \in Nat
         /\ \A k \in 1 .. Len(xstack) : xstack[k] \in XFrames
<1>1. xstack \in Seq(XFrames)
  BY TypeSplit DEF SearchTypeOK
<1>. QED
  BY <1>1, ElementOfSeq, LenProperties

LEMMA LookupInit == ASSUME Init PROVE SearchInv /\ GenInv
<1>1. DOMAIN hash = {} /\ Len(xstack) = 0 /\ Len(stack) = 0
  BY EmptySeq DEF Init, GInit
<1>2. MemoClosed
  BY <1>1 DEF MemoClosed
<1>3. Chain(xstack)
  BY <1>1 DEF Chain
<1>. QED
  BY <1>1, <1>2, <1>3 DEF Init, GInit, SearchInv, GenInv, Wanted

LEMMA SearchEnter ==
  ASSUME TypeOK, SearchInv, ExpandEnter
  PROVE  SearchInv'
<1>1. PICK n \in Nat : n = Len(xstack)
  BY SearchFrames
<1>2. /\ Len(xstack') = n + 1
      /\ xstack'[n + 1] = [f |-> xarg, costs |-> <<>>]
      /\ \A k \in 1 .. n : xstack'[k] = xstack[k]
  <2>1. [f |-> xarg, costs |-> <<>>] \in XFrames
    BY TypeSplit, EmptySeq DEF XFrames, SearchTypeOK
  <2>. QED
    BY <1>1, <2>1, SearchFrames, AppendFacts DEF ExpandEnter
<1>3. hash' = hash /\ root' = root
  BY DEF ExpandEnter, gvars
<1>4. \A k \in 0 .. n : Wanted(xstack, k)' = Wanted(xstack, k)
  <2>1. \A k \in 0 .. n : k = 0 \/ k \in 1 .. n
    OBVIOUS
  <2>. QED
    BY <2>1, <1>2, <1>3 DEF Wanted
<1>5. ASSUME NEW k \in 1 .. n
      PROVE  (xstack[k].f = Wanted(xstack, k - 1) /\ FrameKnown(xstack[k]))'
  <2>1. xstack[k].f = Wanted(xstack, k - 1) /\ FrameKnown(xstack[k])
    BY <1>1 DEF SearchInv, Chain
  <2>2. k - 1 \in 0 .. n
    OBVIOUS
  <2>. QED
    BY <2>1, <2>2, <1>2, <1>3, <1>4 DEF FrameKnown, Known
<1>6. xstack'[n + 1].f = xarg /\ Len(xstack'[n + 1].costs) = 0
  BY <1>2, EmptySeq
<1>7. (xstack[n + 1].f = Wanted(xstack, n) /\ FrameKnown(xstack[n + 1]))'
  <2>1. xarg = Wanted(xstack, n)
    BY <1>1 DEF ExpandEnter, SearchInv
  <2>2. n \in 0 .. n
    OBVIOUS
  <2>. QED
    BY <2>1, <2>2, <1>4, <1>6 DEF FrameKnown, Children
<1>8. Chain(xstack)'
  <2>1. \A k \in 1 .. n + 1 : (k = n + 1 /\ k - 1 = n) \/ k \in 1 .. n
    OBVIOUS
  <2>. QED
    BY <2>1, <1>2, <1>5, <1>7 DEF Chain
<1>9. xarg' = Wanted(xstack, n + 1)'
  <2>1. n + 1 # 0
    OBVIOUS
  <2>2. xarg' = Child(xarg, 0)
    BY DEF ExpandEnter
  <2>. QED
    BY <2>1, <2>2, <1>6 DEF Wanted
<1>. QED
  BY <1>2, <1>3, <1>8, <1>9 DEF ExpandEnter, SearchInv, MemoClosed

LEMMA SearchNext ==
  ASSUME TypeOK, SearchInv, ExpandNext
  PROVE  SearchInv'
<1>1. /\ Len(xstack) \in Nat \ {0}
      /\ XTop = xstack[Len(xstack)]
      /\ XTop \in XFrames
  BY SearchFrames, PopProperties DEF ExpandNext, XTop
<1>2. PICK n \in Nat \ {0} : n = Len(xstack)
  BY <1>1
<1>3. PICK F : F = XTop.f
  OBVIOUS
<1>4. PICK m \in Nat : m = Len(XTop.costs)
  BY <1>1, LenProperties DEF XFrames
<1>5. m \in {0, 1}
  <2>1. m < 2
    BY <1>4 DEF ExpandNext
  <2>. QED
    BY <2>1
<1>6. /\ Len(xstack') = n
      /\ xstack'[n].f = F
      /\ Len(xstack'[n].costs) = m + 1
      /\ \A k \in 1 .. n - 1 : xstack'[k] = xstack[k]
  <2>1. XTop.costs \in Seq(Nat) /\ ret \in Nat
    BY <1>1, TypeSplit DEF XFrames, SearchTypeOK
  <2>2. Len(Append(XTop.costs, ret)) = m + 1
    BY <2>1, <1>4, AppendFacts
  <2>3. xstack' = [xstack EXCEPT ![n] = [XTop EXCEPT !.costs = Append(XTop.costs, ret)]]
    BY <1>2 DEF ExpandNext, XTop
  <2>4. \A fr \in XFrames : \A c :
          [fr EXCEPT !.costs = c].f = fr.f /\ [fr EXCEPT !.costs = c].costs = c
    BY DEF XFrames
  <2>. QED
    BY <2>2, <2>3, <2>4, <1>1, <1>2, <1>3, SearchFrames
<1>7. hash' = hash /\ root' = root
  BY DEF ExpandNext, gvars
<1>8. \A k \in 0 .. n - 1 : Wanted(xstack, k)' = Wanted(xstack, k)
  <2>1. \A k \in 0 .. n - 1 : k = 0 \/ k \in 1 .. n - 1
    OBVIOUS
  <2>. QED
    BY <2>1, <1>6, <1>7 DEF Wanted
<1>9. ASSUME NEW k \in 1 .. n - 1
      PROVE  (xstack[k].f = Wanted(xstack, k - 1) /\ FrameKnown(xstack[k]))'
  <2>1. k \in 1 .. n /\ k - 1 \in 0 .. n - 1
    OBVIOUS
  <2>2. xstack[k].f = Wanted(xstack, k - 1) /\ FrameKnown(xstack[k])
    BY <2>1, <1>2 DEF SearchInv, Chain
  <2>. QED
    BY <2>1, <2>2, <1>6, <1>7, <1>8 DEF FrameKnown, Known
<1>10. F = Wanted(xstack, n - 1) /\ FrameKnown(XTop)
  <2>1. n \in 1 .. n
    OBVIOUS
  <2>. QED
    BY <2>1, <1>1, <1>2, <1>3 DEF SearchInv, Chain
<1>11. (xstack[n].f = Wanted(xstack, n - 1))'
  <2>1. n - 1 \in 0 .. n - 1
    OBVIOUS
  <2>. QED
    BY <2>1, <1>6, <1>8, <1>10
<1>12. FrameKnown(xstack[n])'
  <2>1. Known(Child(F, m))
    BY <1>1, <1>2, <1>3, <1>4 DEF ExpandNext, SearchInv, Wanted
  <2>2. \A i \in Children : i < m => Known(Child(F, i))
    BY <1>3, <1>4, <1>10 DEF FrameKnown
  <2>3. \A i \in Children : i < m + 1 => i < m \/ i = m
    BY <1>5 DEF Children
  <2>4. m + 1 \in Children
    BY <1>5 DEF Children
  <2>5. \A i \in Children : i < m + 1 => Known(Child(F, i))'
    BY <2>1, <2>2, <2>3, <1>7 DEF Known
  <2>. QED
    BY <2>4, <2>5, <1>6 DEF FrameKnown
<1>13. Chain(xstack)'
  <2>1. \A k \in 1 .. n : k = n \/ k \in 1 .. n - 1
    OBVIOUS
  <2>. QED
    BY <2>1, <1>6, <1>9, <1>11, <1>12 DEF Chain
<1>14. xarg' = Wanted(xstack, n)'
  <2>1. xarg' = Child(F, m + 1)
    BY <1>3, <1>4 DEF ExpandNext
  <2>. QED
    BY <2>1, <1>6 DEF Wanted
<1>. QED
  BY <1>6, <1>7, <1>13, <1>14 DEF ExpandNext, SearchInv, MemoClosed

LEMMA SearchStore ==
  ASSUME TypeOK, SearchInv, ExpandStore
  PROVE  SearchInv' /\ DOMAIN hash \subseteq DOMAIN hash'
<1>1. Len(xstack) \in Nat \ {0} /\ XTop = xstack[Len(xstack)]
  BY SearchFrames, PopProperties DEF ExpandStore, XTop
<1>2. PICK n \in Nat \ {0} : n = Len(xstack)
  BY <1>1
<1>3. PICK F : F = XTop.f
  OBVIOUS
<1>4. Len(xstack') = n - 1 /\ \A k \in 1 .. n - 1 : xstack'[k] = xstack[k]
  BY <1>1, <1>2, SearchFrames, PopProperties DEF ExpandStore
<1>5. root' = root /\ DOMAIN hash' = DOMAIN hash \cup {F}
  BY <1>3 DEF ExpandStore, gvars, Store
<1>6. \A G : Known(G) => Known(G)'
  BY <1>5 DEF Known
<1>7. F = Wanted(xstack, n - 1) /\ FrameKnown(XTop)
  <2>1. n \in 1 .. n
    OBVIOUS
  <2>. QED
    BY <2>1, <1>1, <1>2, <1>3 DEF SearchInv, Chain
<1>8. \A i \in Children : Known(Child(F, i))
  <2>1. Len(XTop.costs) = 2 /\ Known(Child(F, 2))
    BY <1>1, <1>3 DEF ExpandStore, SearchInv, Wanted
  <2>2. \A i \in Children : i < 2 \/ i = 2
    BY DEF Children
  <2>. QED
    BY <2>1, <2>2, <1>3, <1>7 DEF FrameKnown
<1>9. MemoClosed'
  <2>1. \A G \in DOMAIN hash : \A i \in Children : Known(Child(G, i))
    BY ClosedMeans DEF SearchInv
  <2>2. \A G \in DOMAIN hash' : \A i \in Children : Known(Child(G, i))'
    BY <2>1, <1>5, <1>6, <1>8
  <2>. QED
    BY <2>2, ChildCases DEF MemoClosed, Known
<1>10. \A k \in 0 .. n - 1 : Wanted(xstack, k)' = Wanted(xstack, k)
  <2>1. \A k \in 0 .. n - 1 : k = 0 \/ k \in 1 .. n - 1
    OBVIOUS
  <2>. QED
    BY <2>1, <1>4, <1>5 DEF Wanted
<1>11. ASSUME NEW k \in 1 .. n - 1
       PROVE  (xstack[k].f = Wanted(xstack, k - 1) /\ FrameKnown(xstack[k]))'
  <2>1. k \in 1 .. n /\ k - 1 \in 0 .. n - 1
    OBVIOUS
  <2>2. xstack[k].f = Wanted(xstack, k - 1) /\ FrameKnown(xstack[k])
    BY <2>1, <1>2 DEF SearchInv, Chain
  <2>. QED
    BY <2>1, <2>2, <1>4, <1>6, <1>10 DEF FrameKnown
<1>12. Chain(xstack)'
  BY <1>4, <1>11 DEF Chain
<1>13. Known(Wanted(xstack, n - 1))'
  <2>1. n - 1 \in 0 .. n - 1
    OBVIOUS
  <2>2. Wanted(xstack, n - 1)' = F
    BY <2>1, <1>7, <1>10
  <2>. QED
    BY <2>2, <1>5 DEF Known
<1>. QED
  BY <1>4, <1>5, <1>9, <1>12, <1>13 DEF ExpandStore, SearchInv

LEMMA SearchStep ==
  ASSUME WalkInv, SearchInv, GenInv, [Next]_bvars
  PROVE  SearchInv' /\ DOMAIN hash \subseteq DOMAIN hash'
<1>0. TypeOK
  BY DEF WalkInv
<1>1. CASE ExpandConstant
  <2>1. /\ hash' = hash /\ root' = root /\ xstack' = xstack /\ xpc' = "return"
        /\ Known(Wanted(xstack, Len(xstack)))
    BY <1>1 DEF ExpandConstant, gvars, SearchInv, Known
  <2>. QED
    BY <2>1 DEF SearchInv, MemoClosed, Chain, FrameKnown, Known, Wanted
<1>2. CASE ExpandMemo
  <2>1. /\ hash' = hash /\ root' = root /\ xstack' = xstack /\ xpc' = "return"
        /\ Known(Wanted(xstack, Len(xstack)))
    BY <1>2 DEF ExpandMemo, gvars, SearchInv, Known
  <2>. QED
    BY <2>1 DEF SearchInv, MemoClosed, Chain, FrameKnown, Known, Wanted
<1>3. CASE ExpandEnter
  BY <1>0, <1>3, SearchEnter DEF ExpandEnter
<1>4. CASE ExpandNext
  BY <1>0, <1>4, SearchNext DEF ExpandNext
<1>5. CASE ExpandStore
  BY <1>0, <1>5, SearchStore
<1>6. CASE StartGen \/ Gen \/ UNCHANGED bvars
  <2>1. /\ hash' = hash /\ root' = root /\ xstack' = xstack /\ xpc' = xpc /\ xarg' = xarg
    BY <1>6 DEF StartGen, Gen, GenZero, GenOne, GenNode, GenEnter, GenSecond, GenLeave,
                gvars, xvars, bvars
  <2>. QED
    BY <2>1 DEF SearchInv, MemoClosed, Chain, FrameKnown, Known, Wanted
<1>. QED
  BY <1>1, <1>2, <1>3, <1>4, <1>5, <1>6 DEF Next

(* Nothing of the second pass moves while the first runs, and the reverse.  *)
LEMMA GenInvSearch ==
  ASSUME TypeOK, SearchInv, GenInv,
         ExpandConstant \/ ExpandMemo \/ ExpandEnter \/ ExpandNext \/ ExpandStore \/ StartGen
  PROVE  GenInv'
<1>1. UNCHANGED gvars
  BY DEF ExpandConstant, ExpandMemo, ExpandEnter, ExpandNext, ExpandStore, StartGen
<1>2. CASE StartGen
  <2>1. Len(stack) = 0 /\ Len(xstack) = 0 /\ arg = root
    BY <1>2, EmptySeq DEF StartGen, GenInv
  <2>2. Known(root)
    BY <1>2, <2>1 DEF StartGen, SearchInv, Wanted
  <2>. QED
    BY <1>1, <1>2, <2>1, <2>2 DEF StartGen, GenInv, Known, gvars
<1>3. CASE phase = "expand" /\ phase' = phase
  BY <1>1, <1>3 DEF GenInv, gvars
<1>4. CASE phase = "gen" /\ phase' = phase
  BY <1>4 DEF GenInv, ExpandConstant, ExpandMemo, ExpandEnter, ExpandNext, ExpandStore, StartGen
<1>5. phase \in {"expand", "gen"}
  BY DEF TypeOK
<1>. QED
  BY <1>2, <1>3, <1>4, <1>5
    DEF ExpandConstant, ExpandMemo, ExpandEnter, ExpandNext, ExpandStore

LEMMA GenInvNode ==
  ASSUME TypeOK, MemoClosed, GenInv, phase = "gen", GenNode, UNCHANGED xvars
  PROVE  GenInv'
<1>1. PICK n \in Nat : n = Len(stack)
  BY StackFrames DEF TypeOK
<1>2. hash' = hash /\ phase' = phase /\ xstack' = xstack /\ xpc' = xpc
  BY DEF xvars
<1>3. arg \in DOMAIN hash /\ hash[arg].exp \in ExpTypes
  BY DEF GenNode, TypeOK
<1>4. TopVar(arg) \in Vars
  BY TopVarProperties DEF GenNode, TypeOK, GTypeOK
<1>5. /\ Len(stack') = n + 1
      /\ stack'[n + 1].f = arg /\ stack'[n + 1].var = TopVar(arg)
      /\ \A i \in 1 .. n : stack'[i] = stack[i]
  <2>. DEFINE fr == [f |-> arg, var |-> TopVar(arg), exp |-> hash[arg].exp, half |-> 1]
  <2>1. fr \in Frames /\ stack \in Seq(Frames)
    BY <1>3, <1>4 DEF TypeOK, GTypeOK, Frames
  <2>2. stack' = Append(stack, fr)
    BY DEF GenNode, GenEnter
  <2>. QED
    BY <1>1, <2>1, <2>2, AppendFacts
<1>6. Known(arg')
  <2>1. PICK i \in Children : arg' = Child(arg, i)
    BY <1>3, WalkChildren DEF GenNode, GenEnter
  <2>. QED
    BY <2>1, <1>3, ClosedMeans
<1>7. \A i \in 1 .. n + 1 : stack'[i].f \in DOMAIN hash /\ stack'[i].var = TopVar(stack'[i].f)
  <2>1. \A i \in 1 .. n + 1 : i = n + 1 \/ i \in 1 .. n
    OBVIOUS
  <2>. QED
    BY <2>1, <1>1, <1>3, <1>5 DEF GenInv
<1>. QED
  BY <1>2, <1>5, <1>6, <1>7 DEF GenInv, Known

LEMMA GenInvSecond ==
  ASSUME TypeOK, MemoClosed, GenInv, phase = "gen", GenSecond, UNCHANGED xvars
  PROVE  GenInv'
<1>1. hash' = hash /\ phase' = phase /\ xstack' = xstack /\ xpc' = xpc
  BY DEF xvars
<1>2. /\ Len(stack) \in Nat \ {0}
      /\ Top = stack[Len(stack)]
      /\ Top \in Frames
  BY TopFacts DEF TypeOK, GenSecond
<1>3. PICK n \in Nat \ {0} : n = Len(stack)
  BY <1>2
<1>4. /\ Len(stack') = n
      /\ \A i \in 1 .. n : stack'[i].f = stack[i].f /\ stack'[i].var = stack[i].var
  <2>1. \A i \in 1 .. n : stack[i] \in Frames
    BY <1>3, StackFrames DEF TypeOK
  <2>2. \A fr \in Frames : [fr EXCEPT !.half = 2].f = fr.f /\ [fr EXCEPT !.half = 2].var = fr.var
    BY DEF Frames
  <2>3. stack' = [stack EXCEPT ![n] = [stack[n] EXCEPT !.half = 2]] /\ stack \in Seq(Frames)
    BY <1>3 DEF GenSecond, TypeOK, GTypeOK
  <2>. QED
    BY <1>3, <2>1, <2>2, <2>3
<1>5. Known(arg')
  <2>1. Top.f \in DOMAIN hash /\ Top.var = TopVar(Top.f)
    BY <1>2 DEF GenInv
  <2>2. Top.exp \in ExpTypes
    BY <1>2 DEF Frames
  <2>3. PICK i \in Children : arg' = Child(Top.f, i)
    BY <2>1, <2>2, WalkChildren DEF GenSecond
  <2>. QED
    BY <2>1, <2>3, ClosedMeans
<1>. QED
  BY <1>1, <1>3, <1>4, <1>5 DEF GenInv, Known

LEMMA GenInvStep ==
  ASSUME WalkInv, SearchInv, GenInv, [Next]_bvars
  PROVE  GenInv'
<1>0. TypeOK /\ MemoClosed
  BY DEF WalkInv, SearchInv
<1>1. CASE ExpandConstant \/ ExpandMemo \/ ExpandEnter \/ ExpandNext \/ ExpandStore \/ StartGen
  BY <1>0, <1>1, GenInvSearch
<1>2. CASE UNCHANGED bvars
  BY <1>2 DEF GenInv, Known, bvars, gvars, xvars
<1>3. CASE Gen
  <2>1. CASE GenNode
    BY <1>0, <1>3, <2>1, GenInvNode DEF Gen
  <2>2. CASE GenSecond
    BY <1>0, <1>3, <2>2, GenInvSecond DEF Gen
  <2>3. CASE GenZero \/ GenOne
    BY <1>3, <2>3 DEF Gen, GenZero, GenOne, xvars, GenInv
  <2>4. CASE GenLeave
    <3>1. /\ Len(stack) \in Nat \ {0} /\ Len(stack') = Len(stack) - 1
          /\ \A i \in 1 .. Len(stack) - 1 : stack'[i] = stack[i]
      BY <1>0, <2>4, PopProperties DEF GenLeave, TypeOK, GTypeOK
    <3>2. \A i \in 1 .. Len(stack) - 1 : i \in 1 .. Len(stack)
      BY <3>1
    <3>. QED
      BY <1>3, <2>4, <3>1, <3>2 DEF Gen, GenLeave, xvars, GenInv
  <2>. QED
    BY <1>3, <2>1, <2>2, <2>3, <2>4 DEF Gen
<1>. QED
  BY <1>1, <1>2, <1>3 DEF Next

LEMMA LookupInvariant == Spec => []LookupInv
<1>1. Init => LookupInv
  BY WalkInvInit, LookupInit DEF LookupInv
<1>2. LookupInv /\ [Next]_bvars => LookupInv'
  BY WalkInvStep, SearchStep, GenInvStep DEF LookupInv
<1>. QED
  BY <1>1, <1>2, PTL DEF Spec

(* The memo table is closed under children at every moment of the search.   *)
THEOREM MemoClosedCorrect == Spec => []MemoClosed
<1>1. LookupInv => MemoClosed
  BY DEF LookupInv, SearchInv
<1>. QED
  BY LookupInvariant, <1>1, PTL

(* The assertion of genPSDKRO never fails: every function the second pass   *)
(* looks up was stored by the first.                                        *)
THEOREM LookupCorrect == Spec => []LookupFinds
<1>1. LookupInv => LookupFinds
  BY DEF LookupInv, GenInv, LookupFinds, Known
<1>. QED
  BY LookupInvariant, <1>1, PTL

-----------------------------------------------------------------------------
(* The search: every cost it memoises, hands back or collects in a frame is *)
(* the least cost of its function, and the expansion it memoises attains it.*)
MemoLeast ==
  \A F \in DOMAIN hash : hash[F].cost = OptCost[F] /\ Splits(OptCost, F, hash[F].exp)

FrameLeast(fr) ==
  /\ ~IsConstant(fr.f)
  /\ \A i \in Children : i < Len(fr.costs) => fr.costs[i + 1] = OptCost[Child(fr.f, i)]

LeastInv ==
  /\ MemoLeast
  /\ \A k \in 1 .. Len(xstack) : FrameLeast(xstack[k])
  /\ xpc = "return" => ret = OptCost[Wanted(xstack, Len(xstack))]

LEMMA CheapestSplits ==
  ASSUME NEW F \in Fns, ~IsConstant(F), NEW c,
         c[1] = OptCost[Child(F, 0)], c[2] = OptCost[Child(F, 1)], c[3] = OptCost[Child(F, 2)]
  PROVE  Cheapest(c).cost = OptCost[F] /\ Splits(OptCost, F, Cheapest(c).exp)
<1>1. PICK e : e = ExpDropping(Dropped(c, 0))
  OBVIOUS
<1>2. Cheapest(c).exp = e /\ Cheapest(c).cost = KeptCost(c, e)
  BY <1>1 DEF Cheapest
<1>3. 0 \in Children
  BY DEF Children
<1>4. KeptCost(c, e) = OptCost[F] /\ Splits(OptCost, F, e)
  BY <1>1, <1>3, DecisionIsLeast
<1>. QED
  BY <1>2, <1>4

LEMMA LeastInit == ASSUME Init PROVE LeastInv
<1>1. DOMAIN hash = {} /\ Len(xstack) = 0
  BY EmptySeq DEF Init, GInit
<1>2. xpc # "return"
  BY DEF Init
<1>. QED
  BY <1>1, <1>2 DEF LeastInv, MemoLeast

LEMMA LeastEnter ==
  ASSUME TypeOK, SearchInv, LeastInv, ExpandEnter
  PROVE  LeastInv'
<1>1. PICK n \in Nat : n = Len(xstack)
  BY SearchFrames
<1>2. PICK fr \in XFrames : fr = [f |-> xarg, costs |-> <<>>]
  BY TypeSplit, EmptySeq DEF XFrames, SearchTypeOK
<1>3. /\ Len(xstack') = n + 1 /\ xstack'[n + 1] = fr
      /\ \A k \in 1 .. n : xstack'[k] = xstack[k]
  BY <1>1, <1>2, SearchFrames, AppendFacts DEF ExpandEnter
<1>4. FrameLeast(fr)
  <2>1. fr.f = xarg /\ Len(fr.costs) = 0 /\ \A i \in Children : ~(i < 0)
    BY <1>2, EmptySeq DEF Children
  <2>. QED
    BY <2>1 DEF ExpandEnter, FrameLeast
<1>5. \A k \in 1 .. n + 1 : k = n + 1 \/ k \in 1 .. n
  OBVIOUS
<1>6. \A k \in 1 .. n + 1 : FrameLeast(xstack'[k])
  BY <1>1, <1>3, <1>4, <1>5 DEF LeastInv
<1>7. hash' = hash /\ xpc' # "return"
  BY DEF ExpandEnter
<1>. QED
  BY <1>3, <1>6, <1>7 DEF LeastInv, MemoLeast, FrameLeast

LEMMA LeastNext ==
  ASSUME TypeOK, SearchInv, LeastInv, ExpandNext
  PROVE  LeastInv'
<1>1. Len(xstack) \in Nat \ {0} /\ XTop = xstack[Len(xstack)] /\ XTop \in XFrames
  BY SearchFrames, PopProperties DEF ExpandNext, XTop
<1>2. PICK n \in Nat \ {0} : n = Len(xstack)
  BY <1>1
<1>3. PICK F, c : F = XTop.f /\ c = XTop.costs
  OBVIOUS
<1>4. c \in Seq(Nat) /\ ret \in Nat
  BY <1>1, <1>3, TypeSplit DEF XFrames, SearchTypeOK
<1>5. PICK m \in Nat : m = Len(c)
  BY <1>4, LenProperties
<1>6. PICK fr : fr = [XTop EXCEPT !.costs = Append(c, ret)]
  OBVIOUS
<1>7. fr.f = F /\ fr.costs = Append(c, ret)
  BY <1>1, <1>3, <1>6 DEF XFrames
<1>8. /\ Len(fr.costs) = m + 1 /\ fr.costs[m + 1] = ret
      /\ \A i \in 1 .. m : fr.costs[i] = c[i]
  BY <1>4, <1>5, <1>7, AppendFacts
<1>9. FrameLeast(XTop)
  BY <1>1 DEF LeastInv
<1>10. ret = OptCost[Child(F, m)]
  BY <1>1, <1>3, <1>5 DEF ExpandNext, LeastInv, Wanted
<1>11. ASSUME NEW i \in Children, i < m + 1
       PROVE  fr.costs[i + 1] = OptCost[Child(F, i)]
  <2>1. CASE i = m
    BY <1>8, <1>10, <2>1
  <2>2. CASE i < m
    <3>1. i + 1 \in 1 .. m
      BY <2>2 DEF Children
    <3>. QED
      BY <1>3, <1>5, <1>8, <1>9, <2>2, <3>1 DEF FrameLeast
  <2>3. i = m \/ i < m
    BY <1>11 DEF Children
  <2>. QED
    BY <2>1, <2>2, <2>3
<1>12. FrameLeast(fr)
  BY <1>3, <1>7, <1>8, <1>9, <1>11 DEF FrameLeast
<1>13. xstack' = [xstack EXCEPT ![n] = fr]
  BY <1>2, <1>3, <1>6 DEF ExpandNext, XTop
<1>14. /\ Len(xstack') = n
       /\ \A k \in 1 .. n : xstack'[k] = IF k = n THEN fr ELSE xstack[k]
  BY <1>2, <1>13, SearchFrames
<1>15. \A k \in 1 .. n : FrameLeast(xstack'[k])
  BY <1>2, <1>12, <1>14 DEF LeastInv
<1>16. hash' = hash /\ xpc' # "return"
  BY DEF ExpandNext
<1>. QED
  BY <1>14, <1>15, <1>16 DEF LeastInv, MemoLeast, FrameLeast

LEMMA LeastStore ==
  ASSUME TypeOK, SearchInv, LeastInv, ExpandStore
  PROVE  LeastInv'
<1>1. Len(xstack) \in Nat \ {0} /\ XTop = xstack[Len(xstack)] /\ XTop \in XFrames
  BY SearchFrames, PopProperties DEF ExpandStore, XTop
<1>2. PICK n \in Nat \ {0} : n = Len(xstack)
  BY <1>1
<1>3. PICK F \in Fns : F = XTop.f
  BY <1>1 DEF XFrames
<1>4. XTop.costs \in Seq(Nat) /\ ret \in Nat /\ Len(XTop.costs) = 2
  BY <1>1, TypeSplit DEF XFrames, SearchTypeOK, ExpandStore
<1>5. PICK c : c = Append(XTop.costs, ret)
  OBVIOUS
<1>6. c[3] = ret /\ c[1] = XTop.costs[1] /\ c[2] = XTop.costs[2]
  <2>0. PICK t \in Seq(Nat) : t = XTop.costs
    BY <1>4
  <2>3. /\ Append(t, ret)[Len(t) + 1] = ret
        /\ \A i \in 1 .. Len(t) : Append(t, ret)[i] = t[i]
    BY <1>4, AppendFacts
  <2>1. c[Len(XTop.costs) + 1] = ret /\ \A i \in 1 .. Len(XTop.costs) : c[i] = XTop.costs[i]
    BY <1>5, <2>0, <2>3
  <2>2. 1 \in 1 .. 2 /\ 2 \in 1 .. 2 /\ 2 + 1 = 3
    OBVIOUS
  <2>. QED
    BY <1>4, <2>1, <2>2
<1>7. FrameLeast(XTop)
  BY <1>1 DEF LeastInv
<1>8. /\ c[1] = OptCost[Child(F, 0)] /\ c[2] = OptCost[Child(F, 1)]
      /\ c[3] = OptCost[Child(F, 2)]
  <2>1. c[1] = OptCost[Child(F, 0)] /\ c[2] = OptCost[Child(F, 1)]
    BY <1>3, <1>4, <1>6, <1>7 DEF FrameLeast, Children
  <2>2. c[3] = OptCost[Child(F, 2)]
    BY <1>1, <1>3, <1>4, <1>6 DEF ExpandStore, LeastInv, Wanted
  <2>. QED
    BY <2>1, <2>2
<1>9. PICK best : best = Cheapest(c)
  OBVIOUS
<1>10. best.cost = OptCost[F] /\ Splits(OptCost, F, best.exp)
  BY <1>3, <1>7, <1>8, <1>9, CheapestSplits DEF FrameLeast
<1>11. hash' = Store(hash, F, best) /\ ret' = best.cost
  BY <1>3, <1>5, <1>9 DEF ExpandStore
<1>12. MemoLeast'
  <2>1. \A G \in DOMAIN hash' : (G = F /\ hash'[G] = best) \/ (G \in DOMAIN hash /\ hash'[G] = hash[G])
    BY <1>11 DEF Store
  <2>. QED
    BY <1>10, <2>1 DEF LeastInv, MemoLeast, Splits
<1>13. Len(xstack') = n - 1 /\ \A k \in 1 .. n - 1 : xstack'[k] = xstack[k]
  BY <1>1, <1>2, SearchFrames, PopProperties DEF ExpandStore
<1>14. \A k \in 1 .. n - 1 : FrameLeast(xstack'[k])
  <2>1. \A k \in 1 .. n - 1 : k \in 1 .. n
    OBVIOUS
  <2>. QED
    BY <1>2, <1>13, <2>1 DEF LeastInv
<1>15. Wanted(xstack, Len(xstack))' = F
  <2>1. n \in 1 .. n /\ n - 1 \in 0 .. n - 1
    OBVIOUS
  <2>2. F = Wanted(xstack, n - 1)
    BY <1>1, <1>2, <1>3, <2>1 DEF SearchInv, Chain
  <2>3. n - 1 = 0 \/ n - 1 \in 1 .. n - 1
    OBVIOUS
  <2>4. root' = root
    BY DEF ExpandStore, gvars
  <2>. QED
    BY <1>13, <2>2, <2>3, <2>4 DEF Wanted
<1>. QED
  BY <1>10, <1>11, <1>12, <1>13, <1>14, <1>15 DEF LeastInv, FrameLeast

LEMMA LeastStep ==
  ASSUME LookupInv, LeastInv, [Next]_bvars
  PROVE  LeastInv'
<1>0. TypeOK /\ SearchInv
  BY DEF LookupInv, WalkInv
<1>1. CASE ExpandConstant
  <2>1. hash' = hash /\ root' = root /\ xstack' = xstack
    BY <1>1 DEF ExpandConstant, gvars
  <2>2. ret' = OptCost[Wanted(xstack, Len(xstack))]
    BY <1>0, <1>1, OptCostConstant DEF ExpandConstant, SearchInv, IsConstant
  <2>. QED
    BY <2>1, <2>2 DEF LeastInv, MemoLeast, FrameLeast, Wanted
<1>2. CASE ExpandMemo
  <2>1. hash' = hash /\ root' = root /\ xstack' = xstack
    BY <1>2 DEF ExpandMemo, gvars
  <2>2. ret' = OptCost[Wanted(xstack, Len(xstack))]
    BY <1>0, <1>2 DEF ExpandMemo, SearchInv, LeastInv, MemoLeast
  <2>. QED
    BY <2>1, <2>2 DEF LeastInv, MemoLeast, FrameLeast, Wanted
<1>3. CASE ExpandEnter
  BY <1>0, <1>3, LeastEnter
<1>4. CASE ExpandNext
  BY <1>0, <1>4, LeastNext
<1>5. CASE ExpandStore
  BY <1>0, <1>5, LeastStore
<1>6. CASE StartGen \/ Gen \/ UNCHANGED bvars
  <2>1. /\ hash' = hash /\ root' = root /\ xstack' = xstack /\ xpc' = xpc /\ ret' = ret
    BY <1>6 DEF StartGen, Gen, GenZero, GenOne, GenNode, GenEnter, GenSecond, GenLeave,
                gvars, xvars, bvars
  <2>. QED
    BY <2>1 DEF LeastInv, MemoLeast, FrameLeast, Wanted
<1>. QED
  BY <1>1, <1>2, <1>3, <1>4, <1>5, <1>6 DEF Next

-----------------------------------------------------------------------------
(* The walk spends the least cost of the root.                              *)
LEMMA CostLedgerStep ==
  ASSUME LookupInv, LeastInv, CostLedger(OptCost), [Next]_bvars
  PROVE  CostLedger(OptCost)'
<1>0. GTypeOK /\ IsCost(OptCost)
  BY OptCostIsCost DEF LookupInv, WalkInv, TypeOK
<1>1. CASE ExpandConstant \/ ExpandMemo \/ ExpandEnter \/ ExpandNext \/ ExpandStore
           \/ StartGen \/ UNCHANGED bvars
  <2>1. UNCHANGED gvars
    BY <1>1 DEF ExpandConstant, ExpandMemo, ExpandEnter, ExpandNext, ExpandStore, StartGen, bvars
  <2>. QED
    BY <2>1 DEF gvars, CostLedger, Due, Owed
<1>2. CASE Gen
  <2>1. CASE GenZero \/ GenOne
    BY <1>0, <2>1, CostLedgerConstant
  <2>2. CASE GenNode
    <3>1. PICK e : e = hash[arg].exp
      OBVIOUS
    <3>2. e \in ExpTypes
      BY <2>2, <3>1 DEF GenNode, LookupInv, WalkInv, TypeOK
    <3>3. ~IsConstant(arg) /\ GenEnter(TopVar(arg), e) /\ Splits(OptCost, arg, e)
      BY <2>2, <3>1 DEF GenNode, LeastInv, MemoLeast
    <3>. QED
      BY <1>0, <3>2, <3>3, CostLedgerEnter
  <2>3. CASE GenSecond
    BY <1>0, <2>3, CostLedgerSecond
  <2>4. CASE GenLeave
    BY <1>0, <2>4, CostLedgerLeave
  <2>. QED
    BY <1>2, <2>1, <2>2, <2>3, <2>4 DEF Gen
<1>. QED
  BY <1>1, <1>2 DEF Next

MinimalInv == LookupInv /\ LeastInv /\ CostLedger(OptCost)

LEMMA MinimalInvariant == Spec => []MinimalInv
<1>1. ASSUME Init PROVE MinimalInv
  <2>1. GInit /\ CostLedger(OptCost)
    BY <1>1, OptCostIsCost, CostLedgerInit DEF Init
  <2>. QED
    BY <1>1, <2>1, WalkInvInit, LookupInit, LeastInit DEF MinimalInv, LookupInv
<1>2. ASSUME MinimalInv, [Next]_bvars PROVE MinimalInv'
  <2>1. LookupInv'
    BY <1>2, WalkInvStep, SearchStep, GenInvStep DEF MinimalInv, LookupInv
  <2>2. LeastInv'
    BY <1>2, LeastStep DEF MinimalInv
  <2>3. CostLedger(OptCost)'
    BY <1>2, CostLedgerStep DEF MinimalInv
  <2>. QED
    BY <2>1, <2>2, <2>3 DEF MinimalInv
<1>. QED
  BY <1>1, <1>2, PTL DEF Spec

(* When bddextract is done, its ESOP has exactly as many cubes as the       *)
(* cheapest pseudo-Kronecker expression of the root.                        *)
THEOREM MinimalCorrect == Spec => []EsopIsMinimal
<1>1. ASSUME MinimalInv, Extracted PROVE Len(esop) = OptCost[root]
  <2>1. GTypeOK /\ CostLedger(OptCost) /\ GenDone
    BY <1>1 DEF MinimalInv, LookupInv, WalkInv, TypeOK, Extracted
  <2>. QED
    BY <2>1, CostLedgerEnd
<1>2. MinimalInv => EsopIsMinimal
  BY <1>1 DEF EsopIsMinimal
<1>. QED
  BY MinimalInvariant, <1>2, PTL

=============================================================================
