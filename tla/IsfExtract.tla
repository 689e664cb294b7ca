----------------------------- MODULE IsfExtract -----------------------------
(***************************************************************************)
(* The isfextract command: IsfExtractManager::extract, for a function that *)
(* is only specified where its care function is true.  The first pass      *)
(* replaces F by a completely specified function that agrees with it on    *)
(* the care set and is cheap to expand, memoised on the pair (F, care);    *)
(* the second pass walks the decisions.  Each pass exists twice: firstPass *)
(* searches F2 under the care set of each half, firstPassNaive once under  *)
(* their union.                                                            *)
(*                                                                         *)
(* root, pc, arg, stack, vars, values and esop are those of the walk, as   *)
(* in Psdkro; its activations also carry their care function.              *)
(***************************************************************************)
EXTENDS Psdkro

CONSTANTS
  Cares,    \* the care functions considered, _CRoot
  Modes     \* the values of _naive considered

ASSUME IsfAssumption == Cares \subseteq Fns /\ Modes \subseteq BOOLEAN

VARIABLES
  croot,    \* _CRoot
  naive,    \* _naive
  phase,    \* "search" in the first pass, "gen" in the second
  hash,     \* _hash: <<F, C>> -> result function, F2, expansion, cost
  care,     \* the care argument of the latest call of the second pass
  xpc,      \* "call": xfn(xarg, xcare) is about to run; "return": it returned ret
  xfn,
  xarg,
  xcare,
  xstack,   \* the activations of the first pass that wait for a result
  ret       \* the result: a function and its cost

svars == <<croot, naive, hash, xfn, xarg, xcare, xpc, xstack, ret>>
isfvars == <<gvars, phase, care, svars>>

(* Cudd_Cofactor of the care function at F's top variable.                  *)
C0Of(F, C) == E(C, TopVar(F))
C1Of(F, C) == T(C, TopVar(F))

XTop == xstack[Len(xstack)]
Result(F, cost) == [f |-> F, cost |-> cost]
Call(fn, F, C) == xpc' = "call" /\ xfn' = fn /\ xarg' = F /\ xcare' = C
Entry(F, f2, e, cost) == [fret |-> F, f2 |-> f2, exp |-> e, cost |-> cost]

(* An activation: got is the sequence of results of its calls so far, exp   *)
(* "C0" or "C1" when one half is not cared about and the other is the only  *)
(* call, else "open".                                                       *)
Frame(e) == [fn |-> xfn, f |-> xarg, c |-> xcare, exp |-> e, got |-> <<>>]

-----------------------------------------------------------------------------
Init ==
  /\ GInit
  /\ croot \in Cares
  /\ naive \in Modes
  /\ phase = "search"
  /\ hash = <<>>
  /\ care = croot
  /\ xpc = "call"
  /\ xfn = IF naive THEN "firstPassNaive" ELSE "firstPass"
  /\ xarg = root
  /\ xcare = croot
  /\ xstack = <<>>
  /\ ret = Result(Zero, 0)

PassConstantSentinel ==   \* mutant: -1 for "no cube"
  /\ xpc = "call"
  /\ IsConstant(xarg)
  /\ ret' = Result(xarg, IF xarg = One THEN 1 ELSE -1)
  /\ xpc' = "return"
  /\ UNCHANGED <<gvars, phase, care, croot, naive, hash, xfn, xarg, xcare, xstack>>

PassConstant ==
  /\ xpc = "call"
  /\ IsConstant(xarg)
  /\ ret' = Result(xarg, IF xarg = One THEN 1 ELSE 0)
  /\ xpc' = "return"
  /\ UNCHANGED <<gvars, phase, care, croot, naive, hash, xfn, xarg, xcare, xstack>>

PassMemoFree ==   \* mutant: a result found in the table counts as free
  /\ xpc = "call"
  /\ ~IsConstant(xarg)
  /\ <<xarg, xcare>> \in DOMAIN hash
  /\ ret' = Result(hash[<<xarg, xcare>>].fret, 0)
  /\ xpc' = "return"
  /\ UNCHANGED <<gvars, phase, care, croot, naive, hash, xfn, xarg, xcare, xstack>>

PassMemo ==
  /\ xpc = "call"
  /\ ~IsConstant(xarg)
  /\ <<xarg, xcare>> \in DOMAIN hash
  /\ ret' = Result(hash[<<xarg, xcare>>].fret, hash[<<xarg, xcare>>].cost)
  /\ xpc' = "return"
  /\ UNCHANGED <<gvars, phase, care, croot, naive, hash, xfn, xarg, xcare, xstack>>

NewPair == xpc = "call" /\ ~IsConstant(xarg) /\ <<xarg, xcare>> \notin DOMAIN hash

(* One half of the care set is empty: only the other half of F matters.     *)
(* Both variants of the pass call firstPass here.                           *)
PassSkip ==
  /\ NewPair
  /\ \/ /\ C0Of(xarg, xcare) = Zero
        /\ xstack' = Append(xstack, Frame("C0"))
        /\ Call("firstPass", T1(xarg), C1Of(xarg, xcare))
     \/ /\ C0Of(xarg, xcare) # Zero
        /\ C1Of(xarg, xcare) = Zero
        /\ xstack' = Append(xstack, Frame("C1"))
        /\ Call("firstPass", E0(xarg), C0Of(xarg, xcare))
  /\ UNCHANGED <<gvars, phase, care, croot, naive, hash, ret>>

PassEnter ==
  /\ NewPair
  /\ C0Of(xarg, xcare) # Zero
  /\ C1Of(xarg, xcare) # Zero
  /\ xstack' = Append(xstack, Frame("open"))
  /\ Call(xfn, E0(xarg), C0Of(xarg, xcare))
  /\ UNCHANGED <<gvars, phase, care, croot, naive, hash, ret>>

Returned(e) == xpc = "return" /\ xstack # <<>> /\ (XTop.exp = e)
Got == Append(XTop.got, ret)
NeverBothZero == FALSE   \* mutant: no early return for two empty results
BothZero == Len(Got) = 2 /\ Got[1].cost = 0 /\ Got[2].cost = 0
Complete == Len(Got) = IF XTop.fn = "firstPassNaive" THEN 3 ELSE 4

(* A result is in and the decision needs another: F1 under C1, then F2, the *)
(* XOR of the two results, under C0 and C1, or under their union.           *)
PassNext ==
  /\ Returned("open")
  /\ ~BothZero
  /\ ~Complete
  /\ xstack' = [xstack EXCEPT ![Len(xstack)].got = Got]
  /\ LET C0 == C0Of(XTop.f, XTop.c)
         C1 == C1Of(XTop.f, XTop.c)
     IN  CASE Len(Got) = 1 -> Call(XTop.fn, T1(XTop.f), C1)
           [] Len(Got) = 2 -> Call(XTop.fn, Xor(Got[1].f, Got[2].f),
                                   IF XTop.fn = "firstPassNaive" THEN C0 \cup C1 ELSE C0)
           [] Len(Got) = 3 -> Call(XTop.fn, Xor(Got[1].f, Got[2].f), C1)
  /\ UNCHANGED <<gvars, phase, care, croot, naive, hash, ret>>

PassReturn(entry) ==
  /\ hash' = Store(hash, <<XTop.f, XTop.c>>, entry)
  /\ ret' = Result(entry.fret, entry.cost)
  /\ xstack' = Pop(xstack)
  /\ UNCHANGED <<gvars, phase, care, croot, naive, xpc, xfn, xarg, xcare>>

PassStoreSkip ==
  /\ Returned("C0") \/ Returned("C1")
  /\ PassReturn(Entry(ret.f, Zero, XTop.exp, ret.cost))

PassStoreZero ==
  /\ Returned("open")
  /\ BothZero
  /\ PassReturn(Entry(Zero, Zero, "F0", 0))

(* The decision: the two results for F2, one for each half, against F0 and  *)
(* F1; nD is preferred to pD and pD to Sh when costs tie.                   *)
Half0 == Got[3]
Half1AsHalf0 == Got[3]   \* mutant: pD takes F2 as it is under C0
Half1 == IF XTop.fn = "firstPassNaive" THEN Got[3] ELSE Got[4]
NDCost == Got[2].cost + Half0.cost
PDCost == Got[1].cost + Half1.cost
ShCost == Got[1].cost + Got[2].cost
ChoiceShannon == "Sh"   \* mutant: the costs are not compared

Choice ==
  IF NDCost <= PDCost /\ NDCost <= ShCost THEN "nD"
  ELSE IF PDCost <= ShCost THEN "pD" ELSE "Sh"

(* The result of the pair: the two kept results, recombined at the top       *)
(* variable by an AND with its literal and an XOR.                          *)
WhereNot(v, F) == {m \in F : v \notin m}
WhereAll(v, F) == F   \* mutant: the AND with the literal is forgotten
Where(v, F) == {m \in F : v \in m}

PassStore ==
  /\ Returned("open")
  /\ Complete
  /\ LET v == TopVar(XTop.f)
         F2 == Xor(Got[1].f, Got[2].f)
     IN  CASE Choice = "nD" -> PassReturn(Entry(Xor(WhereNot(v, Half0.f), Got[2].f), F2, "nD", NDCost))
           [] Choice = "pD" -> PassReturn(Entry(Xor(Where(v, Half1.f), Got[1].f), F2, "pD", PDCost))
           [] Choice = "Sh" -> PassReturn(Entry(Xor(WhereNot(v, Got[1].f), Where(v, Got[2].f)),
                                                F2, "Sh", ShCost))

StartGenAgain ==   \* mutant: extract runs the first pass again instead of the second
  /\ phase = "search"
  /\ xpc = "return"
  /\ xstack = <<>>
  /\ Call(xfn, root, croot)
  /\ UNCHANGED <<gvars, phase, care, croot, naive, hash, xstack, ret>>

StartGen ==
  /\ phase = "search"
  /\ xpc = "return"
  /\ xstack = <<>>
  /\ phase' = "gen"
  /\ UNCHANGED <<gvars, care, svars>>

-----------------------------------------------------------------------------
(* The second pass.  Its lookup is asserted to succeed: a miss ends it.     *)
Visiting == phase = "gen" /\ pc = "call" /\ ~IsConstant(arg)
Missed == Visiting /\ <<arg, care>> \notin DOMAIN hash
Found == hash[<<arg, care>>]
Decided(exps) == Visiting /\ <<arg, care>> \in DOMAIN hash /\ Found.exp \in exps

WalkConstant ==
  /\ phase = "gen"
  /\ GenZero \/ GenOne
  /\ UNCHANGED <<phase, care, svars>>

(* The function was found to be zero where it is cared about.               *)
WalkF0 ==
  /\ Decided({"F0"})
  /\ pc' = "return"
  /\ UNCHANGED <<root, arg, stack, vars, values, esop, phase, care, svars>>

(* The variable was skipped: continue with the half that is cared about, in *)
(* the caller's place, without touching the trail.                          *)
WalkSkip ==
  /\ \/ /\ Decided({"C0"})
        /\ arg' = T1(arg)
        /\ care' = C1Of(arg, care)
     \/ /\ Decided({"C1"})
        /\ arg' = E0(arg)
        /\ care' = C0Of(arg, care)
  /\ UNCHANGED <<root, pc, stack, vars, values, esop, phase, svars>>

WalkEnter ==
  /\ Decided(ExpTypes)
  /\ LET v == TopVar(arg)
         e == Found.exp
     IN  /\ stack' = Append(stack, [f |-> arg, c |-> care, var |-> v, exp |-> e, half |-> 1])
         /\ vars' = Append(vars, v)
         /\ values' = [values EXCEPT ![v] = FirstValue(e)]
         /\ arg' = FirstChild(arg, v, e)
         /\ care' = IF e = "nD" THEN C1Of(arg, care) ELSE C0Of(arg, care)
  /\ UNCHANGED <<root, pc, esop, phase, svars>>

WalkSecondUnion ==   \* mutant: secondPassNaive after firstPass
  /\ phase = "gen"
  /\ pc = "return"
  /\ stack # <<>>
  /\ Top.half = 1
  /\ stack' = [stack EXCEPT ![Len(stack)].half = 2]
  /\ values' = [values EXCEPT ![Top.var] = SecondValue(Top.exp)]
  /\ pc' = "call"
  /\ arg' = IF Top.exp = "Sh" THEN T1(Top.f) ELSE hash[<<Top.f, Top.c>>].f2
  /\ care' = IF Top.exp = "Sh" THEN C1Of(Top.f, Top.c) ELSE C0Of(Top.f, Top.c) \cup C1Of(Top.f, Top.c)
  /\ UNCHANGED <<root, vars, esop, phase, svars>>

(* The second child is F2 as the first pass computed it, or F1.             *)
WalkSecond ==
  /\ phase = "gen"
  /\ pc = "return"
  /\ stack # <<>>
  /\ Top.half = 1
  /\ stack' = [stack EXCEPT ![Len(stack)].half = 2]
  /\ values' = [values EXCEPT ![Top.var] = SecondValue(Top.exp)]
  /\ pc' = "call"
  /\ LET C0 == C0Of(Top.f, Top.c)
         C1 == C1Of(Top.f, Top.c)
     IN  /\ arg' = IF Top.exp = "Sh" THEN T1(Top.f) ELSE hash[<<Top.f, Top.c>>].f2
         /\ care' = CASE Top.exp = "Sh" -> C1
                      [] Top.exp # "Sh" /\ naive -> C0 \cup C1
                      [] Top.exp = "nD" /\ ~naive -> C0
                      [] Top.exp = "pD" /\ ~naive -> C1
  /\ UNCHANGED <<root, vars, esop, phase, svars>>

WalkLeave ==
  /\ phase = "gen"
  /\ GenLeave
  /\ UNCHANGED <<phase, care, svars>>

Extracted == phase = "gen" /\ GenDone
Terminated == (Extracted \/ Missed) /\ UNCHANGED isfvars

Next ==
  \/ PassConstant
  \/ PassMemo
  \/ PassSkip
  \/ PassEnter
  \/ PassNext
  \/ PassStoreSkip
  \/ PassStoreZero
  \/ PassStore
  \/ StartGen
  \/ WalkConstant
  \/ WalkF0
  \/ WalkSkip
  \/ WalkEnter
  \/ WalkSecond
  \/ WalkLeave
  \/ Terminated

Spec == Init /\ [][Next]_isfvars
(* Weak fairness of Next: something is enabled until the command is done.   *)
FairSpec == Spec /\ ([]<>(Extracted \/ Missed) \/ []<><<Next>>_isfvars)

-----------------------------------------------------------------------------
(* The types of the search's and the walk's variables.                      *)
Results == [f : Fns, cost : Nat]
SkipTypes == {"C0", "C1", "F0"}

TypeOK ==
  /\ root \in Fns /\ croot \in Fns /\ arg \in Fns /\ care \in Fns
  /\ naive \in BOOLEAN
  /\ phase \in {"search", "gen"}
  /\ pc \in {"call", "return"} /\ xpc \in {"call", "return"}
  /\ stack \in Seq([f : Fns, c : Fns, var : Vars, exp : ExpTypes, half : {1, 2}])
  /\ vars \in Seq(Vars) /\ values \in [Vars -> VarValues] /\ esop \in Seq(Cubes)
  /\ DOMAIN hash \subseteq Fns \X Fns
  /\ \A p \in DOMAIN hash :
       hash[p] \in [fret : Fns, f2 : Fns, exp : ExpTypes \cup SkipTypes, cost : Nat]
  /\ xfn \in {"firstPass", "firstPassNaive"} /\ xarg \in Fns /\ xcare \in Fns /\ ret \in Results
  /\ \A i \in 1 .. Len(xstack) : xstack[i].got \in Seq(Results) /\ Len(xstack[i].got) <= 3

(* Whatever the first pass memoises for a pair agrees with the function     *)
(* wherever it is cared about.                                              *)
MemoAgreesOnCare ==
  \A p \in DOMAIN hash : hash[p].fret \cap p[2] = p[1] \cap p[2]

(* The assertion of the second pass: the pair it visits was stored.         *)
LookupFinds == Missed => naive

(* The same assertion in secondPassNaive.                                   *)
NaiveLookupFinds == Missed => ~naive

(* The three assertions of the first pass: the two results an expansion     *)
(* combines are different functions, so its result depends on the variable. *)
CombinesDifferent ==
  (Returned("open") /\ ~BothZero /\ Complete) =>
    CASE Choice = "nD" -> Got[2].f # Half0.f
      [] Choice = "pD" -> Got[1].f # Half1.f
      [] Choice = "Sh" -> Got[1].f # Got[2].f

(* The ESOP is right wherever the care function is true.                    *)
RightOnCare == \A m \in croot : m \in root <=> Odd(Covering(esop, m))
EsopAgreesOnCare == (Extracted /\ ~naive) => RightOnCare

(* The same of the ESOP that isfextract -n writes.                          *)
NaiveEsopAgreesOnCare == (Extracted /\ naive) => RightOnCare

(* README.md, line 101, has the second output of the network specify the    *)
(* don't-care set: then the ESOP is right wherever that output is 0.        *)
EsopRespectsDontCares ==
  Extracted => \A m \in Minterms \ croot : m \in root <=> Odd(Covering(esop, m))

RootResult == IF IsConstant(root) THEN root ELSE hash[<<root, croot>>].fret

(* Without -n it has as many cubes as the first pass counted.  With -n the  *)
(* second pass may emit another result than the one that was counted.       *)
CostIsCubeCount ==
  (Extracted /\ ~naive) =>
    Len(esop) = IF IsConstant(root) THEN IF root = One THEN 1 ELSE 0
                ELSE hash[<<root, croot>>].cost

(* With nothing left open the result is a smallest pseudo-Kronecker         *)
(* expression in the order, as for bddextract.                              *)
FullCareIsExact == (Extracted /\ croot = One) => Len(esop) = OptCost[root]

(* The walk emits an ESOP of the function the first pass chose for the      *)
(* root: it is the walk of Psdkro over the result functions.  Skipped       *)
(* variables are stuttering steps.                                          *)
ResultOf(F, C) == IF IsConstant(F) THEN F ELSE hash[<<F, C>>].fret
Walk == INSTANCE Psdkro WITH
  root  <- RootResult,
  arg   <- ResultOf(arg, care),
  stack <- [i \in DOMAIN stack |->
             [f |-> ResultOf(stack[i].f, stack[i].c), var |-> stack[i].var,
              exp |-> stack[i].exp, half |-> stack[i].half]]

(* The mapping is defined once the first pass is over.  With -n the second  *)
(* pass may find a pair under the union of the care functions that was      *)
(* stored by firstPass with another result than the one that was combined:  *)
(* then it does not walk the function chosen for the root.                  *)
ImplementsPsdkro ==
  [][phase = "gen" /\ ~naive => Walk!GNext \/ UNCHANGED Walk!gvars]_<<gvars, care>>

(* Both passes end; only -n may end at the assertion.                       *)
ExtractEnds == <>(Extracted \/ (naive /\ Missed))
=============================================================================
