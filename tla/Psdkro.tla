------------------------------- MODULE Psdkro -------------------------------
(***************************************************************************)
(* The second pass, genPSDKRO, that bddextract and rdextract share line    *)
(* for line: a recursive walk of the expansion tree of the root that keeps *)
(* the trail of variables in _vars and _values and emits one cube per path *)
(* that ends in the constant 1.                                            *)
(*                                                                         *)
(* Here the expansion of a function, and the variable it is expanded at,   *)
(* are chosen freely, redundant expansions included: this is what the pass *)
(* promises whatever the search before it decided.  The commands' modules  *)
(* EXTEND this one and take the choice from their memo tables.             *)
(***************************************************************************)
EXTENDS BoolFun

CONSTANT Roots    \* the functions to extract

ASSUME RootsAssumption == Roots \subseteq Fns

VARIABLES
  root,     \* _FRoot
  pc,       \* "call": genPSDKRO(arg) is about to run; "return": it has returned
  arg,      \* the argument of the latest call
  stack,    \* the activations of genPSDKRO that wait for a child, outermost first
  vars,     \* _vars
  values,   \* _values
  esop      \* _esop

gvars == <<root, pc, arg, stack, vars, values, esop>>

ExpTypes == {"pD", "nD", "Sh"}
VarValues == {"POSITIVE", "NEGATIVE", "DONTCARE"}

(* The two children an expansion keeps and the value of the variable under  *)
(* each: pD is F0 + x F2, nD is F1 + x' F2, Sh is x' F0 + x F1.              *)
FirstChild(F, v, e) == IF e = "nD" THEN T(F, v) ELSE E(F, v)
SecondChild(F, v, e) == IF e = "Sh" THEN T(F, v) ELSE Xor(E(F, v), T(F, v))
FirstValuePositive(e) == IF e = "Sh" THEN "POSITIVE" ELSE "DONTCARE"   \* mutant: Sh without x'
FirstValue(e) == IF e = "Sh" THEN "NEGATIVE" ELSE "DONTCARE"
SecondValuePositive(e) == "POSITIVE"   \* mutant: nD with the literal of pD
SecondValue(e) == IF e = "nD" THEN "NEGATIVE" ELSE "POSITIVE"

(* How the searches decide: of the costs c = <<c0, c1, c2>> of F0, F1, F2    *)
(* they drop a dearest one.  When costs tie they drop F_d if it is among    *)
(* the dearest, else the first; the other two children are kept.            *)
Children == {0, 1, 2}
ChildComplemented(F, i) ==   \* mutant: the complement bit of F2 is forgotten
  CASE i = 0 -> E0(F) [] i = 1 -> T1(F) [] i = 2 -> One \ X2(F)
Child(F, i) == CASE i = 0 -> E0(F) [] i = 1 -> T1(F) [] i = 2 -> X2(F)
DearestReversed(c) ==   \* mutant: the comparison is reversed
  {i \in Children : \A j \in Children : c[j + 1] >= c[i + 1]}
Dearest(c) == {i \in Children : \A j \in Children : c[j + 1] <= c[i + 1]}
Dropped(c, d) ==
  IF d \in Dearest(c) THEN d
  ELSE IF 0 \in Dearest(c) THEN 0 ELSE IF 1 \in Dearest(c) THEN 1 ELSE 2
ExpDropping(i) == CASE i = 0 -> "nD" [] i = 1 -> "pD" [] i = 2 -> "Sh"
DropOf(e) == CHOOSE i \in Children : ExpDropping(i) = e
KeptCost(c, e) == CASE e = "nD" -> c[2] + c[3] [] e = "pD" -> c[1] + c[3] [] e = "Sh" -> c[1] + c[2]
Kept(e) == CASE e = "nD" -> <<1, 2>> [] e = "pD" -> <<0, 2>> [] e = "Sh" -> <<0, 1>>

(* One more entry in a memo table, or a new one for F.                      *)
Store(h, F, entry) == [G \in DOMAIN h \cup {F} |-> IF G = F THEN entry ELSE h[G]]

Frames == [f : Fns, var : Vars, exp : ExpTypes, half : {1, 2}]

Top == stack[Len(stack)]
Pop(s) == SubSeq(s, 1, Len(s) - 1)

(* The cube of the current trail.                                           *)
Trail == {vars[i] : i \in 1 .. Len(vars)}
TrailCubeSwapped ==   \* mutant: the two bitsets are swapped
  [care |-> {v \in Trail : values[v] = "POSITIVE"}, pol |-> {v \in Trail : values[v] # "DONTCARE"}]
TrailCube == [care |-> {v \in Trail : values[v] # "DONTCARE"},
              pol  |-> {v \in Trail : values[v] = "POSITIVE"}]

GInit ==
  /\ root \in Roots
  /\ pc = "call"
  /\ arg = root
  /\ stack = <<>>
  /\ vars = <<>>
  /\ values = [v \in Vars |-> "DONTCARE"]
  /\ esop = <<>>

GenZero ==
  /\ pc = "call"
  /\ arg = Zero
  /\ pc' = "return"
  /\ UNCHANGED <<root, arg, stack, vars, values, esop>>

GenOne ==
  /\ pc = "call"
  /\ arg = One
  /\ esop' = Append(esop, TrailCube)
  /\ pc' = "return"
  /\ UNCHANGED <<root, arg, stack, vars, values>>

(* An inner node: push its variable and descend into the first child.       *)
GenEnter(v, e) ==
  /\ pc = "call"
  /\ stack' = Append(stack, [f |-> arg, var |-> v, exp |-> e, half |-> 1])
  /\ vars' = Append(vars, v)
  /\ values' = [values EXCEPT ![v] = FirstValue(e)]
  /\ arg' = FirstChild(arg, v, e)
  /\ UNCHANGED <<root, pc, esop>>

GenSecondAgain ==   \* mutant: the activation does not move on to its second half
  /\ pc = "return"
  /\ stack # <<>>
  /\ Top.half = 1
  /\ values' = [values EXCEPT ![Top.var] = SecondValue(Top.exp)]
  /\ arg' = SecondChild(Top.f, Top.var, Top.exp)
  /\ pc' = "call"
  /\ UNCHANGED <<root, stack, vars, esop>>

(* The first child has returned: descend into the second.                   *)
GenSecond ==
  /\ pc = "return"
  /\ stack # <<>>
  /\ Top.half = 1
  /\ stack' = [stack EXCEPT ![Len(stack)].half = 2]
  /\ values' = [values EXCEPT ![Top.var] = SecondValue(Top.exp)]
  /\ arg' = SecondChild(Top.f, Top.var, Top.exp)
  /\ pc' = "call"
  /\ UNCHANGED <<root, vars, esop>>

GenLeaveNoReset ==   \* mutant: _values[varIdx] is not reset
  /\ pc = "return"
  /\ stack # <<>>
  /\ Top.half = 2
  /\ stack' = Pop(stack)
  /\ vars' = Pop(vars)
  /\ UNCHANGED <<root, pc, arg, values, esop>>

(* Both children have returned: take the variable off the trail again.      *)
GenLeave ==
  /\ pc = "return"
  /\ stack # <<>>
  /\ Top.half = 2
  /\ stack' = Pop(stack)
  /\ vars' = Pop(vars)
  /\ values' = [values EXCEPT ![Top.var] = "DONTCARE"]
  /\ UNCHANGED <<root, pc, arg, esop>>

GenDone == pc = "return" /\ stack = <<>>

GNext ==
  \/ GenZero
  \/ GenOne
  \/ \E v \in Vars \ Trail, e \in ExpTypes : GenEnter(v, e)
  \/ GenSecond
  \/ GenLeave

GSpec == GInit /\ [][GNext]_gvars
GFairSpec == GSpec /\ WF_gvars(GNext)

-----------------------------------------------------------------------------
(* The types of the walk's variables.                                       *)
GTypeOK ==
  /\ root \in Fns
  /\ pc \in {"call", "return"}
  /\ arg \in Fns
  /\ stack \in Seq(Frames)
  /\ vars \in Seq(Vars)
  /\ values \in [Vars -> VarValues]
  /\ esop \in Seq(Cubes)

(* _vars and _values are shared by all activations of genPSDKRO.  They      *)
(* always describe the activations that are open, and nothing else: each    *)
(* open activation's variable has the value of the branch it is in, no two  *)
(* open activations share a variable, every other variable is DONTCARE.     *)
FrameValue(fr) == IF fr.half = 1 THEN FirstValue(fr.exp) ELSE SecondValue(fr.exp)

TrailMatchesStack ==
  /\ Len(vars) = Len(stack)
  /\ \A i \in 1 .. Len(stack) : vars[i] = stack[i].var
  /\ \A i \in 1 .. Len(stack) : values[stack[i].var] = FrameValue(stack[i])
  /\ \A i, j \in 1 .. Len(stack) : i # j => stack[i].var # stack[j].var
  /\ \A v \in Vars \ Trail : values[v] = "DONTCARE"

(* At every moment of the walk a minterm is in the root exactly if it is in *)
(* an odd number of: the cubes emitted so far, the second children that     *)
(* open activations still have to visit, and the function being visited,    *)
(* each below the literals of its path.  No step loses a minterm or counts  *)
(* it twice, although the cubes of half-finished expansions overlap.        *)
LitHolds(m, v, value) ==
  /\ value = "POSITIVE" => v \in m
  /\ value = "NEGATIVE" => v \notin m
OnPath(m, s, k) == \A j \in 1 .. k : LitHolds(m, s[j].var, FrameValue(s[j]))
Awaits(m, fr) ==
  /\ fr.half = 1
  /\ LitHolds(m, fr.var, SecondValue(fr.exp))
  /\ m \in SecondChild(fr.f, fr.var, fr.exp)
Awaiting(m, s) == {i \in 1 .. Len(s) : OnPath(m, s, i - 1) /\ Awaits(m, s[i])}
Visited(m) == pc = "call" /\ m \in arg /\ OnPath(m, stack, Len(stack))

MintermLedger ==
  \A m \in Minterms :
    (m \in root <=> Visited(m)) <=> (Odd(Covering(esop, m)) <=> Odd(Awaiting(m, stack)))

(* When the walk ends, the cubes it emitted XOR to the root function: no    *)
(* choice of expansions loses or adds a minterm.                            *)
EsopRealisesRoot == GenDone => Realises(esop, root)

(* No cube is emitted twice: two equal cubes would cancel in the XOR and    *)
(* only make the ESOP longer.                                               *)
NoCubeTwice == \A i, j \in 1 .. Len(esop) : i # j => esop[i] # esop[j]

(* The recursion ends, whatever expansions are chosen.                      *)
WalkEnds == <>GenDone
=============================================================================
