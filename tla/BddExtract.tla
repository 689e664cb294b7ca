----------------------------- MODULE BddExtract -----------------------------
(***************************************************************************)
(* The bddextract command: BddExtractManager::extract.  The first pass,    *)
(* fullExpand, computes bottom-up the cheapest expansion of every function *)
(* it meets and memoises it in _hash; the second pass is the walk of       *)
(* module Psdkro with the expansion of each node looked up in _hash.       *)
(***************************************************************************)
EXTENDS Psdkro

VARIABLES
  phase,    \* "expand" while fullExpand runs, then "gen"
  hash,     \* _hash: function -> expansion and cost, for the functions stored so far
  xpc,      \* "call": fullExpand(xarg) is about to run; "return": it returned ret
  xarg,
  xstack,   \* the activations of fullExpand that wait for a child's cost
  ret

xvars == <<phase, hash, xpc, xarg, xstack, ret>>
bvars == <<gvars, xvars>>

XTop == xstack[Len(xstack)]

(* The decision of fullExpand on the costs of F0, F1 and F2.                *)
Cheapest(c) ==
  LET e == ExpDropping(Dropped(c, 0))
  IN  [exp |-> e, cost |-> KeptCost(c, e)]

-----------------------------------------------------------------------------
Init ==
  /\ GInit
  /\ phase = "expand"
  /\ hash = <<>>
  /\ xpc = "call"
  /\ xarg = root
  /\ xstack = <<>>
  /\ ret = 0

ExpandConstantSentinel ==   \* mutant: -1 for "no cube"
  /\ xpc = "call"
  /\ IsConstant(xarg)
  /\ ret' = IF xarg = One THEN 1 ELSE -1
  /\ xpc' = "return"
  /\ UNCHANGED <<gvars, phase, hash, xarg, xstack>>

ExpandConstant ==
  /\ xpc = "call"
  /\ IsConstant(xarg)
  /\ ret' = IF xarg = One THEN 1 ELSE 0
  /\ xpc' = "return"
  /\ UNCHANGED <<gvars, phase, hash, xarg, xstack>>

ExpandMemo ==
  /\ xpc = "call"
  /\ ~IsConstant(xarg)
  /\ xarg \in DOMAIN hash
  /\ ret' = hash[xarg].cost
  /\ xpc' = "return"
  /\ UNCHANGED <<gvars, phase, hash, xarg, xstack>>

ExpandEnter ==
  /\ xpc = "call"
  /\ ~IsConstant(xarg)
  /\ xarg \notin DOMAIN hash
  /\ xstack' = Append(xstack, [f |-> xarg, costs |-> <<>>])
  /\ xarg' = Child(xarg, 0)
  /\ UNCHANGED <<gvars, phase, hash, xpc, ret>>

ExpandNextAgain ==   \* mutant: off by one, F0 is expanded twice and F2 not at all
  /\ xpc = "return"
  /\ xstack # <<>>
  /\ Len(XTop.costs) < 2
  /\ xstack' = [xstack EXCEPT ![Len(xstack)].costs = Append(@, ret)]
  /\ xarg' = Child(XTop.f, Len(XTop.costs))
  /\ xpc' = "call"
  /\ UNCHANGED <<gvars, phase, hash, ret>>

(* The cost of F0 or F1 is in: expand the next child.                       *)
ExpandNext ==
  /\ xpc = "return"
  /\ xstack # <<>>
  /\ Len(XTop.costs) < 2
  /\ xstack' = [xstack EXCEPT ![Len(xstack)].costs = Append(@, ret)]
  /\ xarg' = Child(XTop.f, Len(XTop.costs) + 1)
  /\ xpc' = "call"
  /\ UNCHANGED <<gvars, phase, hash, ret>>

(* All three costs are in: memoise the decision and return its cost.        *)
ExpandStore ==
  /\ xpc = "return"
  /\ xstack # <<>>
  /\ Len(XTop.costs) = 2
  /\ LET best == Cheapest(Append(XTop.costs, ret))
     IN  /\ hash' = Store(hash, XTop.f, best)
         /\ ret' = best.cost
  /\ xstack' = Pop(xstack)
  /\ UNCHANGED <<gvars, phase, xpc, xarg>>

(* extract: fullExpand(_FRoot) has returned, genPSDKRO(_FRoot) starts.      *)
StartGen ==
  /\ phase = "expand"
  /\ xpc = "return"
  /\ xstack = <<>>
  /\ phase' = "gen"
  /\ UNCHANGED <<gvars, hash, xpc, xarg, xstack, ret>>

GenNodeAtRoot ==   \* mutant: the variable index of the root is used at every node
  /\ ~IsConstant(arg)
  /\ arg \in DOMAIN hash
  /\ GenEnter(TopVar(root), hash[arg].exp)

GenNode ==
  /\ ~IsConstant(arg)
  /\ arg \in DOMAIN hash     \* assert( it != _hash.end() )
  /\ GenEnter(TopVar(arg), hash[arg].exp)

Gen ==
  /\ phase = "gen"
  /\ GenZero \/ GenOne \/ GenNode \/ GenSecond \/ GenLeave
  /\ UNCHANGED xvars

Next ==
  \/ ExpandConstant
  \/ ExpandMemo
  \/ ExpandEnter
  \/ ExpandNext
  \/ ExpandStore
  \/ StartGen
  \/ Gen

Spec == Init /\ [][Next]_bvars
FairSpec == Spec /\ WF_bvars(Next)

Extracted == phase = "gen" /\ GenDone

-----------------------------------------------------------------------------
TypeOK ==
  /\ GTypeOK
  /\ phase \in {"expand", "gen"}
  /\ DOMAIN hash \subseteq Fns
  /\ \A F \in DOMAIN hash : hash[F] \in [exp : ExpTypes, cost : Nat]
  /\ xpc \in {"call", "return"}
  /\ xarg \in Fns
  /\ xstack \in Seq([f : Fns, costs : Seq(Nat)])
  /\ ret \in Nat

(* The assertion of genPSDKRO: every inner function the second pass visits  *)
(* was stored by the first, although the first stops at every memoised one. *)
LookupFinds ==
  (phase = "gen" /\ pc = "call" /\ ~IsConstant(arg)) => arg \in DOMAIN hash

(* The memo table is closed: whatever is stored has its three children      *)
(* stored, or constant.  A lookup can only fail if this does.               *)
MemoClosed ==
  \A F \in DOMAIN hash :
    \A G \in {E0(F), T1(F), X2(F)} : IsConstant(G) \/ G \in DOMAIN hash

(* What the command promises of its size: the ESOP it prints is minimal     *)
(* among the pseudo-Kronecker expressions of the root.                      *)
EsopIsMinimal == Extracted => Len(esop) = OptCost[root]

(* The emitted cubes realise the root: the walk of Psdkro is implemented.   *)
ImplementsPsdkro == GSpec

(* Both passes end.                                                         *)
ExtractEnds == <>Extracted
=============================================================================
