----------------------------- MODULE RdExtract ------------------------------
(***************************************************************************)
(* The rdextract command: RdExtractManager::extract.  partialExpand keeps  *)
(* at each node the two children that a look-ahead estimates cheapest, and *)
(* hands small nodes to fullExpand; refine revisits those decisions with   *)
(* the costs found meanwhile; the walk of module Psdkro emits the cubes.   *)
(* The three searches are recursive and call each other over one table.    *)
(***************************************************************************)
EXTENDS Psdkro

CONSTANTS
  Levels,   \* the levels of look-ahead the user may ask for
  Bounds    \* the BDD sizes the user may give as the bound

ASSUME RdAssumption == Levels \subseteq Nat /\ Bounds \subseteq Nat

VARIABLES
  level, bound, refining,   \* _level, _bound and _refine, from the command line
  phase,    \* "expand", "refine", "gen": the call extract() is in
  hash,     \* _hash: function -> expansion, cost, refined
  rpc,      \* "call": rfn(rarg) is about to run; "return": it returned ret
  rfn,
  rarg,
  rstack,   \* the activations that wait for a callee
  ret

options == <<level, bound, refining>>
rvars == <<options, phase, hash, rpc, rfn, rarg, rstack, ret>>
rdvars == <<gvars, rvars>>

Searches == {"partialExpand", "fullExpand", "refine"}

(* An activation: exp is the expansion decided, todo the children still to  *)
(* be called, costs what the earlier calls returned.  A refine that waits   *)
(* for the cost of the child it had dropped is at "decide".                 *)
RTop == rstack[Len(rstack)]
Frame(fn, F, e, todo, costs) ==
  [fn |-> fn, f |-> F, exp |-> e, todo |-> todo, costs |-> costs]
Push(frame) == rstack' = Append(rstack, frame)
Call(fn, F) == rfn' = fn /\ rarg' = F /\ rpc' = "call"

DefaultEntryNone ==   \* mutant: ExpType has a first enumerator that is no expansion
  [exp |-> "none", cost |-> 0, refined |-> FALSE]

(* The value operator[] inserts for a missing key.                          *)
DefaultEntry == [exp |-> "pD", cost |-> 0, refined |-> FALSE]
Lookup(h, F) == IF F \in DOMAIN h THEN h[F] ELSE DefaultEntry

(* CostLookAhead: estimate by BDD sizes, level - 1 expansions below F.  It  *)
(* tests level = 1 only, so from level 0 it goes down to the constants.     *)
Dearer(S) == CHOOSE x \in S : \A y \in S : y <= x
LookAhead[l \in Nat, F \in Fns] ==
  IF F = Zero THEN 0
  ELSE IF F = One THEN 1
  ELSE IF l = 1 THEN DagSize(F)
  ELSE LET k == IF l = 0 THEN 0 ELSE l - 1
           c0 == LookAhead[k, E0(F)]
           c1 == LookAhead[k, T1(F)]
           c2 == LookAhead[k, X2(F)]
       IN  c0 + c1 + c2 - Dearer({c0, c1, c2})

-----------------------------------------------------------------------------
Init ==
  /\ GInit
  /\ level \in Levels
  /\ bound \in Bounds
  /\ refining \in BOOLEAN
  /\ phase = "expand"
  /\ hash = <<>>
  /\ rpc = "call"
  /\ rfn = "partialExpand"
  /\ rarg = root
  /\ rstack = <<>>
  /\ ret = 0

ReturnConstant ==
  /\ rpc = "call"
  /\ IsConstant(rarg)
  /\ ret' = IF rarg = One THEN 1 ELSE 0
  /\ rpc' = "return"
  /\ UNCHANGED <<gvars, options, phase, hash, rfn, rarg, rstack>>

(* partialExpand and fullExpand stop at a stored function, refine only at   *)
(* one it need not refine any more.                                         *)
ReturnMemo ==
  /\ rpc = "call"
  /\ ~IsConstant(rarg)
  /\ rarg \in DOMAIN hash
  /\ rfn = "refine" => hash[rarg].refined
  /\ ret' = hash[rarg].cost
  /\ rpc' = "return"
  /\ UNCHANGED <<gvars, options, phase, hash, rfn, rarg, rstack>>

New(fn) == rpc = "call" /\ rfn = fn /\ ~IsConstant(rarg) /\ rarg \notin DOMAIN hash

PartialToFull ==
  /\ New("partialExpand")
  /\ DagSize(rarg) <= bound
  /\ rfn' = "fullExpand"
  /\ UNCHANGED <<gvars, options, phase, hash, rpc, rarg, rstack, ret>>

PartialEnter ==
  /\ New("partialExpand")
  /\ ~(DagSize(rarg) <= bound)
  /\ LET c == <<LookAhead[level, E0(rarg)], LookAhead[level, T1(rarg)],
                LookAhead[level, X2(rarg)]>>
         e == ExpDropping(Dropped(c, 0))
     IN  /\ Push(Frame("partialExpand", rarg, e, <<Kept(e)[2]>>, <<>>))
         /\ Call("partialExpand", Child(rarg, Kept(e)[1]))
  /\ UNCHANGED <<gvars, options, phase, hash, ret>>

FullEnter ==
  /\ New("fullExpand")
  /\ Push(Frame("fullExpand", rarg, "none", <<1, 2>>, <<>>))
  /\ Call("fullExpand", Child(rarg, 0))
  /\ UNCHANGED <<gvars, options, phase, hash, ret>>

RefineEnterDropped ==   \* mutant: the dropped child's cost is looked up before it is expanded
  /\ rpc = "call"
  /\ rfn = "refine"
  /\ ~IsConstant(rarg)
  /\ ~hash[rarg].refined
  /\ LET e == hash[rarg].exp
         k1 == Child(rarg, DropOf(e))
         k2 == Child(rarg, Kept(e)[2])
     IN  /\ hash' = Store(Store(hash, k1, Lookup(hash, k1)), k2, Lookup(hash, k2))
         /\ Push(Frame("decide", rarg, e, <<>>, <<Lookup(hash, k1).cost, Lookup(hash, k2).cost>>))
         /\ Call("partialExpand", Child(rarg, Kept(e)[1]))
  /\ UNCHANGED <<gvars, options, phase, ret>>

RefineEnterNoExpand ==   \* mutant: the dropped child is not expanded but taken to be free
  /\ rpc = "call"
  /\ rfn = "refine"
  /\ ~IsConstant(rarg)
  /\ ~hash[rarg].refined
  /\ LET e == hash[rarg].exp
         k1 == Child(rarg, Kept(e)[1])
         k2 == Child(rarg, Kept(e)[2])
     IN  Push(Frame("decide", rarg, e, <<>>, <<Lookup(hash, k1).cost, Lookup(hash, k2).cost>>))
  /\ rpc' = "return"
  /\ ret' = 0
  /\ UNCHANGED <<gvars, options, phase, hash, rfn, rarg>>

(* refine reads the costs of the two children kept so far (inserting a      *)
(* default for a constant, which is never stored) and asks for the third.   *)
RefineEnter ==
  /\ rpc = "call"
  /\ rfn = "refine"
  /\ ~IsConstant(rarg)
  /\ ~hash[rarg].refined
  /\ LET e == hash[rarg].exp
         k1 == Child(rarg, Kept(e)[1])
         k2 == Child(rarg, Kept(e)[2])
     IN  /\ hash' = Store(Store(hash, k1, Lookup(hash, k1)), k2, Lookup(hash, k2))
         /\ Push(Frame("decide", rarg, e, <<>>, <<Lookup(hash, k1).cost, Lookup(hash, k2).cost>>))
         /\ Call("partialExpand", Child(rarg, DropOf(e)))
  /\ UNCHANGED <<gvars, options, phase, ret>>

Returned(fn) == rpc = "return" /\ rstack # <<>> /\ RTop.fn = fn

(* One child is done and another is to be called.                           *)
NextChild ==
  /\ \E fn \in Searches : Returned(fn)
  /\ RTop.todo # <<>>
  /\ rstack' = [rstack EXCEPT ![Len(rstack)].todo = Tail(@),
                              ![Len(rstack)].costs = Append(@, ret)]
  /\ Call(RTop.fn, Child(RTop.f, Head(RTop.todo)))
  /\ UNCHANGED <<gvars, options, phase, hash, ret>>

RefineDecideSwapped ==   \* mutant: the new cost is put at the wrong child
  /\ Returned("decide")
  /\ LET e == ExpDropping(Dropped(<<RTop.costs[1], RTop.costs[2], ret>>, DropOf(RTop.exp)))
     IN  /\ rstack' = Append(Pop(rstack), Frame("refine", RTop.f, e, <<Kept(e)[2]>>, <<>>))
         /\ Call("refine", Child(RTop.f, Kept(e)[1]))
  /\ UNCHANGED <<gvars, options, phase, hash, ret>>

RefineDecideOne ==   \* mutant: only the first of the two kept children is refined
  /\ Returned("decide")
  /\ LET d == DropOf(RTop.exp)
         c == CASE d = 0 -> <<ret, RTop.costs[1], RTop.costs[2]>>
                [] d = 1 -> <<RTop.costs[1], ret, RTop.costs[2]>>
                [] d = 2 -> <<RTop.costs[1], RTop.costs[2], ret>>
         e == ExpDropping(Dropped(c, d))
         k2 == Lookup(hash, Child(RTop.f, Kept(e)[2]))
     IN  /\ rstack' = Append(Pop(rstack), Frame("refine", RTop.f, e, <<>>, <<k2.cost>>))
         /\ Call("refine", Child(RTop.f, Kept(e)[1]))
  /\ UNCHANGED <<gvars, options, phase, hash, ret>>

(* refine knows the three costs: it prefers the expansion it has, decides,  *)
(* and refines the two children it keeps.                                   *)
RefineDecide ==
  /\ Returned("decide")
  /\ LET d == DropOf(RTop.exp)
         c == CASE d = 0 -> <<ret, RTop.costs[1], RTop.costs[2]>>
                [] d = 1 -> <<RTop.costs[1], ret, RTop.costs[2]>>
                [] d = 2 -> <<RTop.costs[1], RTop.costs[2], ret>>
         e == ExpDropping(Dropped(c, d))
     IN  /\ rstack' = Append(Pop(rstack), Frame("refine", RTop.f, e, <<Kept(e)[2]>>, <<>>))
         /\ Call("refine", Child(RTop.f, Kept(e)[1]))
  /\ UNCHANGED <<gvars, options, phase, hash, ret>>

(* The last child is done: store the decision and return its cost.          *)
Return(e, cost, refined) ==
  /\ hash' = Store(hash, RTop.f, [exp |-> e, cost |-> cost, refined |-> refined])
  /\ ret' = cost
  /\ rstack' = Pop(rstack)
  /\ UNCHANGED <<gvars, options, phase, rpc, rfn, rarg>>

StoreDecidedCheap ==   \* mutant: only the second child's cost is stored
  /\ \E fn \in {"partialExpand", "refine"} : Returned(fn)
  /\ RTop.todo = <<>>
  /\ Return(RTop.exp, ret, RTop.fn = "refine")

StoreDecided ==
  /\ \E fn \in {"partialExpand", "refine"} : Returned(fn)
  /\ RTop.todo = <<>>
  /\ Return(RTop.exp, RTop.costs[1] + ret, RTop.fn = "refine")

StoreFull ==
  /\ Returned("fullExpand")
  /\ RTop.todo = <<>>
  /\ LET c == Append(RTop.costs, ret)
         e == ExpDropping(Dropped(c, 0))
     IN  Return(e, KeptCost(c, e), TRUE)

StartRefineAgain ==   \* mutant: extract does not move on after refine
  /\ phase = "expand"
  /\ rpc = "return"
  /\ rstack = <<>>
  /\ refining
  /\ Call("refine", root)
  /\ UNCHANGED <<gvars, options, phase, hash, rstack, ret>>

(* extract: partialExpand, then refine if asked for, then genPSDKRO.        *)
StartRefine ==
  /\ phase = "expand"
  /\ rpc = "return"
  /\ rstack = <<>>
  /\ refining
  /\ phase' = "refine"
  /\ Call("refine", root)
  /\ UNCHANGED <<gvars, options, hash, rstack, ret>>

StartGen ==
  /\ phase = IF refining THEN "refine" ELSE "expand"
  /\ rpc = "return"
  /\ rstack = <<>>
  /\ phase' = "gen"
  /\ UNCHANGED <<gvars, options, hash, rpc, rfn, rarg, rstack, ret>>

GenNodeAtRoot ==   \* mutant: the variable index of the root is used at every node
  /\ pc = "call"
  /\ ~IsConstant(arg)
  /\ GenEnter(TopVar(root), Lookup(hash, arg).exp)
  /\ hash' = Store(hash, arg, Lookup(hash, arg))
  /\ UNCHANGED <<options, phase, rpc, rfn, rarg, rstack, ret>>

GenNode ==
  /\ pc = "call"
  /\ ~IsConstant(arg)
  /\ GenEnter(TopVar(arg), Lookup(hash, arg).exp)
  /\ hash' = Store(hash, arg, Lookup(hash, arg))
  /\ UNCHANGED <<options, phase, rpc, rfn, rarg, rstack, ret>>

GenStep == (GenZero \/ GenOne \/ GenSecond \/ GenLeave) /\ UNCHANGED rvars

Extracted == phase = "gen" /\ GenDone
Terminated == Extracted /\ UNCHANGED rdvars

Next ==
  \/ ReturnConstant
  \/ ReturnMemo
  \/ PartialToFull
  \/ PartialEnter
  \/ FullEnter
  \/ RefineEnter
  \/ NextChild
  \/ RefineDecide
  \/ StoreDecided
  \/ StoreFull
  \/ StartRefine
  \/ StartGen
  \/ phase = "gen" /\ (GenNode \/ GenStep)
  \/ Terminated

Spec == Init /\ [][Next]_rdvars

(* The process is scheduled until it is done.  The deadlock check shows     *)
(* that Next is enabled in every state, so this is WF_rdvars(Next), written *)
(* without ENABLED, which is slow to evaluate with the look-ahead inside.   *)
FairSpec == Spec /\ ([]<>Extracted \/ []<><<Next>>_rdvars)

-----------------------------------------------------------------------------
(* The types of the search's variables.                                     *)
TypeOK ==
  /\ GTypeOK
  /\ level \in Levels /\ bound \in Bounds /\ refining \in BOOLEAN
  /\ phase \in {"expand", "refine", "gen"}
  /\ DOMAIN hash \subseteq Fns
  /\ \A F \in DOMAIN hash : hash[F] \in [exp : ExpTypes, cost : Nat, refined : BOOLEAN]
  /\ rpc \in {"call", "return"} /\ rfn \in Searches /\ rarg \in Fns /\ ret \in Nat
  /\ rstack \in Seq([fn : Searches \cup {"decide"}, f : Fns, exp : ExpTypes \cup {"none"},
                     todo : Seq(Children), costs : Seq(Nat)])

(* The lookups by operator[] insert what they miss.  Only constants are     *)
(* ever missed, so the default expansion is never taken for a decision: an  *)
(* inner function is stored with a decision of a search, which costs cubes. *)
OnlyConstantsDefaulted ==
  \A F \in DOMAIN hash : IF IsConstant(F) THEN hash[F] = DefaultEntry ELSE hash[F].cost > 0

(* refine dereferences the iterator of find(F) without testing it.          *)
RefineFindsEntry ==
  (rpc = "call" /\ rfn = "refine" /\ ~IsConstant(rarg)) => rarg \in DOMAIN hash

(* The number of cubes genPSDKRO emits for F by the decisions in h.         *)
Emits(h, F) ==
  LET n[G \in Fns] ==
        IF G = Zero THEN 0 ELSE IF G = One THEN 1
        ELSE LET e == Lookup(h, G).exp
             IN  n[Child(G, Kept(e)[1])] + n[Child(G, Kept(e)[2])]
  IN  n[F]

(* Costs are memoised when a function is stored and are out of date as soon *)
(* as a child is refined later: at every moment they only err on the high   *)
(* side, so the walk never emits more cubes than a decision counted on.     *)
CostCoversCubes ==
  \A F \in DOMAIN hash : ~IsConstant(F) => Emits(hash, F) <= hash[F].cost

(* What is stored again gets no dearer: refine compares costs that may be   *)
(* out of date, and still never replaces a decision by one that costs more. *)
(* With CostCoversCubes, refine cannot push the number of cubes above what  *)
(* partialExpand had promised for the root.                                 *)
CostsNeverRise ==
  [][\A F \in DOMAIN hash : ~IsConstant(F) => hash'[F].cost <= hash[F].cost]_hash

(* A function is marked refined, and so left alone by every later call of   *)
(* refine, only when both children its new decision keeps are refined.      *)
RefineReachesChildren ==
  [][\A F \in DOMAIN hash :
       (~hash[F].refined /\ hash'[F].refined) =>
         \A i \in {1, 2} :
           LET G == Child(F, Kept(hash'[F].exp)[i])
           IN  IsConstant(G) \/ hash'[G].refined]_hash

(* A bound as large as the root's BDD makes rdextract exact, whatever the   *)
(* level: the ESOP is a smallest one for the order, as bddextract's is.     *)
FullBoundIsExact == (Extracted /\ DagSize(root) <= bound) => Len(esop) = OptCost[root]

(* The walk of Psdkro is implemented: the cubes XOR to the root.            *)
ImplementsPsdkro == GSpec

(* The three searches and the walk end, for every level, bound and root.    *)
ExtractEnds == <>Extracted
=============================================================================
