--------------------------- MODULE RdExtractProofs ---------------------------
(***************************************************************************)
(* Proofs about rdextract, for every number of variables, every set of     *)
(* roots, levels and bounds, whatever the look-ahead estimates: its types, *)
(* that its walk is a walk of Psdkro, so that its ESOP realises the root,  *)
(* that refine finds what it looks up, that only constants are ever        *)
(* defaulted, that no stored cost rises, and that refine confirms what it  *)
(* keeps.                                                                  *)
(***************************************************************************)
EXTENDS RdExtract, PsdkroProofs

-----------------------------------------------------------------------------
(* The inductive invariant.  Cost(h, F) is what the searches return for F   *)
(* if the table is h.                                                       *)
Known(h, F) == IsConstant(F) \/ F \in DOMAIN h
Cost(h, F) == IF F = Zero THEN 0 ELSE IF F = One THEN 1 ELSE h[F].cost
Confirmed(h, F) == IsConstant(F) \/ (F \in DOMAIN h /\ h[F].refined)

KeptChild(F, e, i) == Child(F, Kept(e)[i])

(* The table: both children that a decision keeps are known, and together   *)
(* cost no more than the decision counts on.                                *)
EntryOK(h, F) ==
  IF IsConstant(F) THEN h[F] = DefaultEntry
  ELSE /\ h[F].cost > 0
       /\ \A i \in {1, 2} : Known(h, KeptChild(F, h[F].exp, i))
       /\ Cost(h, KeptChild(F, h[F].exp, 1)) + Cost(h, KeptChild(F, h[F].exp, 2)) <= h[F].cost

TableOK(h) == \A F \in DOMAIN h : EntryOK(h, F)

(* The child an activation waits for.                                       *)
Waits(fr) ==
  IF fr.fn = "fullExpand" THEN Len(fr.costs)
  ELSE IF fr.fn = "decide" THEN DropOf(fr.exp)
  ELSE Kept(fr.exp)[Len(fr.costs) + 1]

Wanted(r, s, k) == IF k = 0 THEN r ELSE Child(s[k].f, Waits(s[k]))

RdFrames == [fn : Searches \cup {"decide"}, f : Fns, exp : ExpTypes \cup {"none"},
             todo : Seq(Children), costs : Seq(Nat)]

(* What an activation has done and still has to do.                         *)
ShapeOK(fr) ==
  /\ fr \in RdFrames
  /\ ~IsConstant(fr.f)
  /\ fr.fn = "fullExpand" =>
       \/ Len(fr.costs) = 0 /\ fr.todo = <<1, 2>>
       \/ Len(fr.costs) = 1 /\ fr.todo = <<2>>
       \/ Len(fr.costs) = 2 /\ fr.todo = <<>>
  /\ fr.fn = "decide" => fr.exp \in ExpTypes /\ Len(fr.costs) = 2 /\ fr.todo = <<>>
  /\ fr.fn \in {"partialExpand", "refine"} =>
       /\ fr.exp \in ExpTypes
       /\ \/ Len(fr.costs) = 0 /\ fr.todo = <<Kept(fr.exp)[2]>>
          \/ Len(fr.costs) = 1 /\ fr.todo = <<>>

(* What its costs are worth, now that the table is h.  partialExpand and    *)
(* fullExpand work on functions that are not stored yet, refine on one that *)
(* is, with children that make its new decision no dearer than the old one. *)
CostsOK(h, fr) ==
  /\ fr.fn = "fullExpand" =>
       /\ fr.f \notin DOMAIN h
       /\ \A i \in Children : i < Len(fr.costs) =>
            Known(h, Child(fr.f, i)) /\ Cost(h, Child(fr.f, i)) <= fr.costs[i + 1]
  /\ fr.fn = "partialExpand" =>
       /\ fr.f \notin DOMAIN h
       /\ Len(fr.costs) = 1 =>
            Known(h, KeptChild(fr.f, fr.exp, 1)) /\ Cost(h, KeptChild(fr.f, fr.exp, 1)) <= fr.costs[1]
  /\ fr.fn = "decide" =>
       /\ fr.f \in DOMAIN h /\ ~h[fr.f].refined /\ fr.exp = h[fr.f].exp
       /\ \A i \in {1, 2} : fr.costs[i] <= Cost(h, KeptChild(fr.f, fr.exp, i))
  /\ fr.fn = "refine" =>
       /\ fr.f \in DOMAIN h /\ ~h[fr.f].refined
       /\ \A i \in {1, 2} : Known(h, KeptChild(fr.f, fr.exp, i))
       /\ Len(fr.costs) = 0 =>
            Cost(h, KeptChild(fr.f, fr.exp, 1)) + Cost(h, KeptChild(fr.f, fr.exp, 2)) <= h[fr.f].cost
       /\ Len(fr.costs) = 1 =>
            /\ Confirmed(h, KeptChild(fr.f, fr.exp, 1))
            /\ Cost(h, KeptChild(fr.f, fr.exp, 1)) <= fr.costs[1]
            /\ fr.costs[1] + Cost(h, KeptChild(fr.f, fr.exp, 2)) <= h[fr.f].cost

(* The activations: each works on the child that the one before waits for;  *)
(* only refine calls refine; each function is free of the variables at      *)
(* which those before it are expanded, so that no function comes twice.     *)
Refining == {"refine", "decide"}

LinkOK(r, s, k) ==
  /\ s[k].f = Wanted(r, s, k - 1)
  /\ \A j \in 1 .. k - 1 :
       /\ FreeUpTo(s[k].f, TopVar(s[j].f))
       /\ s[k].fn \in Refining => s[j].fn = "refine"
  /\ (k > 1 /\ s[k - 1].fn = "refine") => s[k].fn \in Refining

ChainUpTo(r, h, s, n) ==
  \A k \in 1 .. n : ShapeOK(s[k]) /\ CostsOK(h, s[k]) /\ LinkOK(r, s, k)

CallOK(r, h, s, fn, F) ==
  /\ F = Wanted(r, s, Len(s))
  /\ \A j \in 1 .. Len(s) :
       /\ FreeUpTo(F, TopVar(s[j].f))
       /\ fn = "refine" => s[j].fn = "refine"
  /\ (Len(s) > 0 /\ s[Len(s)].fn = "refine") => fn = "refine"
  /\ fn = "refine" => Known(h, F)

ReturnOK(r, h, s, c) ==
  /\ Known(h, Wanted(r, s, Len(s)))
  /\ c = Cost(h, Wanted(r, s, Len(s)))
  /\ (Len(s) > 0 /\ s[Len(s)].fn = "refine") => Confirmed(h, Wanted(r, s, Len(s)))

SearchInv ==
  /\ TableOK(hash)
  /\ ChainUpTo(root, hash, rstack, Len(rstack))
  /\ rpc = "call" => CallOK(root, hash, rstack, rfn, rarg)
  /\ rpc = "return" => ReturnOK(root, hash, rstack, ret)

(* The walk only meets functions that the searches know.                    *)
GenInv ==
  /\ phase # "gen" => stack = <<>> /\ arg = root
  /\ phase = "gen" => rstack = <<>> /\ rpc = "return" /\ (pc = "call" => Known(hash, arg))
  /\ \A i \in 1 .. Len(stack) :
       stack[i].half = 1 => Known(hash, SecondChild(stack[i].f, stack[i].var, stack[i].exp))

-----------------------------------------------------------------------------
(* Facts about decisions.                                                   *)
LEMMA KeptCases ==
  ASSUME NEW e \in ExpTypes
  PROVE  \/ e = "nD" /\ Kept(e)[1] = 1 /\ Kept(e)[2] = 2 /\ DropOf(e) = 0
         \/ e = "pD" /\ Kept(e)[1] = 0 /\ Kept(e)[2] = 2 /\ DropOf(e) = 1
         \/ e = "Sh" /\ Kept(e)[1] = 0 /\ Kept(e)[2] = 1 /\ DropOf(e) = 2
<1>1. ExpDropping(0) = "nD" /\ ExpDropping(1) = "pD" /\ ExpDropping(2) = "Sh"
  BY DEF ExpDropping
<1>2. DropOf(e) \in Children /\ ExpDropping(DropOf(e)) = e
  <2>1. \E i \in Children : ExpDropping(i) = e
    BY <1>1 DEF ExpTypes, Children
  <2>. QED
    BY <2>1 DEF DropOf
<1>3. DropOf(e) = 0 \/ DropOf(e) = 1 \/ DropOf(e) = 2
  BY <1>2 DEF Children
<1>4. /\ Kept("nD") = <<1, 2>> /\ Kept("pD") = <<0, 2>> /\ Kept("Sh") = <<0, 1>>
  BY DEF Kept
<1>. QED
  BY <1>1, <1>2, <1>3, <1>4 DEF ExpTypes

LEMMA KeptFacts ==
  ASSUME NEW e \in ExpTypes
  PROVE  /\ Kept(e)[1] \in Children /\ Kept(e)[2] \in Children /\ DropOf(e) \in Children
         /\ \A i \in {1, 2} : Kept(e)[i] \in Children
BY KeptCases DEF Children

LEMMA KeptByDrop ==
  ASSUME NEW e \in ExpTypes
  PROVE  /\ DropOf(e) = 0 => Kept(e)[1] = 1 /\ Kept(e)[2] = 2
         /\ DropOf(e) = 1 => Kept(e)[1] = 0 /\ Kept(e)[2] = 2
         /\ DropOf(e) = 2 => Kept(e)[1] = 0 /\ Kept(e)[2] = 1
BY KeptCases

LEMMA DropFacts ==
  ASSUME NEW d \in Children
  PROVE  ExpDropping(d) \in ExpTypes /\ DropOf(ExpDropping(d)) = d
<1>1. ExpDropping(0) = "nD" /\ ExpDropping(1) = "pD" /\ ExpDropping(2) = "Sh"
  BY DEF ExpDropping
<1>2. d = 0 \/ d = 1 \/ d = 2
  BY DEF Children
<1>3. ExpDropping(d) \in ExpTypes
  BY <1>1, <1>2 DEF ExpTypes
<1>. QED
  BY <1>1, <1>2, <1>3, KeptCases

(* Dropping another child than the one dropped so far makes it no dearer:   *)
(* c holds what is believed of the costs, r what is true of them.           *)
LEMMA DropDearest ==
  ASSUME NEW c, NEW d \in Children,
         c[1] \in Nat, c[2] \in Nat, c[3] \in Nat,
         NEW r0 \in Nat, NEW r1 \in Nat, NEW r2 \in Nat,
         c[1] <= r0, c[2] <= r1, c[3] <= r2,
         d = 0 => c[1] = r0, d = 1 => c[2] = r1, d = 2 => c[3] = r2,
         NEW x \in Children, x = Dropped(c, d)
  PROVE  /\ x = 0 /\ d = 1 => r0 >= r1
         /\ x = 0 /\ d = 2 => r0 >= r2
         /\ x = 1 /\ d = 0 => r1 >= r0
         /\ x = 1 /\ d = 2 => r1 >= r2
         /\ x = 2 /\ d = 0 => r2 >= r0
         /\ x = 2 /\ d = 1 => r2 >= r1
<1>1. /\ 0 \in Dearest(c) <=> c[1] >= c[2] /\ c[1] >= c[3]
      /\ 1 \in Dearest(c) <=> c[2] >= c[1] /\ c[2] >= c[3]
      /\ 2 \in Dearest(c) <=> c[3] >= c[1] /\ c[3] >= c[2]
  BY DEF Dearest, Children
<1>2. 0 \in Dearest(c) \/ 1 \in Dearest(c) \/ 2 \in Dearest(c)
  BY <1>1
<1>3. /\ x = d \/ x \in Dearest(c)
  BY <1>2 DEF Dropped
<1>. QED
  BY <1>1, <1>3

(* A function is not 0 if two of its children are.                          *)
LEMMA KeptNotZero ==
  ASSUME NEW F \in Fns, ~IsConstant(F), NEW e \in ExpTypes
  PROVE  KeptChild(F, e, 1) # Zero \/ KeptChild(F, e, 2) # Zero
<1>. SUFFICES ASSUME KeptChild(F, e, 1) = Zero, KeptChild(F, e, 2) = Zero PROVE FALSE
  OBVIOUS
<1>1. TopVar(F) \in Vars
  BY TopVarProperties
<1>2. PICK m \in Minterms : m \in F
  BY DEF IsConstant, Zero, Fns
<1>3. E0(F) = Zero /\ T1(F) = Zero
  <2>1. \A G, H \in Fns : Xor(G, H) = Zero => G = H
    BY DEF Xor, Zero, Fns
  <2>2. E0(F) \in Fns /\ T1(F) \in Fns
    BY CofactorTypes
  <2>3. X2(F) = Zero => E0(F) = T1(F)
    BY <2>1, <2>2 DEF X2
  <2>. QED
    BY <2>3, KeptCases, ChildCases DEF KeptChild
<1>4. CASE TopVar(F) \in m
  <2>1. m \cup {TopVar(F)} = m
    BY <1>4
  <2>2. m \in T1(F)
    BY <1>2, <2>1 DEF T1, T
  <2>. QED
    BY <1>3, <2>2 DEF Zero
<1>5. CASE TopVar(F) \notin m
  <2>1. m \ {TopVar(F)} = m
    BY <1>5
  <2>2. m \in E0(F)
    BY <1>2, <2>1 DEF E0, E
  <2>. QED
    BY <1>3, <2>2 DEF Zero
<1>. QED
  BY <1>4, <1>5

-----------------------------------------------------------------------------
(* The child an activation waits for.                                       *)
LEMMA WaitsForChild ==
  ASSUME NEW fr, ShapeOK(fr)
  PROVE  /\ fr.f \in Fns /\ ~IsConstant(fr.f)
         /\ Waits(fr) \in Children
         /\ Len(fr.costs) \in Nat /\ \A i \in 1 .. Len(fr.costs) : fr.costs[i] \in Nat
<1>1. fr.f \in Fns /\ fr.fn \in Searches \cup {"decide"} /\ fr.costs \in Seq(Nat)
  BY DEF ShapeOK, RdFrames
<1>2. Len(fr.costs) \in Nat /\ \A i \in 1 .. Len(fr.costs) : fr.costs[i] \in Nat
  BY <1>1, LenProperties, ElementOfSeq
<1>3. ASSUME fr.fn = "fullExpand"
      PROVE  Waits(fr) \in Children
  BY <1>3 DEF ShapeOK, Waits, Children
<1>4. ASSUME fr.fn = "decide"
      PROVE  Waits(fr) \in Children
  BY <1>4, KeptFacts DEF ShapeOK, Waits
<1>5. ASSUME fr.fn \in {"partialExpand", "refine"}
      PROVE  Waits(fr) \in Children
  <2>1. fr.exp \in ExpTypes /\ Len(fr.costs) \in {0, 1}
    BY <1>5 DEF ShapeOK
  <2>2. \A l \in {0, 1} : l + 1 \in {1, 2}
    OBVIOUS
  <2>3. Kept(fr.exp)[Len(fr.costs) + 1] \in Children
    BY <2>1, <2>2, KeptFacts
  <2>. QED
    BY <1>5, <2>3 DEF Waits
<1>6. ~IsConstant(fr.f)
  BY DEF ShapeOK
<1>. QED
  BY <1>1, <1>2, <1>3, <1>4, <1>5, <1>6 DEF Searches

-----------------------------------------------------------------------------
(* The table.                                                               *)
Entries == [exp : ExpTypes, cost : Nat, refined : BOOLEAN]

TableTypes(h) == DOMAIN h \subseteq Fns /\ \A F \in DOMAIN h : h[F] \in Entries

(* From h to g the searches have learned, and nothing has become dearer.    *)
Evolves(h, g) ==
  \A G : Known(h, G) => /\ Known(g, G)
                        /\ Cost(g, G) <= Cost(h, G)
                        /\ Confirmed(h, G) => Confirmed(g, G)

SameCosts(h, g) == \A G : Known(h, G) => Cost(g, G) = Cost(h, G)

(* g is h but for constants that a lookup has inserted.                     *)
Padded(h, g) ==
  /\ DOMAIN h \subseteq DOMAIN g
  /\ \A G \in DOMAIN h : g[G] = h[G]
  /\ \A G \in DOMAIN g \ DOMAIN h : IsConstant(G) /\ G \in Fns /\ g[G] = DefaultEntry

LEMMA ConstantsAreFns == \A G : IsConstant(G) => G \in Fns /\ (G = Zero \/ G = One)
BY DEF IsConstant, Zero, One, Fns

LEMMA CostNat ==
  ASSUME NEW h, TableTypes(h), NEW G, Known(h, G)
  PROVE  Cost(h, G) \in Nat /\ G \in Fns
<1>1. CASE IsConstant(G)
  BY <1>1, ConstantsAreFns DEF Cost
<1>2. CASE ~IsConstant(G)
  BY <1>2 DEF Cost, Known, TableTypes, Entries, IsConstant
<1>. QED
  BY <1>1, <1>2

LEMMA KeptChildTypes ==
  ASSUME NEW F \in Fns, NEW e \in ExpTypes, NEW i \in {1, 2}
  PROVE  KeptChild(F, e, i) \in Fns
<1>1. Kept(e)[i] \in Children
  BY KeptFacts
<1>. QED
  BY <1>1, CofactorTypes DEF KeptChild

LEMMA DefaultIsEntry == DefaultEntry \in Entries
BY DEF DefaultEntry, Entries, ExpTypes

LEMMA LookupPads ==
  ASSUME NEW h, NEW k, Known(h, k)
  PROVE  Padded(h, Store(h, k, Lookup(h, k)))
<1>1. k \notin DOMAIN h => IsConstant(k) /\ k \in Fns /\ Lookup(h, k) = DefaultEntry
  BY ConstantsAreFns DEF Known, Lookup
<1>2. k \in DOMAIN h => Lookup(h, k) = h[k]
  BY DEF Lookup
<1>3. PICK en : en = Lookup(h, k)
  OBVIOUS
<1>4. PICK g : g = Store(h, k, en)
  OBVIOUS
<1>5. DOMAIN g = DOMAIN h \cup {k} /\ \A G \in DOMAIN g : g[G] = IF G = k THEN en ELSE h[G]
  BY <1>4 DEF Store
<1>6. Padded(h, g)
  BY <1>1, <1>2, <1>3, <1>5 DEF Padded
<1>. QED
  BY <1>3, <1>4, <1>6

LEMMA PadsTwice ==
  ASSUME NEW h, NEW g, NEW i, Padded(h, g), Padded(g, i)
  PROVE  Padded(h, i)
BY DEF Padded

LEMMA PaddedEvolves ==
  ASSUME NEW h, NEW g, Padded(h, g), TableTypes(h)
  PROVE  /\ Evolves(h, g) /\ SameCosts(h, g) /\ TableTypes(g)
         /\ \A G : ~IsConstant(G) => (G \in DOMAIN g <=> G \in DOMAIN h)
<1>1. TableTypes(g)
  BY DefaultIsEntry DEF Padded, TableTypes
<1>2. \A G : ~IsConstant(G) => (G \in DOMAIN g <=> G \in DOMAIN h)
  BY DEF Padded
<1>3. ASSUME NEW G, Known(h, G)
      PROVE  /\ Known(g, G) /\ Cost(g, G) = Cost(h, G)
             /\ Confirmed(h, G) => Confirmed(g, G)
  <2>1. CASE IsConstant(G)
    BY <2>1, ConstantsAreFns DEF Known, Cost, Confirmed
  <2>2. CASE ~IsConstant(G)
    <3>1. G \in DOMAIN h /\ g[G] = h[G] /\ G \in DOMAIN g
      BY <1>3, <2>2 DEF Known, Padded
    <3>. QED
      BY <3>1 DEF Known, Cost, Confirmed
  <2>. QED
    BY <2>1, <2>2
<1>4. \A G : Known(h, G) => Cost(h, G) <= Cost(h, G)
  BY CostNat
<1>. QED
  BY <1>1, <1>2, <1>3, <1>4 DEF Evolves, SameCosts

LEMMA EntryStays ==
  ASSUME NEW h, NEW g, TableTypes(h), TableTypes(g), Evolves(h, g),
         NEW F \in DOMAIN h, F \in DOMAIN g, g[F] = h[F], EntryOK(h, F)
  PROVE  EntryOK(g, F)
<1>1. CASE IsConstant(F)
  BY <1>1 DEF EntryOK
<1>2. CASE ~IsConstant(F)
  <2>. DEFINE e == h[F].exp
              A == KeptChild(F, e, 1)
              B == KeptChild(F, e, 2)
  <2>1. /\ h[F].cost > 0 /\ \A i \in {1, 2} : Known(h, KeptChild(F, e, i))
        /\ Cost(h, A) + Cost(h, B) <= h[F].cost
    BY <1>2 DEF EntryOK
  <2>2. /\ Cost(h, A) \in Nat /\ Cost(h, B) \in Nat /\ Cost(g, A) \in Nat /\ Cost(g, B) \in Nat
        /\ Cost(g, A) <= Cost(h, A) /\ Cost(g, B) <= Cost(h, B)
        /\ \A i \in {1, 2} : Known(g, KeptChild(F, e, i))
    BY <2>1, CostNat DEF Evolves
  <2>3. h[F].cost \in Nat
    BY DEF TableTypes, Entries
  <2>4. Cost(g, A) + Cost(g, B) <= h[F].cost
    BY <2>1, <2>2, <2>3
  <2>. QED
    BY <1>2, <2>1, <2>2, <2>4 DEF EntryOK
<1>. QED
  BY <1>1, <1>2

LEMMA PaddedTable ==
  ASSUME NEW h, NEW g, Padded(h, g), TableTypes(h), TableOK(h)
  PROVE  TableOK(g)
<1>1. ASSUME NEW F \in DOMAIN g
      PROVE  EntryOK(g, F)
  <2>1. CASE F \in DOMAIN h
    BY <2>1, PaddedEvolves, EntryStays DEF TableOK, Padded
  <2>2. CASE F \notin DOMAIN h
    BY <2>2 DEF Padded, EntryOK
  <2>. QED
    BY <2>1, <2>2
<1>. QED
  BY <1>1 DEF TableOK

(* A decision is stored for F, which was not stored or not refined.         *)
LEMMA StoreEvolves ==
  ASSUME NEW h, TableTypes(h), NEW F \in Fns, ~IsConstant(F), NEW en \in Entries,
         F \in DOMAIN h => en.refined /\ en.cost <= h[F].cost,
         NEW g, g = Store(h, F, en)
  PROVE  /\ TableTypes(g) /\ Evolves(h, g)
         /\ F \notin DOMAIN h => SameCosts(h, g)
         /\ DOMAIN g = DOMAIN h \cup {F} /\ g[F] = en
         /\ \A G \in DOMAIN h : G # F => g[G] = h[G]
<1>1. /\ DOMAIN g = DOMAIN h \cup {F} /\ g[F] = en
      /\ \A G \in DOMAIN h : G # F => g[G] = h[G]
  BY DEF Store
<1>2. TableTypes(g)
  BY <1>1 DEF TableTypes
<1>3. ASSUME NEW G, Known(h, G)
      PROVE  /\ Known(g, G) /\ (G # F => Cost(g, G) = Cost(h, G)) /\ Cost(g, G) <= Cost(h, G)
             /\ Confirmed(h, G) => Confirmed(g, G)
  <2>0. Cost(h, G) \in Nat
    BY <1>3, CostNat
  <2>1. CASE IsConstant(G)
    BY <2>0, <2>1, ConstantsAreFns DEF Known, Cost, Confirmed
  <2>2. CASE ~IsConstant(G) /\ G # F
    <3>1. G \in DOMAIN h /\ g[G] = h[G] /\ G \in DOMAIN g
      BY <1>1, <1>3, <2>2 DEF Known
    <3>2. Cost(g, G) = Cost(h, G)
      BY <3>1 DEF Cost
    <3>. QED
      BY <2>0, <3>1, <3>2 DEF Known, Confirmed
  <2>3. CASE G = F
    <3>1. F \in DOMAIN h /\ F # Zero /\ F # One
      BY <1>3, <2>3 DEF Known, IsConstant
    <3>2. Cost(g, F) = en.cost /\ Cost(h, F) = h[F].cost
      BY <1>1, <3>1 DEF Cost
    <3>. QED
      BY <1>1, <2>3, <3>1, <3>2 DEF Known, Confirmed
  <2>. QED
    BY <2>1, <2>2, <2>3
<1>4. ASSUME F \notin DOMAIN h
      PROVE  SameCosts(h, g)
  BY <1>3, <1>4 DEF SameCosts, Known
<1>. QED
  BY <1>1, <1>2, <1>3, <1>4 DEF Evolves

LEMMA StoreTable ==
  ASSUME NEW h, TableTypes(h), TableOK(h), NEW F \in Fns, ~IsConstant(F), NEW en \in Entries,
         F \in DOMAIN h => en.refined /\ en.cost <= h[F].cost,
         NEW g, g = Store(h, F, en), EntryOK(g, F)
  PROVE  TableOK(g)
<1>0. /\ DOMAIN g = DOMAIN h \cup {F} /\ \A G \in DOMAIN h : G # F => g[G] = h[G]
  BY DEF Store
<1>1. TableTypes(g) /\ Evolves(h, g)
  BY StoreEvolves
<1>2. ASSUME NEW G \in DOMAIN g, G # F
      PROVE  EntryOK(g, G)
  BY <1>0, <1>1, <1>2, EntryStays DEF TableOK
<1>. QED
  BY <1>2 DEF TableOK

-----------------------------------------------------------------------------
(* The activations, when the table or the stack changes.                    *)
LEMMA StaysKnown ==
  ASSUME NEW h, NEW g, TableTypes(h), TableTypes(g), Evolves(h, g), NEW G, Known(h, G)
  PROVE  /\ Known(g, G) /\ (Confirmed(h, G) => Confirmed(g, G))
         /\ Cost(h, G) \in Nat /\ Cost(g, G) \in Nat /\ Cost(g, G) <= Cost(h, G)
BY CostNat DEF Evolves

LEMMA CostsStay ==
  ASSUME NEW h, NEW g, TableTypes(h), TableTypes(g), TableOK(h), Evolves(h, g),
         NEW fr, ShapeOK(fr), CostsOK(h, fr),
         fr.f \in DOMAIN g <=> fr.f \in DOMAIN h,
         fr.f \in DOMAIN h => g[fr.f] = h[fr.f],
         fr.fn = "decide" => SameCosts(h, g)
  PROVE  CostsOK(g, fr)
<1>0. /\ fr.f \in Fns /\ ~IsConstant(fr.f) /\ Len(fr.costs) \in Nat
      /\ \A i \in 1 .. Len(fr.costs) : fr.costs[i] \in Nat
  BY WaitsForChild
<1>1. CASE fr.fn = "fullExpand"
  <2>1. ASSUME NEW i \in Children, i < Len(fr.costs)
        PROVE  Known(g, Child(fr.f, i)) /\ Cost(g, Child(fr.f, i)) <= fr.costs[i + 1]
    <3>1. i + 1 \in 1 .. Len(fr.costs)
      BY <1>0, <2>1 DEF Children
    <3>2. fr.costs[i + 1] \in Nat
      BY <1>0, <3>1
    <3>3. Known(h, Child(fr.f, i)) /\ Cost(h, Child(fr.f, i)) <= fr.costs[i + 1]
      BY <1>1, <2>1 DEF CostsOK
    <3>. QED
      BY <3>2, <3>3, StaysKnown
  <2>. QED
    BY <1>1, <2>1 DEF CostsOK
<1>2. CASE fr.fn = "partialExpand"
  <2>1. ASSUME Len(fr.costs) = 1
        PROVE  /\ Known(g, KeptChild(fr.f, fr.exp, 1))
               /\ Cost(g, KeptChild(fr.f, fr.exp, 1)) <= fr.costs[1]
    <3>1. fr.costs[1] \in Nat
      BY <1>0, <2>1
    <3>2. /\ Known(h, KeptChild(fr.f, fr.exp, 1))
          /\ Cost(h, KeptChild(fr.f, fr.exp, 1)) <= fr.costs[1]
      BY <1>2, <2>1 DEF CostsOK
    <3>. QED
      BY <3>1, <3>2, StaysKnown
  <2>. QED
    BY <1>2, <2>1 DEF CostsOK
<1>3. CASE fr.fn = "decide"
  <2>1. /\ fr.f \in DOMAIN h /\ ~h[fr.f].refined /\ fr.exp = h[fr.f].exp
        /\ \A i \in {1, 2} : fr.costs[i] <= Cost(h, KeptChild(fr.f, fr.exp, i))
    BY <1>3 DEF CostsOK
  <2>2. \A i \in {1, 2} : Known(h, KeptChild(fr.f, fr.exp, i))
    BY <1>0, <2>1 DEF TableOK, EntryOK
  <2>3. \A i \in {1, 2} : Cost(g, KeptChild(fr.f, fr.exp, i)) = Cost(h, KeptChild(fr.f, fr.exp, i))
    BY <1>3, <2>2 DEF SameCosts
  <2>4. /\ fr.f \in DOMAIN g /\ ~g[fr.f].refined /\ fr.exp = g[fr.f].exp
        /\ \A i \in {1, 2} : fr.costs[i] <= Cost(g, KeptChild(fr.f, fr.exp, i))
    BY <2>1, <2>3
  <2>. QED
    BY <1>3, <2>4 DEF CostsOK
<1>4. CASE fr.fn = "refine"
  <2>. DEFINE A == KeptChild(fr.f, fr.exp, 1)
              B == KeptChild(fr.f, fr.exp, 2)
  <2>1. /\ fr.f \in DOMAIN h /\ ~h[fr.f].refined
        /\ \A i \in {1, 2} : Known(h, KeptChild(fr.f, fr.exp, i))
        /\ Len(fr.costs) = 0 => Cost(h, A) + Cost(h, B) <= h[fr.f].cost
        /\ Len(fr.costs) = 1 => /\ Confirmed(h, A) /\ Cost(h, A) <= fr.costs[1]
                                /\ fr.costs[1] + Cost(h, B) <= h[fr.f].cost
    BY <1>4 DEF CostsOK
  <2>2. \A i \in {1, 2} : Known(g, KeptChild(fr.f, fr.exp, i))
    BY <2>1, StaysKnown
  <2>3. /\ Known(h, A) /\ Known(h, B)
    BY <2>1
  <2>4. /\ Cost(h, A) \in Nat /\ Cost(g, A) \in Nat /\ Cost(g, A) <= Cost(h, A)
        /\ Cost(h, B) \in Nat /\ Cost(g, B) \in Nat /\ Cost(g, B) <= Cost(h, B)
        /\ Confirmed(h, A) => Confirmed(g, A)
    BY <2>3, StaysKnown
  <2>5. h[fr.f].cost \in Nat /\ g[fr.f] = h[fr.f]
    BY <2>1 DEF TableTypes, Entries
  <2>. HIDE DEF A, B
  <2>6. Len(fr.costs) = 0 => Cost(g, A) + Cost(g, B) <= h[fr.f].cost
    BY <2>1, <2>4, <2>5
  <2>7. ASSUME Len(fr.costs) = 1
        PROVE  /\ Confirmed(g, A) /\ Cost(g, A) <= fr.costs[1]
               /\ fr.costs[1] + Cost(g, B) <= h[fr.f].cost
    <3>1. fr.costs[1] \in Nat
      BY <1>0, <2>7
    <3>2. PICK x \in Nat : x = fr.costs[1]
      BY <3>1
    <3>. QED
      BY <2>1, <2>4, <2>5, <2>7, <3>2
  <2>. USE DEF A, B
  <2>. QED
    BY <1>4, <2>1, <2>2, <2>5, <2>6, <2>7 DEF CostsOK
<1>5. fr.fn \in {"fullExpand", "partialExpand", "decide", "refine"}
  BY DEF ShapeOK, RdFrames, Searches
<1>. QED
  BY <1>1, <1>2, <1>3, <1>4, <1>5

LEMMA WantedSame ==
  ASSUME NEW r, NEW s, NEW t, NEW n \in Nat, \A k \in 1 .. n : t[k] = s[k]
  PROVE  \A k \in 0 .. n : Wanted(r, t, k) = Wanted(r, s, k)
<1>1. \A k \in 0 .. n : k = 0 \/ k \in 1 .. n
  OBVIOUS
<1>. QED
  BY <1>1 DEF Wanted

(* The stack t is s up to n - 1, and has another activation at n.           *)
LEMMA ChainExtends ==
  ASSUME NEW r, NEW h, NEW s, NEW t, NEW n \in Nat \ {0},
         ChainUpTo(r, h, s, n - 1), \A k \in 1 .. n - 1 : t[k] = s[k],
         ShapeOK(t[n]), CostsOK(h, t[n]), LinkOK(r, t, n)
  PROVE  ChainUpTo(r, h, t, n)
<1>1. ASSUME NEW k \in 1 .. n - 1
      PROVE  LinkOK(r, t, k)
  <2>1. k \in 1 .. n - 1 /\ k - 1 \in 0 .. n - 1 /\ \A j \in 1 .. k - 1 : j \in 1 .. n - 1
    OBVIOUS
  <2>2. Wanted(r, t, k - 1) = Wanted(r, s, k - 1) /\ \A j \in 1 .. k - 1 : t[j] = s[j]
    <3>1. n - 1 \in Nat
      OBVIOUS
    <3>2. \A i \in 0 .. n - 1 : Wanted(r, t, i) = Wanted(r, s, i)
      BY <3>1, WantedSame
    <3>. QED
      BY <2>1, <3>2
  <2>3. k > 1 => k - 1 \in 1 .. n - 1
    OBVIOUS
  <2>4. LinkOK(r, s, k) /\ t[k] = s[k]
    BY DEF ChainUpTo
  <2>. QED
    BY <2>2, <2>3, <2>4 DEF LinkOK
<1>2. \A k \in 1 .. n - 1 : ShapeOK(t[k]) /\ CostsOK(h, t[k])
  BY DEF ChainUpTo
<1>3. \A k \in 1 .. n : k = n \/ k \in 1 .. n - 1
  OBVIOUS
<1>. QED
  BY <1>1, <1>2, <1>3 DEF ChainUpTo

LEMMA ChainShorter ==
  ASSUME NEW r, NEW h, NEW s, NEW n \in Nat \ {0}, ChainUpTo(r, h, s, n)
  PROVE  /\ ChainUpTo(r, h, s, n - 1)
         /\ ShapeOK(s[n]) /\ CostsOK(h, s[n]) /\ LinkOK(r, s, n)
<1>1. n \in 1 .. n /\ \A k \in 1 .. n - 1 : k \in 1 .. n
  OBVIOUS
<1>. QED
  BY <1>1 DEF ChainUpTo

(* The table changes at most at F, which no activation up to n works on.    *)
LEMMA ChainEvolves ==
  ASSUME NEW r, NEW h, NEW g, TableTypes(h), TableTypes(g), TableOK(h), Evolves(h, g),
         NEW s, NEW n \in Nat, ChainUpTo(r, h, s, n),
         \A k \in 1 .. n : /\ s[k].f \in DOMAIN g <=> s[k].f \in DOMAIN h
                           /\ s[k].f \in DOMAIN h => g[s[k].f] = h[s[k].f]
                           /\ s[k].fn = "decide" => SameCosts(h, g)
  PROVE  ChainUpTo(r, g, s, n)
<1>1. ASSUME NEW k \in 1 .. n
      PROVE  ShapeOK(s[k]) /\ CostsOK(g, s[k]) /\ LinkOK(r, s, k)
  <2>1. ShapeOK(s[k]) /\ CostsOK(h, s[k]) /\ LinkOK(r, s, k)
    BY DEF ChainUpTo
  <2>. QED
    BY <2>1, CostsStay
<1>. QED
  BY <1>1 DEF ChainUpTo

(* What the activation at n calls: a child of its function.                 *)
LEMMA CalleeBelow ==
  ASSUME NEW r, NEW h, NEW s, NEW n \in Nat \ {0}, ChainUpTo(r, h, s, n),
         NEW i \in Children
  PROVE  /\ Child(s[n].f, i) \in Fns
         /\ \A j \in 1 .. n : FreeUpTo(Child(s[n].f, i), TopVar(s[j].f))
<1>1. ShapeOK(s[n]) /\ LinkOK(r, s, n)
  BY ChainShorter
<1>2. s[n].f \in Fns /\ ~IsConstant(s[n].f)
  BY <1>1, WaitsForChild
<1>3. \A j \in 1 .. n : j = n \/ j \in 1 .. n - 1
  OBVIOUS
<1>4. \A j \in 1 .. n - 1 : FreeUpTo(s[n].f, TopVar(s[j].f))
  BY <1>1 DEF LinkOK
<1>. QED
  BY <1>2, <1>3, <1>4, ChildBelow, CofactorTypes

LEMMA StackSteps ==
  ASSUME NEW s \in Seq(RdFrames)
  PROVE  /\ Len(s) \in Nat /\ \A k \in 1 .. Len(s) : s[k] \in RdFrames
         /\ \A fr \in RdFrames :
              /\ Append(s, fr) \in Seq(RdFrames) /\ Len(Append(s, fr)) = Len(s) + 1
              /\ Append(s, fr)[Len(s) + 1] = fr
              /\ \A k \in 1 .. Len(s) : Append(s, fr)[k] = s[k]
<1>1. Len(s) \in Nat /\ \A k \in 1 .. Len(s) : s[k] \in RdFrames
  BY LenProperties, ElementOfSeq
<1>. QED
  BY <1>1, AppendFacts

(* A call enters: its activation is on top.                                 *)
LEMMA PushOK ==
  ASSUME NEW r, NEW h, NEW s, NEW n \in Nat, n = Len(s), ChainUpTo(r, h, s, n),
         NEW fn, NEW F, CallOK(r, h, s, fn, F),
         NEW t, \A k \in 1 .. n : t[k] = s[k],
         t[n + 1].f = F, ShapeOK(t[n + 1]), CostsOK(h, t[n + 1]),
         IF fn = "refine" THEN t[n + 1].fn = "decide"
                          ELSE t[n + 1].fn \in {"partialExpand", "fullExpand"}
  PROVE  ChainUpTo(r, h, t, n + 1)
<1>1. \A k \in 0 .. n : Wanted(r, t, k) = Wanted(r, s, k)
  BY WantedSame
<1>2. n + 1 \in Nat \ {0} /\ (n + 1) - 1 = n /\ n \in 0 .. n /\ (n > 0 => n \in 1 .. n)
  OBVIOUS
<1>3. n + 1 > 1 <=> n > 0
  OBVIOUS
<1>4. Wanted(r, t, n) = F
  BY <1>1, <1>2 DEF CallOK
<1>5. /\ \A j \in 1 .. n : /\ FreeUpTo(F, TopVar(t[j].f))
                           /\ t[n + 1].fn \in Refining => t[j].fn = "refine"
      /\ (n > 0 /\ t[n].fn = "refine") => t[n + 1].fn \in Refining
  BY <1>2 DEF CallOK, Refining
<1>6. LinkOK(r, t, n + 1)
  BY <1>2, <1>3, <1>4, <1>5 DEF LinkOK
<1>. QED
  BY <1>2, <1>6, ChainExtends

(* The activation on top moves on.                                          *)
LEMMA ReplaceOK ==
  ASSUME NEW r, NEW h, NEW s, NEW n \in Nat \ {0}, ChainUpTo(r, h, s, n),
         NEW t, \A k \in 1 .. n - 1 : t[k] = s[k],
         t[n].f = s[n].f, t[n].fn \in Refining <=> s[n].fn \in Refining,
         ShapeOK(t[n]), CostsOK(h, t[n])
  PROVE  ChainUpTo(r, h, t, n)
<1>1. n - 1 \in Nat /\ n - 1 \in 0 .. n - 1 /\ (n > 1 => n - 1 \in 1 .. n - 1)
  OBVIOUS
<1>2. Wanted(r, t, n - 1) = Wanted(r, s, n - 1)
  BY <1>1, WantedSame
<1>3. ChainUpTo(r, h, s, n - 1) /\ LinkOK(r, s, n)
  BY ChainShorter
<1>4. LinkOK(r, t, n)
  BY <1>1, <1>2, <1>3 DEF LinkOK
<1>. QED
  BY <1>3, <1>4, ChainExtends

(* The activation on top, fr, calls.                                        *)
Calls(h, fr, fn, F) ==
  /\ F = Child(fr.f, Waits(fr))
  /\ fn = "refine" <=> fr.fn = "refine"
  /\ fn = "refine" => Known(h, F)

LEMMA CalleeOK ==
  ASSUME NEW r, NEW h, NEW t, NEW m \in Nat \ {0}, m = Len(t), ChainUpTo(r, h, t, m),
         NEW fr, fr = t[m], NEW fn, NEW F, Calls(h, fr, fn, F)
  PROVE  CallOK(r, h, t, fn, F) /\ F \in Fns
<1>0. /\ F = Child(t[m].f, Waits(t[m]))
      /\ fn = "refine" <=> t[m].fn = "refine"
      /\ fn = "refine" => Known(h, F)
  BY DEF Calls
<1>1. ShapeOK(t[m]) /\ LinkOK(r, t, m)
  BY ChainShorter
<1>2. Waits(t[m]) \in Children
  BY <1>1, WaitsForChild
<1>3. F \in Fns /\ \A j \in 1 .. m : FreeUpTo(F, TopVar(t[j].f))
  BY <1>0, <1>2, CalleeBelow
<1>4. F = Wanted(r, t, m)
  BY <1>0 DEF Wanted
<1>5. \A j \in 1 .. m : j = m \/ j \in 1 .. m - 1
  OBVIOUS
<1>6. \A j \in 1 .. m : fn = "refine" => t[j].fn = "refine"
  BY <1>0, <1>1, <1>5 DEF LinkOK, Refining
<1>. QED
  BY <1>0, <1>3, <1>4, <1>6 DEF CallOK

LEMMA CostPositive ==
  ASSUME NEW h, TableTypes(h), TableOK(h), NEW G, Known(h, G), G # Zero
  PROVE  Cost(h, G) \in Nat /\ Cost(h, G) > 0
<1>1. CASE IsConstant(G)
  BY <1>1, ConstantsAreFns DEF Cost
<1>2. CASE ~IsConstant(G)
  <2>1. h[G].cost > 0 /\ G # One
    BY <1>2 DEF Known, TableOK, EntryOK, IsConstant
  <2>. QED
    BY <2>1, CostNat DEF Cost
<1>. QED
  BY <1>1, <1>2

(* The activation on top, fr, stores its decision en and returns its cost.  *)
Decided(h, fr, en) ==
  /\ \A i \in {1, 2} : Known(h, KeptChild(fr.f, en.exp, i))
  /\ Cost(h, KeptChild(fr.f, en.exp, 1)) + Cost(h, KeptChild(fr.f, en.exp, 2)) <= en.cost
  /\ fr.fn = "refine" => /\ en.refined /\ en.cost <= h[fr.f].cost
                         /\ \A i \in {1, 2} : Confirmed(h, KeptChild(fr.f, en.exp, i))
  /\ fr.fn \in Searches

Stored(r, h, g, t, m, fr, en) ==
  /\ TableTypes(g) /\ TableOK(g) /\ Evolves(h, g)
  /\ ChainUpTo(r, g, t, m)
  /\ ReturnOK(r, g, t, en.cost)
  /\ fr.fn # "refine" => fr.f \notin DOMAIN h
  /\ fr.fn = "refine" => \A i \in {1, 2} : Confirmed(g, KeptChild(fr.f, en.exp, i))

LEMMA StoreOK ==
  ASSUME NEW r, NEW h, TableTypes(h), TableOK(h),
         NEW s, NEW n \in Nat \ {0}, n = Len(s), ChainUpTo(r, h, s, n),
         NEW fr, fr = s[n], NEW en \in Entries, Decided(h, fr, en),
         NEW t, Len(t) = n - 1, \A k \in 1 .. n - 1 : t[k] = s[k]
  PROVE  Stored(r, h, Store(h, fr.f, en), t, n - 1, fr, en)
<1>1. PICK g, F : g = Store(h, F, en) /\ F = fr.f
  OBVIOUS
<1>2. ShapeOK(fr)
  BY ChainShorter
<1>3. F \in Fns /\ ~IsConstant(F) /\ F = s[n].f
  BY <1>1, <1>2, WaitsForChild
<1>4. /\ \A i \in {1, 2} : Known(h, KeptChild(F, en.exp, i))
      /\ Cost(h, KeptChild(F, en.exp, 1)) + Cost(h, KeptChild(F, en.exp, 2)) <= en.cost
      /\ s[n].fn = "refine" => /\ en.refined /\ en.cost <= h[F].cost
                               /\ \A i \in {1, 2} : Confirmed(h, KeptChild(F, en.exp, i))
      /\ s[n].fn \in Searches
  BY <1>1 DEF Decided
<1>5. ShapeOK(s[n]) /\ CostsOK(h, s[n]) /\ LinkOK(r, s, n) /\ ChainUpTo(r, h, s, n - 1)
  BY ChainShorter
<1>6. /\ s[n].fn # "refine" => F \notin DOMAIN h
      /\ F \in DOMAIN h => en.refined /\ en.cost <= h[F].cost
  BY <1>3, <1>4, <1>5 DEF CostsOK, Searches
<1>7. TableTypes(g) /\ Evolves(h, g) /\ (F \notin DOMAIN h => SameCosts(h, g))
  BY <1>1, <1>3, <1>6, StoreEvolves
<1>8. /\ DOMAIN g = DOMAIN h \cup {F} /\ g[F] = en
      /\ \A G \in DOMAIN h : G # F => g[G] = h[G]
  BY <1>1 DEF Store
<1>9. EntryOK(g, F)
  <2>. DEFINE A == KeptChild(F, en.exp, 1)
              B == KeptChild(F, en.exp, 2)
  <2>1. /\ Known(h, A) /\ Known(h, B)
    BY <1>4
  <2>2. /\ Cost(h, A) \in Nat /\ Cost(g, A) \in Nat /\ Cost(g, A) <= Cost(h, A)
        /\ Cost(h, B) \in Nat /\ Cost(g, B) \in Nat /\ Cost(g, B) <= Cost(h, B)
    BY <1>7, <2>1, StaysKnown
  <2>3. \A i \in {1, 2} : Known(g, KeptChild(F, en.exp, i))
    BY <1>4, <1>7, StaysKnown
  <2>4. en.cost \in Nat /\ en.exp \in ExpTypes
    BY DEF Entries
  <2>5. Cost(g, A) + Cost(g, B) <= en.cost
    BY <1>4, <2>2, <2>4
  <2>6. Cost(h, A) > 0 \/ Cost(h, B) > 0
    BY <1>3, <2>1, <2>4, KeptNotZero, CostPositive
  <2>7. en.cost > 0
    BY <1>4, <2>2, <2>4, <2>6
  <2>. QED
    BY <1>3, <1>8, <2>3, <2>5, <2>7 DEF EntryOK
<1>10. TableOK(g)
  BY <1>1, <1>3, <1>6, <1>9, StoreTable
<1>11. ASSUME NEW k \in 1 .. n - 1
      PROVE  /\ s[k].f \in DOMAIN g <=> s[k].f \in DOMAIN h
             /\ s[k].f \in DOMAIN h => g[s[k].f] = h[s[k].f]
             /\ s[k].fn = "decide" => SameCosts(h, g)
  <2>1. ShapeOK(s[k])
    BY <1>5 DEF ChainUpTo
  <2>2. s[k].f \in Fns /\ ~IsConstant(s[k].f)
    BY <2>1, WaitsForChild
  <2>3. FreeUpTo(F, TopVar(s[k].f)) /\ (s[n].fn = "refine" => s[k].fn = "refine")
    BY <1>3, <1>5 DEF LinkOK, Refining
  <2>4. s[k].f # F
    BY <2>2, <2>3, NotAgain
  <2>. QED
    BY <1>3, <1>4, <1>6, <1>7, <1>8, <2>3, <2>4
<1>12. n - 1 \in Nat /\ n - 1 \in 0 .. n - 1 /\ (n > 1 <=> n - 1 > 0) /\ (n > 1 => n - 1 \in 1 .. n - 1)
  OBVIOUS
<1>13. ChainUpTo(r, g, s, n - 1)
  BY <1>5, <1>7, <1>11, <1>12, ChainEvolves
<1>14. Wanted(r, t, n - 1) = F
  <2>1. Wanted(r, t, n - 1) = Wanted(r, s, n - 1)
    BY <1>12, WantedSame
  <2>. QED
    BY <1>3, <1>5, <2>1 DEF LinkOK
<1>15. ChainUpTo(r, g, t, n - 1)
  <2>1. ASSUME NEW k \in 1 .. n - 1
        PROVE  ShapeOK(t[k]) /\ CostsOK(g, t[k]) /\ LinkOK(r, t, k)
    <3>1. ShapeOK(s[k]) /\ CostsOK(g, s[k]) /\ LinkOK(r, s, k)
      BY <1>13 DEF ChainUpTo
    <3>2. \A i \in 0 .. n - 1 : Wanted(r, t, i) = Wanted(r, s, i)
      <4>1. PICK m \in Nat : m = n - 1
        BY <1>12
      <4>2. \A i \in 1 .. m : t[i] = s[i]
        BY <4>1
      <4>3. \A i \in 0 .. m : Wanted(r, t, i) = Wanted(r, s, i)
        BY <4>2, WantedSame
      <4>. QED
        BY <4>1, <4>3
    <3>3. k - 1 \in 0 .. n - 1 /\ (k > 1 => k - 1 \in 1 .. n - 1) /\ \A j \in 1 .. k - 1 : j \in 1 .. n - 1
      OBVIOUS
    <3>4. LinkOK(r, t, k)
      BY <3>1, <3>2, <3>3 DEF LinkOK
    <3>. QED
      BY <3>1, <3>4
  <2>. QED
    BY <2>1 DEF ChainUpTo
<1>16. ReturnOK(r, g, t, en.cost)
  <2>1. F # Zero /\ F # One
    BY <1>3 DEF IsConstant
  <2>2. Known(g, F) /\ Cost(g, F) = en.cost
    BY <1>8, <2>1 DEF Known, Cost
  <2>3. (n - 1 > 0 /\ t[n - 1].fn = "refine") => Confirmed(g, F)
    <3>1. (n > 1 /\ s[n - 1].fn = "refine") => s[n].fn = "refine"
      BY <1>3, <1>4, <1>5 DEF LinkOK, Refining, Searches
    <3>. QED
      BY <1>4, <1>8, <1>12, <3>1 DEF Confirmed
  <2>. QED
    BY <1>14, <2>2, <2>3 DEF ReturnOK
<1>17. s[n].fn = "refine" => \A i \in {1, 2} : Confirmed(g, KeptChild(F, en.exp, i))
  BY <1>4, <1>7, StaysKnown
<1>. QED
  BY <1>1, <1>6, <1>7, <1>10, <1>15, <1>16, <1>17 DEF Stored

-----------------------------------------------------------------------------
(* The steps of the searches.                                               *)
RdTypeOK ==
  /\ level \in Levels /\ bound \in Bounds /\ refining \in BOOLEAN
  /\ phase \in {"expand", "refine", "gen"}
  /\ TableTypes(hash)
  /\ rpc \in {"call", "return"} /\ rfn \in Searches /\ rarg \in Fns /\ ret \in Nat
  /\ rstack \in Seq(RdFrames)

LEMMA RdTypeSplit == TypeOK <=> GTypeOK /\ RdTypeOK
BY DEF TypeOK, RdTypeOK, TableTypes, Entries, RdFrames

(* What is newly marked refined keeps two children that are.                *)
Reaches(h, g) ==
  \A F \in DOMAIN h : (~h[F].refined /\ g[F].refined) =>
    \A i \in {1, 2} : Confirmed(g, KeptChild(F, g[F].exp, i))

SearchStep == RdTypeOK' /\ SearchInv' /\ Evolves(hash, hash') /\ Reaches(hash, hash')

LEMMA TableSame ==
  ASSUME NEW h, TableTypes(h)
  PROVE  Evolves(h, h) /\ Reaches(h, h)
<1>1. \A G : Known(h, G) => Cost(h, G) \in Nat
  BY CostNat
<1>. QED
  BY <1>1 DEF Evolves, Reaches

LEMMA ReturnConstantStep ==
  ASSUME RdTypeOK, SearchInv, ReturnConstant
  PROVE  SearchStep
<1>1. /\ hash' = hash /\ root' = root /\ rstack' = rstack /\ rpc' = "return" /\ rpc = "call"
      /\ UNCHANGED <<options, phase, rfn, rarg>>
  BY DEF ReturnConstant, gvars
<1>2. ret' \in Nat /\ ret' = Cost(hash, rarg) /\ Known(hash, rarg) /\ Confirmed(hash, rarg)
  <2>1. IsConstant(rarg) /\ (rarg = Zero \/ rarg = One) /\ Zero # One
    BY ConstantsAreFns DEF ReturnConstant, Zero, One, Minterms
  <2>2. ret' = IF rarg = One THEN 1 ELSE 0
    BY DEF ReturnConstant
  <2>. QED
    BY <2>1, <2>2 DEF Cost, Known, Confirmed
<1>3. ReturnOK(root, hash, rstack, ret')
  BY <1>1, <1>2 DEF SearchInv, CallOK, ReturnOK
<1>4. RdTypeOK'
  BY <1>1, <1>2 DEF RdTypeOK, options
<1>5. SearchInv'
  BY <1>1, <1>3 DEF SearchInv
<1>. QED
  BY <1>1, <1>4, <1>5, TableSame DEF SearchStep, RdTypeOK

LEMMA ReturnMemoStep ==
  ASSUME RdTypeOK, SearchInv, ReturnMemo
  PROVE  SearchStep
<1>1. /\ hash' = hash /\ root' = root /\ rstack' = rstack /\ rpc' = "return" /\ rpc = "call"
      /\ UNCHANGED <<options, phase, rfn, rarg>>
  BY DEF ReturnMemo, gvars
<1>2. /\ Known(hash, rarg) /\ ret' = Cost(hash, rarg)
      /\ rfn = "refine" => Confirmed(hash, rarg)
  BY DEF ReturnMemo, Cost, Known, Confirmed, IsConstant
<1>3. ret' \in Nat
  BY <1>2, CostNat DEF RdTypeOK
<1>4. ReturnOK(root, hash, rstack, ret')
  BY <1>1, <1>2 DEF SearchInv, CallOK, ReturnOK
<1>5. RdTypeOK'
  BY <1>1, <1>3 DEF RdTypeOK, options
<1>6. SearchInv'
  BY <1>1, <1>4 DEF SearchInv
<1>. QED
  BY <1>1, <1>5, <1>6, TableSame DEF SearchStep, RdTypeOK

LEMMA PartialToFullStep ==
  ASSUME RdTypeOK, SearchInv, PartialToFull
  PROVE  SearchStep
<1>1. /\ hash' = hash /\ root' = root /\ rstack' = rstack /\ rpc' = "call" /\ rpc = "call"
      /\ rfn = "partialExpand" /\ rfn' = "fullExpand" /\ rarg' = rarg
      /\ UNCHANGED <<options, phase, ret>>
  BY DEF PartialToFull, New, gvars
<1>2. CallOK(root, hash, rstack, "fullExpand", rarg)
  BY <1>1 DEF SearchInv, CallOK
<1>3. RdTypeOK'
  BY <1>1 DEF RdTypeOK, options, Searches
<1>4. SearchInv'
  BY <1>1, <1>2 DEF SearchInv
<1>. QED
  BY <1>1, <1>3, <1>4, TableSame DEF SearchStep, RdTypeOK

(* partialExpand and fullExpand enter: fr is their new activation.          *)
LEMMA EnterStep ==
  ASSUME RdTypeOK, SearchInv, UNCHANGED <<gvars, options, phase, hash, ret>>,
         rpc = "call", rfn \in {"partialExpand", "fullExpand"},
         rarg \notin DOMAIN hash,
         NEW fr, fr.f = rarg, fr.fn = rfn, ShapeOK(fr), Len(fr.costs) = 0,
         rstack' = Append(rstack, fr),
         rpc' = "call", rfn' = rfn, rarg' = Child(rarg, Waits(fr))
  PROVE  SearchStep
<1>1. PICK n \in Nat : n = Len(rstack)
  BY StackSteps DEF RdTypeOK
<1>2. fr \in RdFrames /\ rfn # "refine" /\ fr.fn # "refine" /\ fr.fn # "decide"
  BY DEF ShapeOK
<1>3. /\ rstack' \in Seq(RdFrames) /\ Len(rstack') = n + 1 /\ rstack'[n + 1] = fr
      /\ \A k \in 1 .. n : rstack'[k] = rstack[k]
  BY <1>1, <1>2, StackSteps DEF RdTypeOK
<1>4. \A i \in Children : ~(i < 0)
  BY DEF Children
<1>5. CostsOK(hash, fr)
  BY <1>2, <1>4 DEF CostsOK
<1>6. ChainUpTo(root, hash, rstack, n) /\ CallOK(root, hash, rstack, rfn, rarg)
  BY <1>1 DEF SearchInv
<1>7. ChainUpTo(root, hash, rstack', n + 1)
  BY <1>1, <1>2, <1>3, <1>5, <1>6, PushOK
<1>8. n + 1 \in Nat \ {0}
  OBVIOUS
<1>9. CallOK(root, hash, rstack', rfn, rarg') /\ rarg' \in Fns
  <2>1. PICK t : t = rstack'
    OBVIOUS
  <2>2. PICK m \in Nat \ {0} : m = n + 1
    BY <1>8
  <2>3. m = Len(t) /\ ChainUpTo(root, hash, t, m) /\ t[m] = fr
    BY <1>3, <1>7, <2>1, <2>2
  <2>4. Calls(hash, fr, rfn, rarg')
    BY <1>2 DEF Calls
  <2>5. CallOK(root, hash, t, rfn, rarg') /\ rarg' \in Fns
    BY <2>3, <2>4, CalleeOK
  <2>. QED
    BY <2>1, <2>5
<1>10. RdTypeOK'
  BY <1>3, <1>9 DEF RdTypeOK, options
<1>11. hash' = hash /\ root' = root
  BY DEF gvars
<1>12. SearchInv'
  BY <1>3, <1>7, <1>9, <1>11 DEF SearchInv
<1>. QED
  BY <1>10, <1>11, <1>12, TableSame DEF SearchStep, RdTypeOK

LEMMA EmptyLen == Len(<<>>) = 0 /\ <<>> \in Seq(Nat) /\ <<>> \in Seq(Children)
BY EmptySeq

LEMMA PartialEnterStep ==
  ASSUME RdTypeOK, SearchInv, PartialEnter
  PROVE  SearchStep
<1>1. PICK e : /\ e \in ExpTypes
               /\ rstack' = Append(rstack, Frame("partialExpand", rarg, e, <<Kept(e)[2]>>, <<>>))
               /\ rfn' = "partialExpand" /\ rarg' = Child(rarg, Kept(e)[1]) /\ rpc' = "call"
  <2>1. \A c : ExpDropping(Dropped(c, 0)) \in ExpTypes
    BY DroppedIsChild, DropFacts DEF Children
  <2>. QED
    BY <2>1 DEF PartialEnter, Push, Call
<1>2. PICK fr : fr = Frame("partialExpand", rarg, e, <<Kept(e)[2]>>, <<>>)
  OBVIOUS
<1>3. /\ fr.fn = "partialExpand" /\ fr.f = rarg /\ fr.exp = e
      /\ fr.todo = <<Kept(e)[2]>> /\ fr.costs = <<>>
  BY <1>2 DEF Frame
<1>4. /\ rpc = "call" /\ rfn = "partialExpand" /\ ~IsConstant(rarg) /\ rarg \notin DOMAIN hash
      /\ UNCHANGED <<gvars, options, phase, hash, ret>>
  BY DEF PartialEnter, New
<1>5. fr \in RdFrames
  <2>1. Kept(e)[2] \in Children
    BY <1>1, KeptFacts
  <2>2. <<Kept(e)[2]>> \in Seq(Children)
    BY <2>1
  <2>. QED
    BY <1>1, <1>2, <2>2, EmptyLen DEF Frame, RdFrames, RdTypeOK, Searches
<1>6. Len(fr.costs) = 0
  BY <1>3, EmptyLen
<1>7. ShapeOK(fr)
  BY <1>1, <1>3, <1>4, <1>5, <1>6 DEF ShapeOK
<1>8. Waits(fr) = Kept(e)[1]
  BY <1>3, <1>6 DEF Waits
<1>. QED
  BY <1>1, <1>2, <1>3, <1>4, <1>6, <1>7, <1>8, EnterStep

LEMMA FullEnterStep ==
  ASSUME RdTypeOK, SearchInv, FullEnter
  PROVE  SearchStep
<1>1. PICK fr : fr = Frame("fullExpand", rarg, "none", <<1, 2>>, <<>>)
  OBVIOUS
<1>2. /\ rstack' = Append(rstack, fr)
      /\ rfn' = "fullExpand" /\ rarg' = Child(rarg, 0) /\ rpc' = "call"
  BY <1>1 DEF FullEnter, Push, Call
<1>3. /\ fr.fn = "fullExpand" /\ fr.f = rarg /\ fr.todo = <<1, 2>> /\ fr.costs = <<>>
  BY <1>1 DEF Frame
<1>4. /\ rpc = "call" /\ rfn = "fullExpand" /\ ~IsConstant(rarg) /\ rarg \notin DOMAIN hash
      /\ UNCHANGED <<gvars, options, phase, hash, ret>>
  BY DEF FullEnter, New
<1>5. fr \in RdFrames
  <2>1. <<1, 2>> \in Seq(Children)
    BY DEF Children
  <2>. QED
    BY <1>1, <2>1, EmptyLen DEF Frame, RdFrames, RdTypeOK, Searches
<1>6. Len(fr.costs) = 0
  BY <1>3, EmptyLen
<1>7. ShapeOK(fr)
  BY <1>3, <1>4, <1>5, <1>6 DEF ShapeOK
<1>8. Waits(fr) = 0
  BY <1>3, <1>6 DEF Waits
<1>. QED
  BY <1>2, <1>3, <1>4, <1>6, <1>7, <1>8, EnterStep

LEMMA LookupsPad ==
  ASSUME NEW h, NEW k, Known(h, k), NEW l, Known(h, l)
  PROVE  Padded(h, Store(Store(h, k, Lookup(h, k)), l, Lookup(h, l)))
<1>1. PICK g : g = Store(h, k, Lookup(h, k))
  OBVIOUS
<1>2. PICK en : en = Lookup(h, l)
  OBVIOUS
<1>3. PICK i : i = Store(g, l, en)
  OBVIOUS
<1>4. Padded(h, g)
  BY <1>1, LookupPads
<1>5. DOMAIN i = DOMAIN g \cup {l} /\ \A G \in DOMAIN i : i[G] = IF G = l THEN en ELSE g[G]
  BY <1>3 DEF Store
<1>6. IF l \in DOMAIN h THEN en = h[l] ELSE IsConstant(l) /\ l \in Fns /\ en = DefaultEntry
  BY <1>2, ConstantsAreFns DEF Known, Lookup
<1>7. Padded(h, i)
  BY <1>4, <1>5, <1>6 DEF Padded
<1>. QED
  BY <1>1, <1>2, <1>3, <1>7

(* What a lookup says a kept child costs.                                   *)
LEMMA LookupCost ==
  ASSUME NEW h, TableTypes(h), TableOK(h), NEW k, Known(h, k)
  PROVE  Lookup(h, k).cost \in Nat /\ Lookup(h, k).cost <= Cost(h, k)
<1>1. CASE IsConstant(k)
  <2>1. Lookup(h, k) = DefaultEntry
    BY <1>1 DEF Lookup, TableOK, EntryOK
  <2>2. Lookup(h, k).cost = 0
    BY <2>1 DEF DefaultEntry
  <2>. QED
    BY <2>2, CostNat
<1>2. CASE ~IsConstant(k)
  <2>1. k \in DOMAIN h /\ k # Zero /\ k # One
    BY <1>2 DEF Known, IsConstant
  <2>2. Lookup(h, k).cost = Cost(h, k)
    BY <2>1 DEF Lookup, Cost
  <2>. QED
    BY <2>2, CostNat
<1>. QED
  BY <1>1, <1>2

LEMMA RefineEnterStep ==
  ASSUME RdTypeOK, SearchInv, RefineEnter
  PROVE  SearchStep
<1>1. PICK n \in Nat : n = Len(rstack)
  BY StackSteps DEF RdTypeOK
<1>2. PICK h, F : h = hash /\ F = rarg
  OBVIOUS
<1>3. /\ rpc = "call" /\ rfn = "refine" /\ ~IsConstant(F) /\ ~h[F].refined
      /\ UNCHANGED <<gvars, options, phase, ret>>
  BY <1>2 DEF RefineEnter
<1>4. CallOK(root, h, rstack, "refine", F) /\ ChainUpTo(root, h, rstack, n) /\ TableOK(h)
  BY <1>1, <1>2, <1>3 DEF SearchInv
<1>5. F \in Fns /\ F \in DOMAIN h /\ TableTypes(h) /\ h[F].exp \in ExpTypes
  BY <1>2, <1>3, <1>4 DEF CallOK, Known, RdTypeOK, TableTypes, Entries
<1>6. PICK e \in ExpTypes : e = h[F].exp
  BY <1>5
<1>7. PICK k1, k2 : k1 = KeptChild(F, e, 1) /\ k2 = KeptChild(F, e, 2)
  OBVIOUS
<1>8. PICK c1, c2 : c1 = Lookup(h, k1).cost /\ c2 = Lookup(h, k2).cost
  OBVIOUS
<1>9. PICK fr : fr = Frame("decide", F, e, <<>>, <<c1, c2>>)
  OBVIOUS
<1>10. PICK g : g = Store(Store(h, k1, Lookup(h, k1)), k2, Lookup(h, k2))
  OBVIOUS
<1>11. /\ hash' = g /\ rstack' = Append(rstack, fr)
       /\ rfn' = "partialExpand" /\ rarg' = Child(F, DropOf(e)) /\ rpc' = "call"
  BY <1>2, <1>6, <1>7, <1>8, <1>9, <1>10 DEF RefineEnter, Push, Call, KeptChild
<1>12. Known(h, k1) /\ Known(h, k2)
  BY <1>3, <1>4, <1>5, <1>6, <1>7 DEF TableOK, EntryOK
<1>13. Padded(h, g)
  BY <1>10, <1>12, LookupsPad
<1>14. /\ TableTypes(g) /\ TableOK(g) /\ Evolves(h, g) /\ SameCosts(h, g)
       /\ \A G : ~IsConstant(G) => (G \in DOMAIN g <=> G \in DOMAIN h)
       /\ \A G \in DOMAIN h : g[G] = h[G]
  BY <1>4, <1>5, <1>13, PaddedEvolves, PaddedTable DEF Padded
<1>15. c1 \in Nat /\ c2 \in Nat /\ c1 <= Cost(g, k1) /\ c2 <= Cost(g, k2)
  BY <1>4, <1>5, <1>8, <1>12, <1>14, LookupCost DEF SameCosts
<1>16. /\ fr.fn = "decide" /\ fr.f = F /\ fr.exp = e /\ fr.todo = <<>> /\ fr.costs = <<c1, c2>>
       /\ fr \in RdFrames /\ Len(fr.costs) = 2 /\ fr.costs[1] = c1 /\ fr.costs[2] = c2
  <2>1. <<c1, c2>> \in Seq(Nat)
    BY <1>15
  <2>2. Len(<<c1, c2>>) = 2 /\ <<c1, c2>>[1] = c1 /\ <<c1, c2>>[2] = c2
    OBVIOUS
  <2>3. /\ fr.fn = "decide" /\ fr.f = F /\ fr.exp = e /\ fr.todo = <<>> /\ fr.costs = <<c1, c2>>
    BY <1>9 DEF Frame
  <2>4. fr \in RdFrames
    BY <1>5, <1>9, <2>1, EmptyLen DEF Frame, RdFrames
  <2>. QED
    BY <2>2, <2>3, <2>4
<1>17. ShapeOK(fr)
  BY <1>3, <1>16 DEF ShapeOK
<1>18. CostsOK(g, fr)
  <2>1. fr.f \in DOMAIN g /\ ~g[fr.f].refined /\ fr.exp = g[fr.f].exp
    BY <1>3, <1>5, <1>6, <1>14, <1>16
  <2>2. \A i \in {1, 2} : fr.costs[i] <= Cost(g, KeptChild(fr.f, fr.exp, i))
    <3>1. fr.costs[1] <= Cost(g, KeptChild(fr.f, fr.exp, 1))
      BY <1>7, <1>15, <1>16
    <3>2. fr.costs[2] <= Cost(g, KeptChild(fr.f, fr.exp, 2))
      BY <1>7, <1>15, <1>16
    <3>. QED
      BY <3>1, <3>2
  <2>. QED
    BY <1>16, <2>1, <2>2 DEF CostsOK
<1>19. ChainUpTo(root, g, rstack, n)
  <2>1. ASSUME NEW k \in 1 .. n
        PROVE  /\ rstack[k].f \in DOMAIN g <=> rstack[k].f \in DOMAIN h
               /\ rstack[k].f \in DOMAIN h => g[rstack[k].f] = h[rstack[k].f]
    <3>1. ~IsConstant(rstack[k].f)
      BY <1>4 DEF ChainUpTo, ShapeOK
    <3>. QED
      BY <1>14, <3>1
  <2>. QED
    BY <1>4, <1>5, <1>14, <2>1, ChainEvolves
<1>20. CallOK(root, g, rstack, "refine", F)
  BY <1>4, <1>14 DEF CallOK, Evolves
<1>21. PICK t : t = rstack'
  OBVIOUS
<1>22. /\ t \in Seq(RdFrames) /\ Len(t) = n + 1 /\ t[n + 1] = fr
       /\ \A k \in 1 .. n : t[k] = rstack[k]
  BY <1>1, <1>11, <1>16, <1>21, StackSteps DEF RdTypeOK
<1>23. ChainUpTo(root, g, t, n + 1)
  BY <1>1, <1>16, <1>17, <1>18, <1>19, <1>20, <1>22, PushOK
<1>24. CallOK(root, g, t, "partialExpand", rarg') /\ rarg' \in Fns
  <2>1. Waits(fr) = DropOf(e)
    BY <1>16 DEF Waits
  <2>2. PICK m \in Nat \ {0} : m = n + 1
    OBVIOUS
  <2>3. m = Len(t) /\ ChainUpTo(root, g, t, m) /\ t[m] = fr
    BY <1>22, <1>23, <2>2
  <2>4. PICK fn, G : fn = "partialExpand" /\ G = rarg'
    OBVIOUS
  <2>5. Calls(g, fr, fn, G)
    BY <1>11, <1>16, <2>1, <2>4 DEF Calls
  <2>6. CallOK(root, g, t, fn, G) /\ G \in Fns
    BY <2>3, <2>5, CalleeOK
  <2>. QED
    BY <2>4, <2>6
<1>25. RdTypeOK'
  BY <1>3, <1>11, <1>14, <1>21, <1>22, <1>24 DEF RdTypeOK, options, Searches
<1>26. SearchInv'
  <2>1. root' = root
    BY <1>3 DEF gvars
  <2>. QED
    BY <1>11, <1>14, <1>21, <1>22, <1>23, <1>24, <2>1 DEF SearchInv
<1>27. Reaches(h, g)
  BY <1>14 DEF Reaches
<1>. QED
  BY <1>2, <1>11, <1>14, <1>25, <1>26, <1>27 DEF SearchStep

(* A call has returned to the activation on top.                            *)
LEMMA TopReturned ==
  ASSUME RdTypeOK, SearchInv, rpc = "return", rstack # <<>>
  PROVE  /\ Len(rstack) \in Nat \ {0} /\ RTop = rstack[Len(rstack)] /\ RTop \in RdFrames
         /\ ChainUpTo(root, hash, rstack, Len(rstack))
         /\ ShapeOK(RTop) /\ CostsOK(hash, RTop)
         /\ Known(hash, Child(RTop.f, Waits(RTop)))
         /\ ret = Cost(hash, Child(RTop.f, Waits(RTop)))
         /\ RTop.fn = "refine" => Confirmed(hash, Child(RTop.f, Waits(RTop)))
<1>1. Len(rstack) \in Nat \ {0} /\ RTop = rstack[Len(rstack)] /\ RTop \in RdFrames
  BY PopProperties DEF RdTypeOK, RTop
<1>2. ChainUpTo(root, hash, rstack, Len(rstack)) /\ ReturnOK(root, hash, rstack, ret)
  BY DEF SearchInv
<1>3. ShapeOK(RTop) /\ CostsOK(hash, RTop)
  BY <1>1, <1>2, ChainShorter
<1>4. Wanted(root, rstack, Len(rstack)) = Child(RTop.f, Waits(RTop))
  BY <1>1 DEF Wanted
<1>. QED
  BY <1>1, <1>2, <1>3, <1>4 DEF ReturnOK

LEMMA Tuples ==
  /\ Tail(<<1, 2>>) = <<2>> /\ Head(<<1, 2>>) = 1
  /\ \A x : Tail(<<x>>) = <<>> /\ Head(<<x>>) = x /\ <<x>> # <<>>
  /\ <<1, 2>> # <<>>
OBVIOUS

(* The activation after NextChild is well shaped and waits for the child    *)
(* that NextChild calls.                                                    *)
Advanced(fr, c) == [fr EXCEPT !.todo = Tail(fr.todo), !.costs = Append(fr.costs, c)]

AdvanceOK(fr, u, c) ==
  /\ ShapeOK(u) /\ u.fn = fr.fn /\ u.f = fr.f /\ u.exp = fr.exp
  /\ Waits(u) = Head(fr.todo)
  /\ Len(u.costs) = Len(fr.costs) + 1 /\ u.costs[Len(fr.costs) + 1] = c
  /\ \A i \in 1 .. Len(fr.costs) : u.costs[i] = fr.costs[i]
  /\ IF fr.fn = "fullExpand" THEN Len(fr.costs) \in {0, 1}
     ELSE Len(fr.costs) = 0 /\ fr.todo = <<Kept(fr.exp)[2]>> /\ Waits(fr) = Kept(fr.exp)[1]

LEMMA NextShape ==
  ASSUME NEW a, ShapeOK(a), a.fn \in Searches, a.todo # <<>>, NEW x \in Nat
  PROVE  AdvanceOK(a, Advanced(a, x), x)
<1>0. PICK b : b = Advanced(a, x)
  OBVIOUS
<1>1. /\ a \in RdFrames /\ a.costs \in Seq(Nat) /\ a.todo \in Seq(Children)
      /\ Len(a.costs) \in Nat
  BY LenProperties DEF ShapeOK, RdFrames
<1>2. /\ b.fn = a.fn /\ b.f = a.f /\ b.exp = a.exp
      /\ b.todo = Tail(a.todo) /\ b.costs = Append(a.costs, x)
  <2>1. \A td, cs : LET y == [a EXCEPT !.todo = td, !.costs = cs]
                    IN  y.fn = a.fn /\ y.f = a.f /\ y.exp = a.exp /\ y.todo = td /\ y.costs = cs
    BY <1>1 DEF RdFrames
  <2>. QED
    BY <1>0, <2>1 DEF Advanced
<1>3. /\ b.costs \in Seq(Nat) /\ Len(b.costs) = Len(a.costs) + 1
      /\ b.costs[Len(a.costs) + 1] = x
      /\ \A i \in 1 .. Len(a.costs) : b.costs[i] = a.costs[i]
  BY <1>1, <1>2, AppendFacts
<1>4. Tail(a.todo) \in Seq(Children)
  BY <1>1
<1>5. b \in RdFrames
  <2>1. \A td \in Seq(Children), cs \in Seq(Nat) :
          [a EXCEPT !.todo = td, !.costs = cs] \in RdFrames
    BY <1>1 DEF RdFrames
  <2>2. Append(a.costs, x) \in Seq(Nat)
    BY <1>2, <1>3
  <2>. QED
    BY <1>0, <1>4, <2>1, <2>2 DEF Advanced
<1>6. ASSUME a.fn = "fullExpand" PROVE AdvanceOK(a, b, x)
  <2>1. \/ Len(a.costs) = 0 /\ a.todo = <<1, 2>>
        \/ Len(a.costs) = 1 /\ a.todo = <<2>>
    BY <1>6 DEF ShapeOK
  <2>2. \/ Len(b.costs) = 1 /\ b.todo = <<2>> /\ Head(a.todo) = 1 /\ Len(a.costs) = 0
        \/ Len(b.costs) = 2 /\ b.todo = <<>> /\ Head(a.todo) = 2 /\ Len(a.costs) = 1
    <3>1. CASE Len(a.costs) = 0 /\ a.todo = <<1, 2>>
      <4>1. Len(b.costs) = 1
        BY <1>3, <3>1
      <4>. QED
        BY <1>2, <3>1, <4>1, Tuples
    <3>2. CASE Len(a.costs) = 1 /\ a.todo = <<2>>
      <4>1. Len(b.costs) = 2
        BY <1>3, <3>2
      <4>. QED
        BY <1>2, <3>2, <4>1, Tuples
    <3>. QED
      BY <2>1, <3>1, <3>2
  <2>3. ShapeOK(b)
    BY <1>2, <1>5, <1>6, <2>2 DEF ShapeOK
  <2>4. Waits(b) = Head(a.todo)
    BY <1>2, <1>6, <2>2 DEF Waits
  <2>. QED
    BY <1>2, <1>3, <1>6, <2>2, <2>3, <2>4 DEF AdvanceOK
<1>7. ASSUME a.fn \in {"partialExpand", "refine"} PROVE AdvanceOK(a, b, x)
  <2>1. a.exp \in ExpTypes /\ Len(a.costs) = 0 /\ a.todo = <<Kept(a.exp)[2]>>
    BY <1>7 DEF ShapeOK
  <2>2. Len(b.costs) = 1 /\ b.todo = <<>> /\ Head(a.todo) = Kept(a.exp)[2]
    BY <1>2, <1>3, <2>1, Tuples
  <2>3. ShapeOK(b)
    BY <1>2, <1>5, <1>7, <2>1, <2>2 DEF ShapeOK
  <2>4. Waits(b) = Kept(b.exp)[Len(b.costs) + 1] /\ Waits(a) = Kept(a.exp)[Len(a.costs) + 1]
    BY <1>2, <1>7 DEF Waits
  <2>5. Waits(b) = Head(a.todo) /\ Waits(a) = Kept(a.exp)[1]
    BY <1>2, <2>1, <2>2, <2>4
  <2>. QED
    BY <1>2, <1>3, <1>7, <2>1, <2>3, <2>5 DEF AdvanceOK
<1>8. a.fn = "fullExpand" \/ a.fn \in {"partialExpand", "refine"}
  BY DEF Searches
<1>. QED
  BY <1>0, <1>6, <1>7, <1>8

LEMMA NextChildStep ==
  ASSUME RdTypeOK, SearchInv, NextChild
  PROVE  SearchStep
<1>1. /\ rpc = "return" /\ rstack # <<>> /\ RTop.fn \in Searches /\ RTop.todo # <<>>
      /\ UNCHANGED <<gvars, options, phase, hash, ret>>
  BY DEF NextChild, Returned
<1>2. PICK n \in Nat \ {0} : n = Len(rstack)
  BY <1>1, TopReturned
<1>3. PICK g, fr : g = hash /\ fr = RTop
  OBVIOUS
<1>4. /\ fr = rstack[n] /\ fr \in RdFrames
      /\ ChainUpTo(root, g, rstack, n) /\ ShapeOK(fr) /\ CostsOK(g, fr)
      /\ Known(g, Child(fr.f, Waits(fr))) /\ ret = Cost(g, Child(fr.f, Waits(fr)))
      /\ fr.fn = "refine" => Confirmed(g, Child(fr.f, Waits(fr)))
  BY <1>1, <1>2, <1>3, TopReturned
<1>5. PICK u : u = Advanced(fr, ret)
  OBVIOUS
<1>6. ret \in Nat /\ rstack \in Seq(RdFrames)
  BY DEF RdTypeOK
<1>7. AdvanceOK(fr, u, ret)
  BY <1>1, <1>3, <1>4, <1>5, <1>6, NextShape
<1>8. PICK t : t = rstack'
  OBVIOUS
<1>9. /\ t \in Seq(RdFrames) /\ Len(t) = n /\ t[n] = u
      /\ \A k \in 1 .. n - 1 : t[k] = rstack[k]
  <2>1. t = [rstack EXCEPT ![n] = u]
    BY <1>2, <1>3, <1>4, <1>5, <1>8 DEF NextChild, Advanced
  <2>2. u \in RdFrames /\ n \in 1 .. Len(rstack)
    BY <1>2, <1>7 DEF ShapeOK, AdvanceOK
  <2>3. t \in Seq(RdFrames) /\ Len(t) = n /\ t[n] = u
    BY <1>2, <1>6, <2>1, <2>2, ExceptSeq
  <2>4. \A k \in 1 .. n - 1 : k # n /\ k \in 1 .. n
    OBVIOUS
  <2>5. \A k \in 1 .. n - 1 : t[k] = rstack[k]
    BY <1>2, <1>6, <2>1, <2>4
  <2>. QED
    BY <2>3, <2>5
<1>10. Cost(g, Child(fr.f, Waits(fr))) <= ret
  BY <1>4, <1>6
<1>11. CostsOK(g, u)
  <2>1. CASE fr.fn = "fullExpand"
    <3>1. ASSUME NEW i \in Children, i < Len(u.costs)
          PROVE  Known(g, Child(fr.f, i)) /\ Cost(g, Child(fr.f, i)) <= u.costs[i + 1]
      <4>1. CASE i < Len(fr.costs)
        <5>1. i + 1 \in 1 .. Len(fr.costs)
          BY <1>7, <2>1, <4>1 DEF Children, AdvanceOK
        <5>. QED
          BY <1>4, <1>7, <2>1, <4>1, <5>1 DEF CostsOK, AdvanceOK
      <4>2. CASE i = Len(fr.costs)
        <5>1. Waits(fr) = i
          BY <2>1, <4>2 DEF Waits
        <5>. QED
          BY <1>4, <1>7, <1>10, <4>2, <5>1 DEF AdvanceOK
      <4>3. i < Len(fr.costs) \/ i = Len(fr.costs)
        BY <1>7, <2>1, <3>1 DEF Children, AdvanceOK
      <4>. QED
        BY <4>1, <4>2, <4>3
    <3>. QED
      BY <1>4, <1>7, <2>1, <3>1 DEF CostsOK, AdvanceOK
  <2>2. CASE fr.fn = "partialExpand"
    <3>1. Len(u.costs) = 1 /\ u.costs[1] = ret
      BY <1>7, <2>2 DEF AdvanceOK
    <3>. QED
      BY <1>4, <1>7, <1>10, <2>2, <3>1 DEF CostsOK, KeptChild, AdvanceOK
  <2>3. CASE fr.fn = "refine"
    <3>1. Len(fr.costs) = 0 /\ Len(u.costs) = 1 /\ u.costs[1] = ret
      BY <1>7, <2>3 DEF AdvanceOK
    <3>2. Child(fr.f, Waits(fr)) = KeptChild(fr.f, fr.exp, 1)
      BY <1>7, <2>3 DEF KeptChild, AdvanceOK
    <3>3. /\ fr.f \in DOMAIN g /\ ~g[fr.f].refined
          /\ \A i \in {1, 2} : Known(g, KeptChild(fr.f, fr.exp, i))
          /\ Cost(g, KeptChild(fr.f, fr.exp, 1)) + Cost(g, KeptChild(fr.f, fr.exp, 2)) <= g[fr.f].cost
      BY <1>4, <2>3, <3>1 DEF CostsOK
    <3>4. /\ Confirmed(g, KeptChild(fr.f, fr.exp, 1)) /\ Cost(g, KeptChild(fr.f, fr.exp, 1)) <= ret
          /\ ret + Cost(g, KeptChild(fr.f, fr.exp, 2)) <= g[fr.f].cost
      BY <1>4, <1>10, <2>3, <3>2, <3>3
    <3>. QED
      BY <1>7, <2>3, <3>1, <3>3, <3>4 DEF CostsOK, AdvanceOK
  <2>. QED
    BY <1>1, <1>3, <2>1, <2>2, <2>3 DEF Searches
<1>12. ChainUpTo(root, g, t, n)
  BY <1>4, <1>7, <1>9, <1>11, ReplaceOK DEF AdvanceOK
<1>13. CallOK(root, g, t, fr.fn, rarg') /\ rarg' \in Fns
  <2>1. rarg' = Child(fr.f, Head(fr.todo))
    BY <1>3 DEF NextChild, Call
  <2>2. fr.fn = "refine" => Known(g, rarg')
    <3>1. ASSUME fr.fn = "refine" PROVE Known(g, KeptChild(fr.f, fr.exp, 2))
      BY <1>4, <3>1 DEF CostsOK
    <3>2. fr.fn = "refine" => Head(fr.todo) = Kept(fr.exp)[2]
      BY <1>7, Tuples DEF AdvanceOK
    <3>. QED
      BY <2>1, <3>1, <3>2 DEF KeptChild
  <2>3. PICK fn, G : fn = fr.fn /\ G = rarg'
    OBVIOUS
  <2>4. /\ G = Child(t[n].f, Waits(t[n]))
        /\ fn = "refine" <=> t[n].fn = "refine"
        /\ fn = "refine" => Known(g, G)
    BY <1>7, <1>9, <2>1, <2>2, <2>3 DEF AdvanceOK
  <2>5. PICK m \in Nat \ {0} : m = n
    OBVIOUS
  <2>6. m = Len(t) /\ ChainUpTo(root, g, t, m) /\ t[m] = u
    BY <1>9, <1>12, <2>5
  <2>7. Calls(g, u, fn, G)
    BY <1>9, <2>4 DEF Calls
  <2>8. CallOK(root, g, t, fn, G) /\ G \in Fns
    BY <2>6, <2>7, CalleeOK
  <2>. QED
    BY <2>3, <2>8
<1>14. rfn' = fr.fn /\ rpc' = "call" /\ hash' = g /\ root' = root
  BY <1>1, <1>3 DEF NextChild, Call, gvars
<1>15. RdTypeOK'
  BY <1>1, <1>3, <1>8, <1>9, <1>13, <1>14 DEF RdTypeOK, options
<1>16. SearchInv'
  BY <1>3, <1>8, <1>9, <1>12, <1>13, <1>14 DEF SearchInv
<1>. QED
  BY <1>3, <1>14, <1>15, <1>16, TableSame DEF SearchStep, RdTypeOK

LEMMA KeptSum ==
  ASSUME NEW h, NEW F, NEW e \in ExpTypes,
         NEW r0 \in Nat, r0 = Cost(h, Child(F, 0)),
         NEW r1 \in Nat, r1 = Cost(h, Child(F, 1)),
         NEW r2 \in Nat, r2 = Cost(h, Child(F, 2))
  PROVE  Cost(h, KeptChild(F, e, 1)) + Cost(h, KeptChild(F, e, 2))
           = IF DropOf(e) = 0 THEN r1 + r2 ELSE IF DropOf(e) = 1 THEN r0 + r2 ELSE r0 + r1
BY KeptCases DEF KeptChild

LEMMA DecideNoDearer ==
  ASSUME NEW h, TableTypes(h), NEW F, NEW e \in ExpTypes,
         \A i \in Children : Known(h, Child(F, i)),
         NEW c, c[1] \in Nat, c[2] \in Nat, c[3] \in Nat,
         c[1] <= Cost(h, Child(F, 0)), c[2] <= Cost(h, Child(F, 1)), c[3] <= Cost(h, Child(F, 2)),
         DropOf(e) = 0 => c[1] = Cost(h, Child(F, 0)),
         DropOf(e) = 1 => c[2] = Cost(h, Child(F, 1)),
         DropOf(e) = 2 => c[3] = Cost(h, Child(F, 2)),
         NEW x, x = ExpDropping(Dropped(c, DropOf(e)))
  PROVE  /\ x \in ExpTypes
         /\ Cost(h, KeptChild(F, x, 1)) + Cost(h, KeptChild(F, x, 2))
              <= Cost(h, KeptChild(F, e, 1)) + Cost(h, KeptChild(F, e, 2))
<1>1. \A i \in Children : Cost(h, Child(F, i)) \in Nat
  BY CostNat
<1>2. PICK r0 \in Nat, r1 \in Nat, r2 \in Nat :
        r0 = Cost(h, Child(F, 0)) /\ r1 = Cost(h, Child(F, 1)) /\ r2 = Cost(h, Child(F, 2))
  BY <1>1 DEF Children
<1>3. PICK d \in Children : d = DropOf(e)
  BY KeptFacts
<1>4. PICK y \in Children : y = Dropped(c, d)
  BY DroppedIsChild
<1>5. x \in ExpTypes /\ DropOf(x) = y
  BY <1>3, <1>4, DropFacts
<1>6. /\ c[1] <= r0 /\ c[2] <= r1 /\ c[3] <= r2
      /\ d = 0 => c[1] = r0
      /\ d = 1 => c[2] = r1
      /\ d = 2 => c[3] = r2
  BY <1>2, <1>3
<1>7. /\ y = 0 /\ d = 1 => r0 >= r1
      /\ y = 0 /\ d = 2 => r0 >= r2
      /\ y = 1 /\ d = 0 => r1 >= r0
      /\ y = 1 /\ d = 2 => r1 >= r2
      /\ y = 2 /\ d = 0 => r2 >= r0
      /\ y = 2 /\ d = 1 => r2 >= r1
  BY <1>4, <1>6, DropDearest
<1>8. PICK a, b : /\ a = Cost(h, KeptChild(F, x, 1)) + Cost(h, KeptChild(F, x, 2))
                  /\ b = Cost(h, KeptChild(F, e, 1)) + Cost(h, KeptChild(F, e, 2))
  OBVIOUS
<1>9. /\ a = IF y = 0 THEN r1 + r2 ELSE IF y = 1 THEN r0 + r2 ELSE r0 + r1
      /\ b = IF d = 0 THEN r1 + r2 ELSE IF d = 1 THEN r0 + r2 ELSE r0 + r1
  BY <1>2, <1>3, <1>5, <1>8, KeptSum
<1>10. (y = 0 \/ y = 1 \/ y = 2) /\ (d = 0 \/ d = 1 \/ d = 2)
  BY DEF Children
<1>11. a <= b
  BY <1>7, <1>9, <1>10
<1>. QED
  BY <1>5, <1>8, <1>11

LEMMA RefineDecideStep ==
  ASSUME RdTypeOK, SearchInv, RefineDecide
  PROVE  SearchStep
<1>1. /\ rpc = "return" /\ rstack # <<>> /\ RTop.fn = "decide"
      /\ UNCHANGED <<gvars, options, phase, hash, ret>>
  BY DEF RefineDecide, Returned
<1>2. PICK n \in Nat \ {0} : n = Len(rstack)
  BY <1>1, TopReturned
<1>3. PICK g, fr : g = hash /\ fr = RTop
  OBVIOUS
<1>4. /\ fr = rstack[n] /\ ChainUpTo(root, g, rstack, n) /\ ShapeOK(fr) /\ CostsOK(g, fr)
      /\ Known(g, Child(fr.f, Waits(fr))) /\ ret = Cost(g, Child(fr.f, Waits(fr)))
      /\ fr.fn = "decide"
  BY <1>1, <1>2, <1>3, TopReturned
<1>5. TableTypes(g) /\ TableOK(g) /\ ret \in Nat /\ rstack \in Seq(RdFrames)
  BY <1>3 DEF RdTypeOK, SearchInv
<1>6. PICK F \in Fns : F = fr.f /\ ~IsConstant(F)
  BY <1>4, WaitsForChild
<1>7. PICK e \in ExpTypes : e = fr.exp
  BY <1>4 DEF ShapeOK
<1>8. PICK d \in Children : d = DropOf(e) /\ Waits(fr) = d
  BY <1>4, <1>7, KeptFacts DEF Waits
<1>9. PICK a \in Nat, b \in Nat : a = fr.costs[1] /\ b = fr.costs[2]
  <2>1. Len(fr.costs) = 2
    BY <1>4 DEF ShapeOK
  <2>2. \A i \in 1 .. 2 : fr.costs[i] \in Nat
    BY <1>4, <2>1, WaitsForChild
  <2>. QED
    BY <2>2
<1>10. /\ F \in DOMAIN g /\ ~g[F].refined /\ e = g[F].exp
       /\ a <= Cost(g, KeptChild(F, e, 1)) /\ b <= Cost(g, KeptChild(F, e, 2))
  BY <1>4, <1>6, <1>7, <1>9 DEF CostsOK
<1>11. /\ \A i \in {1, 2} : Known(g, KeptChild(F, e, i))
       /\ Cost(g, KeptChild(F, e, 1)) + Cost(g, KeptChild(F, e, 2)) <= g[F].cost
  BY <1>5, <1>6, <1>10 DEF TableOK, EntryOK
<1>12. Known(g, Child(F, d)) /\ ret = Cost(g, Child(F, d))
  BY <1>4, <1>6, <1>8
<1>13. \A i \in Children : Known(g, Child(F, i))
  <2>1. Known(g, Child(F, Kept(e)[1])) /\ Known(g, Child(F, Kept(e)[2]))
    BY <1>11 DEF KeptChild
  <2>. QED
    BY <1>8, <1>12, <2>1, KeptCases DEF Children
<1>14. PICK c : c = CASE d = 0 -> <<ret, a, b>>
                      [] d = 1 -> <<a, ret, b>>
                      [] d = 2 -> <<a, b, ret>>
  OBVIOUS
<1>15. PICK x : x = ExpDropping(Dropped(c, d))
  OBVIOUS
<1>16. PICK u : u = Frame("refine", F, x, <<Kept(x)[2]>>, <<>>)
  OBVIOUS
<1>17. /\ rstack' = Append(Pop(rstack), u)
       /\ rfn' = "refine" /\ rarg' = Child(F, Kept(x)[1]) /\ rpc' = "call"
  BY <1>3, <1>6, <1>7, <1>8, <1>9, <1>14, <1>15, <1>16 DEF RefineDecide, Call
<1>18. /\ c[1] \in Nat /\ c[2] \in Nat /\ c[3] \in Nat
       /\ c[1] <= Cost(g, Child(F, 0)) /\ c[2] <= Cost(g, Child(F, 1)) /\ c[3] <= Cost(g, Child(F, 2))
       /\ d = 0 => c[1] = Cost(g, Child(F, 0))
       /\ d = 1 => c[2] = Cost(g, Child(F, 1))
       /\ d = 2 => c[3] = Cost(g, Child(F, 2))
  <2>1. ret <= ret
    BY <1>5
  <2>2. CASE d = 0
    <3>1. c[1] = ret /\ c[2] = a /\ c[3] = b
      BY <1>14, <2>2
    <3>2. Kept(e)[1] = 1 /\ Kept(e)[2] = 2
      BY <1>8, <2>2, KeptByDrop
    <3>. QED
      BY <1>5, <1>9, <1>10, <1>12, <2>1, <2>2, <3>1, <3>2 DEF KeptChild
  <2>3. CASE d = 1
    <3>1. c[1] = a /\ c[2] = ret /\ c[3] = b
      BY <1>14, <2>3
    <3>2. Kept(e)[1] = 0 /\ Kept(e)[2] = 2
      BY <1>8, <2>3, KeptByDrop
    <3>. QED
      BY <1>5, <1>9, <1>10, <1>12, <2>1, <2>3, <3>1, <3>2 DEF KeptChild
  <2>4. CASE d = 2
    <3>1. c[1] = a /\ c[2] = b /\ c[3] = ret
      BY <1>14, <2>4
    <3>2. Kept(e)[1] = 0 /\ Kept(e)[2] = 1
      BY <1>8, <2>4, KeptByDrop
    <3>. QED
      BY <1>5, <1>9, <1>10, <1>12, <2>1, <2>4, <3>1, <3>2 DEF KeptChild
  <2>. QED
    BY <2>2, <2>3, <2>4 DEF Children
<1>19. /\ x \in ExpTypes
       /\ Cost(g, KeptChild(F, x, 1)) + Cost(g, KeptChild(F, x, 2))
            <= Cost(g, KeptChild(F, e, 1)) + Cost(g, KeptChild(F, e, 2))
  BY <1>5, <1>8, <1>13, <1>15, <1>18, DecideNoDearer
<1>20. \A i \in {1, 2} : Known(g, KeptChild(F, x, i))
  BY <1>13, <1>19, KeptFacts DEF KeptChild
<1>21. Cost(g, KeptChild(F, x, 1)) + Cost(g, KeptChild(F, x, 2)) <= g[F].cost
  <2>1. /\ Cost(g, KeptChild(F, x, 1)) \in Nat /\ Cost(g, KeptChild(F, x, 2)) \in Nat
        /\ Cost(g, KeptChild(F, e, 1)) \in Nat /\ Cost(g, KeptChild(F, e, 2)) \in Nat
    BY <1>5, <1>11, <1>20, CostNat
  <2>2. g[F].cost \in Nat
    BY <1>5, <1>10 DEF TableTypes, Entries
  <2>. QED
    BY <1>11, <1>19, <2>1, <2>2
<1>22. /\ u.fn = "refine" /\ u.f = F /\ u.exp = x /\ u.todo = <<Kept(x)[2]>>
       /\ Len(u.costs) = 0 /\ u \in RdFrames
  <2>1. <<Kept(x)[2]>> \in Seq(Children)
    BY <1>19, KeptFacts
  <2>2. u \in RdFrames
    BY <1>16, <1>19, <2>1, EmptyLen DEF Frame, RdFrames, Searches
  <2>3. /\ u.fn = "refine" /\ u.f = F /\ u.exp = x /\ u.todo = <<Kept(x)[2]>> /\ u.costs = <<>>
    BY <1>16 DEF Frame
  <2>. QED
    BY <2>2, <2>3, EmptyLen
<1>23. ShapeOK(u)
  BY <1>6, <1>19, <1>22 DEF ShapeOK
<1>24. CostsOK(g, u)
  BY <1>10, <1>20, <1>21, <1>22 DEF CostsOK
<1>25. PICK t : t = rstack'
  OBVIOUS
<1>26. /\ t \in Seq(RdFrames) /\ Len(t) = n /\ t[n] = u
       /\ \A k \in 1 .. n - 1 : t[k] = rstack[k]
  <2>1. PICK s : s = Pop(rstack)
    OBVIOUS
  <2>2. s \in Seq(RdFrames) /\ Len(s) = n - 1 /\ \A k \in 1 .. n - 1 : s[k] = rstack[k]
    BY <1>1, <1>2, <1>5, <2>1, PopProperties
  <2>3. t = Append(s, u)
    BY <1>17, <1>25, <2>1
  <2>4. /\ t \in Seq(RdFrames) /\ Len(t) = Len(s) + 1 /\ t[Len(s) + 1] = u
        /\ \A k \in 1 .. Len(s) : t[k] = s[k]
    BY <1>22, <2>2, <2>3, AppendFacts
  <2>5. Len(s) + 1 = n
    BY <2>2
  <2>. QED
    BY <2>2, <2>4, <2>5
<1>27. ChainUpTo(root, g, t, n)
  BY <1>4, <1>6, <1>22, <1>23, <1>24, <1>26, ReplaceOK DEF Refining
<1>28. CallOK(root, g, t, "refine", rarg') /\ rarg' \in Fns
  <2>1. Waits(u) = Kept(x)[1]
    BY <1>22 DEF Waits
  <2>2. PICK fn, G : fn = "refine" /\ G = rarg'
    OBVIOUS
  <2>3. G = KeptChild(F, x, 1)
    BY <1>17, <2>2 DEF KeptChild
  <2>4. Calls(g, u, fn, G)
    BY <1>17, <1>20, <1>22, <2>1, <2>2, <2>3 DEF Calls
  <2>5. n = Len(t) /\ u = t[n]
    BY <1>26
  <2>6. CallOK(root, g, t, fn, G) /\ G \in Fns
    BY <1>27, <2>4, <2>5, CalleeOK
  <2>. QED
    BY <2>2, <2>6
<1>29. hash' = g /\ root' = root
  BY <1>1, <1>3 DEF gvars
<1>30. RdTypeOK'
  BY <1>1, <1>5, <1>17, <1>25, <1>26, <1>28, <1>29 DEF RdTypeOK, options, Searches
<1>31. SearchInv'
  BY <1>5, <1>17, <1>25, <1>26, <1>27, <1>28, <1>29 DEF SearchInv
<1>. QED
  BY <1>3, <1>5, <1>29, <1>30, <1>31, TableSame DEF SearchStep

(* The activation on top stores en.                                         *)
LEMMA StoreStep ==
  ASSUME RdTypeOK, SearchInv, rpc = "return", rstack # <<>>,
         UNCHANGED <<gvars, options, phase, rpc, rfn, rarg>>,
         NEW en \in Entries, Decided(hash, RTop, en),
         hash' = Store(hash, RTop.f, en), ret' = en.cost, rstack' = Pop(rstack)
  PROVE  SearchStep
<1>1. PICK n \in Nat \ {0} : n = Len(rstack)
  BY TopReturned
<1>2. PICK h, fr, s, t : h = hash /\ fr = RTop /\ s = rstack /\ t = rstack'
  OBVIOUS
<1>3. n = Len(s) /\ fr = s[n] /\ ChainUpTo(root, h, s, n)
  BY <1>1, <1>2, TopReturned
<1>4. TableTypes(h) /\ TableOK(h) /\ s \in Seq(RdFrames)
  BY <1>2 DEF RdTypeOK, SearchInv
<1>5. t \in Seq(RdFrames) /\ Len(t) = n - 1 /\ \A k \in 1 .. n - 1 : t[k] = s[k]
  BY <1>2, <1>3, <1>4, PopProperties
<1>6. Decided(h, fr, en)
  BY <1>2
<1>7. Stored(root, h, Store(h, fr.f, en), t, n - 1, fr, en)
  BY <1>3, <1>4, <1>5, <1>6, StoreOK
<1>8. PICK g : g = Store(h, fr.f, en)
  OBVIOUS
<1>9. hash' = g
  BY <1>2, <1>8
<1>10. /\ TableTypes(g) /\ TableOK(g) /\ Evolves(h, g)
       /\ ChainUpTo(root, g, t, n - 1)
       /\ ReturnOK(root, g, t, en.cost)
       /\ fr.fn # "refine" => fr.f \notin DOMAIN h
       /\ fr.fn = "refine" => \A i \in {1, 2} : Confirmed(g, KeptChild(fr.f, en.exp, i))
  BY <1>7, <1>8 DEF Stored
<1>11. Reaches(h, g)
  <2>1. /\ DOMAIN g = DOMAIN h \cup {fr.f} /\ g[fr.f] = en
        /\ \A G \in DOMAIN h : G # fr.f => g[G] = h[G]
    BY <1>8 DEF Store
  <2>. QED
    BY <1>10, <2>1 DEF Reaches
<1>12. root' = root /\ ret' \in Nat
  BY DEF gvars, Entries
<1>13. RdTypeOK'
  BY <1>2, <1>5, <1>9, <1>10, <1>12 DEF RdTypeOK, options
<1>14. SearchInv'
  BY <1>2, <1>5, <1>9, <1>10, <1>12 DEF SearchInv
<1>. QED
  BY <1>2, <1>9, <1>10, <1>11, <1>13, <1>14 DEF SearchStep

LEMMA StoreDecidedStep ==
  ASSUME RdTypeOK, SearchInv, StoreDecided
  PROVE  SearchStep
<1>1. /\ rpc = "return" /\ rstack # <<>> /\ RTop.fn \in {"partialExpand", "refine"}
      /\ RTop.todo = <<>>
      /\ UNCHANGED <<gvars, options, phase, rpc, rfn, rarg>>
  BY DEF StoreDecided, Returned, Return
<1>2. PICK h, fr : h = hash /\ fr = RTop
  OBVIOUS
<1>3. /\ ShapeOK(fr) /\ CostsOK(h, fr) /\ TableTypes(h) /\ ret \in Nat
      /\ Known(h, Child(fr.f, Waits(fr))) /\ ret = Cost(h, Child(fr.f, Waits(fr)))
      /\ fr.fn = "refine" => Confirmed(h, Child(fr.f, Waits(fr)))
      /\ fr.fn \in {"partialExpand", "refine"}
  BY <1>1, <1>2, TopReturned DEF RdTypeOK
<1>4. fr.exp \in ExpTypes /\ Len(fr.costs) = 1
  <2>1. \A x : <<x>> # <<>>
    OBVIOUS
  <2>. QED
    BY <1>1, <1>2, <1>3, <2>1 DEF ShapeOK
<1>5. Waits(fr) = Kept(fr.exp)[2]
  <2>1. Waits(fr) = Kept(fr.exp)[Len(fr.costs) + 1]
    BY <1>3 DEF Waits
  <2>. QED
    BY <1>4, <2>1
<1>6. PICK a \in Nat : a = fr.costs[1]
  BY <1>3, <1>4, WaitsForChild
<1>7. PICK A, B : A = KeptChild(fr.f, fr.exp, 1) /\ B = KeptChild(fr.f, fr.exp, 2)
  OBVIOUS
<1>8. /\ Known(h, B) /\ ret = Cost(h, B) /\ (fr.fn = "refine" => Confirmed(h, B))
  BY <1>3, <1>5, <1>7 DEF KeptChild
<1>9. /\ Known(h, A) /\ Cost(h, A) <= a
      /\ fr.fn = "refine" => Confirmed(h, A) /\ a + Cost(h, B) <= h[fr.f].cost
  <2>1. CASE fr.fn = "partialExpand"
    BY <1>3, <1>4, <1>6, <1>7, <2>1 DEF CostsOK
  <2>2. CASE fr.fn = "refine"
    BY <1>3, <1>4, <1>6, <1>7, <2>2 DEF CostsOK
  <2>. QED
    BY <1>3, <2>1, <2>2
<1>10. Cost(h, A) \in Nat /\ Cost(h, A) + Cost(h, B) <= a + ret
  <2>1. Cost(h, A) \in Nat
    BY <1>3, <1>9, CostNat
  <2>. QED
    BY <1>3, <1>8, <1>9, <2>1
<1>11. PICK en : en = [exp |-> fr.exp, cost |-> a + ret, refined |-> (fr.fn = "refine")]
  OBVIOUS
<1>12. /\ en.exp = fr.exp /\ en.cost = a + ret /\ (en.refined <=> fr.fn = "refine")
       /\ en \in Entries
  <2>1. a + ret \in Nat
    BY <1>3
  <2>. QED
    BY <1>4, <1>11, <2>1 DEF Entries
<1>13. hash' = Store(hash, RTop.f, en) /\ ret' = en.cost /\ rstack' = Pop(rstack)
  <2>1. Return(fr.exp, a + ret, fr.fn = "refine")
    BY <1>2, <1>6 DEF StoreDecided
  <2>. QED
    BY <1>2, <1>11, <1>12, <2>1 DEF Return
<1>14. \A i \in {1, 2} : Known(h, KeptChild(fr.f, en.exp, i))
  BY <1>7, <1>8, <1>9, <1>12
<1>15. Cost(h, KeptChild(fr.f, en.exp, 1)) + Cost(h, KeptChild(fr.f, en.exp, 2)) <= en.cost
  BY <1>7, <1>10, <1>12
<1>16. ASSUME fr.fn = "refine"
       PROVE  /\ en.refined /\ en.cost <= h[fr.f].cost
              /\ \A i \in {1, 2} : Confirmed(h, KeptChild(fr.f, en.exp, i))
  BY <1>7, <1>8, <1>9, <1>12, <1>16
<1>17. Decided(h, fr, en)
  BY <1>3, <1>14, <1>15, <1>16 DEF Decided, Searches
<1>. QED
  BY <1>1, <1>2, <1>12, <1>13, <1>17, StoreStep

LEMMA KeptCostCovers ==
  ASSUME NEW h, NEW F, NEW e \in ExpTypes,
         NEW r0 \in Nat, r0 = Cost(h, Child(F, 0)),
         NEW r1 \in Nat, r1 = Cost(h, Child(F, 1)),
         NEW r2 \in Nat, r2 = Cost(h, Child(F, 2)),
         NEW c, c[1] \in Nat, c[2] \in Nat, c[3] \in Nat,
         r0 <= c[1], r1 <= c[2], r2 <= c[3]
  PROVE  /\ KeptCost(c, e) \in Nat
         /\ Cost(h, KeptChild(F, e, 1)) + Cost(h, KeptChild(F, e, 2)) <= KeptCost(c, e)
<1>1. PICK a : a = Cost(h, KeptChild(F, e, 1)) + Cost(h, KeptChild(F, e, 2))
  OBVIOUS
<1>2. a = IF DropOf(e) = 0 THEN r1 + r2 ELSE IF DropOf(e) = 1 THEN r0 + r2 ELSE r0 + r1
  BY <1>1, KeptSum
<1>3. KeptCost(c, e) = IF DropOf(e) = 0 THEN c[2] + c[3]
                       ELSE IF DropOf(e) = 1 THEN c[1] + c[3] ELSE c[1] + c[2]
  BY KeptCases DEF KeptCost
<1>4. KeptCost(c, e) \in Nat /\ a <= KeptCost(c, e)
  BY <1>2, <1>3
<1>. QED
  BY <1>1, <1>4

LEMMA StoreFullStep ==
  ASSUME RdTypeOK, SearchInv, StoreFull
  PROVE  SearchStep
<1>1. /\ rpc = "return" /\ rstack # <<>> /\ RTop.fn = "fullExpand" /\ RTop.todo = <<>>
      /\ UNCHANGED <<gvars, options, phase, rpc, rfn, rarg>>
  BY DEF StoreFull, Returned, Return
<1>2. PICK h, fr : h = hash /\ fr = RTop
  OBVIOUS
<1>3. /\ ShapeOK(fr) /\ CostsOK(h, fr) /\ TableTypes(h) /\ ret \in Nat
      /\ Known(h, Child(fr.f, Waits(fr))) /\ ret = Cost(h, Child(fr.f, Waits(fr)))
      /\ fr.fn = "fullExpand"
  BY <1>1, <1>2, TopReturned DEF RdTypeOK
<1>4. Len(fr.costs) = 2 /\ fr.costs \in Seq(Nat)
  <2>1. <<1, 2>> # <<>> /\ <<2>> # <<>>
    OBVIOUS
  <2>. QED
    BY <1>1, <1>2, <1>3, <2>1 DEF ShapeOK, RdFrames
<1>5. Waits(fr) = 2
  BY <1>3, <1>4 DEF Waits
<1>6. PICK c : c = Append(fr.costs, ret)
  OBVIOUS
<1>7. c[1] \in Nat /\ c[2] \in Nat /\ c[3] \in Nat /\ c[1] = fr.costs[1] /\ c[2] = fr.costs[2] /\ c[3] = ret
  <2>1. \A i \in 1 .. 2 : fr.costs[i] \in Nat
    BY <1>3, <1>4, WaitsForChild
  <2>2. /\ Len(fr.costs) + 1 = 3 /\ c[Len(fr.costs) + 1] = ret
        /\ \A i \in 1 .. Len(fr.costs) : c[i] = fr.costs[i]
    <3>1. PICK s \in Seq(Nat), y \in Nat : s = fr.costs /\ y = ret
      BY <1>3, <1>4
    <3>2. c = Append(s, y)
      BY <1>6, <3>1
    <3>3. c[Len(s) + 1] = y /\ \A i \in 1 .. Len(s) : c[i] = s[i]
      BY <3>2, AppendFacts
    <3>4. Len(fr.costs) + 1 = 3
      BY <1>4
    <3>. QED
      BY <3>1, <3>3, <3>4
  <2>3. 1 \in 1 .. Len(fr.costs) /\ 2 \in 1 .. Len(fr.costs)
    BY <1>4
  <2>4. c[1] = fr.costs[1] /\ c[2] = fr.costs[2]
    BY <2>2, <2>3, Zenon
  <2>5. c[3] = ret
    BY <2>2, Zenon
  <2>6. 1 \in 1 .. 2 /\ 2 \in 1 .. 2
    OBVIOUS
  <2>. QED
    BY <1>3, <2>1, <2>4, <2>5, <2>6
<1>8. /\ Known(h, Child(fr.f, 0)) /\ Cost(h, Child(fr.f, 0)) <= c[1]
      /\ Known(h, Child(fr.f, 1)) /\ Cost(h, Child(fr.f, 1)) <= c[2]
  <2>1. \A i \in Children : i < 2 =>
          Known(h, Child(fr.f, i)) /\ Cost(h, Child(fr.f, i)) <= fr.costs[i + 1]
    BY <1>3, <1>4 DEF CostsOK
  <2>2. 0 \in Children /\ 1 \in Children /\ 0 < 2 /\ 1 < 2 /\ 0 + 1 = 1 /\ 1 + 1 = 2
    BY DEF Children
  <2>3. Known(h, Child(fr.f, 0)) /\ Cost(h, Child(fr.f, 0)) <= fr.costs[1]
    BY <2>1, <2>2
  <2>4. Known(h, Child(fr.f, 1)) /\ Cost(h, Child(fr.f, 1)) <= fr.costs[2]
    BY <2>1, <2>2
  <2>. QED
    BY <1>7, <2>3, <2>4
<1>9. Known(h, Child(fr.f, 2)) /\ ret = Cost(h, Child(fr.f, 2))
  BY <1>3, <1>5
<1>10. PICK r0 \in Nat, r1 \in Nat, r2 \in Nat :
         r0 = Cost(h, Child(fr.f, 0)) /\ r1 = Cost(h, Child(fr.f, 1)) /\ r2 = Cost(h, Child(fr.f, 2))
  BY <1>3, <1>8, <1>9, CostNat
<1>11. r0 <= c[1] /\ r1 <= c[2] /\ r2 <= c[3]
  BY <1>7, <1>8, <1>9, <1>10
<1>12. PICK e \in ExpTypes : e = ExpDropping(Dropped(c, 0))
  BY DroppedIsChild, DropFacts DEF Children
<1>13. PICK k \in Nat : /\ k = KeptCost(c, e)
                        /\ Cost(h, KeptChild(fr.f, e, 1)) + Cost(h, KeptChild(fr.f, e, 2)) <= k
  BY <1>7, <1>10, <1>11, KeptCostCovers
<1>14. PICK en : en = [exp |-> e, cost |-> k, refined |-> TRUE]
  OBVIOUS
<1>15. en.exp = e /\ en.cost = k /\ en \in Entries
  BY <1>14 DEF Entries
<1>16. hash' = Store(hash, RTop.f, en) /\ ret' = en.cost /\ rstack' = Pop(rstack)
  <2>1. Return(e, k, TRUE)
    BY <1>2, <1>6, <1>12, <1>13 DEF StoreFull
  <2>. QED
    BY <1>14, <1>15, <2>1 DEF Return
<1>17. \A i \in {1, 2} : Known(h, KeptChild(fr.f, en.exp, i))
  <2>1. \A i \in Children : Known(h, Child(fr.f, i))
    BY <1>8, <1>9 DEF Children
  <2>. QED
    BY <1>15, <2>1, KeptFacts DEF KeptChild
<1>18. Cost(h, KeptChild(fr.f, en.exp, 1)) + Cost(h, KeptChild(fr.f, en.exp, 2)) <= en.cost
  BY <1>13, <1>15
<1>19. Decided(h, fr, en)
  BY <1>3, <1>17, <1>18 DEF Decided, Searches
<1>. QED
  BY <1>1, <1>2, <1>15, <1>16, <1>19, StoreStep

LEMMA StartRefineStep ==
  ASSUME GTypeOK, RdTypeOK, SearchInv, StartRefine
  PROVE  SearchStep
<1>1. /\ hash' = hash /\ root' = root /\ rstack' = rstack /\ rpc' = "call" /\ rpc = "return"
      /\ rfn' = "refine" /\ rarg' = root /\ phase' = "refine" /\ Len(rstack) = 0
      /\ UNCHANGED <<options, ret>>
  BY EmptyLen DEF StartRefine, Call, gvars
<1>2. Known(hash, root)
  BY <1>1 DEF SearchInv, ReturnOK, Wanted
<1>3. CallOK(root, hash, rstack, "refine", root)
  BY <1>1, <1>2 DEF CallOK, Wanted
<1>4. RdTypeOK'
  BY <1>1 DEF RdTypeOK, options, Searches, GTypeOK
<1>5. SearchInv'
  BY <1>1, <1>3 DEF SearchInv
<1>. QED
  BY <1>1, <1>4, <1>5, TableSame DEF SearchStep, RdTypeOK

LEMMA IdleStep ==
  ASSUME RdTypeOK, SearchInv, UNCHANGED <<root, options, hash, rpc, rfn, rarg, rstack, ret>>,
         phase' \in {"expand", "refine", "gen"}
  PROVE  SearchStep
<1>1. RdTypeOK'
  BY DEF RdTypeOK, options
<1>2. SearchInv'
  BY DEF SearchInv
<1>. QED
  BY <1>1, <1>2, TableSame DEF SearchStep, RdTypeOK

LEMMA GenNodeStep ==
  ASSUME RdTypeOK, SearchInv, GenInv, phase = "gen", GenNode
  PROVE  SearchStep
<1>1. PICK h, g, F : h = hash /\ g = hash' /\ F = arg
  OBVIOUS
<1>2. /\ g = Store(h, F, Lookup(h, F)) /\ root' = root
      /\ UNCHANGED <<options, phase, rpc, rfn, rarg, rstack, ret>>
  BY <1>1 DEF GenNode, GenEnter
<1>3. /\ TableTypes(h) /\ TableOK(h) /\ Known(h, F) /\ rpc = "return" /\ Len(rstack) = 0
      /\ ReturnOK(root, h, rstack, ret)
  BY <1>1, EmptyLen DEF RdTypeOK, SearchInv, GenInv, GenNode
<1>4. Padded(h, g)
  BY <1>2, <1>3, LookupPads
<1>5. TableTypes(g) /\ TableOK(g) /\ Evolves(h, g) /\ SameCosts(h, g)
  BY <1>3, <1>4, PaddedEvolves, PaddedTable
<1>6. ReturnOK(root, g, rstack, ret)
  BY <1>3, <1>5 DEF ReturnOK, Evolves, SameCosts
<1>7. ChainUpTo(root, g, rstack, Len(rstack))
  BY <1>3 DEF ChainUpTo
<1>8. Reaches(h, g)
  BY <1>4 DEF Reaches, Padded
<1>9. RdTypeOK'
  BY <1>1, <1>2, <1>5 DEF RdTypeOK, options
<1>10. SearchInv'
  BY <1>1, <1>2, <1>3, <1>5, <1>6, <1>7 DEF SearchInv
<1>. QED
  BY <1>1, <1>5, <1>8, <1>9, <1>10 DEF SearchStep

LEMMA SearchAdvances ==
  ASSUME GTypeOK, RdTypeOK, SearchInv, GenInv, [Next]_rdvars
  PROVE  SearchStep
<1>1. CASE ReturnConstant \/ ReturnMemo \/ PartialToFull
  BY <1>1, ReturnConstantStep, ReturnMemoStep, PartialToFullStep
<1>2. CASE PartialEnter \/ FullEnter \/ RefineEnter
  BY <1>2, PartialEnterStep, FullEnterStep, RefineEnterStep
<1>3. CASE NextChild \/ RefineDecide
  BY <1>3, NextChildStep, RefineDecideStep
<1>4. CASE StoreDecided \/ StoreFull
  BY <1>4, StoreDecidedStep, StoreFullStep
<1>5. CASE StartRefine
  BY <1>5, StartRefineStep
<1>6. CASE StartGen
  <2>1. /\ UNCHANGED <<root, options, hash, rpc, rfn, rarg, rstack, ret>>
        /\ phase' \in {"expand", "refine", "gen"}
    BY <1>6 DEF StartGen, gvars
  <2>. QED
    BY <2>1, IdleStep
<1>7. CASE phase = "gen" /\ GenNode
  BY <1>7, GenNodeStep
<1>8. CASE phase = "gen" /\ GenStep
  <2>1. /\ UNCHANGED <<root, options, hash, rpc, rfn, rarg, rstack, ret>>
        /\ phase' \in {"expand", "refine", "gen"}
    BY <1>8 DEF GenStep, GenZero, GenOne, GenSecond, GenLeave, rvars, RdTypeOK
  <2>. QED
    BY <2>1, IdleStep
<1>9. CASE Terminated \/ UNCHANGED rdvars
  <2>1. /\ UNCHANGED <<root, options, hash, rpc, rfn, rarg, rstack, ret>>
        /\ phase' \in {"expand", "refine", "gen"}
    BY <1>9 DEF Terminated, rdvars, gvars, rvars, RdTypeOK
  <2>. QED
    BY <2>1, IdleStep
<1>. QED
  BY <1>1, <1>2, <1>3, <1>4, <1>5, <1>6, <1>7, <1>8, <1>9 DEF Next

-----------------------------------------------------------------------------
(* The walk.                                                                *)
LEMMA WalkIsKept ==
  ASSUME NEW F, NEW e \in ExpTypes
  PROVE  /\ FirstChild(F, TopVar(F), e) = KeptChild(F, e, 1)
         /\ SecondChild(F, TopVar(F), e) = KeptChild(F, e, 2)
<1>1. CASE e = "nD"
  <2>1. Kept(e)[1] = 1 /\ Kept(e)[2] = 2
    BY <1>1, KeptCases
  <2>. QED
    BY <1>1, <2>1, ChildCases DEF KeptChild, FirstChild, SecondChild, E0, T1, X2
<1>2. CASE e = "pD"
  <2>1. Kept(e)[1] = 0 /\ Kept(e)[2] = 2
    BY <1>2, KeptCases
  <2>. QED
    BY <1>2, <2>1, ChildCases DEF KeptChild, FirstChild, SecondChild, E0, T1, X2
<1>3. CASE e = "Sh"
  <2>1. Kept(e)[1] = 0 /\ Kept(e)[2] = 1
    BY <1>3, KeptCases
  <2>. QED
    BY <1>3, <2>1, ChildCases DEF KeptChild, FirstChild, SecondChild, E0, T1, X2
<1>. QED
  BY <1>1, <1>2, <1>3 DEF ExpTypes

LEMMA LookupType ==
  ASSUME RdTypeOK, NEW F
  PROVE  Lookup(hash, F).exp \in ExpTypes
BY DEF RdTypeOK, TableTypes, Entries, Lookup, DefaultEntry, ExpTypes

LEMMA StepIsWalk ==
  ASSUME TypeOK, TrailMatchesStack, BelowTrail, [Next]_rdvars
  PROVE  [GNext]_gvars
<1>1. CASE GenNode
  <2>1. pc = "call" /\ Lookup(hash, arg).exp \in ExpTypes
    BY <1>1, LookupType, RdTypeSplit DEF GenNode, GenEnter
  <2>2. TopVar(arg) \in Vars \ Trail
    BY <1>1, <2>1, TopVarNotOnTrail DEF GenNode, TypeOK
  <2>3. GenEnter(TopVar(arg), Lookup(hash, arg).exp)
    BY <1>1 DEF GenNode
  <2>. QED
    BY <2>1, <2>2, <2>3 DEF GNext
<1>2. CASE GenStep
  BY <1>2 DEF GenStep, GNext
<1>3. CASE \/ ReturnConstant \/ ReturnMemo \/ PartialToFull \/ PartialEnter \/ FullEnter
           \/ RefineEnter \/ NextChild \/ RefineDecide \/ StoreDecided \/ StoreFull
           \/ StartRefine \/ StartGen
  <2>1. UNCHANGED gvars
    BY <1>3 DEF ReturnConstant, ReturnMemo, PartialToFull, PartialEnter, FullEnter,
                RefineEnter, NextChild, RefineDecide, StoreDecided, StoreFull, Return,
                StartRefine, StartGen
  <2>. QED
    BY <2>1
<1>4. CASE Terminated \/ UNCHANGED rdvars
  BY <1>4 DEF Terminated, rdvars, gvars
<1>. QED
  BY <1>1, <1>2, <1>3, <1>4 DEF Next

LEMMA GenInvSearch ==
  ASSUME TypeOK, SearchInv, GenInv,
         \/ ReturnConstant \/ ReturnMemo \/ PartialToFull \/ PartialEnter \/ FullEnter
         \/ RefineEnter \/ NextChild \/ RefineDecide \/ StoreDecided \/ StoreFull
         \/ StartRefine \/ StartGen
  PROVE  GenInv'
<1>1. UNCHANGED gvars
  BY DEF ReturnConstant, ReturnMemo, PartialToFull, PartialEnter, FullEnter,
         RefineEnter, NextChild, RefineDecide, StoreDecided, StoreFull, Return,
         StartRefine, StartGen
<1>2. phase # "gen"
  BY DEF GenInv, ReturnConstant, ReturnMemo, PartialToFull, PartialEnter, FullEnter, New,
         RefineEnter, NextChild, RefineDecide, StoreDecided, StoreFull, Returned,
         StartRefine, StartGen
<1>3. stack = <<>> /\ arg = root /\ Len(stack) = 0
  BY <1>2, EmptyLen DEF GenInv
<1>4. CASE phase' # "gen"
  BY <1>1, <1>3, <1>4 DEF GenInv, gvars
<1>5. CASE StartGen
  <2>1. Len(rstack) = 0 /\ rstack = <<>> /\ rpc = "return" /\ hash' = hash
        /\ rstack' = rstack /\ rpc' = rpc
    BY <1>5, EmptyLen DEF StartGen
  <2>2. Known(hash, root)
    BY <2>1 DEF SearchInv, ReturnOK, Wanted
  <2>. QED
    BY <1>1, <1>3, <1>5, <2>1, <2>2 DEF GenInv, gvars, StartGen
<1>. QED
  BY <1>2, <1>4, <1>5
    DEF ReturnConstant, ReturnMemo, PartialToFull, PartialEnter, FullEnter, RefineEnter,
        NextChild, RefineDecide, StoreDecided, StoreFull, Return, StartRefine

LEMMA GenInvNode ==
  ASSUME TypeOK, RdTypeOK, SearchInv, GenInv, phase = "gen", GenNode, SearchStep
  PROVE  GenInv'
<1>1. PICK n \in Nat : n = Len(stack)
  BY StackFrames DEF TypeOK
<1>2. PICK F, g : F = arg /\ g = hash
  OBVIOUS
<1>3. phase' = phase /\ rstack' = rstack /\ rpc' = rpc
  BY DEF GenNode
<1>4. F \in Fns /\ ~IsConstant(F) /\ Known(g, F) /\ F \in DOMAIN g /\ TableOK(g)
  BY <1>2 DEF GenNode, GenEnter, GenInv, Known, TypeOK, GTypeOK, SearchInv
<1>5. PICK e \in ExpTypes : e = g[F].exp /\ e = Lookup(g, F).exp
  BY <1>2, <1>4, LookupType DEF Lookup
<1>6. TopVar(F) \in Vars
  BY <1>4, TopVarProperties
<1>7. PICK fr : fr = [f |-> F, var |-> TopVar(F), exp |-> e, half |-> 1]
  OBVIOUS
<1>8. /\ Len(stack') = n + 1 /\ stack'[n + 1] = fr
      /\ \A i \in 1 .. n : stack'[i] = stack[i]
  <2>1. fr \in Frames /\ stack \in Seq(Frames)
    BY <1>4, <1>6, <1>7 DEF TypeOK, GTypeOK, Frames
  <2>2. stack' = Append(stack, fr)
    BY <1>2, <1>5, <1>7 DEF GenNode, GenEnter
  <2>. QED
    BY <1>1, <2>1, <2>2, AppendFacts
<1>9. Known(g, KeptChild(F, e, 1)) /\ Known(g, KeptChild(F, e, 2))
  BY <1>4, <1>5 DEF TableOK, EntryOK
<1>10. /\ arg' = KeptChild(F, e, 1)
       /\ SecondChild(fr.f, fr.var, fr.exp) = KeptChild(F, e, 2)
  BY <1>2, <1>5, <1>7, WalkIsKept DEF GenNode, GenEnter
<1>11. \A G : Known(g, G) => Known(hash', G)
  BY <1>2 DEF SearchStep, Evolves
<1>12. \A i \in 1 .. n + 1 :
         stack'[i].half = 1 =>
           Known(hash', SecondChild(stack'[i].f, stack'[i].var, stack'[i].exp))
  <2>1. \A i \in 1 .. n + 1 : i = n + 1 \/ i \in 1 .. n
    OBVIOUS
  <2>2. ASSUME NEW i \in 1 .. n, stack[i].half = 1
        PROVE  Known(hash', SecondChild(stack[i].f, stack[i].var, stack[i].exp))
    BY <1>1, <1>2, <1>11, <2>2 DEF GenInv
  <2>. QED
    BY <1>8, <1>9, <1>10, <1>11, <2>1, <2>2
<1>. QED
  BY <1>3, <1>8, <1>9, <1>10, <1>11, <1>12 DEF GenInv

LEMMA GenInvSecond ==
  ASSUME TypeOK, GenInv, phase = "gen", GenSecond, UNCHANGED rvars
  PROVE  GenInv'
<1>1. hash' = hash /\ phase' = phase /\ rstack' = rstack /\ rpc' = rpc
  BY DEF rvars
<1>2. /\ Len(stack) \in Nat \ {0}
      /\ Top = stack[Len(stack)] /\ Top \in Frames /\ Top.half = 1
  BY TopFacts DEF TypeOK, GenSecond
<1>3. PICK n \in Nat \ {0} : n = Len(stack)
  BY <1>2
<1>4. /\ Len(stack') = n /\ stack'[n].half = 2
      /\ \A i \in 1 .. n - 1 : stack'[i] = stack[i]
  <2>1. stack' = [stack EXCEPT ![n] = [stack[n] EXCEPT !.half = 2]] /\ stack \in Seq(Frames)
    BY <1>3 DEF GenSecond, TypeOK, GTypeOK
  <2>2. \A fr \in Frames : [fr EXCEPT !.half = 2].half = 2
    BY DEF Frames
  <2>3. \A i \in 1 .. n - 1 : i \in 1 .. n /\ i # n
    OBVIOUS
  <2>. QED
    BY <1>2, <1>3, <2>1, <2>2, <2>3
<1>5. Known(hash, arg')
  <2>1. arg' = SecondChild(Top.f, Top.var, Top.exp)
    BY DEF GenSecond
  <2>2. n \in 1 .. Len(stack)
    BY <1>3
  <2>. QED
    BY <1>2, <1>3, <2>1, <2>2 DEF GenInv
<1>6. \A i \in 1 .. n :
        stack'[i].half = 1 =>
          Known(hash, SecondChild(stack'[i].f, stack'[i].var, stack'[i].exp))
  <2>1. \A i \in 1 .. n : i = n \/ (i \in 1 .. n - 1 /\ i \in 1 .. Len(stack))
    BY <1>3
  <2>2. 1 # 2
    OBVIOUS
  <2>. QED
    BY <1>4, <2>1, <2>2 DEF GenInv
<1>. QED
  BY <1>1, <1>4, <1>5, <1>6 DEF GenInv

LEMMA GenInvStep ==
  ASSUME TypeOK, RdTypeOK, SearchInv, GenInv, [Next]_rdvars, SearchStep
  PROVE  GenInv'
<1>1. CASE \/ ReturnConstant \/ ReturnMemo \/ PartialToFull \/ PartialEnter \/ FullEnter
           \/ RefineEnter \/ NextChild \/ RefineDecide \/ StoreDecided \/ StoreFull
           \/ StartRefine \/ StartGen
  BY <1>1, GenInvSearch
<1>2. CASE Terminated \/ UNCHANGED rdvars
  BY <1>2 DEF Terminated, GenInv, rdvars, gvars, rvars
<1>3. CASE phase = "gen" /\ GenNode
  BY <1>3, GenInvNode
<1>4. CASE phase = "gen" /\ GenStep
  <2>1. CASE GenSecond
    BY <1>4, <2>1, GenInvSecond DEF GenStep
  <2>2. CASE GenZero \/ GenOne
    BY <1>4, <2>2 DEF GenStep, GenZero, GenOne, rvars, GenInv
  <2>3. CASE GenLeave
    <3>1. /\ Len(stack) \in Nat \ {0} /\ Len(stack') = Len(stack) - 1
          /\ \A i \in 1 .. Len(stack) - 1 : stack'[i] = stack[i]
      BY <2>3, PopProperties DEF GenLeave, TypeOK, GTypeOK
    <3>2. \A i \in 1 .. Len(stack) - 1 : i \in 1 .. Len(stack)
      BY <3>1
    <3>. QED
      BY <1>4, <2>3, <3>1, <3>2 DEF GenStep, GenLeave, rvars, GenInv
  <2>. QED
    BY <1>4, <2>1, <2>2, <2>3 DEF GenStep
<1>. QED
  BY <1>1, <1>2, <1>3, <1>4 DEF Next

-----------------------------------------------------------------------------
(* The invariant, and what follows.                                         *)
RdInv == TypeOK /\ TrailMatchesStack /\ BelowTrail /\ SearchInv /\ GenInv

LEMMA RdInvInit == ASSUME Init PROVE RdInv
<1>1. GInit /\ root \in Fns
  BY RootsAssumption DEF Init, GInit
<1>2. DOMAIN hash = {} /\ rstack = <<>> /\ Len(rstack) = 0 /\ stack = <<>> /\ Len(stack) = 0
  BY EmptyLen DEF Init, GInit
<1>3. RdTypeOK
  BY <1>1, <1>2, EmptySeq DEF Init, GInit, RdTypeOK, TableTypes, Searches
<1>4. SearchInv
  <2>1. TableOK(hash) /\ ChainUpTo(root, hash, rstack, Len(rstack))
    BY <1>2 DEF TableOK, ChainUpTo
  <2>2. CallOK(root, hash, rstack, rfn, rarg) /\ rpc = "call"
    BY <1>2 DEF Init, GInit, CallOK, Wanted
  <2>. QED
    BY <2>1, <2>2 DEF SearchInv
<1>5. GenInv
  BY <1>2 DEF Init, GInit, GenInv
<1>. QED
  BY <1>1, <1>3, <1>4, <1>5, TypeInit, TrailInit, BelowInit, RdTypeSplit DEF RdInv

LEMMA RdInvStep == ASSUME RdInv, [Next]_rdvars PROVE RdInv' /\ SearchStep
<1>1. GTypeOK /\ RdTypeOK
  BY RdTypeSplit DEF RdInv
<1>2. [GNext]_gvars
  BY StepIsWalk DEF RdInv
<1>3. GTypeOK' /\ TrailMatchesStack' /\ BelowTrail'
  BY <1>1, <1>2, TypeStep, TrailStep, BelowStep DEF RdInv
<1>4. SearchStep
  BY <1>1, SearchAdvances DEF RdInv
<1>5. RdTypeOK' /\ SearchInv'
  BY <1>4 DEF SearchStep
<1>6. GenInv'
  BY <1>1, <1>4, GenInvStep DEF RdInv
<1>7. TypeOK'
  BY <1>3, <1>5 DEF TypeOK, GTypeOK, RdTypeOK, TableTypes, Entries, RdFrames
<1>. QED
  BY <1>3, <1>4, <1>5, <1>6, <1>7 DEF RdInv

LEMMA RdInvariant == Spec => []RdInv
<1>1. RdInv /\ [Next]_rdvars => RdInv'
  BY RdInvStep
<1>. QED
  BY RdInvInit, <1>1, PTL DEF Spec

(* The variables of rdextract keep their types.                             *)
THEOREM RdTypeCorrect == Spec => []TypeOK
<1>1. RdInv => TypeOK
  BY DEF RdInv
<1>. QED
  BY RdInvariant, <1>1, PTL

(* rdextract implements the walk: whatever the look-ahead estimates and     *)
(* refine decides again, genPSDKRO takes steps the abstract walk may take.  *)
THEOREM Refinement == Spec => ImplementsPsdkro
<1>1. Init => GInit
  BY DEF Init
<1>2. RdInv /\ [Next]_rdvars => [GNext]_gvars
  BY StepIsWalk DEF RdInv
<1>. QED
  BY <1>1, <1>2, RdInvariant, PTL DEF Spec, GSpec, ImplementsPsdkro

(* So the ESOP that rdextract prints realises the function it was given.    *)
THEOREM ExtractCorrect == Spec => []EsopRealisesRoot
BY Refinement, EsopCorrect, PTL DEF ImplementsPsdkro

(* No inner function is ever given the default expansion, by refine's       *)
(* lookups nor by genPSDKRO's.                                              *)
THEOREM DefaultsCorrect == Spec => []OnlyConstantsDefaulted
<1>1. RdInv => OnlyConstantsDefaulted
  BY DEF RdInv, SearchInv, TableOK, EntryOK, OnlyConstantsDefaulted
<1>. QED
  BY RdInvariant, <1>1, PTL

(* The iterator that refine dereferences is never end().                    *)
THEOREM RefineFindsCorrect == Spec => []RefineFindsEntry
<1>1. RdInv => RefineFindsEntry
  BY DEF RdInv, SearchInv, CallOK, Known, RefineFindsEntry
<1>. QED
  BY RdInvariant, <1>1, PTL

(* refine never replaces a decision by one that is stored as dearer,        *)
(* although the costs it compares may be out of date.                       *)
THEOREM CostsCorrect == Spec => CostsNeverRise
<1>1. ASSUME Evolves(hash, hash'), NEW F \in DOMAIN hash, ~IsConstant(F)
      PROVE  hash'[F].cost <= hash[F].cost
  <2>1. Known(hash, F) /\ F # Zero /\ F # One
    BY <1>1 DEF Known, IsConstant
  <2>2. Cost(hash', F) <= Cost(hash, F)
    BY <1>1, <2>1 DEF Evolves
  <2>. QED
    BY <2>1, <2>2 DEF Cost
<1>2. RdInv /\ [Next]_rdvars =>
        [\A F \in DOMAIN hash : ~IsConstant(F) => hash'[F].cost <= hash[F].cost]_hash
  BY <1>1, RdInvStep DEF SearchStep
<1>. QED
  BY RdInvariant, <1>2, PTL DEF Spec, CostsNeverRise

(* refine marks a function only after the two children it keeps.            *)
THEOREM ReachesCorrect == Spec => RefineReachesChildren
<1>1. ASSUME Reaches(hash, hash'), NEW F \in DOMAIN hash, ~hash[F].refined, hash'[F].refined,
             NEW i \in {1, 2}
      PROVE  LET G == Child(F, Kept(hash'[F].exp)[i])
             IN  IsConstant(G) \/ hash'[G].refined
  BY <1>1 DEF Reaches, Confirmed, KeptChild
<1>2. RdInv /\ [Next]_rdvars =>
        [\A F \in DOMAIN hash :
           (~hash[F].refined /\ hash'[F].refined) =>
             \A i \in {1, 2} :
               LET G == Child(F, Kept(hash'[F].exp)[i])
               IN  IsConstant(G) \/ hash'[G].refined]_hash
  BY <1>1, RdInvStep DEF SearchStep
<1>. QED
  BY RdInvariant, <1>2, PTL DEF Spec, RefineReachesChildren

-----------------------------------------------------------------------------
(* What the walk emits by the decisions of a table.                         *)
Decision(h, G) == Lookup(h, G).exp
DecisionsOK(h) == \A G : Decision(h, G) \in ExpTypes

EmitBody(h, n, G) ==
  IF G = Zero THEN 0 ELSE IF G = One THEN 1
  ELSE n[KeptChild(G, Decision(h, G), 1)] + n[KeptChild(G, Decision(h, G), 2)]

EmitRule(h) ==
  [G \in Fns |-> [t \in Triples |->
     IF G = Zero THEN 0 ELSE IF G = One THEN 1
     ELSE t[Kept(Decision(h, G))[1] + 1] + t[Kept(Decision(h, G))[2] + 1]]]

Tallies(h, n) == IsCost(n) /\ \A G \in Fns : n[G] = EmitBody(h, n, G)

LEMMA EmitRuleIsRule == ASSUME NEW h, DecisionsOK(h) PROVE IsRule(EmitRule(h))
<1>1. ASSUME NEW t \in Triples, NEW i \in Children PROVE t[i + 1] \in Nat
  BY <1>1 DEF Triples, Children
<1>2. ASSUME NEW G \in Fns, NEW t \in Triples
      PROVE  /\ t[Kept(Decision(h, G))[1] + 1] \in Nat
             /\ t[Kept(Decision(h, G))[2] + 1] \in Nat
  BY <1>1, KeptFacts DEF DecisionsOK
<1>3. \A G \in Fns, t \in Triples :
        t[Kept(Decision(h, G))[1] + 1] + t[Kept(Decision(h, G))[2] + 1] \in Nat
  BY <1>2
<1>4. EmitRule(h) \in [Fns -> [Triples -> Nat]]
  BY <1>3 DEF EmitRule
<1>5. \A G \in Fns : IsConstant(G) => \A t, u \in Triples : EmitRule(h)[G][t] = EmitRule(h)[G][u]
  BY DEF EmitRule, IsConstant
<1>. QED
  BY <1>4, <1>5 DEF IsRule

LEMMA KeptCost3 ==
  ASSUME NEW f, NEW G, NEW i \in Children
  PROVE  ChildCosts(f, G)[i + 1] = f[Child(G, i)]
<1>1. ChildCosts(f, G) = <<f[Child(G, 0)], f[Child(G, 1)], f[Child(G, 2)]>>
  BY ChildCases DEF ChildCosts
<1>2. i = 0 \/ i = 1 \/ i = 2
  BY DEF Children
<1>. QED
  BY <1>1, <1>2

LEMMA EmitsTally ==
  ASSUME NEW h, DecisionsOK(h)
  PROVE  \E n : Tallies(h, n) /\ \A F : Emits(h, F) = n[F]
<1>1. PICK f : Solves(EmitRule(h), f)
  BY EmitRuleIsRule, SolutionExists
<1>2. ASSUME NEW G \in Fns PROVE f[G] = EmitBody(h, f, G)
  <2>1. f[G] = EmitRule(h)[G][ChildCosts(f, G)] /\ ChildCosts(f, G) \in Triples
    BY <1>1, ChildCostsType DEF Solves
  <2>2. PICK k1 \in Children, k2 \in Children :
          k1 = Kept(Decision(h, G))[1] /\ k2 = Kept(Decision(h, G))[2]
    BY KeptFacts DEF DecisionsOK
  <2>3. /\ ChildCosts(f, G)[k1 + 1] = f[Child(G, k1)]
        /\ ChildCosts(f, G)[k2 + 1] = f[Child(G, k2)]
    BY KeptCost3
  <2>4. EmitRule(h)[G][ChildCosts(f, G)] =
          IF G = Zero THEN 0 ELSE IF G = One THEN 1
          ELSE ChildCosts(f, G)[k1 + 1] + ChildCosts(f, G)[k2 + 1]
    BY <2>1, <2>2 DEF EmitRule
  <2>. QED
    BY <2>1, <2>2, <2>3, <2>4 DEF EmitBody, KeptChild
<1>3. f = [G \in Fns |-> EmitBody(h, f, G)]
  BY <1>1, <1>2 DEF Solves
<1>4. PICK n : n = CHOOSE g : g = [G \in Fns |-> EmitBody(h, g, G)]
  OBVIOUS
<1>5. n = [G \in Fns |-> EmitBody(h, n, G)]
  BY <1>3, <1>4
<1>6. \A F : Emits(h, F) = n[F]
  BY <1>4 DEF Emits, EmitBody, KeptChild, Decision
<1>7. \A G \in Fns : n[G] = EmitBody(h, n, G)
  BY <1>5
<1>8. \A G \in Fns : n[G] \in Nat
  <2>. DEFINE S == {G \in Fns : n[G] \in Nat}
  <2>1. \A G \in Fns : IsConstant(G) => G \in S
    BY <1>7 DEF EmitBody, IsConstant
  <2>2. ASSUME NEW G \in Fns, ~IsConstant(G), \A i \in Children : Child(G, i) \in S
        PROVE  G \in S
    <3>1. Kept(Decision(h, G))[1] \in Children /\ Kept(Decision(h, G))[2] \in Children
      BY KeptFacts DEF DecisionsOK
    <3>2. n[KeptChild(G, Decision(h, G), 1)] \in Nat /\ n[KeptChild(G, Decision(h, G), 2)] \in Nat
      BY <2>2, <3>1 DEF KeptChild
    <3>. QED
      BY <1>7, <2>2, <3>2 DEF EmitBody, IsConstant
  <2>3. Fns \subseteq S
    <3>. HIDE DEF S
    <3>. QED
      BY <2>1, <2>2, BottomUp
  <2>. QED
    BY <2>3
<1>9. IsCost(n)
  <2>1. Zero \in Fns /\ One \in Fns /\ One # Zero
    <3>1. {} \in Minterms
      BY DEF Minterms
    <3>. QED
      BY <3>1 DEF Zero, One, Fns
  <2>2. n[Zero] = 0 /\ n[One] = 1
    BY <1>7, <2>1 DEF EmitBody
  <2>3. n \in [Fns -> Nat]
    BY <1>5, <1>8
  <2>. QED
    BY <2>2, <2>3 DEF IsCost
<1>. QED
  BY <1>6, <1>7, <1>9 DEF Tallies

LEMMA TallyCovered ==
  ASSUME NEW h, TableTypes(h), TableOK(h), NEW n, Tallies(h, n), NEW F \in Fns, Known(h, F)
  PROVE  n[F] <= Cost(h, F)
<1>. DEFINE S == {G \in Fns : Known(h, G) => n[G] <= Cost(h, G)}
<1>1. \A G \in Fns : IsConstant(G) => G \in S
  BY DEF Tallies, IsCost, Cost, IsConstant
<1>2. ASSUME NEW G \in Fns, ~IsConstant(G), \A i \in Children : Child(G, i) \in S, Known(h, G)
      PROVE  n[G] <= Cost(h, G)
  <2>1. G \in DOMAIN h /\ EntryOK(h, G) /\ Cost(h, G) = h[G].cost /\ Decision(h, G) = h[G].exp
    BY <1>2 DEF Known, TableOK, Cost, IsConstant, Decision, Lookup
  <2>2. PICK e \in ExpTypes : e = h[G].exp
    BY <2>1 DEF TableTypes, Entries
  <2>3. PICK k1 \in S, k2 \in S : k1 = KeptChild(G, e, 1) /\ k2 = KeptChild(G, e, 2)
    BY <1>2, KeptFacts DEF KeptChild
  <2>4. Known(h, k1) /\ Known(h, k2) /\ Cost(h, k1) + Cost(h, k2) <= h[G].cost
    BY <1>2, <2>1, <2>2, <2>3 DEF EntryOK
  <2>5. n[G] = n[k1] + n[k2]
    BY <1>2, <2>1, <2>2, <2>3 DEF Tallies, EmitBody, IsConstant
  <2>6. n[k1] <= Cost(h, k1) /\ n[k2] <= Cost(h, k2)
    BY <2>3, <2>4
  <2>7. n[k1] \in Nat /\ n[k2] \in Nat /\ Cost(h, k1) \in Nat /\ Cost(h, k2) \in Nat
    BY <2>3, <2>4, CostNat DEF Tallies, IsCost
  <2>8. h[G].cost \in Nat
    BY <2>1 DEF TableTypes, Entries
  <2>. HIDE DEF S
  <2>. QED
    BY <2>1, <2>4, <2>5, <2>6, <2>7, <2>8
<1>3. Fns \subseteq S
  <2>1. \A G \in Fns : ~IsConstant(G) /\ (\A i \in Children : Child(G, i) \in S) => G \in S
    BY <1>2
  <2>. HIDE DEF S
  <2>. QED
    BY <1>1, <2>1, BottomUp
<1>. QED
  BY <1>3

(* A stored cost may be out of date, but only on the high side: the walk    *)
(* never emits more cubes for a function than its decision counted on.      *)
THEOREM CoversCorrect == Spec => []CostCoversCubes
<1>1. ASSUME RdInv, NEW F \in DOMAIN hash, ~IsConstant(F)
      PROVE  Emits(hash, F) <= hash[F].cost
  <2>1. TableTypes(hash) /\ TableOK(hash) /\ DecisionsOK(hash)
    BY <1>1, RdTypeSplit, LookupType DEF RdInv, SearchInv, RdTypeOK, DecisionsOK, Decision
  <2>2. PICK n : Tallies(hash, n) /\ \A G : Emits(hash, G) = n[G]
    BY <2>1, EmitsTally
  <2>3. F \in Fns /\ Known(hash, F) /\ Cost(hash, F) = hash[F].cost
    BY <1>1, <2>1 DEF TableTypes, Known, Cost, IsConstant
  <2>4. n[F] <= Cost(hash, F)
    BY <2>1, <2>2, <2>3, TallyCovered
  <2>. QED
    BY <2>2, <2>3, <2>4
<1>2. RdInv => CostCoversCubes
  BY <1>1 DEF CostCoversCubes
<1>. QED
  BY RdInvariant, <1>2, PTL

-----------------------------------------------------------------------------
(* The walk spends what its decisions cost: the ledger of module PsdkroProofs *)
(* is kept for every cost that splits at the expansions it meets.           *)
LEMMA SearchOrWalk ==
  ASSUME GenInv, [Next]_rdvars
  PROVE  \/ UNCHANGED gvars /\ phase # "gen" /\ phase' # "gen"
         \/ UNCHANGED gvars /\ phase # "gen" /\ phase' = "gen" /\ hash' = hash
         \/ UNCHANGED gvars /\ hash' = hash /\ phase' = phase
         \/ phase = "gen" /\ phase' = "gen" /\ GenNode
         \/ /\ phase = "gen" /\ phase' = "gen" /\ hash' = hash
            /\ GenZero \/ GenOne \/ GenSecond \/ GenLeave
<1>1. CASE \/ ReturnConstant \/ ReturnMemo \/ PartialToFull \/ PartialEnter \/ FullEnter
           \/ RefineEnter \/ NextChild \/ RefineDecide \/ StoreDecided \/ StoreFull
  <2>1. phase # "gen"
    BY <1>1 DEF GenInv, ReturnConstant, ReturnMemo, PartialToFull, PartialEnter, FullEnter, New,
                RefineEnter, NextChild, RefineDecide, StoreDecided, StoreFull, Returned
  <2>2. UNCHANGED gvars /\ phase' = phase
    BY <1>1 DEF ReturnConstant, ReturnMemo, PartialToFull, PartialEnter, FullEnter,
                RefineEnter, NextChild, RefineDecide, StoreDecided, StoreFull, Return
  <2>. QED
    BY <2>1, <2>2
<1>2. CASE StartRefine \/ StartGen
  BY <1>2 DEF StartRefine, StartGen
<1>3. CASE Terminated \/ UNCHANGED rdvars
  BY <1>3 DEF Terminated, rdvars, rvars
<1>4. CASE phase = "gen" /\ GenNode
  BY <1>4 DEF GenNode
<1>5. CASE phase = "gen" /\ GenStep
  BY <1>5 DEF GenStep, rvars
<1>. QED
  BY <1>1, <1>2, <1>3, <1>4, <1>5 DEF Next

LEMMA WalkPays ==
  ASSUME TypeOK, GenInv, [Next]_rdvars, NEW w, IsCost(w), CostLedger(w),
         GenNode => Splits(w, arg, Decision(hash, arg))
  PROVE  CostLedger(w)'
<1>0. GTypeOK /\ RdTypeOK
  BY RdTypeSplit
<1>1. CASE UNCHANGED gvars
  BY <1>1 DEF gvars, CostLedger, Due, Owed
<1>2. CASE GenNode
  <2>1. PICK e : e = Decision(hash, arg)
    OBVIOUS
  <2>2. e \in ExpTypes
    BY <1>0, <2>1, LookupType DEF Decision
  <2>3. ~IsConstant(arg) /\ GenEnter(TopVar(arg), e) /\ Splits(w, arg, e)
    BY <1>2, <2>1 DEF GenNode, Decision
  <2>. QED
    BY <1>0, <2>2, <2>3, CostLedgerEnter
<1>3. CASE GenZero \/ GenOne
  BY <1>0, <1>3, CostLedgerConstant
<1>4. CASE GenSecond
  BY <1>0, <1>4, CostLedgerSecond
<1>5. CASE GenLeave
  BY <1>0, <1>5, CostLedgerLeave
<1>. QED
  BY <1>1, <1>2, <1>3, <1>4, <1>5, SearchOrWalk

(* The cost that the final table counts on is spent.                        *)
SpendInv ==
  /\ phase # "gen" => GInit
  /\ phase = "gen" => \E w : Tallies(hash, w) /\ CostLedger(w)

LEMMA TallySplits ==
  ASSUME NEW h, DecisionsOK(h), NEW w, Tallies(h, w), NEW F \in Fns, ~IsConstant(F)
  PROVE  Splits(w, F, Decision(h, F))
<1>1. PICK e \in ExpTypes : e = Decision(h, F)
  BY DEF DecisionsOK
<1>2. w[F] = w[KeptChild(F, e, 1)] + w[KeptChild(F, e, 2)]
  BY <1>1 DEF Tallies, EmitBody, IsConstant
<1>. QED
  BY <1>1, <1>2, WalkIsKept DEF Splits

LEMMA SameDecisions ==
  ASSUME NEW h, NEW F, NEW g, g = Store(h, F, Lookup(h, F)), NEW w, Tallies(h, w)
  PROVE  Tallies(g, w)
<1>1. ASSUME NEW G PROVE Decision(g, G) = Decision(h, G)
  <2>1. DOMAIN g = DOMAIN h \cup {F} /\ \A H \in DOMAIN g : g[H] = IF H = F THEN Lookup(h, F) ELSE h[H]
    BY DEF Store
  <2>2. Lookup(g, G) = Lookup(h, G)
    BY <2>1 DEF Lookup
  <2>. QED
    BY <2>2 DEF Decision
<1>2. \A G : EmitBody(g, w, G) = EmitBody(h, w, G)
  BY <1>1 DEF EmitBody
<1>. QED
  BY <1>2 DEF Tallies

LEMMA SpendStep ==
  ASSUME RdInv, SpendInv, [Next]_rdvars
  PROVE  SpendInv'
<1>0. TypeOK /\ GenInv /\ DecisionsOK(hash)
  BY RdTypeSplit, LookupType DEF RdInv, DecisionsOK, Decision
<1>1. CASE UNCHANGED gvars /\ phase # "gen" /\ phase' # "gen"
  BY <1>1 DEF SpendInv, GInit, gvars
<1>2. CASE UNCHANGED gvars /\ phase # "gen" /\ phase' = "gen" /\ hash' = hash
  <2>1. PICK w : Tallies(hash, w)
    BY <1>0, EmitsTally
  <2>2. CostLedger(w)
    BY <1>2, <2>1, CostLedgerInit DEF SpendInv, Tallies
  <2>3. CostLedger(w)'
    BY <1>2, <2>2 DEF gvars, CostLedger, Due, Owed
  <2>. QED
    BY <1>2, <2>1, <2>3 DEF SpendInv
<1>3. CASE phase # "gen" /\ UNCHANGED gvars /\ phase' = phase
  BY <1>3 DEF SpendInv, GInit, gvars
<1>4. CASE phase = "gen" /\ phase' = "gen" /\ (hash' = hash \/ GenNode)
  <2>1. PICK w : Tallies(hash, w) /\ CostLedger(w)
    BY <1>4 DEF SpendInv
  <2>2. GenNode => Splits(w, arg, Decision(hash, arg))
    BY <1>0, <2>1, TallySplits DEF GenNode, TypeOK, GTypeOK
  <2>3. CostLedger(w)'
    BY <1>0, <2>1, <2>2, WalkPays DEF Tallies
  <2>4. Tallies(hash', w)
    <3>1. CASE hash' = hash
      BY <2>1, <3>1
    <3>2. CASE GenNode
      BY <2>1, <3>2, SameDecisions DEF GenNode
    <3>. QED
      BY <1>4, <3>1, <3>2
  <2>. QED
    BY <1>4, <2>3, <2>4 DEF SpendInv
<1>5. CASE phase # "gen" /\ phase' = phase
  <2>1. UNCHANGED gvars
    BY <1>0, <1>5, SearchOrWalk
  <2>. QED
    BY <1>3, <1>5, <2>1
<1>. QED
  BY <1>0, <1>1, <1>2, <1>4, <1>5, SearchOrWalk

(* The number of cubes rdextract prints is at most what it had counted on   *)
(* for the root: with CostsCorrect, refine never makes the ESOP longer than *)
(* partialExpand had promised.                                              *)
CubesWithinCost == Extracted /\ ~IsConstant(root) => Len(esop) <= hash[root].cost

RootKnown == phase = "gen" => Known(hash, root)

LEMMA RootKnownStep == ASSUME RdInv, RootKnown, [Next]_rdvars PROVE RootKnown'
<1>1. SearchStep /\ GenInv
  BY RdInvStep DEF RdInv
<1>2. CASE phase # "gen" /\ phase' = "gen"
  <2>1. /\ Len(rstack) = 0 /\ rpc = "return" /\ hash' = hash /\ root' = root
    <3>1. StartGen
      BY <1>2 DEF Next, ReturnConstant, ReturnMemo, PartialToFull, PartialEnter, FullEnter,
                  RefineEnter, NextChild, RefineDecide, StoreDecided, StoreFull, Return,
                  StartRefine, Terminated, rdvars, rvars
    <3>. QED
      BY <3>1, EmptyLen DEF StartGen, gvars
  <2>. QED
    BY <2>1 DEF RdInv, SearchInv, ReturnOK, Wanted, RootKnown
<1>3. CASE phase = "gen" \/ phase' # "gen"
  <2>1. phase = "gen" => root' = root
    BY <1>1, SearchOrWalk DEF gvars, GenNode, GenEnter, GenZero, GenOne, GenSecond, GenLeave
  <2>. QED
    BY <1>1, <1>3, <2>1 DEF RootKnown, SearchStep, Evolves
<1>. QED
  BY <1>2, <1>3

(* The length of the printed ESOP never exceeds the cost stored for the     *)
(* root when generation begins.                                             *)
THEOREM CubesWithinCostCorrect == Spec => []CubesWithinCost
<1>1. ASSUME Init PROVE SpendInv /\ RootKnown
  BY <1>1 DEF Init, SpendInv, RootKnown
<1>2. ASSUME RdInv, SpendInv, RootKnown, Extracted, ~IsConstant(root)
      PROVE  Len(esop) <= hash[root].cost
  <2>1. PICK w : Tallies(hash, w) /\ CostLedger(w)
    BY <1>2 DEF SpendInv, Extracted
  <2>2. GTypeOK /\ GenDone /\ root \in Fns
    BY <1>2 DEF RdInv, TypeOK, GTypeOK, Extracted
  <2>3. Len(esop) = w[root]
    BY <2>1, <2>2, CostLedgerEnd
  <2>4. Known(hash, root) /\ TableTypes(hash) /\ TableOK(hash)
    BY <1>2, RdTypeSplit DEF RootKnown, Extracted, RdInv, SearchInv, RdTypeOK
  <2>5. w[root] <= Cost(hash, root)
    BY <2>1, <2>2, <2>4, TallyCovered
  <2>. QED
    BY <1>2, <2>3, <2>5 DEF Cost, IsConstant
<1>3. RdInv /\ SpendInv /\ RootKnown => CubesWithinCost
  BY <1>2 DEF CubesWithinCost
<1>4. RdInv /\ RdInv' /\ SpendInv /\ RootKnown /\ [Next]_rdvars => SpendInv' /\ RootKnown'
  BY SpendStep, RootKnownStep
<1>. QED
  BY RdInvariant, <1>1, <1>3, <1>4, PTL DEF Spec

-----------------------------------------------------------------------------
(* A bound as large as the root: fullExpand alone decides.                  *)
Exact(h, F) == h[F].refined /\ h[F].cost = OptCost[F] /\ Splits(OptCost, F, h[F].exp)

FullTable(h) == \A F \in DOMAIN h : ~IsConstant(F) => Exact(h, F)

FullFrame(fr) ==
  /\ fr.fn = "fullExpand"
  /\ \A i \in Children : i < Len(fr.costs) => fr.costs[i + 1] = OptCost[Child(fr.f, i)]

FullInv ==
  /\ FullTable(hash)
  /\ \A k \in 1 .. Len(rstack) : FullFrame(rstack[k])
  /\ (rpc = "call" /\ rfn # "fullExpand") => rstack = <<>> /\ rarg = root

LEMMA FullCost ==
  ASSUME NEW h, FullTable(h), NEW G, Known(h, G)
  PROVE  Cost(h, G) = OptCost[G]
BY OptCostConstant DEF FullTable, Exact, Known, Cost, IsConstant

LEMMA FullInit == ASSUME Init PROVE FullInv
<1>1. DOMAIN hash = {} /\ Len(rstack) = 0 /\ rstack = <<>> /\ rarg = root
  BY EmptyLen DEF Init
<1>. QED
  BY <1>1 DEF FullInv, FullTable

LEMMA FullTop ==
  ASSUME RdTypeOK, SearchInv, FullInv, rpc = "return", rstack # <<>>
  PROVE  FullFrame(RTop) /\ ret = OptCost[Child(RTop.f, Waits(RTop))]
<1>1. /\ Len(rstack) \in Nat \ {0} /\ RTop = rstack[Len(rstack)]
      /\ Known(hash, Child(RTop.f, Waits(RTop)))
      /\ ret = Cost(hash, Child(RTop.f, Waits(RTop)))
  BY TopReturned
<1>2. Len(rstack) \in 1 .. Len(rstack)
  BY <1>1
<1>. QED
  BY <1>1, <1>2, FullCost DEF FullInv

LEMMA FullEnterKeeps ==
  ASSUME RdTypeOK, SearchInv, FullInv, FullEnter
  PROVE  FullInv'
<1>1. PICK n, s, fr : s = rstack /\ n = Len(s) /\ fr = Frame("fullExpand", rarg, "none", <<1, 2>>, <<>>)
  OBVIOUS
<1>2. fr.fn = "fullExpand" /\ Len(fr.costs) = 0 /\ fr \in RdFrames
  <2>1. <<1, 2>> \in Seq(Children)
    BY DEF Children
  <2>. QED
    BY <1>1, <2>1, EmptyLen DEF Frame, RdFrames, RdTypeOK, Searches
<1>3. s \in Seq(RdFrames) /\ n \in Nat
  BY <1>1, LenProperties DEF RdTypeOK
<1>4. /\ Len(rstack') = n + 1 /\ rstack'[n + 1] = fr
      /\ \A k \in 1 .. n : rstack'[k] = rstack[k]
  <2>1. rstack' = Append(s, fr)
    BY <1>1 DEF FullEnter, Push
  <2>. QED
    BY <1>1, <1>2, <1>3, <2>1, AppendFacts
<1>5. FullFrame(fr)
  <2>1. \A i \in Children : ~(i < 0)
    BY DEF Children
  <2>. QED
    BY <1>2, <2>1 DEF FullFrame
<1>6. \A k \in 1 .. n + 1 : k = n + 1 \/ k \in 1 .. n
  BY <1>3
<1>7. \A k \in 1 .. n + 1 : FullFrame(rstack'[k])
  BY <1>1, <1>4, <1>5, <1>6 DEF FullInv
<1>8. hash' = hash /\ rfn' = "fullExpand"
  BY DEF FullEnter, Call
<1>. QED
  BY <1>4, <1>7, <1>8 DEF FullInv, FullFrame

LEMMA FullNextKeeps ==
  ASSUME RdTypeOK, SearchInv, FullInv, NextChild
  PROVE  FullInv'
<1>1. rpc = "return" /\ rstack # <<>> /\ RTop.fn \in Searches /\ RTop.todo # <<>>
  BY DEF NextChild, Returned
<1>2. FullFrame(RTop) /\ ret = OptCost[Child(RTop.f, Waits(RTop))]
  BY <1>1, FullTop
<1>3. PICK n, fr : n \in Nat \ {0} /\ n = Len(rstack) /\ fr = RTop /\ fr = rstack[n]
  BY <1>1, TopReturned
<1>4. ShapeOK(fr) /\ ret \in Nat /\ rstack \in Seq(RdFrames) /\ fr.fn = "fullExpand"
  BY <1>1, <1>2, <1>3, TopReturned DEF RdTypeOK, FullFrame
<1>5. PICK u : u = Advanced(fr, ret)
  OBVIOUS
<1>6. AdvanceOK(fr, u, ret)
  BY <1>1, <1>3, <1>4, <1>5, NextShape
<1>7. PICK m \in {0, 1} : m = Len(fr.costs)
  BY <1>4, <1>6 DEF AdvanceOK
<1>8. /\ u.fn = "fullExpand" /\ u.f = fr.f /\ Len(u.costs) = m + 1
      /\ u.costs[m + 1] = ret /\ \A i \in 1 .. m : u.costs[i] = fr.costs[i]
  BY <1>4, <1>6, <1>7 DEF AdvanceOK
<1>9. ret = OptCost[Child(fr.f, m)]
  BY <1>2, <1>3, <1>4, <1>7 DEF Waits
<1>10. ASSUME NEW i \in Children, i < m + 1
       PROVE  u.costs[i + 1] = OptCost[Child(fr.f, i)]
  <2>1. CASE i = m
    BY <1>8, <1>9, <2>1
  <2>2. CASE i < m
    <3>1. i + 1 \in 1 .. m
      BY <2>2 DEF Children
    <3>. QED
      BY <1>2, <1>3, <1>7, <1>8, <2>2, <3>1 DEF FullFrame
  <2>3. i = m \/ i < m
    BY <1>10 DEF Children
  <2>. QED
    BY <2>1, <2>2, <2>3
<1>11. FullFrame(u)
  BY <1>8, <1>10 DEF FullFrame
<1>12. rstack' = [rstack EXCEPT ![n] = u]
  <2>1. rstack' = [rstack EXCEPT ![n].todo = Tail(@), ![n].costs = Append(@, ret)]
    BY <1>3 DEF NextChild
  <2>2. n \in DOMAIN rstack
    BY <1>3, <1>4
  <2>3. u = [rstack[n] EXCEPT !.todo = Tail(@), !.costs = Append(@, ret)]
    BY <1>3, <1>5 DEF Advanced
  <2>. QED
    BY <1>4, <2>1, <2>2, <2>3
<1>13. Len(rstack') = n /\ \A k \in 1 .. n : rstack'[k] = IF k = n THEN u ELSE rstack[k]
  BY <1>3, <1>4, <1>12
<1>14. \A k \in 1 .. n : FullFrame(rstack'[k])
  BY <1>3, <1>11, <1>13 DEF FullInv
<1>15. hash' = hash /\ rfn' = "fullExpand"
  BY <1>3, <1>4 DEF NextChild, Call
<1>. QED
  BY <1>13, <1>14, <1>15 DEF FullInv, FullFrame

LEMMA FullStoreKeeps ==
  ASSUME RdTypeOK, SearchInv, FullInv, StoreFull
  PROVE  FullInv'
<1>1. rpc = "return" /\ rstack # <<>> /\ RTop.fn = "fullExpand" /\ RTop.todo = <<>> /\ rpc' = rpc
  BY DEF StoreFull, Returned, Return
<1>2. FullFrame(RTop) /\ ret = OptCost[Child(RTop.f, Waits(RTop))]
  BY <1>1, FullTop
<1>3. PICK n, fr : n \in Nat \ {0} /\ n = Len(rstack) /\ fr = RTop /\ ShapeOK(fr) /\ ret \in Nat
  BY <1>1, TopReturned DEF RdTypeOK
<1>4. PICK F \in Fns : F = fr.f /\ ~IsConstant(F)
  BY <1>3, WaitsForChild
<1>5. Len(fr.costs) = 2 /\ fr.costs \in Seq(Nat)
  <2>1. <<1, 2>> # <<>> /\ <<2>> # <<>>
    OBVIOUS
  <2>. QED
    BY <1>1, <1>3, <2>1 DEF ShapeOK, RdFrames
<1>6. PICK t \in Seq(Nat), y \in Nat : t = fr.costs /\ y = ret
  BY <1>3, <1>5
<1>7. PICK c : c = Append(t, y)
  OBVIOUS
<1>8. c[1] = t[1] /\ c[2] = t[2] /\ c[3] = y
  <2>1. c[Len(t) + 1] = y /\ \A i \in 1 .. Len(t) : c[i] = t[i]
    BY <1>7, AppendFacts
  <2>2. 1 \in 1 .. 2 /\ 2 \in 1 .. 2 /\ 2 + 1 = 3
    OBVIOUS
  <2>. QED
    BY <1>5, <1>6, <2>1, <2>2
<1>9. /\ c[1] = OptCost[Child(F, 0)] /\ c[2] = OptCost[Child(F, 1)]
      /\ c[3] = OptCost[Child(F, 2)]
  <2>1. t[1] = OptCost[Child(F, 0)] /\ t[2] = OptCost[Child(F, 1)]
    BY <1>2, <1>3, <1>4, <1>5, <1>6 DEF FullFrame, Children
  <2>2. Waits(fr) = 2
    BY <1>1, <1>3, <1>5 DEF Waits
  <2>. QED
    BY <1>2, <1>3, <1>4, <1>6, <1>8, <2>1, <2>2
<1>10. PICK e : e = ExpDropping(Dropped(c, 0))
  OBVIOUS
<1>11. 0 \in Children
  BY DEF Children
<1>12. KeptCost(c, e) = OptCost[F] /\ Splits(OptCost, F, e)
  BY <1>4, <1>9, <1>10, <1>11, DecisionIsLeast
<1>13. PICK en : en = [exp |-> e, cost |-> KeptCost(c, e), refined |-> TRUE]
  OBVIOUS
<1>14. hash' = Store(hash, F, en) /\ rstack' = Pop(rstack)
  <2>1. Return(e, KeptCost(c, e), TRUE)
    BY <1>3, <1>6, <1>7, <1>10 DEF StoreFull
  <2>. QED
    BY <1>3, <1>4, <1>13, <2>1 DEF Return
<1>15. FullTable(hash')
  <2>1. \A G \in DOMAIN hash' : (G = F /\ hash'[G] = en) \/ (G \in DOMAIN hash /\ hash'[G] = hash[G])
    BY <1>14 DEF Store
  <2>2. en.refined /\ en.cost = OptCost[F] /\ Splits(OptCost, F, en.exp)
    BY <1>12, <1>13
  <2>. QED
    BY <2>1, <2>2 DEF FullInv, FullTable, Exact
<1>16. Len(rstack') = n - 1 /\ \A k \in 1 .. n - 1 : rstack'[k] = rstack[k]
  BY <1>3, <1>14, <1>1, PopProperties DEF RdTypeOK
<1>17. \A k \in 1 .. n - 1 : FullFrame(rstack'[k])
  <2>1. \A k \in 1 .. n - 1 : k \in 1 .. n
    BY <1>3
  <2>. QED
    BY <1>3, <1>16, <2>1 DEF FullInv
<1>. QED
  BY <1>1, <1>15, <1>16, <1>17 DEF FullInv, FullFrame

LEMMA FullStep ==
  ASSUME RdInv, DagSize(root) <= bound, FullInv, [Next]_rdvars
  PROVE  FullInv'
<1>0. RdTypeOK /\ SearchInv /\ GenInv
  BY RdTypeSplit DEF RdInv
<1>1. CASE ReturnConstant \/ ReturnMemo \/ PartialToFull
  <2>1. hash' = hash /\ rstack' = rstack /\ (rpc' = "return" \/ rfn' = "fullExpand")
    BY <1>1 DEF ReturnConstant, ReturnMemo, PartialToFull
  <2>. QED
    BY <2>1 DEF FullInv
<1>2. CASE PartialEnter
  BY <1>2 DEF PartialEnter, New, FullInv
<1>3. CASE FullEnter
  BY <1>0, <1>3, FullEnterKeeps
<1>4. CASE RefineEnter
  <2>1. /\ rpc = "call" /\ rfn = "refine" /\ ~IsConstant(rarg) /\ ~hash[rarg].refined
    BY <1>4 DEF RefineEnter
  <2>2. rarg \in DOMAIN hash
    BY <1>0, <2>1 DEF SearchInv, CallOK, Known
  <2>. QED
    BY <2>1, <2>2 DEF FullInv, FullTable, Exact
<1>5. CASE NextChild
  BY <1>0, <1>5, FullNextKeeps
<1>6. CASE RefineDecide \/ StoreDecided
  <2>1. rpc = "return" /\ rstack # <<>> /\ RTop.fn # "fullExpand"
    BY <1>6 DEF RefineDecide, StoreDecided, Returned
  <2>. QED
    BY <1>0, <2>1, FullTop DEF FullFrame
<1>7. CASE StoreFull
  BY <1>0, <1>7, FullStoreKeeps
<1>8. CASE StartRefine
  <2>1. hash' = hash /\ rstack' = rstack /\ rstack = <<>> /\ rarg' = root /\ root' = root
    BY <1>8 DEF StartRefine, Call, gvars
  <2>. QED
    BY <2>1 DEF FullInv
<1>9. CASE StartGen \/ Terminated \/ UNCHANGED rdvars \/ (phase = "gen" /\ GenStep)
  <2>1. UNCHANGED <<hash, rstack, rpc, rfn, rarg>> /\ root' = root
    BY <1>9 DEF StartGen, Terminated, GenStep, GenZero, GenOne, GenSecond, GenLeave, rdvars, gvars, rvars
  <2>. QED
    BY <2>1 DEF FullInv
<1>10. CASE phase = "gen" /\ GenNode
  <2>1. UNCHANGED <<rstack, rpc, rfn, rarg>> /\ root' = root
        /\ hash' = Store(hash, arg, Lookup(hash, arg)) /\ pc = "call" /\ ~IsConstant(arg)
    BY <1>10 DEF GenNode, GenEnter
  <2>2. arg \in DOMAIN hash
    BY <1>0, <1>10, <2>1 DEF GenInv, Known
  <2>3. DOMAIN hash' = DOMAIN hash /\ \A G \in DOMAIN hash : hash'[G] = hash[G]
    BY <2>1, <2>2 DEF Store, Lookup
  <2>4. FullTable(hash')
    BY <2>3 DEF FullInv, FullTable, Exact
  <2>. QED
    BY <2>1, <2>4 DEF FullInv
<1>. QED
  BY <1>1, <1>2, <1>3, <1>4, <1>5, <1>6, <1>7, <1>8, <1>9, <1>10 DEF Next

ExactInv == DagSize(root) <= bound => FullInv /\ CostLedger(OptCost)

LEMMA ExactStep == ASSUME RdInv, ExactInv, [Next]_rdvars PROVE ExactInv'
<1>1. root' = root /\ bound' = bound
  <2>1. [GNext]_gvars
    BY StepIsWalk DEF RdInv
  <2>2. root' = root
    BY <2>1 DEF GNext, GenZero, GenOne, GenEnter, GenSecond, GenLeave, gvars
  <2>3. bound' = bound
    BY DEF Next, ReturnConstant, ReturnMemo, PartialToFull, PartialEnter, FullEnter,
           RefineEnter, NextChild, RefineDecide, StoreDecided, StoreFull, Return,
           StartRefine, StartGen, GenNode, GenStep, Terminated, rdvars, rvars, options
  <2>. QED
    BY <2>2, <2>3
<1>2. ASSUME DagSize(root) <= bound PROVE FullInv' /\ CostLedger(OptCost)'
  <2>1. FullInv /\ CostLedger(OptCost)
    BY <1>2 DEF ExactInv
  <2>2. FullInv'
    BY <1>2, <2>1, FullStep
  <2>3. ASSUME GenNode PROVE Splits(OptCost, arg, Decision(hash, arg))
    <3>1. phase = "gen" /\ ~IsConstant(arg) /\ pc = "call"
      <4>1. phase = "gen"
        <5>1. ~UNCHANGED gvars
          BY <2>3 DEF GenNode, GenEnter, gvars, RdInv, TypeOK, GTypeOK, Frames
        <5>. QED
          BY <5>1, SearchOrWalk DEF RdInv, GenZero, GenOne, GenSecond, GenLeave
      <4>. QED
        BY <2>3, <4>1 DEF GenNode
    <3>2. arg \in DOMAIN hash
      BY <3>1 DEF RdInv, GenInv, Known
    <3>. QED
      BY <2>1, <3>1, <3>2 DEF FullInv, FullTable, Exact, Decision, Lookup
  <2>4. CostLedger(OptCost)'
    BY <2>1, <2>3, OptCostIsCost, WalkPays DEF RdInv
  <2>. QED
    BY <2>2, <2>4
<1>. QED
  BY <1>1, <1>2 DEF ExactInv

(* With a bound as large as the root's BDD, rdextract is exact for the      *)
(* order, whatever the level and whether it refines or not.                 *)
THEOREM FullBoundCorrect == Spec => []FullBoundIsExact
<1>1. ASSUME Init PROVE ExactInv
  <2>1. GInit
    BY <1>1 DEF Init
  <2>. QED
    BY <1>1, <2>1, FullInit, OptCostIsCost, CostLedgerInit DEF ExactInv
<1>2. ASSUME RdInv, ExactInv, Extracted, DagSize(root) <= bound
      PROVE  Len(esop) = OptCost[root]
  <2>1. GTypeOK /\ CostLedger(OptCost) /\ GenDone
    BY <1>2 DEF RdInv, TypeOK, ExactInv, Extracted
  <2>. QED
    BY <2>1, CostLedgerEnd
<1>3. RdInv /\ ExactInv => FullBoundIsExact
  BY <1>2 DEF FullBoundIsExact
<1>4. RdInv /\ ExactInv /\ [Next]_rdvars => ExactInv'
  BY ExactStep
<1>. QED
  BY RdInvariant, <1>1, <1>3, <1>4, PTL DEF Spec

=============================================================================
