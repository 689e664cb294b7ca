-------------------------- MODULE ExorcismProofs --------------------------
(***************************************************************************)
(* Proofs about exorcism, second part: the steps of an ExorLink keep the    *)
(* inductive invariant, the theorems that follow from it, and the           *)
(* refinement of EsopCover.                                                 *)
(***************************************************************************)
EXTENDS ExorcismScanProofs

-----------------------------------------------------------------------------
(* While a group is tried nothing changes but the marks, what was checked   *)
(* and what was gained.                                                     *)
SameLink(k, l) ==
  /\ k.C1 = l.C1 /\ k.C2 = l.C2 /\ k.el = l.el /\ k.dist = l.dist
  /\ k.visited = l.visited /\ k.group = l.group

LEMMA SameLinkFacts ==
  ASSUME NEW k, NEW l, SameLink(k, l)
  PROVE  /\ \A i : GC(k, i) = GC(l, i)
         /\ LinkOK(k) <=> LinkOK(l)
         /\ \A S, cb, lt, qc, sv, f : Vain(S, cb, lt, qc, k, sv, f) <=> Vain(S, cb, lt, qc, l, sv, f)
<1>1. \A i : GC(k, i) = GC(l, i)
  BY DEF SameLink, GC
<1>2. LinkOK(k) <=> LinkOK(l)
  BY <1>1 DEF SameLink, LinkOK
<1>3. \A S, cb, lt, qc, sv, f : Vain(S, cb, lt, qc, k, sv, f) <=> Vain(S, cb, lt, qc, l, sv, f)
  BY DEF SameLink, Vain
<1>. QED
  BY <1>1, <1>2, <1>3

LEMMA ProbeFrame ==
  ASSUME IInv, Linking, pc' \in {"probe", "probed", "insert", "failed", "scan"},
         UNCHANGED <<args, added, cube, ID, lits, qcost, list, free, cIDs, que, enabled, store,
                     pass, saved>>,
         SameLink(link', link), link' \in Links, chk' \in Checks,
         fMark' \in [Cells -> BOOLEAN],
         \A k \in Cells : fMark'[k] => fMark[k] \/ (link.dist # 2 /\ k \in MadeCells(link)),
         Held' = Held, Owed' = Owed, ~Touched' => ~Touched
  PROVE  /\ TypeOK' /\ PlacesInv' /\ MarksInv' /\ QueueInv' /\ DataInv' /\ ApartInv' /\ VainInv'
         /\ LedgerInv' /\ Linking' /\ LinkOK(link')
         /\ IsFiniteSet(saved') /\ Cardinality(saved') <= pass'.nBefore
         /\ Working' = Working
<1>0. /\ TypeOK /\ PhaseInv /\ QueueInv /\ PlacesInv /\ MarksInv /\ DataInv /\ ApartInv
      /\ VainInv /\ UndoInv /\ LedgerInv /\ SizeInv /\ TwoInv
  BY DEF IInv
<1>1. /\ args' = args /\ added' = added /\ cube' = cube /\ ID' = ID /\ lits' = lits
      /\ qcost' = qcost /\ list' = list /\ free' = free /\ cIDs' = cIDs /\ que' = que
      /\ enabled' = enabled /\ store' = store /\ pass' = pass /\ saved' = saved
  OBVIOUS
<1>2. /\ link'.C1 = link.C1 /\ link'.C2 = link.C2 /\ link'.el = link.el /\ link'.dist = link.dist
  BY DEF SameLink
<1>3. Linking' /\ LinkOK(link')
  BY <1>0, <1>2, SameLinkFacts, LinkingIs DEF Linking
<1>4. /\ Cells' = Cells /\ Places' = Places /\ FunctionRead(added)' = FunctionRead(added)
      /\ Elements(list)' = Elements(list) /\ Elements(free)' = Elements(free)
  BY <1>1, SameArgs DEF Elements
<1>5. TypeOK'
  BY <1>0, <1>1, SameArgs DEF TypeOK
<1>6. PlacesInv'
  BY <1>0, <1>1, <1>4 DEF PlacesInv, Distinct
<1>7. MarksInv'
  <2>1. Made' = Made
    BY <1>2 DEF Made
  <2>2. MadeCells(link) = {link.el[n] : n \in Made}
    BY DEF MadeCells, Made
  <2>3. SUFFICES ASSUME NEW k \in Cells, fMark'[k]
        PROVE  link.dist # 2 /\ \E n \in Made : link.el[n] = k
    BY <1>2, <1>3, <1>4, <2>1 DEF MarksInv
  <2>4. CASE fMark[k]
    BY <1>0, <2>4 DEF MarksInv
  <2>5. CASE link.dist # 2 /\ k \in MadeCells(link)
    BY <2>2, <2>5
  <2>. QED
    BY <2>3, <2>4, <2>5
<1>8. QueueInv'
  <2>1. InPass' = InPass
    BY <1>3 DEF InPass
  <2>. QED
    BY <1>0, <1>1, <1>2, <1>3, <1>4, <2>1 DEF QueueInv
<1>9. DataInv' /\ ApartInv'
  BY <1>0, <1>1, <1>4 DEF DataInv, ApartInv
<1>10. VainInv'
  <2>1. ~Touched' => Vain(Elements(list), cube, lits, qcost, link, saved, FunctionRead(added))
    BY <1>0 DEF VainInv
  <2>. QED
    BY <1>1, <1>4, <2>1, SameLinkFacts DEF VainInv
<1>11. Working' = Working
  BY <1>4 DEF Working
<1>12. LedgerInv'
  BY <1>0, <1>1, <1>4, <1>11 DEF LedgerInv
<1>13. IsFiniteSet(saved') /\ Cardinality(saved') <= pass'.nBefore
  BY <1>0, <1>1 DEF SizeInv
<1>. QED
  BY <1>3, <1>5, <1>6, <1>7, <1>8, <1>9, <1>10, <1>11, <1>12, <1>13

(* What can be undone stays the same.                                       *)
LEMMA UndoFrame ==
  ASSUME IInv, UNCHANGED <<args, added, cube, lits, qcost, list, free, store, saved>>,
         SameLink(link', link), Undoable' => Undoable /\ Given' = Given /\ InScan \subseteq InScan'
  PROVE  UndoInv'
<1>1. SUFFICES ASSUME Undoable'
      PROVE  /\ \E i \in 1 .. link'.dist : Given' = {i} /\ store'.p = GC(link', i)
             /\ store'.p \in Elements(list') \cup InScan'
             /\ free' # <<>> /\ store'.PrevID # 0
             /\ Vain(UndoneList', UndoneCube', UndoneLits', UndoneCost', link', saved',
                     FunctionRead(added)')
  BY DEF UndoInv, Elements
<1>2. /\ \E i \in 1 .. link.dist : Given = {i} /\ store.p = GC(link, i)
      /\ store.p \in Elements(list) \cup InScan
      /\ free # <<>> /\ store.PrevID # 0
      /\ Vain(UndoneList, UndoneCube, UndoneLits, UndoneCost, link, saved, FunctionRead(added))
  BY <1>1 DEF UndoInv, IInv
<1>3. /\ UndoneCube' = UndoneCube /\ UndoneLits' = UndoneLits /\ UndoneCost' = UndoneCost
      /\ UndoneList' = UndoneList
  BY DEF UndoneCube, UndoneLits, UndoneCost, UndoneList, UndonePos, UndoneValue, Elements
<1>4. FunctionRead(added)' = FunctionRead(added)
  BY SameArgs
<1>5. \E i \in 1 .. link'.dist : Given' = {i} /\ store'.p = GC(link', i)
  <2>1. link'.dist = link.dist /\ store' = store /\ Given' = Given
    BY <1>1 DEF SameLink
  <2>. QED
    BY <1>2, <2>1, SameLinkFacts
<1>6. store'.p \in Elements(list') \cup InScan'
  BY <1>1, <1>2
<1>7. Vain(UndoneList', UndoneCube', UndoneLits', UndoneCost', link', saved', FunctionRead(added)')
  BY <1>2, <1>3, <1>4, SameLinkFacts
<1>. QED
  BY <1>2, <1>5, <1>6, <1>7

-----------------------------------------------------------------------------
(* Between two checks of a group.                                           *)
LEMMA ProbeBase ==
  ASSUME IInv, pc \in {"probe", "probed"}, NEW d, d = link.dist
  PROVE  /\ Linking /\ LinkOK(link) /\ d \in Distances /\ ProbeOK(link) /\ Probing
         /\ InScan = {} /\ Given \in SUBSET (1 .. d) /\ link.ins \in SUBSET (1 .. d)
         /\ pc = "probe" => /\ ~Merging /\ Given = link.ins /\ TotalGain = link.gain
                            /\ link.c \in 1 .. d + 1
         /\ pc = "probed" => /\ chk.ret = "probed" /\ link.c \in 1 .. d
                             /\ chk.p = GC(link, link.c) /\ link.c \notin link.ins
                             /\ Merging <=> chk.gain > 0
                             /\ TotalGain = link.gain + chk.gain
         /\ Touched <=> Given # {}
<1>0. TypeOK /\ PhaseInv
  BY DEF IInv
<1>1. Linking /\ LinkOK(link) /\ d \in Distances
  BY <1>0, LinkingIs
<1>2. PICK e \in 2 .. 4 : e = d
  BY <1>1 DEF Distances
<1>3. Probing /\ ProbeOK(link)
  BY <1>0 DEF PhaseInv, Probing
<1>4. PICK c \in 1 .. e + 1 : c = link.c
  BY <1>2, <1>3 DEF ProbeOK
<1>5. PICK ins : ins = link.ins
  OBVIOUS
<1>6. ins \subseteq 1 .. c - 1
  BY <1>3, <1>4, <1>5 DEF ProbeOK
<1>7. pc = "probed" => chk.ret = "probed" /\ c <= e /\ chk.p = GC(link, link.c)
  BY <1>0, <1>2, <1>3, <1>4 DEF PhaseInv
<1>8. c \notin ins /\ ins \subseteq 1 .. e
  BY <1>6
<1>9. pc = "probe" => ~Merging /\ Given = ins
  BY <1>5 DEF Merging, Given
<1>10. pc = "probed" => (Merging <=> chk.gain > 0)
  BY <1>7 DEF Merging
<1>11. Given \in SUBSET (1 .. e)
  BY <1>4, <1>5, <1>7, <1>8, <1>9 DEF Given
<1>12. Touched <=> Given # {}
  BY <1>5 DEF Touched, Given
<1>13. /\ pc = "probe" => TotalGain = link.gain
       /\ pc = "probed" => TotalGain = link.gain + chk.gain
  <2>1. link.gain \in Nat
    BY <1>0, LinkType
  <2>. QED
    BY <2>1 DEF TotalGain
<1>14. InScan = {}
  BY DEF InScan
<1>. QED
  BY <1>1, <1>2, <1>3, <1>4, <1>5, <1>7, <1>8, <1>9, <1>10, <1>11, <1>12, <1>13, <1>14

(* What is in hand and owed between two checks.                             *)
LEMMA ProbeHeld ==
  ASSUME IInv, pc \in {"probe", "probed"}, NEW d, d = link.dist
  PROVE  /\ Held = {link.C1, link.C2} \cup (MadeCells(link) \ GCs(link, Given))
         /\ Owed = IF Given = {} THEN {link.C1, link.C2} ELSE GCs(link, (1 .. d) \ Given)
<1>1. /\ Linking /\ LinkOK(link) /\ d \in Distances /\ InScan = {}
      /\ Given \in SUBSET (1 .. d) /\ (Touched <=> Given # {})
  BY ProbeBase
<1>2. Held = {link.C1, link.C2} \cup (MadeCells(link) \ GCs(link, Given)) \cup InScan
  <2>1. Given = IF Touched THEN Given ELSE {}
    BY <1>1
  <2>. QED
    BY <1>1, <2>1, HeldNow
<1>3. Owed = IF Given = {} THEN {link.C1, link.C2} ELSE GCs(link, (1 .. d) \ Given)
  BY <1>1 DEF Owed, GCs, GC, GroupCell, Rules
<1>. QED
  BY <1>1, <1>2, <1>3

(* The fields of a link that is kept.                                       *)
LEMMA KeptLink ==
  ASSUME TypeOK, args' = args, NEW c \in 0 .. 5, NEW ins \in SUBSET (1 .. 4), NEW gain \in Nat,
         link' = [link EXCEPT !.c = c, !.ins = ins, !.gain = gain]
  PROVE  SameLink(link', link) /\ link' \in Links /\ link'.c = c /\ link'.ins = ins /\ link'.gain = gain
BY DEF TypeOK, Links, SameLink

LEMMA ProbeCubeStep == ASSUME IInv, ProbeCube PROVE IInv'
<1>0. /\ TypeOK /\ PhaseInv /\ QueueInv /\ PlacesInv /\ MarksInv /\ DataInv /\ ApartInv
      /\ VainInv /\ UndoInv /\ LedgerInv /\ SizeInv /\ TwoInv
  BY DEF IInv
<1>1. PICK j : j = Smallest(Unchecked)
  OBVIOUS
<1>2. /\ pc = "probe" /\ Unchecked # {} /\ link' = [link EXCEPT !.c = j]
      /\ chk' = [p |-> GroupCell(j), add |-> FALSE, gain |-> 0, ret |-> "probed"] /\ pc' = "scan"
      /\ UNCHANGED <<args, added, cube, ID, lits, qcost, list, free, cIDs, que, enabled, store, pass, saved>>
      /\ fMark' = fMark
  BY <1>1 DEF ProbeCube, Check, cells
<1>3. PICK d : d = link.dist
  OBVIOUS
<1>4. /\ Linking /\ LinkOK(link) /\ d \in Distances /\ ProbeOK(link) /\ Probing
      /\ InScan = {} /\ Given \in SUBSET (1 .. d) /\ link.ins \in SUBSET (1 .. d)
      /\ ~Merging /\ Given = link.ins /\ TotalGain = link.gain /\ link.c \in 1 .. d + 1
      /\ Touched <=> Given # {}
  BY <1>2, <1>3, ProbeBase
<1>5. PICK e \in 2 .. 4 : e = d
  BY <1>4 DEF Distances
<1>6. PICK c \in 1 .. e + 1 : c = link.c
  BY <1>4, <1>5
<1>7. /\ j \in c .. e /\ ~fMark[GroupCell(j)]
      /\ \A i \in c .. e : i < j => fMark[GroupCell(i)]
  <2>1. Unchecked = {i \in c .. e : ~fMark[GroupCell(i)]}
    BY <1>3, <1>5, <1>6 DEF Unchecked
  <2>2. Unchecked \subseteq Nat
    BY <2>1
  <2>3. j \in Unchecked /\ \A y \in Unchecked : j <= y
    BY <1>1, <1>2, <2>2, LeastOf
  <2>. QED
    BY <2>1, <2>3
<1>8. GroupCell(j) = GC(link, j) /\ \A i : GroupCell(i) = GC(link, i)
  BY DEF GroupCell, GC, Rules
<1>9. PICK ins : ins = link.ins
  OBVIOUS
<1>10. ins \subseteq 1 .. c - 1
  BY <1>4, <1>6, <1>9 DEF ProbeOK
<1>11. j \in 1 .. e /\ j \notin ins /\ ins \subseteq 1 .. j - 1 /\ ins \subseteq 1 .. 4
  BY <1>7, <1>10
<1>12. link.gain \in Nat
  BY <1>0, LinkType
<1>13. SameLink(link', link) /\ link' \in Links /\ link'.c = j /\ link'.ins = ins /\ link'.gain = link.gain
  <2>1. link' = [link EXCEPT !.c = j, !.ins = ins, !.gain = link.gain]
    BY <1>0, <1>2, <1>9 DEF TypeOK, Links
  <2>2. j \in 0 .. 5 /\ ins \in SUBSET (1 .. 4) /\ args' = args
    BY <1>2, <1>11
  <2>. QED
    BY <1>0, <1>12, <2>1, <2>2, KeptLink
<1>14. GC(link, j) \in MadeCells(link) /\ GC(link, j) \in Cells
  <2>1. GC(link, j) \in MadeCells(link) /\ GC(link, j) # NULL
    BY <1>3, <1>4, <1>5, <1>11, GroupFacts
  <2>2. \A k \in MadeCells(link) : k \in Cells
    <3>1. link.el \in [0 .. 31 -> 0 .. nCubesAlloc]
      BY <1>0, LinkType
    <3>. QED
      BY <1>0, <3>1, CellsFacts DEF MadeCells
  <2>. QED
    BY <2>1, <2>2
<1>15. chk' \in Checks /\ chk'.p = GC(link, j) /\ ~chk'.add /\ chk'.gain = 0 /\ chk'.ret = "probed"
  <2>1. PICK g \in Cells : g = GC(link, j)
    BY <1>14
  <2>2. chk' = [p |-> g, add |-> FALSE, gain |-> 0, ret |-> "probed"]
    BY <1>2, <1>8, <2>1
  <2>3. g \in 0 .. nCubesAlloc
    BY <1>0, CellsFacts
  <2>. QED
    BY <2>1, <2>2, <2>3 DEF Checks
<1>16. ~Merging' /\ Given' = ins /\ (Touched' <=> Touched) /\ InScan' = {GC(link, j)}
  BY <1>2, <1>4, <1>9, <1>13, <1>15 DEF Merging, Given, Touched, InScan
<1>17. Held' = Held
  <2>1. Held = {link.C1, link.C2} \cup (MadeCells(link) \ GCs(link, ins))
    BY <1>2, <1>3, <1>4, <1>9, ProbeHeld
  <2>2. Held' = {link.C1, link.C2} \cup (MadeCells(link) \ GCs(link, ins)) \cup InScan'
    <3>1. ins \in SUBSET (1 .. link.dist) /\ ins = IF Touched' THEN Given' ELSE {}
      BY <1>3, <1>4, <1>9, <1>16
    <3>2. /\ link'.el = link.el /\ link'.C1 = link.C1 /\ link'.C2 = link.C2
          /\ link'.dist = link.dist /\ link'.group = link.group
      BY <1>13 DEF SameLink
    <3>. QED
      BY <1>3, <1>4, <3>1, <3>2, HeldThen
  <2>3. GC(link, j) \notin GCs(link, ins)
    <3>1. \A a, b \in 1 .. e : GC(link, a) = GC(link, b) => a = b
      BY <1>3, <1>4, <1>5, GroupFacts
    <3>. QED
      BY <1>4, <1>5, <1>9, <1>11, <3>1 DEF GCs
  <2>. QED
    BY <1>14, <1>16, <2>1, <2>2, <2>3
<1>18. Owed' = Owed
  <2>1. Owed = IF ins = {} THEN {link.C1, link.C2} ELSE GCs(link, (1 .. d) \ ins)
    BY <1>2, <1>3, <1>4, <1>9, ProbeHeld
  <2>2. Linking' /\ link'.C1 = link.C1 /\ link'.C2 = link.C2 /\ link'.dist = d
    BY <1>3, <1>4, <1>13 DEF SameLink, Linking
  <2>3. \A i : GroupCell(i)' = GC(link, i)
    BY <1>13 DEF SameLink, GroupCell, Rules, GC
  <2>4. ins # {} => Owed' = GCs(link, (1 .. d) \ ins) \cup {GC(link, j)}
    BY <1>4, <1>9, <1>16, <2>2, <2>3 DEF Owed, GCs
  <2>5. ins = {} => Owed' = {link.C1, link.C2}
    BY <1>4, <1>9, <1>16, <2>2 DEF Owed
  <2>6. GC(link, j) \in GCs(link, (1 .. d) \ ins)
    BY <1>5, <1>11 DEF GCs
  <2>. QED
    BY <2>1, <2>4, <2>5, <2>6
<1>19. /\ TypeOK' /\ PlacesInv' /\ MarksInv' /\ QueueInv' /\ DataInv' /\ ApartInv' /\ VainInv'
       /\ LedgerInv' /\ Linking' /\ LinkOK(link')
       /\ IsFiniteSet(saved') /\ Cardinality(saved') <= pass'.nBefore
       /\ Working' = Working
  <2>1. fMark' \in [Cells -> BOOLEAN]
    BY <1>0, <1>2 DEF TypeOK
  <2>. QED
    BY <1>2, <1>4, <1>13, <1>15, <1>16, <1>17, <1>18, <2>1, ProbeFrame
<1>20. TotalGain' = TotalGain
  BY <1>2, <1>4, <1>12, <1>13, <1>15 DEF TotalGain
<1>21. UndoInv'
  <2>1. Undoable' => Undoable /\ Given' = Given /\ InScan \subseteq InScan'
    BY <1>4, <1>9, <1>16, <1>20 DEF Undoable
  <2>. QED
    BY <1>2, <1>13, <2>1, UndoFrame
<1>22. PhaseInv'
  <2>1. link'.dist = e
    BY <1>3, <1>5, <1>13 DEF SameLink
  <2>2. ProbeOK(link')
    <3>1. /\ link.dist # 4 => ins = {}
          /\ ins = {} <=> link.gain = 0
          /\ link.gain = 1 => \E i \in 1 .. e : ins = {i}
      BY <1>3, <1>4, <1>5, <1>9 DEF ProbeOK
    <3>2. j \in 1 .. e + 1 /\ ins \subseteq 1 .. j - 1
      BY <1>11
    <3>. QED
      BY <1>3, <1>5, <1>13, <2>1, <3>1, <3>2 DEF ProbeOK
  <2>3. GC(link', j) = GC(link, j)
    BY <1>13 DEF SameLink, GC
  <2>4. chk'.p # NULL
    BY <1>0, <1>14, <1>15, CellsFacts
  <2>5. ~Inserting'
    BY <1>2, <1>15 DEF Inserting
  <2>6. link'.c <= link'.dist /\ chk'.p = GC(link', link'.c)
    BY <1>11, <1>13, <1>15, <2>1, <2>3
  <2>. QED
    BY <1>2, <1>15, <1>19, <2>2, <2>4, <2>5, <2>6 DEF PhaseInv
<1>23. SizeInv'
  <2>1. Probing' /\ Touched' =>
          Cardinality(Working') + TotalGain' + 2 <= Cardinality(saved') + link'.dist
    BY <1>0, <1>2, <1>4, <1>13, <1>16, <1>19, <1>20 DEF SizeInv, SameLink
  <2>2. ~Inserting' /\ ~Adding'
    BY <1>2, <1>15, <1>19 DEF Inserting, Adding
  <2>. QED
    BY <1>2, <1>19, <2>1, <2>2 DEF SizeInv
<1>24. TwoInv'
  <2>1. SUFFICES ASSUME Linking', ~Touched', link'.dist = 2, NEW i \in 1 .. 2, Missed(i)',
                        NEW a \in Elements(list)'
        PROVE  Distance(cube'[GC(link', i)], cube'[a]) >= 2
    BY DEF TwoInv
  <2>2. ~Touched /\ link.dist = 2 /\ i < j
    BY <1>2, <1>13, <1>16, <2>1 DEF SameLink, Missed
  <2>3. i < c
    <3>1. SUFFICES ASSUME ~(i < c) PROVE FALSE
      OBVIOUS
    <3>2. i \in c .. e /\ i \in 1 .. e
      BY <1>7, <2>1, <2>2, <3>1
    <3>3. fMark[GC(link, i)]
      BY <1>7, <1>8, <2>2, <3>2
    <3>4. GC(link, i) \in Cells
      <4>1. GC(link, i) \in MadeCells(link)
        BY <1>3, <1>4, <1>5, <3>2, GroupFacts
      <4>2. link.el \in [0 .. 31 -> 0 .. nCubesAlloc]
        BY <1>0, LinkType
      <4>. QED
        BY <1>0, <4>1, <4>2, CellsFacts DEF MadeCells
    <3>. QED
      BY <1>0, <2>2, <3>3, <3>4 DEF MarksInv
  <2>4. Missed(i)
    BY <1>6, <2>3 DEF Missed
  <2>5. Distance(cube[GC(link, i)], cube[a]) >= 2
    BY <1>0, <1>2, <1>4, <2>1, <2>2, <2>4 DEF TwoInv, Elements
  <2>. QED
    BY <1>2, <1>13, <2>5, SameLinkFacts
<1>. QED
  BY <1>19, <1>21, <1>22, <1>23, <1>24 DEF IInv

-----------------------------------------------------------------------------
(* What a step between two checks leaves in hand and owed.                  *)
LEMMA ProbeThen ==
  ASSUME LinkOK(link), Linking, NEW d \in Distances, d = link.dist, SameLink(link', link),
         pc' \in {"probe", "probed", "insert"}, NEW I \in SUBSET (1 .. d), Given' = I,
         I = link'.ins \/ Merging'
  PROVE  /\ Held' = {link.C1, link.C2} \cup (MadeCells(link) \ GCs(link, I))
         /\ Owed' = IF I = {} THEN {link.C1, link.C2} ELSE GCs(link, (1 .. d) \ I)
         /\ InScan' = {} /\ (Touched' <=> I # {})
<1>1. InScan' = {} /\ (Touched' <=> I # {})
  BY DEF InScan, Touched, Given
<1>2. /\ link'.el = link.el /\ link'.C1 = link.C1 /\ link'.C2 = link.C2 /\ link'.dist = link.dist
      /\ link'.group = link.group
  BY DEF SameLink
<1>3. Held' = {link.C1, link.C2} \cup (MadeCells(link) \ GCs(link, I)) \cup InScan'
  <2>1. I = IF Touched' THEN Given' ELSE {}
    BY <1>1
  <2>2. I \in SUBSET (1 .. link.dist) /\ link.dist \in Distances
    OBVIOUS
  <2>. QED
    BY <1>2, <2>1, <2>2, HeldThen
<1>4. \A i : GroupCell(i)' = GC(link, i)
  BY <1>2 DEF GroupCell, Rules, GC
<1>5. Linking'
  BY <1>2 DEF Linking
<1>6. I # {} => Owed' = GCs(link, (1 .. d) \ I) \cup InScan'
  BY <1>1, <1>2, <1>4, <1>5 DEF Owed, GCs
<1>7. I = {} => Owed' = {link.C1, link.C2}
  BY <1>1, <1>2, <1>5 DEF Owed
<1>. QED
  BY <1>1, <1>3, <1>6, <1>7

LEMMA ProbeMissedStep == ASSUME IInv, ProbeMissed PROVE IInv'
<1>0. /\ TypeOK /\ PhaseInv /\ QueueInv /\ PlacesInv /\ MarksInv /\ DataInv /\ ApartInv
      /\ VainInv /\ UndoInv /\ LedgerInv /\ SizeInv /\ TwoInv
  BY DEF IInv
<1>2. /\ pc = "probed" /\ chk.gain = 0 /\ pc' = "probe" /\ chk' = chk
      /\ link' = [link EXCEPT !.c = @ + 1]
      /\ fMark' = IF link.dist = 3 THEN [fMark EXCEPT ![GroupCell(link.c)] = TRUE] ELSE fMark
      /\ UNCHANGED <<args, added, cube, ID, lits, qcost, list, free, cIDs, que, enabled, store, pass, saved>>
  BY DEF ProbeMissed
<1>3. PICK d : d = link.dist
  OBVIOUS
<1>4. /\ Linking /\ LinkOK(link) /\ d \in Distances /\ ProbeOK(link) /\ Probing
      /\ InScan = {} /\ Given \in SUBSET (1 .. d) /\ link.ins \in SUBSET (1 .. d)
      /\ chk.ret = "probed" /\ link.c \in 1 .. d /\ chk.p = GC(link, link.c)
      /\ link.c \notin link.ins /\ ~Merging /\ TotalGain = link.gain + 0
      /\ Touched <=> Given # {}
  BY <1>2, <1>3, ProbeBase
<1>5. PICK e \in 2 .. 4 : e = d
  BY <1>4 DEF Distances
<1>6. PICK c \in 1 .. e : c = link.c
  BY <1>4, <1>5
<1>7. PICK ins : ins = link.ins
  OBVIOUS
<1>8. PICK gain \in Nat : gain = link.gain
  BY <1>0, LinkType
<1>9. /\ ins \subseteq 1 .. c - 1 /\ (link.dist # 4 => ins = {}) /\ (ins = {} <=> gain = 0)
      /\ gain = 1 => \E i \in 1 .. e : ins = {i}
  BY <1>3, <1>4, <1>5, <1>6, <1>7, <1>8 DEF ProbeOK
<1>10. Given = ins
  BY <1>4, <1>7 DEF Given
<1>11. SameLink(link', link) /\ link' \in Links /\ link'.c = c + 1 /\ link'.ins = ins /\ link'.gain = gain
  <2>1. link' = [link EXCEPT !.c = c + 1, !.ins = ins, !.gain = gain]
    BY <1>0, <1>2, <1>6, <1>7, <1>8 DEF TypeOK, Links
  <2>2. c + 1 \in 0 .. 5 /\ ins \in SUBSET (1 .. 4) /\ args' = args
    BY <1>2, <1>9
  <2>. QED
    BY <1>0, <2>1, <2>2, KeptLink
<1>12. ~Merging' /\ Given' = ins
  BY <1>2, <1>11 DEF Merging, Given
<1>13. /\ Held' = Held /\ Owed' = Owed /\ InScan' = {} /\ (Touched' <=> Touched)
  <2>1. ins \in SUBSET (1 .. d)
    BY <1>4, <1>7
  <2>2. /\ Held' = {link.C1, link.C2} \cup (MadeCells(link) \ GCs(link, ins))
        /\ Owed' = IF ins = {} THEN {link.C1, link.C2} ELSE GCs(link, (1 .. d) \ ins)
        /\ InScan' = {} /\ (Touched' <=> ins # {})
    BY <1>2, <1>3, <1>4, <1>11, <1>12, <2>1, ProbeThen
  <2>. QED
    BY <1>2, <1>3, <1>4, <1>10, <2>2, ProbeHeld
<1>14. /\ fMark' \in [Cells -> BOOLEAN]
       /\ \A k \in Cells : fMark'[k] => fMark[k] \/ (link.dist # 2 /\ k \in MadeCells(link))
  <2>1. fMark \in [Cells -> BOOLEAN]
    BY <1>0 DEF TypeOK
  <2>2. GroupCell(link.c) \in MadeCells(link)
    <3>1. GroupCell(link.c) = GC(link, link.c)
      BY DEF GroupCell, Rules, GC
    <3>. QED
      BY <1>3, <1>4, <3>1, GroupFacts
  <2>3. PICK g : g = GroupCell(link.c) /\ g \in MadeCells(link)
    BY <2>2
  <2>4. fMark' = fMark \/ (link.dist = 3 /\ fMark' = [fMark EXCEPT ![g] = TRUE])
    BY <1>2, <2>3
  <2>5. CASE fMark' = fMark
    BY <2>1, <2>5
  <2>6. CASE link.dist = 3 /\ fMark' = [fMark EXCEPT ![g] = TRUE]
    <3>1. \A k \in Cells : k # g => fMark'[k] = fMark[k]
      BY <2>1, <2>6
    <3>2. fMark' \in [Cells -> BOOLEAN]
      BY <2>1, <2>6
    <3>. QED
      BY <2>3, <2>6, <3>1, <3>2
  <2>. QED
    BY <2>4, <2>5, <2>6
<1>15. /\ TypeOK' /\ PlacesInv' /\ MarksInv' /\ QueueInv' /\ DataInv' /\ ApartInv' /\ VainInv'
       /\ LedgerInv' /\ Linking' /\ LinkOK(link')
       /\ IsFiniteSet(saved') /\ Cardinality(saved') <= pass'.nBefore
       /\ Working' = Working
  <2>1. chk' \in Checks
    BY <1>0, <1>2 DEF TypeOK
  <2>. QED
    BY <1>2, <1>4, <1>11, <1>13, <1>14, <2>1, ProbeFrame
<1>16. TotalGain' = TotalGain
  BY <1>2, <1>4, <1>8, <1>11 DEF TotalGain
<1>17. UndoInv'
  <2>1. Undoable' => Undoable /\ Given' = Given /\ InScan \subseteq InScan'
    BY <1>4, <1>10, <1>12, <1>16 DEF Undoable
  <2>. QED
    BY <1>2, <1>11, <2>1, UndoFrame
<1>18. link'.dist = e
  BY <1>3, <1>5, <1>11 DEF SameLink
<1>19. PhaseInv'
  <2>2. ProbeOK(link')
    <3>1. c + 1 \in 1 .. e + 1 /\ ins \subseteq 1 .. (c + 1) - 1
      BY <1>9
    <3>. QED
      BY <1>3, <1>5, <1>9, <1>11, <1>18, <3>1 DEF ProbeOK
  <2>3. ~Inserting'
    BY <1>2, <1>4 DEF Inserting
  <2>. QED
    BY <1>2, <1>15, <2>2, <2>3 DEF PhaseInv
<1>20. SizeInv'
  <2>1. Probing' /\ Touched' =>
          Cardinality(Working') + TotalGain' + 2 <= Cardinality(saved') + link'.dist
    BY <1>0, <1>2, <1>3, <1>4, <1>5, <1>13, <1>15, <1>16, <1>18 DEF SizeInv
  <2>2. ~Inserting' /\ ~Adding'
    BY <1>2, <1>15 DEF Inserting, Adding
  <2>. QED
    BY <1>2, <1>15, <2>1, <2>2 DEF SizeInv
<1>21. TwoInv'
  <2>1. SUFFICES ASSUME Linking', ~Touched', link'.dist = 2, NEW i \in 1 .. 2, Missed(i)',
                        NEW a \in Elements(list)'
        PROVE  Distance(cube'[GC(link', i)], cube'[a]) >= 2
    BY DEF TwoInv
  <2>2. ~Touched /\ link.dist = 2 /\ i < c + 1
    BY <1>2, <1>11, <1>13, <2>1 DEF SameLink, Missed
  <2>3. Missed(i)
    <3>1. i < c \/ i = c
      BY <2>2
    <3>. QED
      BY <1>2, <1>6, <3>1 DEF Missed
  <2>4. Distance(cube[GC(link, i)], cube[a]) >= 2
    BY <1>0, <1>2, <1>4, <2>1, <2>2, <2>3 DEF TwoInv, Elements
  <2>. QED
    BY <1>2, <1>11, <2>4, SameLinkFacts
<1>. QED
  BY <1>15, <1>17, <1>19, <1>20, <1>21 DEF IInv

LEMMA ProbeGainedStep == ASSUME IInv, ProbeGained PROVE IInv'
<1>0. /\ TypeOK /\ PhaseInv /\ QueueInv /\ PlacesInv /\ MarksInv /\ DataInv /\ ApartInv
      /\ VainInv /\ UndoInv /\ LedgerInv /\ SizeInv /\ TwoInv
  BY DEF IInv
<1>2. /\ pc = "probed" /\ chk.gain > 0 /\ chk' = chk /\ fMark' = fMark
      /\ pc' = IF link.dist = 4 THEN "probe" ELSE "insert"
      /\ link' = [link EXCEPT !.c = @ + 1, !.ins = @ \cup {link.c}, !.gain = @ + chk.gain]
      /\ UNCHANGED <<args, added, cube, ID, lits, qcost, list, free, cIDs, que, enabled, store, pass, saved>>
  BY DEF ProbeGained, cells
<1>3. PICK d : d = link.dist
  OBVIOUS
<1>4. /\ Linking /\ LinkOK(link) /\ d \in Distances /\ ProbeOK(link) /\ Probing
      /\ InScan = {} /\ Given \in SUBSET (1 .. d) /\ link.ins \in SUBSET (1 .. d)
      /\ chk.ret = "probed" /\ link.c \in 1 .. d /\ chk.p = GC(link, link.c)
      /\ link.c \notin link.ins /\ Merging /\ TotalGain = link.gain + chk.gain
      /\ Touched <=> Given # {}
  BY <1>2, <1>3, ProbeBase
<1>5. PICK e \in 2 .. 4 : e = d
  BY <1>4 DEF Distances
<1>6. PICK c \in 1 .. e : c = link.c
  BY <1>4, <1>5
<1>7. PICK ins : ins = link.ins
  OBVIOUS
<1>8. PICK gain \in Nat : gain = link.gain
  BY <1>0, LinkType
<1>9. /\ ins \subseteq 1 .. c - 1 /\ (link.dist # 4 => ins = {}) /\ (ins = {} <=> gain = 0)
      /\ gain = 1 => \E i \in 1 .. e : ins = {i}
  BY <1>3, <1>4, <1>5, <1>6, <1>7, <1>8 DEF ProbeOK
<1>10. PICK more \in Nat : more = chk.gain /\ more > 0
  BY <1>0, <1>2, ChkType
<1>11. PICK I \in SUBSET (1 .. e) : I = ins \cup {c}
  BY <1>4, <1>5, <1>7
<1>12. Given = I
  BY <1>4, <1>6, <1>7, <1>11 DEF Given
<1>13. /\ SameLink(link', link) /\ link' \in Links /\ link'.c = c + 1 /\ link'.ins = I
       /\ link'.gain = gain + more
  <2>1. link' = [link EXCEPT !.c = c + 1, !.ins = I, !.gain = gain + more]
    BY <1>0, <1>2, <1>6, <1>7, <1>8, <1>10, <1>11 DEF TypeOK, Links
  <2>2. c + 1 \in 0 .. 5 /\ I \in SUBSET (1 .. 4) /\ args' = args /\ gain + more \in Nat
    BY <1>2, <1>9
  <2>. QED
    BY <1>0, <2>1, <2>2, KeptLink
<1>14. ~Merging' /\ Given' = I
  BY <1>2, <1>13 DEF Merging, Given
<1>15. /\ Held' = Held /\ Owed' = Owed /\ InScan' = {} /\ Touched' /\ Touched
  <2>1. I \in SUBSET (1 .. d) /\ I # {}
    BY <1>5, <1>11
  <2>2. /\ Held' = {link.C1, link.C2} \cup (MadeCells(link) \ GCs(link, I))
        /\ Owed' = IF I = {} THEN {link.C1, link.C2} ELSE GCs(link, (1 .. d) \ I)
        /\ InScan' = {} /\ (Touched' <=> I # {})
    <3>1. pc' \in {"probe", "probed", "insert"}
      BY <1>2
    <3>. QED
      BY <1>3, <1>4, <1>13, <1>14, <2>1, <3>1, ProbeThen
  <2>. QED
    BY <1>2, <1>3, <1>4, <1>12, <2>1, <2>2, ProbeHeld
<1>16. /\ fMark' \in [Cells -> BOOLEAN]
       /\ \A k \in Cells : fMark'[k] => fMark[k] \/ (link.dist # 2 /\ k \in MadeCells(link))
  BY <1>0, <1>2 DEF TypeOK
<1>17. /\ TypeOK' /\ PlacesInv' /\ MarksInv' /\ QueueInv' /\ DataInv' /\ ApartInv' /\ VainInv'
       /\ LedgerInv' /\ Linking' /\ LinkOK(link')
       /\ IsFiniteSet(saved') /\ Cardinality(saved') <= pass'.nBefore
       /\ Working' = Working
  <2>1. chk' \in Checks /\ pc' \in {"probe", "probed", "insert", "failed", "scan"}
    BY <1>0, <1>2 DEF TypeOK
  <2>. QED
    BY <1>2, <1>4, <1>13, <1>15, <1>16, <2>1, ProbeFrame
<1>18. pc' = "probe" => TotalGain' = TotalGain
  BY <1>4, <1>8, <1>10, <1>13 DEF TotalGain
<1>19. link'.dist = e /\ link.dist = e
  BY <1>3, <1>5, <1>13 DEF SameLink
<1>20. /\ Probing' <=> pc' = "probe"
       /\ pc' = "probe" => e = 4
       /\ pc' = "insert" => ins = {}
       /\ pc' = "probe" \/ pc' = "insert"
       /\ Inserting' <=> pc' = "insert"
  BY <1>2, <1>9, <1>19 DEF Probing, Inserting
<1>21. UndoInv'
  <2>1. Undoable' => Undoable /\ Given' = Given /\ InScan \subseteq InScan'
    BY <1>4, <1>12, <1>14, <1>18, <1>20 DEF Undoable
  <2>. QED
    BY <1>2, <1>13, <2>1, UndoFrame
<1>22. PhaseInv'
  <2>1. pc' = "probe" => ProbeOK(link')
    <3>1. c + 1 \in 1 .. e + 1 /\ I \subseteq 1 .. (c + 1) - 1
      BY <1>9, <1>11
    <3>2. I # {} /\ gain + more # 0
      BY <1>10, <1>11
    <3>3. gain + more = 1 => \E i \in 1 .. e : I = {i}
      <4>1. gain + more = 1 => ins = {}
        BY <1>9, <1>10
      <4>2. ins = {} => I = {c}
        BY <1>11
      <4>. QED
        BY <4>1, <4>2
    <3>4. PICK g \in Nat : g = gain + more
      OBVIOUS
    <3>. QED
      BY <1>13, <1>19, <1>20, <3>1, <3>2, <3>3, <3>4 DEF ProbeOK
  <2>2. link'.ins \subseteq 1 .. link'.dist /\ link'.ins # {}
    BY <1>11, <1>13, <1>19
  <2>. QED
    BY <1>17, <1>20, <2>1, <2>2 DEF PhaseInv
<1>23. SizeInv'
  <2>1. PICK W, S : W = Cardinality(Working) /\ S = Cardinality(saved)
    OBVIOUS
  <2>2. W + (gain + more) + 2 <= S + e
    BY <1>0, <1>4, <1>8, <1>10, <1>15, <1>19, <2>1 DEF SizeInv
  <2>3. S \in Nat
    BY <1>2, <1>17, <2>1, FS_CardinalityType
  <2>4. Probing' /\ Touched' =>
          Cardinality(Working') + TotalGain' + 2 <= Cardinality(saved') + link'.dist
    BY <1>2, <1>4, <1>8, <1>10, <1>17, <1>18, <1>19, <1>20, <2>1, <2>2
  <2>5. Inserting' => Cardinality(Working') <= Cardinality(saved')
    <3>1. SUFFICES ASSUME Inserting' PROVE W <= S
      BY <1>2, <1>17, <2>1
    <3>2. e \in 2 .. 3
      BY <1>2, <1>19, <1>20, <3>1
    <3>3. W \in Nat
      <4>1. Working \subseteq Cells /\ IsFiniteSet(Cells)
        <5>1. Elements(list) \subseteq Cells /\ Held \subseteq Cells
          BY <1>0, ListFacts
        <5>2. Owed \subseteq Held
          <6>1. Owed = GCs(link, (1 .. d) \ I) /\ Held = {link.C1, link.C2} \cup (MadeCells(link) \ GCs(link, I))
            BY <1>2, <1>3, <1>11, <1>12, ProbeHeld
          <6>2. \A i \in 1 .. d : GC(link, i) \in MadeCells(link)
            BY <1>3, <1>4, GroupFacts
          <6>3. \A i, j \in 1 .. d : GC(link, i) = GC(link, j) => i = j
            BY <1>3, <1>4, GroupFacts
          <6>. QED
            BY <1>5, <6>1, <6>2, <6>3 DEF GCs
        <5>. QED
          BY <1>0, <5>1, <5>2, CellsFacts DEF Working
      <4>. QED
        BY <2>1, <4>1, FS_Subset, FS_CardinalityType
    <3>4. more > 0 /\ gain \in Nat
      BY <1>10
    <3>. QED
      BY <2>2, <2>3, <3>2, <3>3, <3>4
  <2>6. ~Adding' /\ pc' # "next"
    BY <1>20 DEF Adding
  <2>. QED
    BY <1>17, <2>4, <2>5, <2>6 DEF SizeInv
<1>24. TwoInv'
  BY <1>15 DEF TwoInv
<1>. QED
  BY <1>17, <1>21, <1>22, <1>23, <1>24 DEF IInv

-----------------------------------------------------------------------------
LEMMA GroupMissedStep == ASSUME IInv, GroupMissed PROVE IInv'
<1>0. /\ TypeOK /\ PhaseInv /\ QueueInv /\ PlacesInv /\ MarksInv /\ DataInv /\ ApartInv
      /\ VainInv /\ UndoInv /\ LedgerInv /\ SizeInv /\ TwoInv
  BY DEF IInv
<1>2. /\ pc = "probe" /\ Unchecked = {} /\ link.gain = 0 /\ chk' = chk /\ link' = link
      /\ fMark' = IF link.dist = 4 THEN [k \in Cells |-> fMark[k] \/ k \in GroupCells] ELSE fMark
      /\ pc' = "failed"
      /\ UNCHANGED <<args, added, cube, ID, lits, qcost, list, free, cIDs, que, enabled, store, pass, saved>>
  BY DEF GroupMissed
<1>3. PICK d : d = link.dist
  OBVIOUS
<1>4. /\ Linking /\ LinkOK(link) /\ d \in Distances /\ ProbeOK(link) /\ Probing
      /\ InScan = {} /\ ~Merging /\ Given = link.ins /\ link.c \in 1 .. d + 1
      /\ Touched <=> Given # {}
  BY <1>2, <1>3, ProbeBase
<1>5. PICK e \in 2 .. 4 : e = d
  BY <1>4 DEF Distances
<1>6. PICK c \in 1 .. e + 1 : c = link.c
  BY <1>4, <1>5
<1>7. link.ins = {} /\ Given = {} /\ ~Touched
  BY <1>2, <1>4 DEF ProbeOK
<1>8. SameLink(link', link) /\ link' \in Links /\ chk' \in Checks /\ InScan' = {} /\ ~Touched'
      /\ Linking'
  BY <1>0, <1>2, <1>4, SameArgs DEF SameLink, TypeOK, InScan, Touched, Linking
<1>9. Held' = Held
  <2>1. {} \in SUBSET (1 .. link.dist) /\ link.dist \in Distances
    BY <1>3, <1>4
  <2>2. Held' = {link.C1, link.C2} \cup (MadeCells(link) \ GCs(link, {})) \cup InScan'
    BY <1>2, <1>4, <1>8, <2>1, HeldThen
  <2>. QED
    BY <1>2, <1>3, <1>7, <1>8, <2>2, ProbeHeld
<1>10. Owed' = Owed
  BY <1>2, <1>4, <1>7, <1>8 DEF Owed
<1>11. \A i \in 1 .. e : /\ GC(link, i) \in MadeCells(link) /\ GC(link, i) \in Cells
                         /\ GroupCell(i) = GC(link, i)
  <2>1. \A i \in 1 .. e : GC(link, i) \in MadeCells(link)
    BY <1>3, <1>4, <1>5, GroupFacts
  <2>2. link.el \in [0 .. 31 -> 0 .. nCubesAlloc]
    BY <1>0, LinkType
  <2>3. \A k \in MadeCells(link) : k \in Cells
    BY <1>0, <2>2, CellsFacts DEF MadeCells
  <2>. QED
    BY <2>1, <2>3 DEF GroupCell, Rules, GC
<1>12. /\ fMark' \in [Cells -> BOOLEAN]
       /\ \A k \in Cells : fMark'[k] => fMark[k] \/ (link.dist # 2 /\ k \in MadeCells(link))
  <2>1. fMark \in [Cells -> BOOLEAN]
    BY <1>0 DEF TypeOK
  <2>2. GroupCells \subseteq MadeCells(link)
    BY <1>3, <1>5, <1>11 DEF GroupCells
  <2>3. CASE link.dist = 4
    <3>1. fMark' = [k \in Cells |-> fMark[k] \/ k \in GroupCells]
      BY <1>2, <2>3
    <3>2. fMark' \in [Cells -> BOOLEAN]
      BY <3>1
    <3>3. ASSUME NEW k \in Cells, fMark'[k] PROVE fMark[k] \/ k \in GroupCells
      BY <3>1, <3>3
    <3>. QED
      BY <2>2, <2>3, <3>2, <3>3
  <2>4. CASE link.dist # 4
    BY <1>2, <2>1, <2>4
  <2>. QED
    BY <2>3, <2>4
<1>13. /\ TypeOK' /\ PlacesInv' /\ MarksInv' /\ QueueInv' /\ DataInv' /\ ApartInv' /\ VainInv'
       /\ LedgerInv' /\ Linking' /\ LinkOK(link')
       /\ IsFiniteSet(saved') /\ Cardinality(saved') <= pass'.nBefore
       /\ Working' = Working
  <2>1. pc' \in {"probe", "probed", "insert", "failed", "scan"}
    BY <1>2
  <2>. QED
    BY <1>2, <1>4, <1>7, <1>8, <1>9, <1>10, <1>12, <2>1, ProbeFrame
<1>14. ~Probing' /\ ~Inserting' /\ ~Adding'
  BY <1>2 DEF Probing, Inserting, Adding
<1>15. UndoInv'
  BY <1>14 DEF UndoInv, Undoable
<1>16. PhaseInv'
  BY <1>2, <1>13, <1>14 DEF PhaseInv
<1>17. SizeInv'
  BY <1>2, <1>13, <1>14 DEF SizeInv
<1>18. TwoInv'
  <2>1. SUFFICES ASSUME link.dist = 2, NEW i \in 1 .. 2, NEW a \in Elements(list)
        PROVE  Distance(cube[GC(link, i)], cube[a]) >= 2
    BY <1>2 DEF TwoInv, Elements
  <2>2. i < c
    <3>1. SUFFICES ASSUME ~(i < c) PROVE FALSE
      OBVIOUS
    <3>2. i \in c .. e /\ i \in 1 .. e
      BY <1>3, <1>5, <2>1, <3>1
    <3>3. fMark[GC(link, i)] /\ GC(link, i) \in Cells
      <4>1. \A k \in c .. e : fMark[GroupCell(k)]
        BY <1>2, <1>3, <1>5, <1>6 DEF Unchecked
      <4>. QED
        BY <1>11, <3>2, <4>1
    <3>. QED
      BY <1>0, <2>1, <3>3 DEF MarksInv
  <2>3. Missed(i)
    BY <1>6, <2>2 DEF Missed
  <2>. QED
    BY <1>0, <1>4, <1>7, <2>1, <2>3 DEF TwoInv
<1>. QED
  BY <1>13, <1>15, <1>16, <1>17, <1>18 DEF IInv

(* The cubes that make up the cover are cells.                              *)
LEMMA WorkingFinite ==
  ASSUME IInv, pc \in {"probe", "probed"}, Touched
  PROVE  IsFiniteSet(Working) /\ Cardinality(Working) \in Nat
<1>0. TypeOK /\ PlacesInv
  BY DEF IInv
<1>1. PICK d : d = link.dist
  OBVIOUS
<1>2. /\ LinkOK(link) /\ d \in Distances /\ Given \in SUBSET (1 .. d) /\ Given # {}
  BY <1>1, ProbeBase
<1>3. Owed = GCs(link, (1 .. d) \ Given)
  BY <1>1, <1>2, ProbeHeld
<1>4. \A i \in 1 .. d : GC(link, i) \in MadeCells(link)
  BY <1>1, <1>2, GroupFacts
<1>5. \A k \in MadeCells(link) : k \in Cells
  <2>1. link.el \in [0 .. 31 -> 0 .. nCubesAlloc]
    BY <1>0, LinkType
  <2>. QED
    BY <1>0, <2>1, CellsFacts DEF MadeCells
<1>6. Working \subseteq Cells
  BY <1>0, <1>3, <1>4, <1>5, ListFacts DEF Working, GCs
<1>. QED
  BY <1>0, <1>6, CellsFacts, FS_Subset, FS_CardinalityType

LEMMA GroupGainedStep == ASSUME IInv, GroupGained PROVE IInv'
<1>0. /\ TypeOK /\ PhaseInv /\ QueueInv /\ PlacesInv /\ MarksInv /\ DataInv /\ ApartInv
      /\ VainInv /\ UndoInv /\ LedgerInv /\ SizeInv /\ TwoInv
  BY DEF IInv
<1>2. /\ pc = "probe" /\ link.gain > 1 /\ chk' = chk /\ link' = link /\ fMark' = fMark
      /\ pc' = "insert"
      /\ UNCHANGED <<args, added, cube, ID, lits, qcost, list, free, cIDs, que, enabled, store, pass, saved>>
  BY DEF GroupGained, cells
<1>3. PICK d : d = link.dist
  OBVIOUS
<1>4. /\ Linking /\ LinkOK(link) /\ d \in Distances /\ ProbeOK(link) /\ Probing
      /\ InScan = {} /\ ~Merging /\ Given = link.ins /\ link.ins \in SUBSET (1 .. d)
      /\ TotalGain = link.gain /\ (Touched <=> Given # {})
  BY <1>2, <1>3, ProbeBase
<1>5. PICK e \in 2 .. 4 : e = d
  BY <1>4 DEF Distances
<1>6. PICK gain \in Nat : gain = link.gain
  BY <1>0, LinkType
<1>7. link.ins # {} /\ Given # {} /\ Touched
  BY <1>2, <1>4, <1>6 DEF ProbeOK
<1>8. SameLink(link', link) /\ link' \in Links /\ chk' \in Checks /\ ~Merging' /\ Given' = Given
  BY <1>0, <1>2, <1>4, SameArgs DEF SameLink, TypeOK, Merging, Given
<1>9. /\ Held' = Held /\ Owed' = Owed /\ InScan' = {} /\ Touched'
  <2>1. PICK I \in SUBSET (1 .. d) : I = Given
    BY <1>4
  <2>2. /\ Held' = {link.C1, link.C2} \cup (MadeCells(link) \ GCs(link, I))
        /\ Owed' = IF I = {} THEN {link.C1, link.C2} ELSE GCs(link, (1 .. d) \ I)
        /\ InScan' = {} /\ (Touched' <=> I # {})
    <3>1. Given' = I /\ I = link'.ins /\ pc' \in {"probe", "probed", "insert"}
      BY <1>2, <1>4, <1>8, <2>1
    <3>. QED
      BY <1>3, <1>4, <1>8, <3>1, ProbeThen
  <2>. QED
    BY <1>2, <1>3, <1>7, <2>1, <2>2, ProbeHeld
<1>10. /\ TypeOK' /\ PlacesInv' /\ MarksInv' /\ QueueInv' /\ DataInv' /\ ApartInv' /\ VainInv'
       /\ LedgerInv' /\ Linking' /\ LinkOK(link')
       /\ IsFiniteSet(saved') /\ Cardinality(saved') <= pass'.nBefore
       /\ Working' = Working
  <2>1. pc' \in {"probe", "probed", "insert", "failed", "scan"}
    BY <1>2
  <2>2. /\ fMark' \in [Cells -> BOOLEAN]
        /\ \A k \in Cells : fMark'[k] => fMark[k] \/ (link.dist # 2 /\ k \in MadeCells(link))
    BY <1>0, <1>2 DEF TypeOK
  <2>. QED
    BY <1>2, <1>4, <1>8, <1>9, <2>1, <2>2, ProbeFrame
<1>11. ~Probing' /\ Inserting' /\ ~Adding'
  BY <1>2, <1>10 DEF Probing, Inserting, Adding
<1>12. UndoInv'
  BY <1>11 DEF UndoInv, Undoable
<1>13. PhaseInv'
  BY <1>2, <1>3, <1>4, <1>7, <1>10, <1>11 DEF PhaseInv
<1>14. SizeInv'
  <2>1. Cardinality(Working) + gain + 2 <= Cardinality(saved) + e
    BY <1>0, <1>3, <1>4, <1>5, <1>6, <1>7 DEF SizeInv
  <2>2. Cardinality(Working) \in Nat /\ Cardinality(saved) \in Nat
    BY <1>2, <1>7, <1>10, WorkingFinite, FS_CardinalityType
  <2>3. Cardinality(Working) <= Cardinality(saved)
    BY <1>2, <1>6, <2>1, <2>2
  <2>. QED
    BY <1>2, <1>10, <1>11, <2>3 DEF SizeInv
<1>15. TwoInv'
  BY <1>9 DEF TwoInv
<1>. QED
  BY <1>10, <1>12, <1>13, <1>14, <1>15 DEF IInv

LEMMA InsertCubeStep == ASSUME IInv, InsertCube PROVE IInv'
<1>0. /\ TypeOK /\ PhaseInv /\ QueueInv /\ PlacesInv /\ MarksInv /\ DataInv /\ ApartInv
      /\ VainInv /\ UndoInv /\ LedgerInv /\ SizeInv /\ TwoInv
  BY DEF IInv
<1>1. PICK j : j = Smallest((1 .. link.dist) \ link.ins)
  OBVIOUS
<1>2. /\ pc = "insert" /\ link.ins # 1 .. link.dist /\ link' = [link EXCEPT !.ins = @ \cup {j}]
      /\ chk' = [p |-> GroupCell(j), add |-> TRUE, gain |-> 0, ret |-> "insert"]
      /\ pc' = "scan" /\ fMark' = fMark
      /\ UNCHANGED <<args, added, cube, ID, lits, qcost, list, free, cIDs, que, enabled, store, pass, saved>>
  BY <1>1 DEF InsertCube, Check, cells
<1>3. PICK d : d = link.dist
  OBVIOUS
<1>4. Linking /\ LinkOK(link) /\ d \in Distances /\ Inserting
  BY <1>0, <1>2, <1>3, LinkingIs DEF Inserting
<1>5. PICK e \in 2 .. 4 : e = d
  BY <1>4 DEF Distances
<1>6. PICK ins \in SUBSET (1 .. e) : ins = link.ins /\ ins # {} /\ ins # 1 .. e
  BY <1>0, <1>2, <1>3, <1>4, <1>5 DEF PhaseInv
<1>7. j \in 1 .. e /\ j \notin ins
  <2>1. PICK S : S = (1 .. e) \ ins
    OBVIOUS
  <2>2. S \subseteq Nat /\ S # {}
    <3>1. S \subseteq Nat
      BY <2>1
    <3>2. S # {}
      <4>1. PICK T : T = 1 .. e
        OBVIOUS
      <4>2. \A T1, T2 : T2 \subseteq T1 /\ T2 # T1 => T1 \ T2 # {}
        OBVIOUS
      <4>. QED
        BY <1>6, <2>1, <4>1, <4>2
    <3>. QED
      BY <3>1, <3>2
  <2>3. j \in S
    BY <1>1, <1>3, <1>5, <1>6, <2>1, <2>2, LeastOf
  <2>. QED
    BY <2>1, <2>3
<1>8. PICK I \in SUBSET (1 .. e) : I = ins \cup {j}
  BY <1>7
<1>9. SameLink(link', link) /\ link' \in Links /\ link'.c = link.c /\ link'.ins = I /\ link'.gain = link.gain
  <2>1. link' = [link EXCEPT !.c = link.c, !.ins = I, !.gain = link.gain]
    BY <1>0, <1>2, <1>6, <1>8 DEF TypeOK, Links
  <2>2. I \in SUBSET (1 .. 4) /\ args' = args /\ link.c \in 0 .. 5 /\ link.gain \in Nat
    <3>1. I \in SUBSET (1 .. 4)
      OBVIOUS
    <3>. QED
      BY <1>0, <1>2, <3>1, LinkType
  <2>. QED
    BY <1>0, <2>1, <2>2, KeptLink
<1>10. GC(link, j) \in MadeCells(link) /\ GC(link, j) \in Cells /\ GroupCell(j) = GC(link, j)
  <2>1. GC(link, j) \in MadeCells(link)
    BY <1>3, <1>4, <1>5, <1>7, GroupFacts
  <2>2. \A k \in MadeCells(link) : k \in Cells
    <3>1. link.el \in [0 .. 31 -> 0 .. nCubesAlloc]
      BY <1>0, LinkType
    <3>. QED
      BY <1>0, <3>1, CellsFacts DEF MadeCells
  <2>. QED
    BY <2>1, <2>2 DEF GroupCell, Rules, GC
<1>11. chk' \in Checks /\ chk'.p = GC(link, j) /\ chk'.add /\ chk'.ret = "insert"
  <2>1. PICK g \in Cells : g = GC(link, j)
    BY <1>10
  <2>2. chk' = [p |-> g, add |-> TRUE, gain |-> 0, ret |-> "insert"]
    BY <1>2, <1>10, <2>1
  <2>3. g \in 0 .. nCubesAlloc
    BY <1>0, CellsFacts
  <2>4. chk' \in [p : 0 .. nCubesAlloc, add : BOOLEAN, gain : Nat, ret : {"add", "probed", "insert"}]
    BY <2>2, <2>3
  <2>. QED
    BY <2>1, <2>2, <2>4 DEF Checks
<1>12. /\ ~Merging /\ Given = ins /\ Touched /\ InScan = {}
       /\ ~Merging' /\ Given' = I /\ Touched' /\ InScan' = {GC(link, j)}
  BY <1>2, <1>6, <1>8, <1>9, <1>11 DEF Merging, Given, Touched, InScan
<1>13. \A a, b \in 1 .. e : GC(link, a) = GC(link, b) => a = b
  BY <1>3, <1>4, <1>5, GroupFacts
<1>14. Held' = Held
  <2>1. Held = {link.C1, link.C2} \cup (MadeCells(link) \ GCs(link, ins)) \cup InScan
    BY <1>3, <1>4, <1>5, <1>12, HeldNow
  <2>2. Held' = {link.C1, link.C2} \cup (MadeCells(link) \ GCs(link, I)) \cup InScan'
    BY <1>3, <1>4, <1>5, <1>9, <1>12, HeldThen DEF SameLink
  <2>3. GC(link, j) \notin GCs(link, ins) /\ GCs(link, I) = GCs(link, ins) \cup {GC(link, j)}
    BY <1>7, <1>8, <1>13 DEF GCs
  <2>. QED
    BY <1>10, <1>12, <2>1, <2>2, <2>3
<1>15. Owed' = Owed
  <2>1. Owed = GCs(link, (1 .. e) \ ins)
    BY <1>3, <1>4, <1>5, <1>12 DEF Owed, GCs, GroupCell, Rules, GC
  <2>2. Owed' = GCs(link, (1 .. e) \ I) \cup {GC(link, j)}
    <3>1. \A i : GroupCell(i)' = GC(link, i)
      BY <1>9 DEF SameLink, GroupCell, Rules, GC
    <3>2. Linking' /\ link'.dist = e
      BY <1>3, <1>4, <1>5, <1>9 DEF SameLink, Linking
    <3>. QED
      BY <1>12, <3>1, <3>2 DEF Owed, GCs
  <2>3. (1 .. e) \ ins = ((1 .. e) \ I) \cup {j}
    BY <1>7, <1>8
  <2>. QED
    BY <2>1, <2>2, <2>3 DEF GCs
<1>16. /\ TypeOK' /\ PlacesInv' /\ MarksInv' /\ QueueInv' /\ DataInv' /\ ApartInv' /\ VainInv'
       /\ LedgerInv' /\ Linking' /\ LinkOK(link')
       /\ IsFiniteSet(saved') /\ Cardinality(saved') <= pass'.nBefore
       /\ Working' = Working
  <2>1. pc' \in {"probe", "probed", "insert", "failed", "scan"}
    BY <1>2
  <2>2. /\ fMark' \in [Cells -> BOOLEAN]
        /\ \A k \in Cells : fMark'[k] => fMark[k] \/ (link.dist # 2 /\ k \in MadeCells(link))
    BY <1>0, <1>2 DEF TypeOK
  <2>. QED
    BY <1>2, <1>4, <1>9, <1>11, <1>12, <1>14, <1>15, <2>1, <2>2, ProbeFrame
<1>17. ~Probing' /\ Inserting' /\ ~Adding'
  BY <1>2, <1>11, <1>16 DEF Probing, Inserting, Adding
<1>18. UndoInv'
  BY <1>17 DEF UndoInv, Undoable
<1>19. PhaseInv'
  <2>1. chk'.p # NULL
    BY <1>0, <1>10, <1>11, CellsFacts
  <2>2. link'.dist = e /\ GC(link', j) = GC(link, j) /\ j \in I
    BY <1>3, <1>5, <1>8, <1>9 DEF SameLink, GC
  <2>. QED
    BY <1>2, <1>9, <1>11, <1>16, <1>17, <2>1, <2>2 DEF PhaseInv
<1>20. SizeInv'
  BY <1>0, <1>2, <1>4, <1>16, <1>17 DEF SizeInv
<1>21. TwoInv'
  BY <1>12 DEF TwoInv
<1>. QED
  BY <1>16, <1>18, <1>19, <1>20, <1>21 DEF IInv

-----------------------------------------------------------------------------
(* Undoing the one merge of a group.                                        *)
LEMMA StoreType ==
  ASSUME TypeOK
  PROVE  /\ store.PrevPa \in 0 .. N /\ store.PrevPq \in Nat /\ store.PrevID \in 0 .. LastID
         /\ store.fInput \in BOOLEAN
BY DEF TypeOK, Stores

LEMMA UndoStep ==
  ASSUME IInv, pc \in {"probe", "probed"}, TotalGain = 1, UndoRecentChanges, pc' = "failed",
         link.dist # 2,
         UNCHANGED <<args, added, que, enabled, store, chk, link, pass, saved>>,
         fMark' \in [Cells -> BOOLEAN],
         \A k \in Cells : fMark'[k] => fMark[k] \/ k \in MadeCells(link)
  PROVE  IInv'
<1>0. /\ TypeOK /\ PhaseInv /\ QueueInv /\ PlacesInv /\ MarksInv /\ DataInv /\ ApartInv
      /\ VainInv /\ UndoInv /\ LedgerInv /\ SizeInv /\ TwoInv
  BY DEF IInv
<1>1. PICK x, p : x = Head(free) /\ p = store.p
  OBVIOUS
<1>2. /\ ID' = [ID EXCEPT ![x] = store.PrevID] /\ list' = Without(<<x>> \o list, p)
      /\ cube' = UndoneCube /\ lits' = UndoneLits /\ qcost' = UndoneCost
      /\ free' = Tail(free) /\ cIDs' = cIDs
  <2>1. cube' = [cube EXCEPT ![p][UndonePos] = Xor(@, UndoneValue)]
    <3>1. \/ store.fInput /\ UndonePos = store.Var /\ UndoneValue = store.Value
          \/ ~store.fInput /\ UndonePos = OutPos /\ UndoneValue = cube[x][OutPos]
      BY <1>1 DEF UndonePos, UndoneValue
    <3>2. CASE store.fInput
      BY <1>1, <3>1, <3>2 DEF UndoRecentChanges
    <3>3. CASE ~store.fInput
      BY <1>1, <3>1, <3>3 DEF UndoRecentChanges
    <3>. QED
      BY <3>2, <3>3
  <2>. QED
    BY <1>1, <2>1 DEF UndoRecentChanges, UndoneCube, UndoneLits, UndoneCost
<1>3. PICK d : d = link.dist
  OBVIOUS
<1>4. /\ Linking /\ LinkOK(link) /\ d \in Distances /\ Probing /\ InScan = {}
  BY <1>3, ProbeBase
<1>5. Undoable
  BY <1>4 DEF Undoable
<1>6. PICK S : S = UndoneList
  OBVIOUS
<1>7. /\ \E i \in 1 .. d : Given = {i} /\ p = GC(link, i)
      /\ p \in Elements(list) /\ free # <<>> /\ store.PrevID # 0
      /\ Vain(S, cube', lits', qcost', link, saved, FunctionRead(added))
      /\ S = (Elements(list) \cup {x}) \ {p}
  BY <1>0, <1>1, <1>2, <1>3, <1>4, <1>5, <1>6 DEF UndoInv, UndoneList
<1>8. PICK i \in 1 .. d : Given = {i} /\ p = GC(link, i)
  BY <1>7
<1>9. PICK M : M = MadeCells(link)
  OBVIOUS
<1>10. p \in M /\ Held = {link.C1, link.C2} \cup (M \ {p})
  <2>1. GC(link, i) \in M
    BY <1>3, <1>4, <1>9, GroupFacts
  <2>2. GCs(link, Given) = {p}
    BY <1>8 DEF GCs
  <2>. QED
    BY <1>3, <1>8, <1>9, <2>1, <2>2, ProbeHeld
<1>11. /\ list \in Seq(Cells) /\ free \in Seq(Cells) /\ Distinct(list) /\ Distinct(free)
       /\ Elements(list) \cap Elements(free) = {}
  BY <1>0 DEF TypeOK, PlacesInv
<1>12. /\ x \in Elements(free) /\ x \in Cells /\ Tail(free) \in Seq(Cells) /\ Distinct(Tail(free))
       /\ Elements(Tail(free)) = Elements(free) \ {x}
  BY <1>1, <1>7, <1>11, TailFacts
<1>13. x \notin Elements(list) /\ x # p /\ p \in Cells /\ p \notin Elements(free)
  BY <1>0, <1>7, <1>11, <1>12, ListFacts
<1>14. list' \in Seq(Cells) /\ Distinct(list') /\ Elements(list') = S
  <2>1. PICK s : s = <<x>> \o list
    OBVIOUS
  <2>2. s \in Seq(Cells) /\ Distinct(s) /\ Elements(s) = Elements(list) \cup {x}
    BY <1>11, <1>12, <1>13, <2>1, ConsFacts
  <2>3. p \in Elements(s)
    BY <1>7, <2>2
  <2>4. list' = Without(s, p)
    BY <1>2, <2>1
  <2>. QED
    BY <1>7, <2>2, <2>3, <2>4, WithoutFacts
<1>15. /\ Elements(list)' = S /\ Elements(free)' = Elements(free) \ {x}
       /\ Cells' = Cells /\ Places' = Places /\ FunctionRead(added)' = FunctionRead(added)
  BY <1>2, <1>12, <1>14, SameArgs DEF Elements
<1>16. /\ Linking' /\ ~Touched' /\ InScan' = {} /\ Made' = Made
       /\ ~Probing' /\ ~Inserting' /\ ~Adding'
  BY <1>4 DEF Linking, Touched, InScan, Made, Probing, Inserting, Adding
<1>17. Held' = {link.C1, link.C2} \cup M
  <2>1. {} \in SUBSET (1 .. link.dist) /\ link.dist \in Distances
    BY <1>3, <1>4
  <2>2. Held' = {link.C1, link.C2} \cup (MadeCells(link) \ GCs(link, {})) \cup InScan'
    BY <1>4, <1>16, <2>1, HeldThen
  <2>. QED
    BY <1>9, <1>16, <2>2 DEF GCs
<1>18. /\ {cube'[a] : a \in S} = saved \ {cube'[link.C1], cube'[link.C2]}
       /\ Apart(cube', S \cup {link.C1, link.C2})
       /\ \A y \in Points : Par(cube', S \cup {link.C1, link.C2}, y) <=> y \in FunctionRead(added)
       /\ \A a \in S \cup {link.C1, link.C2} \cup M : DataOK(cube'[a], lits'[a], qcost'[a])
  BY <1>7, <1>9 DEF Vain, MadeCells
<1>19. ID \in [Cells -> 0 .. LastID] /\ ID' \in [Cells -> 0 .. LastID]
       /\ ID'[x] = store.PrevID /\ \A k \in Cells : k # x => ID'[k] = ID[k]
  BY <1>0, <1>2, <1>12, StoreType DEF TypeOK
<1>20. PlacesInv'
  <2>1. \A k \in Cells : ID'[k] = 0 <=> k \in Elements(free) \ {x}
    BY <1>0, <1>7, <1>19 DEF PlacesInv
  <2>2. Cells \ (Elements(list) \cup Elements(free)) = Held
    BY <1>0 DEF PlacesInv
  <2>3. Cells \ (S \cup (Elements(free) \ {x})) = Held'
    BY <1>7, <1>10, <1>12, <1>13, <1>17, <2>2
  <2>4. S \cap (Elements(free) \ {x}) = {}
    BY <1>7, <1>11
  <2>. QED
    BY <1>2, <1>12, <1>14, <1>15, <2>1, <2>3, <2>4 DEF PlacesInv, Distinct
<1>21. MarksInv'
  <2>1. M = {link.el[n] : n \in Made}
    BY <1>9 DEF MadeCells, Made
  <2>2. \A k \in Cells : fMark[k] => \E n \in Made : link.el[n] = k
    BY <1>0 DEF MarksInv
  <2>3. \A k \in Cells : fMark'[k] => \E n \in Made : link.el[n] = k
    BY <1>9, <2>1, <2>2
  <2>. QED
    BY <1>15, <1>16, <2>3 DEF MarksInv
<1>22. QueueInv'
  <2>1. InPass' = InPass
    BY <1>4, <1>16 DEF InPass
  <2>. QED
    BY <1>0, <1>4, <1>15, <1>16, <2>1 DEF QueueInv
<1>23. DataInv'
  <2>1. SUFFICES ASSUME NEW k \in Cells, ID'[k] # 0 PROVE k \in S \cup {link.C1, link.C2} \cup M
    BY <1>15, <1>18 DEF DataInv
  <2>2. k \notin Elements(free)'
    BY <1>15, <1>20, <2>1 DEF PlacesInv
  <2>3. k \in Elements(list)' \/ k \in Held'
    BY <1>15, <1>20, <2>2 DEF PlacesInv
  <2>. QED
    BY <1>15, <1>17, <2>3
<1>24. ApartInv' /\ LedgerInv'
  <2>1. Owed' = {link.C1, link.C2}
    BY <1>16 DEF Owed
  <2>2. Working' = S \cup {link.C1, link.C2}
    BY <1>15, <2>1 DEF Working
  <2>3. Apart(cube', S)
    BY <1>18 DEF Apart
  <2>. QED
    BY <1>15, <1>18, <2>2, <2>3 DEF ApartInv, LedgerInv
<1>25. VainInv' /\ UndoInv' /\ TwoInv'
  BY <1>7, <1>15, <1>16 DEF VainInv, UndoInv, Undoable, TwoInv
<1>26. SizeInv'
  BY <1>0, <1>4, <1>16 DEF SizeInv
<1>27. PhaseInv'
  BY <1>4, <1>16 DEF PhaseInv
<1>28. TypeOK'
  <2>1. cube \in [Cells -> Cube \cup {Blank}] /\ lits \in [Cells -> 0 .. N] /\ qcost \in [Cells -> Nat]
    BY <1>0 DEF TypeOK
  <2>2. cube' \in [Cells -> Cube \cup {Blank}]
    <3>1. cube'[p] \in Cube
      BY <1>10, <1>18 DEF DataOK
    <3>2. cube' = [cube EXCEPT ![p] = cube'[p]]
      <4>1. cube' = [cube EXCEPT ![p][UndonePos] = Xor(@, UndoneValue)]
        BY <1>1, <1>2 DEF UndoneCube
      <4>. QED
        BY <1>13, <2>1, <4>1
    <3>3. PICK c : c = cube'[p]
      OBVIOUS
    <3>4. c \in Cube /\ cube' = [cube EXCEPT ![p] = c]
      BY <3>1, <3>2, <3>3
    <3>. QED
      BY <2>1, <3>4
  <2>3. lits' \in [Cells -> 0 .. N] /\ qcost' \in [Cells -> Nat]
    <3>1. CASE store.fInput
      BY <1>0, <1>1, <1>2, <2>1, <3>1, StoreType DEF UndoneLits, UndoneCost
    <3>2. CASE ~store.fInput
      BY <1>2, <2>1, <3>2 DEF UndoneLits, UndoneCost
    <3>. QED
      BY <3>1, <3>2
  <2>. QED
    BY <1>0, <1>2, <1>12, <1>14, <1>19, <2>2, <2>3, SameArgs DEF TypeOK
<1>. QED
  BY <1>20, <1>21, <1>22, <1>23, <1>24, <1>25, <1>26, <1>27, <1>28 DEF IInv

LEMMA ProbeRejectedStep == ASSUME IInv, ProbeRejected PROVE IInv'
<1>0. TypeOK
  BY DEF IInv
<1>1. /\ pc = "probed" /\ chk.gain = 1 /\ link.dist = 3 /\ UndoRecentChanges /\ pc' = "failed"
      /\ fMark' = fMark
      /\ UNCHANGED <<args, added, que, enabled, store, chk, link, pass, saved>>
  BY DEF ProbeRejected, TooCostly
<1>2. TotalGain = link.gain + chk.gain /\ ProbeOK(link)
  BY <1>1, ProbeBase
<1>3. link.gain = 0
  BY <1>1, <1>2 DEF ProbeOK
<1>4. TotalGain = 1
  BY <1>1, <1>2, <1>3
<1>5. fMark' \in [Cells -> BOOLEAN] /\ \A k \in Cells : fMark'[k] => fMark[k] \/ k \in MadeCells(link)
  BY <1>0, <1>1 DEF TypeOK
<1>. QED
  BY <1>1, <1>4, <1>5, UndoStep

LEMMA GroupUndoneStep == ASSUME IInv, GroupUndone PROVE IInv'
<1>0. TypeOK
  BY DEF IInv
<1>1. /\ pc = "probe" /\ link.gain = 1 /\ UndoRecentChanges /\ pc' = "failed"
      /\ fMark' = [k \in Cells |-> IF k \in GroupCells
                                   THEN \A i \in link.ins : GroupCell(i) # k ELSE fMark[k]]
      /\ UNCHANGED <<args, added, que, enabled, store, chk, link, pass, saved>>
  BY DEF GroupUndone
<1>2. PICK d : d = link.dist
  OBVIOUS
<1>3. TotalGain = 1 /\ ProbeOK(link) /\ LinkOK(link) /\ d \in Distances
  BY <1>1, <1>2, ProbeBase
<1>4. link.dist # 2
  BY <1>1, <1>3 DEF ProbeOK
<1>5. GroupCells \subseteq MadeCells(link)
  <2>1. \A i \in 1 .. d : GC(link, i) \in MadeCells(link)
    BY <1>2, <1>3, GroupFacts
  <2>. QED
    BY <1>2, <2>1 DEF GroupCells, GroupCell, GC, Rules
<1>6. fMark \in [Cells -> BOOLEAN]
  BY <1>0 DEF TypeOK
<1>7. fMark' \in [Cells -> BOOLEAN]
  <2>1. ASSUME NEW k \in Cells
        PROVE (IF k \in GroupCells THEN \A i \in link.ins : GroupCell(i) # k ELSE fMark[k]) \in BOOLEAN
    BY <1>6
  <2>. QED
    BY <1>1, <2>1
<1>8. \A k \in Cells : fMark'[k] => fMark[k] \/ k \in MadeCells(link)
  BY <1>1, <1>5
<1>. QED
  BY <1>1, <1>3, <1>4, <1>7, <1>8, UndoStep

-----------------------------------------------------------------------------
(* The cells created for a group.                                           *)
NeedFor(d, g) == Chosen(GroupRules(d)[g], {n \in 0 .. 31 : link.el[n] = NULL})
NthOf(s, k) == CHOOSE i \in DOMAIN s : s[i] = k
BaseFor(C1, C2) ==
  lits[C1] - Cardinality({v \in Differ(cube[C1], cube[C2]) \ {OutPos} : cube[C1][v] # Absent})
Fresh(d, g) == SubSeq(free, 1, Len(NeedFor(d, g)))

LEMMA NthFacts ==
  ASSUME NEW S, NEW s \in Seq(S), NEW k \in Elements(s)
  PROVE  NthOf(s, k) \in 1 .. Len(s) /\ s[NthOf(s, k)] = k
<1>1. DOMAIN s = 1 .. Len(s) /\ \E i \in DOMAIN s : s[i] = k
  BY SeqFacts DEF Elements
<1>. QED
  BY <1>1 DEF NthOf

LEMMA CreatedIs ==
  ASSUME NEW d, NEW g, NEW C1, NEW C2, Create(d, g, C1, C2)
  PROVE  /\ Len(NeedFor(d, g)) <= Len(free)
         /\ free' = SubSeq(free, Len(NeedFor(d, g)) + 1, Len(free))
         /\ cIDs' = NewID(Len(Fresh(d, g)))
         /\ link' = [dist |-> d, C1 |-> C1, C2 |-> C2,
                     el |-> [n \in 0 .. 31 |->
                               IF n \in Elements(NeedFor(d, g))
                               THEN Fresh(d, g)[NthOf(NeedFor(d, g), n)] ELSE link.el[n]],
                     visited |-> link.visited \cup {g},
                     group |-> g, c |-> 1, ins |-> {}, gain |-> 0]
         /\ cube' = [k \in Cells |->
                       IF k \in Elements(Fresh(d, g))
                       THEN ELCube(cube[C1], cube[C2], NeedFor(d, g)[NthOf(Fresh(d, g), k)])
                       ELSE cube[k]]
         /\ lits' = [k \in Cells |->
                       IF k \in Elements(Fresh(d, g))
                       THEN BaseFor(C1, C2)
                              + CubeLiterals(cube[C1], cube[C2], NeedFor(d, g)[NthOf(Fresh(d, g), k)])
                       ELSE lits[k]]
         /\ qcost' = [k \in Cells |->
                        IF k \in Elements(Fresh(d, g))
                        THEN ComputeQCost(ELCube(cube[C1], cube[C2],
                                                 NeedFor(d, g)[NthOf(Fresh(d, g), k)]))
                        ELSE qcost[k]]
         /\ ID' = [k \in Cells |->
                     IF k \in Elements(Fresh(d, g)) THEN NewID(NthOf(Fresh(d, g), k) - 1) ELSE ID[k]]
BY DEF Create, NeedFor, NthOf, BaseFor, Fresh

(* What ExorLink needs of a pair and of the cubes made for it before.       *)
Linkable(d, C1, C2) ==
  /\ C1 \in Cells /\ C2 \in Cells /\ C1 # C2
  /\ C1 \notin Elements(free) /\ C2 \notin Elements(free)
  /\ cube[C1] \in Cube /\ cube[C2] \in Cube /\ lits[C1] = Literals(cube[C1])
  /\ \A n \in 0 .. 31 :
       link.el[n] # NULL => /\ n \in ELCubes(d) /\ link.el[n] # C1 /\ link.el[n] # C2
                            /\ link.el[n] \notin Elements(free)
                            /\ cube[link.el[n]] = ELCube(cube[C1], cube[C2], n)
  /\ \A m, n \in 0 .. 31 : link.el[m] = link.el[n] /\ link.el[m] # NULL => m = n

(* Its cubes are those of the table, in cells of their own.                 *)
LEMMA FreshFacts ==
  ASSUME TypeOK, Distinct(free), NEW d \in Distances, NEW g \in 1 .. Groups(d), NEW C1, NEW C2,
         Create(d, g, C1, C2), NEW need, need = NeedFor(d, g), NEW new, new = Fresh(d, g)
  PROVE  /\ need \in Seq(0 .. 31) /\ new \in Seq(Cells) /\ Len(new) = Len(need) /\ Len(need) \in Nat
         /\ Elements(need) = {n \in Elements(GroupRules(d)[g]) : link.el[n] = NULL}
         /\ \A n \in Elements(need) : n \in 0 .. 31 /\ n \in ELCubes(d)
         /\ Elements(new) \subseteq Elements(free) /\ Elements(new) \subseteq Cells
         /\ free' \in Seq(Cells) /\ Distinct(free') /\ Elements(free') = Elements(free) \ Elements(new)
         /\ \A k \in Elements(new) :
              /\ NthOf(new, k) \in 1 .. Len(need) /\ new[NthOf(new, k)] = k
              /\ need[NthOf(new, k)] \in Elements(need)
         /\ \A n \in Elements(need) :
              /\ NthOf(need, n) \in 1 .. Len(need) /\ need[NthOf(need, n)] = n
              /\ new[NthOf(need, n)] \in Elements(new)
              /\ NthOf(new, new[NthOf(need, n)]) = NthOf(need, n)
<1>1. PICK r : r = GroupRules(d)[g]
  OBVIOUS
<1>2. Row(r, d)
  BY <1>1, TableRows
<1>3. /\ r \in Seq(0 .. 31) /\ Distinct(r) /\ DOMAIN r = 1 .. d /\ \A i \in 1 .. d : r[i] \in ELCubes(d)
  BY <1>2 DEF Row
<1>4. /\ need \in Seq(0 .. 31) /\ Distinct(need)
      /\ Elements(need) = Elements(r) \cap {n \in 0 .. 31 : link.el[n] = NULL}
  <2>1. need = Chosen(r, {n \in 0 .. 31 : link.el[n] = NULL})
    BY <1>1 DEF NeedFor
  <2>. QED
    BY <1>3, <2>1, ChosenFacts
<1>5. Elements(r) \subseteq 0 .. 31 /\ \A n \in Elements(r) : n \in ELCubes(d)
  <2>1. Elements(r) \subseteq 0 .. 31
    BY <1>3, SeqFacts
  <2>2. Elements(r) = {r[i] : i \in 1 .. d}
    BY <1>3 DEF Elements
  <2>. QED
    BY <1>3, <2>1, <2>2
<1>6. Elements(need) = {n \in Elements(r) : link.el[n] = NULL}
  BY <1>4, <1>5
<1>7. PICK L \in Nat : L = Len(need)
  BY <1>4, SeqFacts
<1>8. free \in Seq(Cells) /\ L \in 0 .. Len(free)
  <2>1. free \in Seq(Cells)
    BY DEF TypeOK
  <2>2. L <= Len(free)
    BY <1>7, CreatedIs
  <2>3. Len(free) \in Nat
    BY <2>1
  <2>. QED
    BY <2>1, <2>2, <2>3
<1>9. new = SubSeq(free, 1, L) /\ free' = SubSeq(free, L + 1, Len(free))
  BY <1>7, CreatedIs DEF Fresh
<1>10. /\ new \in Seq(Cells) /\ Len(new) = L /\ free' \in Seq(Cells)
       /\ Distinct(new) /\ Distinct(free') /\ Elements(free') = Elements(free) \ Elements(new)
       /\ Elements(new) = {free[i] : i \in 1 .. L}
  BY <1>8, <1>9, PartFacts
<1>11. Elements(new) \subseteq Elements(free) /\ Elements(new) \subseteq Cells
  <2>1. Elements(free) = {free[i] : i \in 1 .. Len(free)} /\ Elements(free) \subseteq Cells
    BY <1>8, SeqFacts
  <2>. QED
    BY <1>8, <1>10, <2>1
<1>12. /\ \A i \in 1 .. L : need[i] \in Elements(need) /\ new[i] \in Elements(new)
       /\ \A i, j \in 1 .. L : new[i] = new[j] => i = j
  <2>1. Elements(need) = {need[i] : i \in 1 .. L}
    BY <1>4, <1>7, SeqFacts
  <2>3. \A i \in 1 .. L : new[i] \in Elements(new)
    <3>1. DOMAIN new = 1 .. L
      BY <1>10, SeqFacts
    <3>. QED
      BY <3>1 DEF Elements
  <2>2. \A i, j \in 1 .. L : new[i] = new[j] => i = j
    <3>1. DOMAIN new = 1 .. L /\ Distinct(new)
      BY <1>10, SeqFacts
    <3>. QED
      BY <3>1 DEF Distinct
  <2>. QED
    BY <2>1, <2>2, <2>3
<1>13. \A k \in Elements(new) : NthOf(new, k) \in 1 .. L /\ new[NthOf(new, k)] = k
  BY <1>10, NthFacts
<1>14. \A n \in Elements(need) : NthOf(need, n) \in 1 .. L /\ need[NthOf(need, n)] = n
  BY <1>4, <1>7, NthFacts
<1>15. ASSUME NEW n \in Elements(need) PROVE NthOf(new, new[NthOf(need, n)]) = NthOf(need, n)
  <2>1. PICK i \in 1 .. L : i = NthOf(need, n)
    BY <1>14
  <2>2. new[i] \in Elements(new)
    BY <1>12
  <2>3. PICK j \in 1 .. L : j = NthOf(new, new[i]) /\ new[j] = new[i]
    BY <1>13, <2>2
  <2>. QED
    BY <1>12, <2>1, <2>3
<1>. QED
  BY <1>1, <1>4, <1>5, <1>6, <1>7, <1>10, <1>11, <1>12, <1>13, <1>14, <1>15

-----------------------------------------------------------------------------
(* The link once a group was created.                                       *)
LEMMA CreatedLink ==
  ASSUME TypeOK, args' = args, Distinct(free), NEW d \in Distances, NEW g \in 1 .. Groups(d),
         link.visited \subseteq 1 .. Groups(d), NEW C1, NEW C2, Linkable(d, C1, C2),
         Create(d, g, C1, C2), NEW X, X = Elements(Fresh(d, g))
  PROVE  /\ link' \in Links /\ LinkOK(link')
         /\ link'.dist = d /\ link'.C1 = C1 /\ link'.C2 = C2 /\ link'.c = 1 /\ link'.ins = {}
         /\ link'.gain = 0
         /\ MadeCells(link') = MadeCells(link) \cup X
         /\ \A n \in 0 .. 31 : link.el[n] # NULL => link'.el[n] = link.el[n]
         /\ X \subseteq Elements(free) /\ X \subseteq Cells
         /\ free' \in Seq(Cells) /\ Distinct(free') /\ Elements(free') = Elements(free) \ X
<1>1. PICK need, new : need = NeedFor(d, g) /\ new = Fresh(d, g)
  OBVIOUS
<1>2. /\ need \in Seq(0 .. 31) /\ new \in Seq(Cells) /\ Len(new) = Len(need) /\ Len(need) \in Nat
      /\ Elements(need) = {n \in Elements(GroupRules(d)[g]) : link.el[n] = NULL}
      /\ \A n \in Elements(need) : n \in 0 .. 31 /\ n \in ELCubes(d)
      /\ Elements(new) \subseteq Elements(free) /\ Elements(new) \subseteq Cells
      /\ free' \in Seq(Cells) /\ Distinct(free') /\ Elements(free') = Elements(free) \ Elements(new)
      /\ \A k \in Elements(new) :
           /\ NthOf(new, k) \in 1 .. Len(need) /\ new[NthOf(new, k)] = k
           /\ need[NthOf(new, k)] \in Elements(need)
      /\ \A n \in Elements(need) :
           /\ NthOf(need, n) \in 1 .. Len(need) /\ need[NthOf(need, n)] = n
           /\ new[NthOf(need, n)] \in Elements(new)
           /\ NthOf(new, new[NthOf(need, n)]) = NthOf(need, n)
  BY <1>1, FreshFacts
<1>3. X = Elements(new)
  BY <1>1
<1> DEFINE f == [n \in 0 .. 31 |->
                   IF n \in Elements(NeedFor(d, g))
                   THEN Fresh(d, g)[NthOf(NeedFor(d, g), n)] ELSE link.el[n]]
<1>5. link' = [dist |-> d, C1 |-> C1, C2 |-> C2, el |-> f, visited |-> link.visited \cup {g},
               group |-> g, c |-> 1, ins |-> {}, gain |-> 0]
  BY DEF Create, NeedFor, NthOf, Fresh
<1>19. \A n \in 0 .. 31 : f[n] = IF n \in Elements(need) THEN new[NthOf(need, n)] ELSE link.el[n]
  BY <1>1
<1>20. f = [n \in 0 .. 31 |-> f[n]]
  OBVIOUS
<1> HIDE DEF f
<1>6. /\ \A n \in 0 .. 31 : n \in Elements(need) => f[n] = new[NthOf(need, n)] /\ f[n] \in X
      /\ \A n \in 0 .. 31 : n \notin Elements(need) => f[n] = link.el[n]
  BY <1>2, <1>3, <1>19
<1>7. link.el \in [0 .. 31 -> 0 .. nCubesAlloc]
  BY LinkType
<1>8. \A k \in X : k # NULL /\ k \in 0 .. nCubesAlloc
  BY <1>2, <1>3, CellsFacts
<1>9. f \in [0 .. 31 -> 0 .. nCubesAlloc]
  <2>1. ASSUME NEW n \in 0 .. 31 PROVE f[n] \in 0 .. nCubesAlloc
    BY <1>6, <1>7, <1>8
  <2>. QED
    BY <1>20, <2>1
<1>10. \A n \in Elements(need) : link.el[n] = NULL
  BY <1>2
<1>11. \A n \in 0 .. 31 : link.el[n] # NULL => f[n] = link.el[n] /\ n \notin Elements(need)
  BY <1>6, <1>10
<1>12. PICK V \in SUBSET (1 .. Groups(d)) : V = link.visited \cup {g} /\ g \in V
  OBVIOUS
<1>13. link' \in Links
  <2>1. V \in SUBSET (1 .. 24) /\ g \in 0 .. 24
    <3>1. PICK n \in 2 .. 24 : n = Groups(d)
      BY TableDomain
    <3>2. g \in 1 .. n /\ V \in SUBSET (1 .. n)
      BY <3>1
    <3>3. g \in 0 .. 24 /\ 1 .. n \subseteq 1 .. 24
      BY <3>2
    <3>. QED
      BY <3>2, <3>3
  <2>2. C1 \in 0 .. nCubesAlloc /\ C2 \in 0 .. nCubesAlloc
    BY CellsFacts DEF Linkable
  <2>3. nCubesAlloc' = nCubesAlloc
    BY SameArgs
  <2>. QED
    BY <1>5, <1>9, <1>12, <2>1, <2>2, <2>3 DEF Links
<1>14. \A n \in 0 .. 31 : f[n] # NULL => n \in ELCubes(d) /\ f[n] # C1 /\ f[n] # C2
  <2>1. SUFFICES ASSUME NEW n \in 0 .. 31, f[n] # NULL
        PROVE  n \in ELCubes(d) /\ f[n] # C1 /\ f[n] # C2
    OBVIOUS
  <2>2. CASE n \in Elements(need)
    <3>1. f[n] \in Elements(free) /\ n \in ELCubes(d)
      BY <1>2, <1>3, <1>6, <2>2
    <3>. QED
      BY <3>1 DEF Linkable
  <2>3. CASE n \notin Elements(need)
    BY <1>6, <2>1, <2>3 DEF Linkable
  <2>. QED
    BY <2>2, <2>3
<1>15. ASSUME NEW m \in 0 .. 31, NEW n \in 0 .. 31, f[m] = f[n], f[m] # NULL
       PROVE  m = n
  <2>1. CASE m \in Elements(need) /\ n \in Elements(need)
    <3>1. NthOf(need, m) = NthOf(need, n)
      <4>1. f[m] = new[NthOf(need, m)] /\ f[n] = new[NthOf(need, n)]
        BY <1>6, <2>1
      <4>2. new[NthOf(need, m)] = new[NthOf(need, n)]
        BY <1>15, <4>1
      <4>3. /\ NthOf(new, new[NthOf(need, m)]) = NthOf(need, m)
            /\ NthOf(new, new[NthOf(need, n)]) = NthOf(need, n)
        BY <1>2, <2>1
      <4>. QED
        BY <4>2, <4>3
    <3>. QED
      BY <1>2, <2>1, <3>1
  <2>2. CASE m \notin Elements(need) /\ n \notin Elements(need)
    BY <1>6, <1>15, <2>2 DEF Linkable
  <2>3. ASSUME NEW a \in 0 .. 31, NEW b \in 0 .. 31, a \in Elements(need), b \notin Elements(need),
               f[b] # NULL
        PROVE  f[a] # f[b]
    <3>1. f[a] \in Elements(free)
      BY <1>2, <1>3, <1>6, <2>3
    <3>2. f[b] \notin Elements(free)
      BY <1>6, <2>3 DEF Linkable
    <3>. QED
      BY <3>1, <3>2
  <2>. QED
    BY <1>15, <2>1, <2>2, <2>3
<1>16. \A i \in 1 .. d : f[GroupRules(d)[g][i]] # NULL
  <2>1. SUFFICES ASSUME NEW i \in 1 .. d PROVE f[GroupRules(d)[g][i]] # NULL
    OBVIOUS
  <2>2. PICK r : r = GroupRules(d)[g]
    OBVIOUS
  <2>3. Row(r, d)
    BY <2>2, TableRows
  <2>4. r[i] \in Elements(r) /\ Elements(r) \subseteq 0 .. 31
    <3>1. Elements(r) \subseteq 0 .. 31
      BY <2>3, SeqFacts DEF Row
    <3>2. DOMAIN r = 1 .. d
      BY <2>3 DEF Row
    <3>. QED
      BY <3>1, <3>2 DEF Elements
  <2>5. PICK n \in 0 .. 31 : n = r[i] /\ n \in Elements(r)
    BY <2>4
  <2>6. CASE link.el[n] = NULL
    <3>1. n \in Elements(need)
      BY <1>2, <2>2, <2>5, <2>6
    <3>. QED
      BY <1>6, <1>8, <2>2, <2>5, <3>1
  <2>7. CASE link.el[n] # NULL
    BY <1>11, <2>2, <2>5, <2>7
  <2>. QED
    BY <2>6, <2>7
<1>17. LinkOK(link')
  <2>1. C1 # NULL /\ C2 # NULL /\ C1 # C2
    BY CellsFacts DEF Linkable
  <2>2. \A i : GC(link', i) = f[GroupRules(d)[g][i]]
    BY <1>5 DEF GC
  <2>3. \A m, n \in 0 .. 31 : f[m] = f[n] /\ f[m] # NULL => m = n
    BY <1>15
  <2>4. PICK k : k = link'
    OBVIOUS
  <2>5. /\ k.C1 = C1 /\ k.C2 = C2 /\ k.visited = V /\ k.group = g /\ k.dist = d /\ k.el = f
        /\ \A i : GC(k, i) = f[GroupRules(d)[g][i]]
    BY <1>5, <1>12, <2>2, <2>4
  <2>6. LinkOK(k)
    BY <1>12, <1>14, <1>16, <2>1, <2>3, <2>5 DEF LinkOK
  <2>. QED
    BY <2>4, <2>6
<1>18. MadeCells(link') = MadeCells(link) \cup X
  <2>1. link'.el = f
    BY <1>5
  <2>2. ASSUME NEW n \in 0 .. 31, f[n] # NULL PROVE f[n] \in MadeCells(link) \cup X
    <3>1. CASE n \in Elements(need)
      BY <1>6, <3>1
    <3>2. CASE n \notin Elements(need)
      BY <1>6, <2>2, <3>2 DEF MadeCells
    <3>. QED
      BY <3>1, <3>2
  <2>3. ASSUME NEW n \in 0 .. 31, link.el[n] # NULL PROVE link.el[n] \in MadeCells(link')
    BY <1>11, <2>1, <2>3 DEF MadeCells
  <2>4. ASSUME NEW k \in X PROVE k \in MadeCells(link')
    <3>1. PICK i \in 1 .. Len(need) : i = NthOf(new, k) /\ new[i] = k /\ need[i] \in Elements(need)
      BY <1>2, <1>3
    <3>2. PICK n \in 0 .. 31 : n = need[i] /\ n \in Elements(need)
      BY <1>2, <3>1
    <3>3. f[n] = k
      <4>1. PICK j \in 1 .. Len(need) : j = NthOf(need, n) /\ need[j] = n
        BY <1>2, <3>2
      <4>2. NthOf(new, new[j]) = j /\ f[n] = new[j]
        BY <1>2, <1>6, <3>2, <4>1
      <4>3. i = j
        <5>1. Distinct(need)
          <6>1. need = Chosen(GroupRules(d)[g], {m \in 0 .. 31 : link.el[m] = NULL})
            BY <1>1 DEF NeedFor
          <6>2. GroupRules(d)[g] \in Seq(0 .. 31) /\ Distinct(GroupRules(d)[g])
            BY TableRows DEF Row
          <6>. QED
            BY <6>1, <6>2, ChosenFacts
        <5>2. i \in DOMAIN need /\ j \in DOMAIN need
          BY <1>2, SeqFacts
        <5>. QED
          BY <3>2, <4>1, <5>1, <5>2 DEF Distinct
      <4>. QED
        BY <3>1, <4>2, <4>3
    <3>4. k # NULL
      BY <1>8
    <3>. QED
      BY <2>1, <3>3, <3>4 DEF MadeCells
  <2>5. MadeCells(link') \subseteq MadeCells(link) \cup X
    BY <2>1, <2>2 DEF MadeCells
  <2>6. MadeCells(link) \subseteq MadeCells(link')
    BY <2>3 DEF MadeCells
  <2>. QED
    BY <2>4, <2>5, <2>6
<1>. QED
  BY <1>2, <1>3, <1>5, <1>11, <1>13, <1>17, <1>18

(* The cubes created for it.                                                *)
CubesMade(C1, C2, X) ==
  /\ cube' \in [Cells -> Cube \cup {Blank}] /\ lits' \in [Cells -> 0 .. N]
  /\ qcost' \in [Cells -> Nat] /\ ID' \in [Cells -> 0 .. LastID] /\ cIDs' \in 1 .. LastID
  /\ \A k \in Cells : k \notin X => /\ cube'[k] = cube[k] /\ lits'[k] = lits[k]
                                    /\ qcost'[k] = qcost[k] /\ ID'[k] = ID[k]
  /\ \A k \in X : DataOK(cube'[k], lits'[k], qcost'[k]) /\ ID'[k] # 0
  /\ \A n \in 0 .. 31 :
       link'.el[n] # NULL => cube'[link'.el[n]] = ELCube(cube[C1], cube[C2], n)

LEMMA CreatedCubes ==
  ASSUME TypeOK, args' = args, Distinct(free), NEW d \in Distances, NEW g \in 1 .. Groups(d),
         link.visited \subseteq 1 .. Groups(d), NEW C1, NEW C2, Linkable(d, C1, C2),
         Create(d, g, C1, C2), NEW X, X = Elements(Fresh(d, g))
  PROVE  CubesMade(C1, C2, X)
<1>1. PICK need, new : need = NeedFor(d, g) /\ new = Fresh(d, g)
  OBVIOUS
<1>2. /\ new \in Seq(Cells) /\ Len(new) = Len(need) /\ Len(need) \in Nat
      /\ \A n \in Elements(need) : n \in 0 .. 31
      /\ Elements(new) \subseteq Elements(free) /\ Elements(new) \subseteq Cells
      /\ \A k \in Elements(new) : NthOf(new, k) \in 1 .. Len(need)
      /\ \A n \in Elements(need) :
           /\ NthOf(need, n) \in 1 .. Len(need) /\ need[NthOf(need, n)] = n
           /\ new[NthOf(need, n)] \in Elements(new)
           /\ NthOf(new, new[NthOf(need, n)]) = NthOf(need, n)
  BY <1>1, FreshFacts
<1>3. X = Elements(new) /\ X \subseteq Cells
  BY <1>1, <1>2
<1>4. PICK p, q : p = cube[C1] /\ q = cube[C2] /\ p \in Cube /\ q \in Cube /\ lits[C1] = Literals(p)
  BY DEF Linkable
<1>5. BaseFor(C1, C2) = Literals(p) - Cardinality({v \in Differ(p, q) \ {OutPos} : p[v] # Absent})
  BY <1>4 DEF BaseFor
<1>15. /\ cube' = [k \in Cells |->
                     IF k \in Elements(Fresh(d, g))
                     THEN ELCube(cube[C1], cube[C2], NeedFor(d, g)[NthOf(Fresh(d, g), k)])
                     ELSE cube[k]]
       /\ lits' = [k \in Cells |->
                     IF k \in Elements(Fresh(d, g))
                     THEN BaseFor(C1, C2)
                            + CubeLiterals(cube[C1], cube[C2], NeedFor(d, g)[NthOf(Fresh(d, g), k)])
                     ELSE lits[k]]
       /\ qcost' = [k \in Cells |->
                      IF k \in Elements(Fresh(d, g))
                      THEN ComputeQCost(ELCube(cube[C1], cube[C2],
                                               NeedFor(d, g)[NthOf(Fresh(d, g), k)]))
                      ELSE qcost[k]]
       /\ ID' = [k \in Cells |->
                   IF k \in Elements(Fresh(d, g)) THEN NewID(NthOf(Fresh(d, g), k) - 1) ELSE ID[k]]
       /\ cIDs' = NewID(Len(Fresh(d, g)))
  BY DEF Create, NeedFor, NthOf, BaseFor, Fresh
<1>6. /\ cIDs' = NewID(Len(new))
      /\ \A k \in Cells :
           /\ cube'[k] = IF k \in X THEN ELCube(p, q, need[NthOf(new, k)]) ELSE cube[k]
           /\ lits'[k] = IF k \in X
                         THEN BaseFor(C1, C2) + CubeLiterals(p, q, need[NthOf(new, k)]) ELSE lits[k]
           /\ qcost'[k] = IF k \in X
                          THEN ComputeQCost(ELCube(p, q, need[NthOf(new, k)])) ELSE qcost[k]
           /\ ID'[k] = IF k \in X THEN NewID(NthOf(new, k) - 1) ELSE ID[k]
  BY <1>1, <1>3, <1>4, <1>15
<1>17. /\ cube' = [k \in Cells |-> cube'[k]] /\ lits' = [k \in Cells |-> lits'[k]]
       /\ qcost' = [k \in Cells |-> qcost'[k]] /\ ID' = [k \in Cells |-> ID'[k]]
  BY <1>15
<1>7. ASSUME NEW k \in X
      PROVE  /\ DataOK(cube'[k], lits'[k], qcost'[k]) /\ ID'[k] \in 1 .. LastID
             /\ cube'[k] = ELCube(p, q, need[NthOf(new, k)])
  <2>1. PICK c, n : n = need[NthOf(new, k)] /\ c = ELCube(p, q, n)
    OBVIOUS
  <2>2. /\ cube'[k] = c /\ lits'[k] = BaseFor(C1, C2) + CubeLiterals(p, q, n)
        /\ qcost'[k] = ComputeQCost(c) /\ ID'[k] = NewID(NthOf(new, k) - 1)
    BY <1>3, <1>6, <1>7, <2>1
  <2>3. c \in Cube
    BY <1>4, <2>1, ELCubeInCube
  <2>4. Literals(c) = BaseFor(C1, C2) + CubeLiterals(p, q, n)
    BY <1>5, <2>1, ELCubeLiterals
  <2>5. NthOf(new, k) - 1 \in Nat
    BY <1>2, <1>3
  <2>6. ID'[k] \in 1 .. LastID
    BY <2>2, <2>5, NewIDType
  <2>. QED
    BY <2>1, <2>2, <2>3, <2>4, <2>6 DEF DataOK
<1>8. \A k \in Cells : k \notin X => /\ cube'[k] = cube[k] /\ lits'[k] = lits[k]
                                     /\ qcost'[k] = qcost[k] /\ ID'[k] = ID[k]
  BY <1>6
<1>9. /\ cube \in [Cells -> Cube \cup {Blank}] /\ lits \in [Cells -> 0 .. N]
      /\ qcost \in [Cells -> Nat] /\ ID \in [Cells -> 0 .. LastID] /\ LastID \in Nat
  BY ExorcismAssumption DEF TypeOK
<1>10. ASSUME NEW k \in Cells
       PROVE  /\ cube'[k] \in Cube \cup {Blank} /\ lits'[k] \in 0 .. N /\ qcost'[k] \in Nat
              /\ ID'[k] \in 0 .. LastID
  <2>1. CASE k \in X
    <3>1. DataOK(cube'[k], lits'[k], qcost'[k]) /\ ID'[k] \in 1 .. LastID
      BY <1>7, <2>1
    <3>2. lits'[k] \in 0 .. N /\ qcost'[k] \in Nat
      BY <3>1, LiteralsFacts, CostIsNat DEF DataOK
    <3>. QED
      BY <1>9, <3>1, <3>2 DEF DataOK
  <2>2. CASE k \notin X
    BY <1>8, <1>9, <2>2
  <2>. QED
    BY <2>1, <2>2
<1>11. /\ cube' \in [Cells -> Cube \cup {Blank}] /\ lits' \in [Cells -> 0 .. N]
       /\ qcost' \in [Cells -> Nat] /\ ID' \in [Cells -> 0 .. LastID]
  BY <1>10, <1>17
<1>12. cIDs' \in 1 .. LastID
  BY <1>2, <1>6, NewIDType
<1>13. ASSUME NEW n \in 0 .. 31, link'.el[n] # NULL
       PROVE  cube'[link'.el[n]] = ELCube(p, q, n)
  <2>1. link'.el[n] = IF n \in Elements(need) THEN new[NthOf(need, n)] ELSE link.el[n]
    <3>1. link'.el = [m \in 0 .. 31 |->
                        IF m \in Elements(NeedFor(d, g))
                        THEN Fresh(d, g)[NthOf(NeedFor(d, g), m)] ELSE link.el[m]]
      BY DEF Create, NeedFor, NthOf, Fresh
    <3>. QED
      BY <1>1, <3>1
  <2>2. CASE n \in Elements(need)
    <3>1. PICK k : k = new[NthOf(need, n)]
      OBVIOUS
    <3>2. k \in X /\ need[NthOf(new, k)] = n
      BY <1>2, <1>3, <2>2, <3>1
    <3>. QED
      BY <1>7, <2>1, <2>2, <3>1, <3>2
  <2>3. CASE n \notin Elements(need)
    <3>1. PICK k : k = link.el[n]
      OBVIOUS
    <3>2. link'.el[n] = k /\ k # NULL
      BY <1>13, <2>1, <2>3, <3>1
    <3>3. k \notin Elements(free) /\ cube[k] = ELCube(p, q, n)
      BY <1>4, <3>1, <3>2 DEF Linkable
    <3>4. k \in Cells /\ k \notin X
      <4>1. k \in 0 .. nCubesAlloc
        BY <3>1, LinkType
      <4>. QED
        BY <1>2, <1>3, <3>2, <3>3, <4>1, CellsFacts
    <3>. QED
      BY <1>8, <3>2, <3>3, <3>4
  <2>. QED
    BY <2>2, <2>3
<1>14. \A k \in X : DataOK(cube'[k], lits'[k], qcost'[k]) /\ ID'[k] # 0
  BY <1>7
<1>. QED
  BY <1>4, <1>8, <1>11, <1>12, <1>13, <1>14 DEF CubesMade

-----------------------------------------------------------------------------
(* The cover without the pair, ready for a group.                           *)
Unpaired(S, sv, d, C1, C2) ==
  /\ S \cap Elements(free) = {} /\ Cells \ (S \cup Elements(free)) = {C1, C2} \cup MadeCells(link)
  /\ sv \in SUBSET Cube /\ IsFiniteSet(sv) /\ Cardinality(sv) <= pass.nBefore
  /\ {cube[a] : a \in S} = sv \ {cube[C1], cube[C2]} /\ Distance(cube[C1], cube[C2]) = d
  /\ Apart(cube, S \cup {C1, C2})
  /\ \A x \in Points : Par(cube, S \cup {C1, C2}, x) <=> x \in FunctionRead(added)
  /\ Cardinality(S) + 2 <= Cardinality(sv)

LEMMA CreateStep ==
  ASSUME IInv, NEW d \in Distances, NEW g \in 1 .. Groups(d), link.visited \subseteq 1 .. Groups(d),
         NEW C1, NEW C2, Linkable(d, C1, C2), Create(d, g, C1, C2),
         NEW S, S = Elements(list'), list' \in Seq(Cells), Distinct(list'),
         Unpaired(S, saved', d, C1, C2),
         UNCHANGED <<args, added, fMark, enabled, store, chk, pass>>, pc' = "probe",
         \A k \in Cells : fMark[k] => d # 2 /\ k \in MadeCells(link),
         que' \in Queues,
         \A e \in Distances : QueueOK(que'[e], Places, TRUE, e = d, pass.stop)
  PROVE  IInv'
<1>0. TypeOK /\ PlacesInv /\ DataInv
  BY DEF IInv
<1>1. PICK X : X = Elements(Fresh(d, g))
  OBVIOUS
<1>2. Distinct(free) /\ args' = args
  BY <1>0 DEF PlacesInv
<1>3. /\ link' \in Links /\ LinkOK(link')
      /\ link'.dist = d /\ link'.C1 = C1 /\ link'.C2 = C2 /\ link'.c = 1 /\ link'.ins = {}
      /\ link'.gain = 0
      /\ MadeCells(link') = MadeCells(link) \cup X
      /\ X \subseteq Elements(free) /\ X \subseteq Cells
      /\ free' \in Seq(Cells) /\ Distinct(free') /\ Elements(free') = Elements(free) \ X
  BY <1>0, <1>1, <1>2, CreatedLink
<1>4. /\ cube' \in [Cells -> Cube \cup {Blank}] /\ lits' \in [Cells -> 0 .. N]
      /\ qcost' \in [Cells -> Nat] /\ ID' \in [Cells -> 0 .. LastID] /\ cIDs' \in 1 .. LastID
      /\ \A k \in Cells : k \notin X => /\ cube'[k] = cube[k] /\ lits'[k] = lits[k]
                                        /\ qcost'[k] = qcost[k] /\ ID'[k] = ID[k]
      /\ \A k \in X : DataOK(cube'[k], lits'[k], qcost'[k]) /\ ID'[k] # 0
      /\ \A n \in 0 .. 31 :
           link'.el[n] # NULL => cube'[link'.el[n]] = ELCube(cube[C1], cube[C2], n)
  <2>1. CubesMade(C1, C2, X)
    BY <1>0, <1>1, <1>2, CreatedCubes
  <2>. QED
    BY <2>1 DEF CubesMade
<1>5. PICK M : M = MadeCells(link)
  OBVIOUS
<1>6. /\ S \cap Elements(free) = {} /\ Cells \ (S \cup Elements(free)) = {C1, C2} \cup M
      /\ saved' \in SUBSET Cube /\ IsFiniteSet(saved') /\ Cardinality(saved') <= pass.nBefore
      /\ {cube[a] : a \in S} = saved' \ {cube[C1], cube[C2]} /\ Distance(cube[C1], cube[C2]) = d
      /\ Apart(cube, S \cup {C1, C2})
      /\ \A x \in Points : Par(cube, S \cup {C1, C2}, x) <=> x \in FunctionRead(added)
      /\ Cardinality(S) + 2 <= Cardinality(saved')
  BY <1>5 DEF Unpaired
<1>7. /\ Cells' = Cells /\ Places' = Places /\ FunctionRead(added)' = FunctionRead(added)
      /\ Elements(list)' = S /\ Elements(free)' = Elements(free) \ X
  <2>1. Elements(list)' = Elements(list') /\ Elements(free)' = Elements(free')
    BY DEF Elements
  <2>. QED
    BY <1>2, <1>3, <2>1, SameArgs
<1>8. S \subseteq Cells /\ Elements(free) \subseteq Cells
  BY <1>0, SeqFacts DEF TypeOK
<1>9. \A k \in S \cup {C1, C2} : k \in Cells /\ k \notin X /\ cube'[k] = cube[k]
  BY <1>3, <1>4, <1>6, <1>8
<1>10. /\ Linking' /\ ~Touched' /\ InScan' = {} /\ Probing' /\ ~Inserting' /\ ~Adding'
       /\ Undoable' = FALSE
  <2>1. Linking' /\ InScan' = {} /\ Probing' /\ ~Inserting' /\ ~Adding'
    BY <1>3 DEF Linking, InScan, Probing, Inserting, Adding, LinkOK
  <2>2. ~Touched'
    BY <1>3 DEF Touched, Merging
  <2>3. TotalGain' = 0
    BY <1>3 DEF TotalGain
  <2>. QED
    BY <2>1, <2>2, <2>3 DEF Undoable
<1>11. Held' = {C1, C2} \cup M \cup X
  <2>1. Made' = {m \in 0 .. 31 : link'.el[m] # NULL}
    BY DEF Made
  <2>2. Gone' = {}
    BY <1>10 DEF Gone
  <2>3. Held' = {C1, C2} \cup {link'.el[n] : n \in Made'}
    BY <1>3, <1>10, <2>2 DEF Held
  <2>4. Held' = {C1, C2} \cup MadeCells(link')
    BY <2>1, <2>3 DEF MadeCells
  <2>. QED
    BY <1>3, <1>5, <2>4
<1>12. PlacesInv'
  <2>1. Cells \ (S \cup (Elements(free) \ X)) = Held'
    BY <1>3, <1>6, <1>11
  <2>2. \A k \in Cells : ID'[k] = 0 <=> k \in Elements(free) \ X
    <3>1. \A k \in Cells : ID[k] = 0 <=> k \in Elements(free)
      BY <1>0 DEF PlacesInv
    <3>. QED
      BY <1>4, <3>1
  <2>3. S \cap (Elements(free) \ X) = {}
    BY <1>6
  <2>. QED
    BY <1>3, <1>7, <2>1, <2>2, <2>3 DEF PlacesInv, Distinct
<1>13. MarksInv'
  <2>1. SUFFICES ASSUME NEW k \in Cells, fMark[k]
        PROVE  d # 2 /\ \E n \in Made' : link'.el[n] = k
    BY <1>3, <1>7, <1>10 DEF MarksInv
  <2>2. d # 2 /\ k \in MadeCells(link')
    BY <1>3, <2>1
  <2>. QED
    BY <2>2 DEF MadeCells, Made
<1>14. QueueInv'
  <2>1. InPass'
    BY <1>10 DEF InPass
  <2>. QED
    BY <1>3, <1>7, <1>10, <2>1 DEF QueueInv
<1>15. \A k \in S \cup {C1, C2} \cup M \cup X : DataOK(cube'[k], lits'[k], qcost'[k])
  <2>1. SUFFICES ASSUME NEW k \in S \cup {C1, C2} \cup M, k \notin X
        PROVE  DataOK(cube'[k], lits'[k], qcost'[k])
    BY <1>4
  <2>2. k \in Cells /\ k \notin Elements(free)
    BY <1>6, <1>8
  <2>3. DataOK(cube[k], lits[k], qcost[k])
    BY <1>0, <2>2 DEF PlacesInv, DataInv
  <2>. QED
    BY <1>4, <2>1, <2>2, <2>3
<1>16. DataInv'
  <2>1. SUFFICES ASSUME NEW k \in Cells, ID'[k] # 0 PROVE k \in S \cup {C1, C2} \cup M \cup X
    BY <1>7, <1>15 DEF DataInv
  <2>2. k \notin Elements(free)'
    BY <1>7, <1>12, <2>1 DEF PlacesInv
  <2>3. k \in Elements(list)' \/ k \in Held'
    BY <1>7, <1>12, <2>2 DEF PlacesInv
  <2>. QED
    BY <1>7, <1>11, <2>3
<1>17. Apart(cube', S \cup {C1, C2})
  <2>1. SUFFICES ASSUME NEW a \in S \cup {C1, C2}, NEW b \in S \cup {C1, C2}, a # b
        PROVE  Distance(cube'[a], cube'[b]) >= 2
    BY DEF Apart
  <2>2. Distance(cube[a], cube[b]) >= 2
    BY <1>6, <2>1 DEF Apart
  <2>3. cube'[a] = cube[a] /\ cube'[b] = cube[b]
    BY <1>9
  <2>. QED
    BY <2>2, <2>3
<1>18. \A x \in Points : Par(cube', S \cup {C1, C2}, x) <=> x \in FunctionRead(added)
  <2>1. \A k \in S \cup {C1, C2} : cube[k] = cube'[k]
    BY <1>9
  <2>2. PICK T, cc : T = S \cup {C1, C2} /\ cc = cube'
    OBVIOUS
  <2>3. \A k \in T : cube[k] = cc[k]
    BY <2>1, <2>2
  <2>4. ASSUME NEW x PROVE Par(cube, T, x) <=> Par(cc, T, x)
    BY <2>3, ParSame
  <2>. QED
    BY <1>6, <2>2, <2>4
<1>19. Vain(S, cube', lits', qcost', link', saved', FunctionRead(added))
  <2>1. PICK k : k = link'
    OBVIOUS
  <2>2. PICK c1, c2 : c1 = cube[C1] /\ c2 = cube[C2]
    OBVIOUS
  <2>3. k.C1 = C1 /\ k.C2 = C2 /\ k.dist = d /\ cube'[C1] = c1 /\ cube'[C2] = c2
    BY <1>3, <1>9, <2>1, <2>2
  <2>4. {cube'[a] : a \in S} = saved' \ {c1, c2}
    <3>1. {cube'[a] : a \in S} = {cube[a] : a \in S}
      BY <1>9
    <3>. QED
      BY <1>6, <2>2, <3>1
  <2>5. \A n \in 0 .. 31 : k.el[n] # NULL => cube'[k.el[n]] = ELCube(c1, c2, n)
    BY <1>4, <2>1, <2>2
  <2>6. Distance(c1, c2) = d
    BY <1>6, <2>2
  <2>7. {k.el[n] : n \in {m \in 0 .. 31 : k.el[m] # NULL}} = M \cup X
    <3>1. MadeCells(k) = M \cup X
      BY <1>3, <1>5, <2>1
    <3>. QED
      BY <3>1 DEF MadeCells
  <2>8. \A a \in S \cup {C1, C2} \cup {k.el[n] : n \in {m \in 0 .. 31 : k.el[m] # NULL}} :
          DataOK(cube'[a], lits'[a], qcost'[a])
    BY <1>15, <2>7
  <2>9. Vain(S, cube', lits', qcost', k, saved', FunctionRead(added))
    BY <1>6, <1>17, <1>18, <2>3, <2>4, <2>5, <2>6, <2>8 DEF Vain
  <2>. QED
    BY <2>1, <2>9
<1>20. VainInv' /\ UndoInv'
  BY <1>7, <1>10, <1>19 DEF VainInv, UndoInv
<1>21. ApartInv' /\ LedgerInv'
  <2>1. Owed' = {C1, C2}
    BY <1>3, <1>10 DEF Owed
  <2>2. Working' = S \cup {C1, C2}
    BY <1>7, <2>1 DEF Working
  <2>3. Apart(cube', S)
    BY <1>17 DEF Apart
  <2>. QED
    BY <1>7, <1>18, <2>2, <2>3 DEF ApartInv, LedgerInv
<1>22. SizeInv'
  BY <1>6, <1>10 DEF SizeInv
<1>23. TwoInv'
  <2>1. ASSUME NEW i \in 1 .. 2 PROVE ~Missed(i)'
    BY <1>3 DEF Missed
  <2>. QED
    BY <2>1 DEF TwoInv
<1>24. PhaseInv'
  <2>1. PICK e \in 2 .. 4 : e = d
    BY DEF Distances
  <2>2. PICK k : k = link'
    OBVIOUS
  <2>3. k.c = 1 /\ k.ins = {} /\ k.gain = 0 /\ k.dist = e
    BY <1>3, <2>1, <2>2
  <2>4. ProbeOK(k)
    BY <2>3 DEF ProbeOK
  <2>. QED
    BY <1>3, <1>10, <2>2, <2>4 DEF PhaseInv
<1>25. TypeOK'
  BY <1>0, <1>2, <1>3, <1>4, <1>6, SameArgs DEF TypeOK
<1>. QED
  BY <1>12, <1>13, <1>14, <1>16, <1>20, <1>21, <1>22, <1>23, <1>24, <1>25 DEF IInv

-----------------------------------------------------------------------------
(* The marks: what a group put into the queues is dropped.                  *)
LEMMA RewindQueues ==
  ASSUME TypeOK, QueueInv, Linking, NEW qs, qs = MarkRewind
  PROVE  /\ qs \in Queues
         /\ \A e \in Distances : QueueOK(qs[e], Places, TRUE, e = link.dist, pass.stop)
<1>1. que \in Queues
  BY DEF TypeOK
<1>2. ASSUME NEW e \in Distances
      PROVE  /\ qs[e] \in [buf : [Places -> Pairs], out : Places, in : Places, mark : Places]
             /\ QueueOK(qs[e], Places, TRUE, e = link.dist, pass.stop)
  <2>1. PICK q : q = que[e]
    OBVIOUS
  <2>2. q \in [buf : [Places -> Pairs], out : Places, in : Places, mark : Places]
    BY <1>1, <2>1 DEF Queues
  <2>3. qs[e] = [q EXCEPT !.in = q.mark]
    BY <2>1 DEF MarkRewind
  <2>4. PICK r : r = qs[e]
    OBVIOUS
  <2>5. /\ r \in [buf : [Places -> Pairs], out : Places, in : Places, mark : Places]
        /\ r.buf = q.buf /\ r.out = q.out /\ r.mark = q.mark /\ r.in = q.mark
    BY <2>2, <2>3, <2>4
  <2>6. PICK here \in BOOLEAN : here = (e = link.dist)
    OBVIOUS
  <2>7. QueueOK(q, Places, TRUE, here, pass.stop)
    BY <2>1, <2>6 DEF QueueInv, InPass
  <2>8. PICK n \in Nat : n = nPosAlloc /\ Places = 0 .. n - 1
    BY CellsFacts DEF Places
  <2>9. PICK out \in 0 .. n - 1, in \in 0 .. n - 1, mark \in 0 .. n - 1, stop \in 0 .. n - 1 :
          out = q.out /\ in = q.in /\ mark = q.mark /\ stop = pass.stop
    <3>1. pass.stop \in 0 .. n - 1
      BY <2>8, PassType
    <3>. QED
      BY <2>2, <2>8, <3>1
  <2>10. QueueOK(r, Places, TRUE, here, pass.stop)
    <3>1. CASE \A i \in Places : Full(q.buf[i])
      BY <2>5, <3>1 DEF QueueOK
    <3>2. CASE /\ \A i \in Places : i < in => Full(q.buf[i])
               /\ out <= mark /\ mark <= in
               /\ here => out <= stop /\ stop <= mark
      <4>1. \A i \in 0 .. n - 1 : i < mark => i < in
        BY <3>2
      <4>2. \A i \in 0 .. n - 1 : i < mark => Full(r.buf[i])
        BY <2>5, <2>8, <3>2, <4>1
      <4>3. r.out = out /\ r.in = mark /\ r.mark = mark /\ mark <= mark
        BY <2>5, <2>9
      <4>. QED
        BY <2>8, <2>9, <3>2, <4>2, <4>3 DEF QueueOK
    <3>. QED
      BY <2>7, <2>9, <3>1, <3>2 DEF QueueOK
  <2>. QED
    BY <2>4, <2>5, <2>6, <2>10
<1>3. qs = [e \in Distances |-> qs[e]]
  BY DEF MarkRewind
<1>. QED
  BY <1>2, <1>3 DEF Queues

LEMMA NextGroupStep == ASSUME IInv, NextGroup PROVE IInv'
<1>0. /\ TypeOK /\ PhaseInv /\ QueueInv /\ PlacesInv /\ MarksInv /\ DataInv /\ VainInv /\ SizeInv
  BY DEF IInv
<1>1. PICK d, C1, C2, g : /\ d = link.dist /\ C1 = link.C1 /\ C2 = link.C2
                          /\ g = NextGroupOf(d, link.visited, cube[C1], cube[C2])
  OBVIOUS
<1>2. /\ pc = "failed" /\ Cardinality(link.visited) < Len(Rules) /\ Create(d, g, C1, C2)
      /\ que' = MarkRewind /\ pc' = "probe" /\ list' = list /\ saved' = saved
      /\ UNCHANGED <<args, added, fMark, enabled, store, chk, pass>>
  BY <1>1 DEF NextGroup
<1>3. Linking /\ LinkOK(link) /\ d \in Distances /\ ~Touched /\ InScan = {}
  BY <1>0, <1>1, <1>2, LinkingIs DEF Touched, InScan
<1>4. link.visited \subseteq 1 .. Groups(d) /\ link.visited # 1 .. Groups(d)
  <2>1. link.visited \subseteq 1 .. Groups(d)
    BY <1>1, <1>3 DEF LinkOK
  <2>2. Len(Rules) = Groups(d) /\ Groups(d) \in Nat
    BY <1>1, <1>3, TableDomain DEF Rules
  <2>3. Cardinality(1 .. Groups(d)) = Groups(d)
    BY <2>2, FS_Interval
  <2>4. link.visited # 1 .. Groups(d)
    BY <1>2, <2>2, <2>3
  <2>. QED
    BY <2>1, <2>4
<1>5. g \in 1 .. Groups(d)
  BY <1>1, <1>3, <1>4, NextGroupFacts
<1>6. PICK S, M : S = Elements(list) /\ M = MadeCells(link)
  OBVIOUS
<1>7. Held = {C1, C2} \cup M
  <2>1. {} \in SUBSET (1 .. link.dist) /\ GCs(link, {}) = {}
    BY DEF GCs
  <2>2. Held = {link.C1, link.C2} \cup (MadeCells(link) \ GCs(link, {})) \cup InScan
    BY <1>1, <1>3, <2>1, HeldNow
  <2>. QED
    BY <1>1, <1>3, <1>6, <2>1, <2>2
<1>8. Vain(S, cube, lits, qcost, link, saved, FunctionRead(added))
  BY <1>0, <1>3, <1>6 DEF VainInv
<1>9. /\ {cube[a] : a \in S} = saved \ {cube[C1], cube[C2]}
      /\ \A n \in 0 .. 31 : link.el[n] # NULL => cube[link.el[n]] = ELCube(cube[C1], cube[C2], n)
      /\ Distance(cube[C1], cube[C2]) = d
      /\ Apart(cube, S \cup {C1, C2})
      /\ \A x \in Points : Par(cube, S \cup {C1, C2}, x) <=> x \in FunctionRead(added)
      /\ Cardinality(S) + 2 <= Cardinality(saved)
      /\ DataOK(cube[C1], lits[C1], qcost[C1]) /\ DataOK(cube[C2], lits[C2], qcost[C2])
  BY <1>1, <1>8 DEF Vain
<1>10. \A k \in Held : k \in Cells /\ k \notin Elements(free)
  BY <1>0, ListFacts
<1>11. Linkable(d, C1, C2)
  <2>1. C1 # C2
    BY <1>1, <1>3 DEF LinkOK
  <2>2. ASSUME NEW n \in 0 .. 31, link.el[n] # NULL
        PROVE  /\ n \in ELCubes(d) /\ link.el[n] # C1 /\ link.el[n] # C2
               /\ link.el[n] \notin Elements(free)
               /\ cube[link.el[n]] = ELCube(cube[C1], cube[C2], n)
    <3>1. link.el[n] \in M
      BY <1>6, <2>2 DEF MadeCells
    <3>. QED
      BY <1>1, <1>3, <1>7, <1>9, <1>10, <2>2, <3>1 DEF LinkOK
  <2>3. \A m, n \in 0 .. 31 : link.el[m] = link.el[n] /\ link.el[m] # NULL => m = n
    BY <1>3 DEF LinkOK
  <2>. QED
    BY <1>7, <1>9, <1>10, <2>1, <2>2, <2>3 DEF Linkable, DataOK
<1>12. Unpaired(S, saved', d, C1, C2)
  <2>1. /\ S \cap Elements(free) = {} /\ Cells \ (S \cup Elements(free)) = {C1, C2} \cup MadeCells(link)
    BY <1>0, <1>6, <1>7 DEF PlacesInv
  <2>2. saved \in SUBSET Cube /\ IsFiniteSet(saved) /\ Cardinality(saved) <= pass.nBefore
    BY <1>0, <1>3 DEF TypeOK, SizeInv
  <2>. QED
    BY <1>2, <1>9, <2>1, <2>2 DEF Unpaired
<1>13. S = Elements(list') /\ list' \in Seq(Cells) /\ Distinct(list')
  BY <1>0, <1>2, <1>6 DEF TypeOK, PlacesInv
<1>14. \A k \in Cells : fMark[k] => d # 2 /\ k \in MadeCells(link)
  BY <1>0, <1>1 DEF MarksInv, Made, MadeCells
<1>15. /\ que' \in Queues
       /\ \A e \in Distances : QueueOK(que'[e], Places, TRUE, e = d, pass.stop)
  BY <1>0, <1>1, <1>2, <1>3, RewindQueues
<1>. QED
  BY <1>2, <1>3, <1>4, <1>5, <1>11, <1>12, <1>13, <1>14, <1>15, CreateStep

LEMMA LinkPairStep == ASSUME IInv, LinkPair PROVE IInv'
<1>0. /\ TypeOK /\ PhaseInv /\ QueueInv /\ PlacesInv /\ MarksInv /\ DataInv /\ ApartInv /\ SizeInv
      /\ LedgerInv
  BY DEF IInv
<1>1. PICK d, C1, C2, g : /\ d = link.dist /\ C1 = Taken.p1 /\ C2 = Taken.p2
                          /\ g = NextGroupOf(d, {}, cube[C1], cube[C2])
  OBVIOUS
<1>2. /\ pc = "next" /\ ValidAt # {} /\ ~Outdated /\ Create(d, g, C1, C2)
      /\ list' = Without(Without(list, C1), C2)
      /\ que' = MarkSet(MovedOut(Queue.out + Smallest(ValidAt) + 1))
      /\ saved' = Cover /\ pc' = "probe"
      /\ UNCHANGED <<args, added, fMark, enabled, store, chk, pass>>
  BY <1>1 DEF LinkPair
<1>3. /\ ~Linking /\ NoLink(link) /\ Held = {} /\ Working = Elements(list)
  BY <1>0, <1>2, IdleFacts DEF Idle
<1>4. /\ link.el = [n \in 0 .. 31 |-> NULL] /\ link.visited = {} /\ MadeCells(link) = {}
      /\ \A n \in 0 .. 31 : link.el[n] = NULL
  BY <1>3 DEF NoLink, MadeCells
<1>5. d \in Distances
  BY <1>0, <1>1, LinkType
<1>6. g \in 1 .. Groups(d) /\ link.visited \subseteq 1 .. Groups(d)
  <2>1. PICK n \in 2 .. 24 : n = Groups(d)
    BY <1>5, TableDomain
  <2>2. {} # 1 .. n
    BY <2>1
  <2>3. {} \in SUBSET (1 .. Groups(d)) /\ {} # 1 .. Groups(d)
    BY <2>1, <2>2
  <2>4. g \in 1 .. Groups(d)
    BY <1>1, <1>5, <2>3, NextGroupFacts
  <2>. QED
    BY <1>4, <2>4
<1>7. /\ C1 \in Elements(list) /\ C2 \in Elements(list) /\ Distance(cube[C1], cube[C2]) = d
      /\ Smallest(ValidAt) \in Waiting
  BY <1>1, <1>2, IInv, TakenFacts DEF Outdated
<1>8. C1 # C2
  <2>1. Distance(cube[C1], cube[C2]) # 0
    BY <1>5, <1>7 DEF Distances
  <2>2. Distance(cube[C1], cube[C1]) = 0
    BY DifferFacts
  <2>. QED
    BY <2>1, <2>2
<1>9. PICK L, S : L = Elements(list) /\ S = L \ {C1, C2}
  OBVIOUS
<1>10. list' \in Seq(Cells) /\ Distinct(list') /\ Elements(list') = S
  <2>1. list \in Seq(Cells) /\ Distinct(list)
    BY <1>0 DEF TypeOK, PlacesInv
  <2>2. PICK s : s = Without(list, C1)
    OBVIOUS
  <2>3. s \in Seq(Cells) /\ Distinct(s) /\ Elements(s) = L \ {C1}
    BY <1>7, <1>9, <2>1, <2>2, WithoutFacts
  <2>4. C2 \in Elements(s)
    BY <1>7, <1>8, <1>9, <2>3
  <2>5. list' = Without(s, C2)
    BY <1>2, <2>2
  <2>. QED
    BY <1>9, <2>3, <2>4, <2>5, WithoutFacts
<1>11. \A k \in L : k \in Cells /\ ID[k] # 0 /\ k \notin Elements(free)
  BY <1>0, <1>9, ListFacts
<1>12. Linkable(d, C1, C2)
  <2>1. DataOK(cube[C1], lits[C1], qcost[C1]) /\ DataOK(cube[C2], lits[C2], qcost[C2])
    BY <1>0, <1>7, <1>9, <1>11 DEF DataInv
  <2>. QED
    BY <1>4, <1>7, <1>8, <1>9, <1>11, <2>1 DEF Linkable, DataOK
<1>13. S \cup {C1, C2} = L
  BY <1>7, <1>9
<1>14. /\ Cover \in SUBSET Cube /\ IsFiniteSet(Cover) /\ Cardinality(Cover) = Cardinality(L)
  BY <1>0, <1>9, CoverFacts
<1>15. IsFiniteSet(L) /\ Cardinality(L) = Len(list) /\ Len(list) \in Nat
  BY <1>0, <1>9, ListFacts
<1>16. \A a, b \in L : cube[a] = cube[b] => a = b
  BY <1>0, <1>9, <1>15, CoverSize DEF ApartInv
<1>17. Unpaired(S, saved', d, C1, C2)
  <2>1. S \cap Elements(free) = {} /\ Cells \ (S \cup Elements(free)) = {C1, C2} \cup MadeCells(link)
    <3>1. Cells \ (L \cup Elements(free)) = {} /\ L \cap Elements(free) = {}
      BY <1>0, <1>3, <1>9 DEF PlacesInv
    <3>2. C1 \in L /\ C2 \in L /\ L \subseteq Cells
      BY <1>7, <1>9, <1>11
    <3>. QED
      BY <1>4, <1>9, <3>1, <3>2
  <2>2. Cardinality(Cover) <= pass.nBefore
    BY <1>0, <1>2, <1>14, <1>15 DEF SizeInv
  <2>3. {cube[a] : a \in S} = Cover \ {cube[C1], cube[C2]}
    <3>1. Cover = {cube[a] : a \in L}
      BY <1>9 DEF Cover
    <3>. QED
      BY <1>7, <1>9, <1>16, <3>1
  <2>4. Apart(cube, S \cup {C1, C2})
    BY <1>0, <1>9, <1>13 DEF ApartInv
  <2>5. \A x \in Points : Par(cube, S \cup {C1, C2}, x) <=> x \in FunctionRead(added)
    BY <1>0, <1>3, <1>9, <1>13 DEF LedgerInv
  <2>6. Cardinality(S) + 2 <= Cardinality(Cover)
    <3>1. PICK T : T = L \ {C1}
      OBVIOUS
    <3>2. IsFiniteSet(T) /\ Cardinality(T) = Cardinality(L) - 1
      BY <1>7, <1>9, <1>15, <3>1, FS_RemoveElement
    <3>3. S = T \ {C2} /\ C2 \in T
      BY <1>7, <1>8, <1>9, <3>1
    <3>4. Cardinality(S) = Cardinality(T) - 1
      BY <3>2, <3>3, FS_RemoveElement
    <3>. QED
      BY <1>14, <1>15, <3>2, <3>4
  <2>. QED
    BY <1>2, <1>7, <1>14, <2>1, <2>2, <2>3, <2>4, <2>5, <2>6 DEF Unpaired
<1>18. \A k \in Cells : fMark[k] => d # 2 /\ k \in MadeCells(link)
  BY <1>0, <1>3 DEF MarksInv
<1>19. PICK j \in Waiting : j = Smallest(ValidAt)
  BY <1>7
<1>20. PICK qs : qs = [que EXCEPT ![d].out = (Queue.out + j + 1) % nPosAlloc]
  OBVIOUS
<1>21. que' = MarkSet(qs)
  BY <1>1, <1>2, <1>19, <1>20 DEF MovedOut
<1>22. que \in Queues
  BY <1>0 DEF TypeOK
<1>23. qs \in Queues
  <2>1. Queue.out + j + 1 \in Int
    BY <1>0, <1>1, <1>5, QueueType DEF Queue, Waiting
  <2>2. (Queue.out + j + 1) % nPosAlloc \in Places
    BY <1>0, <2>1, CellsFacts, ModFacts DEF Places
  <2>. QED
    BY <1>5, <1>20, <1>22, <2>2 DEF Queues
<1>24. ASSUME NEW e \in Distances PROVE QueueOK(qs[e], Places, FALSE, e = d, pass.stop)
  <2>1. QueueOK(que[e], Places, Linking, InPass /\ e = link.dist, pass.stop)
    BY <1>0 DEF QueueInv
  <2>2. CASE e # d
    <3>1. qs[e] = que[e]
      BY <1>20, <1>22, <2>2 DEF Queues
    <3>. QED
      BY <1>1, <1>3, <2>1, <2>2, <3>1 DEF QueueOK
  <2>3. CASE e = d
    <3>1. qs[e] = [Queue EXCEPT !.out = (Queue.out + j + 1) % nPosAlloc]
      BY <1>1, <1>20, <1>22, <2>3 DEF Queues, Queue
    <3>2. QueueOK(qs[e], Places, FALSE, TRUE, pass.stop)
      BY <1>0, <1>2, <3>1, ReadPair
    <3>. QED
      BY <2>3, <3>2 DEF QueueOK
  <2>. QED
    BY <2>2, <2>3
<1>25. ASSUME NEW e \in Distances
       PROVE  /\ que'[e] \in [buf : [Places -> Pairs], out : Places, in : Places, mark : Places]
              /\ QueueOK(que'[e], Places, TRUE, e = d, pass.stop)
  <2>1. PICK q, r : q = qs[e] /\ r = que'[e]
    OBVIOUS
  <2>2. q \in [buf : [Places -> Pairs], out : Places, in : Places, mark : Places]
    BY <1>23, <2>1 DEF Queues
  <2>3. r = [q EXCEPT !.mark = q.in]
    BY <1>21, <2>1 DEF MarkSet
  <2>4. /\ r \in [buf : [Places -> Pairs], out : Places, in : Places, mark : Places]
        /\ r.buf = q.buf /\ r.out = q.out /\ r.in = q.in /\ r.mark = q.in
    BY <2>2, <2>3
  <2>5. QueueOK(q, Places, FALSE, e = d, pass.stop)
    BY <1>24, <2>1
  <2>6. q.in <= q.in
    <3>1. PICK n \in Nat : n = nPosAlloc /\ Places = 0 .. n - 1
      BY <1>0, CellsFacts DEF Places
    <3>2. q.in \in 0 .. n - 1
      BY <2>2, <3>1
    <3>. QED
      BY <3>2
  <2>7. QueueOK(r, Places, TRUE, e = d, pass.stop)
    BY <2>4, <2>5, <2>6 DEF QueueOK
  <2>. QED
    BY <2>1, <2>4, <2>7
<1>26. que' \in Queues
  <2>1. que' = [e \in Distances |-> que'[e]]
    BY <1>21 DEF MarkSet
  <2>. QED
    BY <1>25, <2>1 DEF Queues
<1>27. /\ UNCHANGED <<args, added, fMark, enabled, store, chk, pass>> /\ pc' = "probe"
       /\ Create(d, g, C1, C2) /\ S = Elements(list') /\ list' \in Seq(Cells) /\ Distinct(list')
       /\ \A e \in Distances : QueueOK(que'[e], Places, TRUE, e = d, pass.stop)
  BY <1>2, <1>10, <1>25
<1>. QED
  BY <1>5, <1>6, <1>12, <1>17, <1>18, <1>26, <1>27, CreateStep

-----------------------------------------------------------------------------
(* The cells made for the pair, those of the group in K left out.           *)
Returned(K) == {link.el[n] : n \in Made \ K}

LEMMA TableIsSmall == \A d \in Distances : ELCubes(d) \subseteq 0 .. 31
<1>1. ELCubes(2) \subseteq 0 .. 31
  BY DEF ELCubes
<1>2. ELCubes(3) \subseteq 0 .. 31
  BY DEF ELCubes
<1>3. ELCubes(4) \subseteq 0 .. 31
  BY DEF ELCubes
<1>. QED
  BY <1>1, <1>2, <1>3 DEF Distances

Down == [i \in 1 .. 32 |-> 32 - i]
MadeFor == {n \in ELCubes(link.dist) : link.el[n] # NULL}
LastOf(K) == Chosen([i \in 1 .. 32 |-> 32 - i], MadeFor \ K)
BackOf(K) == [i \in DOMAIN LastOf(K) |-> link.el[LastOf(K)[i]]]

LEMMA MadeIs ==
  ASSUME LinkOK(link), link.dist \in Distances
  PROVE  MadeFor = Made
<1>1. \A n \in 0 .. 31 : link.el[n] # NULL => n \in ELCubes(link.dist)
  BY DEF LinkOK
<1>. QED
  BY <1>1, TableIsSmall DEF Made, MadeFor

LEMMA DownFacts == Down \in Seq(0 .. 31) /\ Distinct(Down) /\ Elements(Down) = 0 .. 31
<1>1. \A i \in 1 .. 32 : Down[i] \in 0 .. 31 /\ Down[i] = 32 - i
  BY DEF Down
<1>2. DOMAIN Down = 1 .. 32 /\ Down \in [1 .. 32 -> 0 .. 31]
  BY DEF Down
<1>3. Down \in Seq(0 .. 31)
  BY <1>2, AsSeq
<1>4. Distinct(Down)
  BY <1>1, <1>2 DEF Distinct
<1>5. ASSUME NEW n \in 0 .. 31 PROVE \E i \in 1 .. 32 : Down[i] = n
  <2>1. 32 - n \in 1 .. 32 /\ 32 - (32 - n) = n
    OBVIOUS
  <2>. QED
    BY <1>1, <2>1
<1>6. Elements(Down) = 0 .. 31
  BY <1>1, <1>2, <1>5 DEF Elements
<1>. QED
  BY <1>3, <1>4, <1>6

LEMMA BackFacts ==
  ASSUME TypeOK, LinkOK(link), link.dist \in Distances, NEW K
  PROVE  BackOf(K) \in Seq(Cells) /\ Distinct(BackOf(K)) /\ Elements(BackOf(K)) = Returned(K)
<1>1. PICK last, back : last = LastOf(K) /\ back = BackOf(K)
  OBVIOUS
<1>2. last \in Seq(0 .. 31) /\ Distinct(last) /\ Elements(last) = Made \ K
  <2>1. PICK S, D, T : S = 0 .. 31 /\ D = Down /\ T = Made \ K
    OBVIOUS
  <2>2. D \in Seq(S) /\ Distinct(D) /\ Elements(D) = S
    BY <2>1, DownFacts
  <2>3. last = Chosen(D, T)
    BY <1>1, <2>1, MadeIs DEF LastOf, Down
  <2>4. last \in Seq(S) /\ Distinct(last) /\ Elements(last) = S \cap T
    BY <2>2, <2>3, ChosenFacts
  <2>5. Made \subseteq 0 .. 31
    BY DEF Made
  <2>. QED
    BY <2>1, <2>4, <2>5
<1>3. PICK m \in Nat : m = Len(last) /\ DOMAIN last = 1 .. m
  <2>1. PICK S : S = 0 .. 31 /\ last \in Seq(S)
    BY <1>2
  <2>. QED
    BY <2>1, SeqFacts
<1>4. \A i \in 1 .. m : last[i] \in Made /\ last[i] \notin K
  BY <1>2, <1>3 DEF Elements
<1>5. \A n \in Made : n \in 0 .. 31 /\ link.el[n] # NULL /\ link.el[n] \in Cells
  <2>1. link.el \in [0 .. 31 -> 0 .. nCubesAlloc]
    BY LinkType
  <2>. QED
    BY <2>1, CellsFacts DEF Made
<1>6. back = [i \in 1 .. m |-> link.el[last[i]]]
  BY <1>1, <1>3 DEF BackOf
<1>7. DOMAIN back = 1 .. m /\ back = [i \in 1 .. m |-> back[i]]
  BY <1>6
<1>8. \A i \in 1 .. m : back[i] = link.el[last[i]] /\ back[i] \in Cells
  BY <1>4, <1>5, <1>6
<1>9. back \in Seq(Cells)
  <2>1. back \in [1 .. m -> Cells]
    BY <1>7, <1>8
  <2>. QED
    BY <2>1, AsSeq
<1>10. Distinct(back)
  <2>1. ASSUME NEW i \in 1 .. m, NEW j \in 1 .. m, back[i] = back[j] PROVE i = j
    <3>1. last[i] \in Made /\ last[j] \in Made /\ link.el[last[i]] = link.el[last[j]]
      BY <1>4, <1>8, <2>1
    <3>2. last[i] = last[j]
      BY <1>5, <3>1 DEF LinkOK
    <3>. QED
      BY <1>2, <1>3, <3>2 DEF Distinct
  <2>. QED
    BY <1>7, <2>1 DEF Distinct
<1>11. Elements(back) = Returned(K)
  <2>1. Elements(back) = {back[i] : i \in 1 .. m}
    BY <1>7 DEF Elements
  <2>2. \A n : n \in Made \ K <=> \E i \in 1 .. m : last[i] = n
    BY <1>2, <1>3 DEF Elements
  <2>3. ASSUME NEW i \in 1 .. m PROVE back[i] \in Returned(K)
    BY <1>8, <2>2 DEF Returned
  <2>4. ASSUME NEW n \in Made \ K PROVE link.el[n] \in Elements(back)
    <3>1. PICK i \in 1 .. m : last[i] = n
      BY <2>2
    <3>. QED
      BY <1>8, <2>1, <3>1
  <2>5. Elements(back) \subseteq Returned(K)
    BY <2>1, <2>3
  <2>6. Returned(K) \subseteq Elements(back)
    BY <2>4 DEF Returned
  <2>. QED
    BY <2>5, <2>6
<1>. QED
  BY <1>1, <1>9, <1>10, <1>11

LEMMA CleanUpFacts ==
  ASSUME TypeOK, MarksInv, Distinct(free), LinkOK(link), link.dist \in Distances, args' = args,
         NEW take \in BOOLEAN, NEW more \in Seq(Cells), Distinct(more), CleanUp(take, more),
         NEW K, K = IF take THEN Elements(Rules[link.group]) ELSE {},
         NEW B, B = Returned(K),
         Elements(more) \cap Elements(free) = {}, Elements(more) \cap B = {},
         B \cap Elements(free) = {}
  PROVE  /\ free' \in Seq(Cells) /\ Distinct(free')
         /\ Elements(free') = Elements(free) \cup Elements(more) \cup B
         /\ ID' \in [Cells -> 0 .. LastID]
         /\ \A k \in Cells : ID'[k] = IF k \in Elements(more) \cup B THEN 0 ELSE ID[k]
         /\ fMark' \in [Cells -> BOOLEAN] /\ \A k \in Cells : ~fMark'[k]
         /\ link' \in Links /\ NoLink(link') /\ link'.dist = link.dist
<1>1. K = IF take THEN Elements(Rules[link.group]) ELSE {}
  OBVIOUS
<1>2. MadeFor = Made
  BY MadeIs
<1>3. PICK back : back = BackOf(K)
  OBVIOUS
<1>4. back \in Seq(Cells) /\ Distinct(back) /\ Elements(back) = B
  BY <1>3, BackFacts
<1>5. free' = more \o back \o free
  <2>1. free' = more \o BackOf(IF take THEN Elements(Rules[link.group]) ELSE {}) \o free
    BY DEF CleanUp, BackOf, LastOf, MadeFor
  <2>. QED
    BY <1>1, <1>3, <2>1
<1>6. ID' = [k \in Cells |-> IF k \in Elements(more) \cup B THEN 0 ELSE ID[k]]
  <2>1. ID' = [k \in Cells |->
                 IF k \in Elements(more)
                           \cup Elements(BackOf(IF take THEN Elements(Rules[link.group]) ELSE {}))
                 THEN 0 ELSE ID[k]]
    BY DEF CleanUp, BackOf, LastOf, MadeFor
  <2>. QED
    BY <1>1, <1>3, <1>4, <2>1
<1>7. fMark' = [k \in Cells |-> fMark[k] /\ \A n \in MadeFor : link.el[n] # k]
  BY DEF CleanUp, MadeFor
<1>8. link' = [link EXCEPT !.C1 = NULL, !.C2 = NULL, !.el = [n \in 0 .. 31 |-> NULL],
                           !.visited = {}, !.ins = {}, !.gain = 0]
  BY DEF CleanUp
<1>9. free' \in Seq(Cells) /\ Distinct(free') /\ Elements(free') = Elements(free) \cup Elements(more) \cup B
  <2>1. PICK s : s = more \o back
    OBVIOUS
  <2>2. s \in Seq(Cells) /\ Elements(s) = Elements(more) \cup B /\ Distinct(s)
    BY <1>4, <2>1, ConcatFacts
  <2>3. free \in Seq(Cells)
    BY DEF TypeOK
  <2>4. free' = s \o free
    BY <1>5, <2>1
  <2>5. Elements(s) \cap Elements(free) = {}
    BY <2>2
  <2>6. free' \in Seq(Cells) /\ Elements(free') = Elements(s) \cup Elements(free) /\ Distinct(free')
    BY <2>2, <2>3, <2>4, <2>5, ConcatFacts
  <2>. QED
    BY <2>2, <2>6
<1>10. /\ ID' \in [Cells -> 0 .. LastID]
       /\ \A k \in Cells : ID'[k] = IF k \in Elements(more) \cup B THEN 0 ELSE ID[k]
  <2>1. ID \in [Cells -> 0 .. LastID] /\ LastID \in Nat
    BY ExorcismAssumption DEF TypeOK
  <2>. QED
    BY <1>6, <2>1
<1>11. fMark' \in [Cells -> BOOLEAN] /\ \A k \in Cells : ~fMark'[k]
  <2>1. fMark' \in [Cells -> BOOLEAN]
    BY <1>7
  <2>2. ASSUME NEW k \in Cells, fMark'[k] PROVE FALSE
    <3>1. fMark[k] /\ \A n \in MadeFor : link.el[n] # k
      BY <1>7, <2>2
    <3>. QED
      BY <1>2, <3>1 DEF MarksInv
  <2>. QED
    BY <2>1, <2>2
<1>12. link' \in Links /\ NoLink(link') /\ link'.dist = link.dist
  <2>1. PICK l, n : l = link /\ n = nCubesAlloc
    OBVIOUS
  <2>2. PICK f : f = [m \in 0 .. 31 |-> NULL]
    OBVIOUS
  <2>3. n \in Nat /\ NULL \in 0 .. n
    BY <2>1, CellsFacts DEF NULL
  <2>4. f \in [0 .. 31 -> 0 .. n]
    BY <2>2, <2>3
  <2>5. l \in [dist : Distances, C1 : 0 .. n, C2 : 0 .. n, el : [0 .. 31 -> 0 .. n],
               visited : SUBSET (1 .. 24), group : 0 .. 24, c : 0 .. 5, ins : SUBSET (1 .. 4),
               gain : Nat]
    BY <2>1 DEF TypeOK, Links
  <2>6. PICK k : k = [l EXCEPT !.C1 = NULL, !.C2 = NULL, !.el = f, !.visited = {}, !.ins = {}, !.gain = 0]
    OBVIOUS
  <2>7. k \in [dist : Distances, C1 : 0 .. n, C2 : 0 .. n, el : [0 .. 31 -> 0 .. n],
               visited : SUBSET (1 .. 24), group : 0 .. 24, c : 0 .. 5, ins : SUBSET (1 .. 4),
               gain : Nat]
    BY <2>3, <2>4, <2>5, <2>6
  <2>8. k.C1 = NULL /\ k.el = f /\ k.visited = {} /\ k.dist = l.dist
    BY <2>5, <2>6
  <2>9. link' = k
    BY <1>8, <2>1, <2>2, <2>6
  <2>10. link' \in Links
    BY <2>1, <2>7, <2>9, SameArgs DEF Links
  <2>. QED
    BY <2>1, <2>2, <2>8, <2>9, <2>10 DEF NoLink
<1>. QED
  BY <1>9, <1>10, <1>11, <1>12

-----------------------------------------------------------------------------
(* The end of an ExorLink: nothing is in hand any more.                     *)
LEMMA EndLinkStep ==
  ASSUME IInv, Linking, pc' = "next",
         UNCHANGED <<args, added, cube, lits, qcost, cIDs, enabled, store, chk, pass, saved>>,
         free' \in Seq(Cells), Distinct(free'), NEW F, F \subseteq Cells,
         Elements(free') = Elements(free) \cup F,
         ID' \in [Cells -> 0 .. LastID],
         \A k \in Cells : ID'[k] = IF k \in F THEN 0 ELSE ID[k],
         fMark' \in [Cells -> BOOLEAN], \A k \in Cells : ~fMark'[k],
         link' \in Links, NoLink(link'), link'.dist = link.dist,
         list' \in Seq(Cells), Distinct(list'), NEW L, L = Elements(list'),
         L \cap Elements(free) = {}, L \cap F = {}, Cells \subseteq L \cup F \cup Elements(free),
         Apart(cube, L), \A x \in Points : Par(cube, L, x) <=> x \in FunctionRead(added),
         Len(list') <= pass.nBefore,
         que' \in Queues,
         \A e \in Distances : QueueOK(que'[e], Places, FALSE, e = link.dist, pass.stop)
  PROVE  IInv'
<1>0. TypeOK /\ PlacesInv /\ DataInv
  BY DEF IInv
<1>1. /\ Cells' = Cells /\ Places' = Places /\ FunctionRead(added)' = FunctionRead(added)
      /\ Elements(list)' = L /\ Elements(free)' = Elements(free) \cup F
  BY SameArgs DEF Elements
<1>2. /\ ~Linking' /\ InScan' = {} /\ Held' = {} /\ Owed' = {} /\ Working' = L
      /\ ~Adding' /\ ~Probing' /\ ~Inserting' /\ InPass'
  BY <1>1 DEF NoLink, Linking, InScan, Held, Owed, Working, Adding, Probing, Inserting, InPass
<1>3. PlacesInv'
  <2>1. \A k \in Cells : ID[k] = 0 <=> k \in Elements(free)
    BY <1>0 DEF PlacesInv
  <2>2. \A k \in Cells : ID'[k] = 0 <=> k \in Elements(free) \cup F
    BY <2>1
  <2>3. Distinct(list)' /\ Distinct(free)'
    BY DEF Distinct
  <2>4. Cells \ (L \cup (Elements(free) \cup F)) = {} /\ L \cap (Elements(free) \cup F) = {}
    OBVIOUS
  <2>. QED
    BY <1>1, <1>2, <2>2, <2>3, <2>4 DEF PlacesInv
<1>4. MarksInv'
  BY <1>1 DEF MarksInv
<1>5. PhaseInv'
  BY <1>2 DEF PhaseInv
<1>6. QueueInv'
  <2>1. SUFFICES ASSUME NEW e \in Distances
        PROVE  QueueOK(que'[e], Places, Linking', InPass' /\ e = link.dist, pass.stop)
    BY <1>1 DEF QueueInv
  <2>2. QueueOK(que'[e], Places, FALSE, e = link.dist, pass.stop)
    OBVIOUS
  <2>. QED
    BY <1>2, <2>2 DEF QueueOK
<1>7. DataInv'
  <2>1. \A k \in Cells : ID'[k] # 0 => ID[k] # 0
    OBVIOUS
  <2>. QED
    BY <1>0, <1>1, <2>1 DEF DataInv
<1>8. ApartInv' /\ LedgerInv'
  BY <1>1, <1>2 DEF ApartInv, LedgerInv
<1>9. VainInv' /\ UndoInv' /\ TwoInv'
  BY <1>2 DEF VainInv, UndoInv, Undoable, TwoInv
<1>10. SizeInv'
  BY <1>2 DEF SizeInv
<1>11. TypeOK'
  BY <1>0, SameArgs DEF TypeOK
<1>. QED
  BY <1>3, <1>4, <1>5, <1>6, <1>7, <1>8, <1>9, <1>10, <1>11 DEF IInv

(* The queues when nothing was put into them.                               *)
LEMMA SameQueues ==
  ASSUME IInv, Linking, NEW e \in Distances
  PROVE  QueueOK(que[e], Places, FALSE, e = link.dist, pass.stop)
<1>1. QueueOK(que[e], Places, TRUE, e = link.dist, pass.stop)
  BY DEF IInv, QueueInv, InPass
<1>. QED
  BY <1>1 DEF QueueOK

(* What the cells of the last group are.                                    *)
LEMMA KeptFacts ==
  ASSUME TypeOK, LinkOK(link), link.dist \in Distances
  PROVE  /\ Returned(Elements(Rules[link.group])) = MadeCells(link) \ GCs(link, 1 .. link.dist)
         /\ Returned({}) = MadeCells(link)
<1>1. PICK r : r = GroupRules(link.dist)[link.group]
  OBVIOUS
<1>2. link.group \in 1 .. Groups(link.dist)
  BY GroupFacts
<1>3. Row(r, link.dist)
  BY <1>1, <1>2, TableRows
<1>4. Elements(Rules[link.group]) = {r[i] : i \in 1 .. link.dist}
  BY <1>1, <1>3 DEF Row, Elements, Rules
<1>5. Made = {m \in 0 .. 31 : link.el[m] # NULL}
  BY DEF Made
<1>6. PICK I \in SUBSET (1 .. link.dist) : I = 1 .. link.dist
  OBVIOUS
<1>7. {link.el[n] : n \in {m \in 0 .. 31 : link.el[m] # NULL}
                            \ {GroupRules(link.dist)[link.group][i] : i \in I}}
        = MadeCells(link) \ GCs(link, I)
  BY GroupFacts
<1>8. Returned(Elements(Rules[link.group])) = MadeCells(link) \ GCs(link, I)
  BY <1>1, <1>4, <1>5, <1>6, <1>7 DEF Returned
<1>9. Returned({}) = MadeCells(link)
  BY <1>5 DEF Returned, MadeCells
<1>. QED
  BY <1>6, <1>8, <1>9

LEMMA AcceptGroupStep ==
  ASSUME IInv, AcceptGroup
  PROVE  IInv' /\ Len(list') <= Cardinality(saved)
<1>0. /\ TypeOK /\ PhaseInv /\ PlacesInv /\ MarksInv /\ ApartInv /\ LedgerInv /\ SizeInv
  BY DEF IInv
<1>1. PICK more, F : /\ more = <<link.C2, link.C1>>
                     /\ F = {link.C1, link.C2} \cup (MadeCells(link) \ GCs(link, 1 .. link.dist))
  OBVIOUS
<1>2. /\ pc = "insert" /\ link.ins = 1 .. link.dist /\ CleanUp(TRUE, more) /\ pc' = "next"
      /\ UNCHANGED <<args, added, cube, lits, qcost, list, cIDs, que, enabled, store, chk, pass, saved>>
  BY <1>1 DEF AcceptGroup
<1>3. Linking /\ LinkOK(link) /\ link.dist \in Distances
  BY <1>0, <1>2, LinkingIs
<1>4. Given = 1 .. link.dist /\ InScan = {} /\ Touched
  <2>1. ~Merging /\ InScan = {}
    BY <1>2 DEF Merging, InScan
  <2>2. link.ins # {}
    BY <1>0, <1>2 DEF PhaseInv, Inserting
  <2>. QED
    BY <1>2, <2>1, <2>2 DEF Given, Touched
<1>5. Owed = {} /\ Working = Elements(list)
  BY <1>3, <1>4 DEF Owed, Working
<1>6. Held = F
  <2>1. PICK I \in SUBSET (1 .. link.dist) : I = 1 .. link.dist
    OBVIOUS
  <2>2. Held = {link.C1, link.C2} \cup (MadeCells(link) \ GCs(link, I)) \cup InScan
    BY <1>3, <1>4, <2>1, HeldNow
  <2>. QED
    BY <1>1, <1>4, <2>1, <2>2
<1>7. /\ F \subseteq Cells /\ F \cap Elements(free) = {} /\ F \cap Elements(list) = {}
      /\ Elements(list) \cap Elements(free) = {} /\ Cells \subseteq Elements(list) \cup F \cup Elements(free)
  BY <1>0, <1>6, ListFacts DEF PlacesInv
<1>8. PICK K, B : K = Elements(Rules[link.group]) /\ B = Returned(K)
  OBVIOUS
<1>9. B = MadeCells(link) \ GCs(link, 1 .. link.dist)
  BY <1>0, <1>3, <1>8, KeptFacts
<1>10. more \in Seq(Cells) /\ Distinct(more) /\ Elements(more) = {link.C1, link.C2}
  <2>1. link.C1 \in Cells /\ link.C2 \in Cells /\ link.C1 # link.C2
    BY <1>1, <1>3, <1>7 DEF LinkOK
  <2>. QED
    BY <1>1, <2>1, TwoFacts
<1>11. Elements(more) \cap B = {}
  <2>1. \A n \in 0 .. 31 : link.el[n] # NULL => link.el[n] # link.C1 /\ link.el[n] # link.C2
    BY <1>3 DEF LinkOK
  <2>. QED
    BY <1>9, <1>10, <2>1 DEF MadeCells
<1>12. F = Elements(more) \cup B
  BY <1>1, <1>9, <1>10
<1>13. /\ free' \in Seq(Cells) /\ Distinct(free')
       /\ Elements(free') = Elements(free) \cup Elements(more) \cup B
       /\ ID' \in [Cells -> 0 .. LastID]
       /\ \A k \in Cells : ID'[k] = IF k \in Elements(more) \cup B THEN 0 ELSE ID[k]
       /\ fMark' \in [Cells -> BOOLEAN] /\ \A k \in Cells : ~fMark'[k]
       /\ link' \in Links /\ NoLink(link') /\ link'.dist = link.dist
  <2>1. PICK take \in BOOLEAN : take = TRUE
    OBVIOUS
  <2>2. K = (IF take THEN Elements(Rules[link.group]) ELSE {}) /\ CleanUp(take, more)
    BY <1>2, <1>8, <2>1
  <2>3. Elements(more) \cap Elements(free) = {} /\ B \cap Elements(free) = {}
    BY <1>7, <1>12
  <2>4. Distinct(free) /\ args' = args
    BY <1>0, <1>2 DEF PlacesInv
  <2>. QED
    BY <1>0, <1>3, <1>8, <1>10, <1>11, <2>2, <2>3, <2>4, CleanUpFacts
<1>14. PICK L : L = Elements(list)
  OBVIOUS
<1>15. /\ L = Elements(list') /\ list' \in Seq(Cells) /\ Distinct(list') /\ Apart(cube, L)
       /\ \A x \in Points : Par(cube, L, x) <=> x \in FunctionRead(added)
  BY <1>0, <1>2, <1>5, <1>14 DEF TypeOK, PlacesInv, ApartInv, LedgerInv
<1>16. Len(list') <= pass.nBefore /\ Len(list') <= Cardinality(saved)
  <2>1. Cardinality(Working) <= Cardinality(saved) /\ Cardinality(saved) <= pass.nBefore
    BY <1>0, <1>2, <1>3 DEF SizeInv, Inserting
  <2>2. Cardinality(L) = Len(list) /\ Len(list) \in Nat
    BY <1>0, <1>14, ListFacts
  <2>3. pass.nBefore \in Nat /\ Cardinality(saved) \in Nat
    BY <1>0, <1>3, PassType, FS_CardinalityType DEF SizeInv
  <2>. QED
    BY <1>2, <1>5, <1>14, <2>1, <2>2, <2>3
<1>17. que' \in Queues /\ \A e \in Distances : QueueOK(que'[e], Places, FALSE, e = link.dist, pass.stop)
  BY <1>0, <1>2, <1>3, SameQueues DEF TypeOK
<1>18. /\ L \cap Elements(free) = {} /\ L \cap F = {} /\ Cells \subseteq L \cup F \cup Elements(free)
       /\ Elements(free') = Elements(free) \cup F
       /\ \A k \in Cells : ID'[k] = IF k \in F THEN 0 ELSE ID[k]
  BY <1>7, <1>12, <1>13, <1>14
<1>. QED
  BY <1>2, <1>3, <1>7, <1>13, <1>15, <1>16, <1>17, <1>18, EndLinkStep

-----------------------------------------------------------------------------
(* The two cubes of an ExorLink-2 differ in both columns of the pair.       *)
LEMMA LastGroupApart ==
  ASSUME NEW p \in Cube, NEW q \in Cube, Distance(p, q) = 2, NEW g \in 1 .. Groups(2)
  PROVE  Distance(ELCube(p, q, GroupRules(2)[g][1]), ELCube(p, q, GroupRules(2)[g][2])) >= 2
<1>1. PICK D : Columns(D, p, q) /\ TableCubes(D, p, q)
  BY ELCubeColumns
<1>2. PICK u, v : u = D[1] /\ v = D[2]
  OBVIOUS
<1>3. /\ u \in Positions /\ v \in Positions /\ u # v /\ u \in Differ(p, q) /\ v \in Differ(p, q)
  <2>1. 1 \in 1 .. 2 /\ 2 \in 1 .. 2 /\ 1 # 2
    OBVIOUS
  <2>2. u \in Differ(p, q) /\ v \in Differ(p, q) /\ u # v
    BY <1>1, <1>2, <2>1 DEF Columns
  <2>. QED
    BY <2>2, DifferFacts
<1>4. p[u] # q[u] /\ p[v] # q[v]
  BY <1>3 DEF Differ
<1>5. /\ Xor(p[u], q[u]) # p[u] /\ Xor(p[u], q[u]) # q[u]
      /\ Xor(p[v], q[v]) # p[v] /\ Xor(p[v], q[v]) # q[v]
  BY <1>3, <1>4, XorValue
<1>6. ASSUME NEW n
      PROVE  /\ ELCube(p, q, n)[u] = Pick(Rule(2, n, 0), p[u], q[u])
             /\ ELCube(p, q, n)[v] = Pick(Rule(2, n, 1), p[v], q[v])
  <2>1. \A i \in 1 .. 2 : ELCube(p, q, n)[D[i]] = Pick(Rule(2, n, i - 1), p[D[i]], q[D[i]])
    BY <1>1 DEF TableCubes
  <2>2. 1 \in 1 .. 2 /\ 2 \in 1 .. 2 /\ 1 - 1 = 0 /\ 2 - 1 = 1
    OBVIOUS
  <2>. QED
    BY <1>2, <2>1, <2>2
<1>7. /\ Rule(2, 0, 0) = "vsX" /\ Rule(2, 0, 1) = "vs0" /\ Rule(2, 3, 0) = "vs1" /\ Rule(2, 3, 1) = "vsX"
      /\ Rule(2, 2, 0) = "vs0" /\ Rule(2, 2, 1) = "vsX" /\ Rule(2, 1, 0) = "vsX" /\ Rule(2, 1, 1) = "vs1"
  BY DEF Rule
<1>8. GroupRules(2)[g] = <<0, 3>> \/ GroupRules(2)[g] = <<2, 1>>
  BY DEF GroupRules, Groups
<1>9. PICK a, b : /\ a = ELCube(p, q, GroupRules(2)[g][1]) /\ b = ELCube(p, q, GroupRules(2)[g][2])
  OBVIOUS
<1>10. a[u] # b[u] /\ a[v] # b[v]
  <2>1. CASE GroupRules(2)[g] = <<0, 3>>
    BY <1>5, <1>6, <1>7, <1>9, <2>1 DEF Pick
  <2>2. CASE GroupRules(2)[g] = <<2, 1>>
    BY <1>5, <1>6, <1>7, <1>9, <2>2 DEF Pick
  <2>. QED
    BY <1>8, <2>1, <2>2
<1>11. {u, v} \subseteq Differ(a, b) /\ IsFiniteSet(Differ(a, b))
  BY <1>3, <1>10, DifferFacts DEF Differ
<1>12. Cardinality({u, v}) = 2
  <2>1. IsFiniteSet({u}) /\ Cardinality({u}) = 1
    BY FS_Singleton
  <2>2. Cardinality({u} \cup {v}) = Cardinality({u}) + 1
    BY <1>3, <2>1, FS_AddElement
  <2>3. {u} \cup {v} = {u, v}
    OBVIOUS
  <2>. QED
    BY <2>1, <2>2, <2>3
<1>13. Cardinality({u, v}) <= Cardinality(Differ(a, b))
  BY <1>11, FS_Subset
<1>. QED
  BY <1>9, <1>12, <1>13 DEF Distance

LEMMA TakeLastGroupStep ==
  ASSUME IInv, TakeLastGroup
  PROVE  IInv' /\ Len(list') <= Cardinality(saved)
<1>0. /\ TypeOK /\ PhaseInv /\ PlacesInv /\ MarksInv /\ ApartInv /\ VainInv /\ SizeInv /\ TwoInv
  BY DEF IInv
<1>1. PICK a, b, more, F :
        /\ a = GC(link, 1) /\ b = GC(link, 2)
        /\ more = <<link.C2, link.C1>>
        /\ F = {link.C1, link.C2} \cup (MadeCells(link) \ {a, b})
  OBVIOUS
<1>2. /\ pc = "failed" /\ link.dist = 2 /\ CleanUp(TRUE, more) /\ pc' = "next" /\ list' = <<b, a>> \o list
      /\ UNCHANGED <<args, added, cube, lits, qcost, cIDs, que, enabled, store, chk, pass, saved>>
  BY <1>1 DEF TakeLastGroup, Reshapes, GroupCell, Rules, GC
<1>3. Linking /\ LinkOK(link) /\ link.dist \in Distances /\ ~Touched /\ InScan = {}
  BY <1>0, <1>2, LinkingIs DEF Touched, InScan
<1>4. GCs(link, 1 .. link.dist) = {a, b} /\ a # b /\ a \in MadeCells(link) /\ b \in MadeCells(link)
  <2>1. 1 .. link.dist = {1, 2}
    BY <1>2
  <2>2. GCs(link, {1, 2}) = {a, b}
    BY <1>1 DEF GCs
  <2>3. a # b /\ a \in MadeCells(link) /\ b \in MadeCells(link)
    BY <1>1, <1>3, <2>1, GroupFacts
  <2>. QED
    BY <2>1, <2>2, <2>3
<1>5. Held = {link.C1, link.C2} \cup MadeCells(link)
  <2>1. {} \in SUBSET (1 .. link.dist) /\ GCs(link, {}) = {}
    BY DEF GCs
  <2>. QED
    BY <1>3, <2>1, HeldNow
<1>6. \A k \in MadeCells(link) : k # link.C1 /\ k # link.C2
  BY <1>3 DEF LinkOK, MadeCells
<1>7. PICK T, L : T = Elements(list) /\ L = T \cup {a, b}
  OBVIOUS
<1>8. /\ F \subseteq Cells /\ F \cap Elements(free) = {} /\ a \in Cells /\ b \in Cells
      /\ L \cap Elements(free) = {} /\ L \cap F = {} /\ Cells \subseteq L \cup F \cup Elements(free)
      /\ a \notin T /\ b \notin T
  <2>1. /\ Held \subseteq Cells /\ Held \cap Elements(free) = {} /\ Held \cap T = {} /\ T \cap Elements(free) = {}
        /\ Cells \subseteq T \cup Held \cup Elements(free)
    BY <1>0, <1>7, ListFacts DEF PlacesInv
  <2>. QED
    BY <1>1, <1>4, <1>5, <1>6, <1>7, <2>1
<1>9. PICK K, B : K = Elements(Rules[link.group]) /\ B = Returned(K)
  OBVIOUS
<1>10. B = MadeCells(link) \ {a, b}
  BY <1>0, <1>3, <1>4, <1>9, KeptFacts
<1>11. more \in Seq(Cells) /\ Distinct(more) /\ Elements(more) = {link.C1, link.C2}
  <2>1. link.C1 \in Cells /\ link.C2 \in Cells /\ link.C1 # link.C2
    BY <1>1, <1>3, <1>8 DEF LinkOK
  <2>. QED
    BY <1>1, <2>1, TwoFacts
<1>12. Elements(more) \cap B = {} /\ F = Elements(more) \cup B
  BY <1>1, <1>6, <1>10, <1>11
<1>13. /\ free' \in Seq(Cells) /\ Distinct(free')
       /\ Elements(free') = Elements(free) \cup Elements(more) \cup B
       /\ ID' \in [Cells -> 0 .. LastID]
       /\ \A k \in Cells : ID'[k] = IF k \in Elements(more) \cup B THEN 0 ELSE ID[k]
       /\ fMark' \in [Cells -> BOOLEAN] /\ \A k \in Cells : ~fMark'[k]
       /\ link' \in Links /\ NoLink(link') /\ link'.dist = link.dist
  <2>1. PICK take \in BOOLEAN : take = TRUE
    OBVIOUS
  <2>2. K = (IF take THEN Elements(Rules[link.group]) ELSE {}) /\ CleanUp(take, more)
    BY <1>2, <1>9, <2>1
  <2>3. Elements(more) \cap Elements(free) = {} /\ B \cap Elements(free) = {}
    BY <1>8, <1>12
  <2>4. Distinct(free) /\ args' = args
    BY <1>0, <1>2 DEF PlacesInv
  <2>. QED
    BY <1>0, <1>3, <1>9, <1>11, <1>12, <2>2, <2>3, <2>4, CleanUpFacts
<1>14. list' \in Seq(Cells) /\ Distinct(list') /\ Elements(list') = L
  <2>1. PICK s : s = <<b, a>>
    OBVIOUS
  <2>2. s \in Seq(Cells) /\ Elements(s) = {b, a} /\ Distinct(s)
    BY <1>4, <1>8, <2>1, TwoFacts
  <2>3. list \in Seq(Cells) /\ Distinct(list) /\ list' = s \o list
    BY <1>0, <1>2, <2>1 DEF TypeOK, PlacesInv
  <2>4. Elements(s) \cap Elements(list) = {}
    BY <1>7, <1>8, <2>2
  <2>5. list' \in Seq(Cells) /\ Distinct(list') /\ Elements(list') = Elements(s) \cup Elements(list)
    BY <2>2, <2>3, <2>4, ConcatFacts
  <2>. QED
    BY <1>7, <2>2, <2>5
<1>15. /\ \A x \in Points : Par(cube, L, x) <=> x \in FunctionRead(added)
       /\ IsFiniteSet(L) /\ Cardinality(L) + 2 <= Cardinality(saved) + 2
  <2>1. L = Elements(list) \cup GCs(link, 1 .. link.dist)
    BY <1>4, <1>7
  <2>2. PICK d : d = link.dist
    OBVIOUS
  <2>3. /\ \A x \in Points : Par(cube, L, x) <=> x \in FunctionRead(added)
        /\ IsFiniteSet(L) /\ Cardinality(L) + 2 <= Cardinality(saved) + d
    BY <1>3, <2>1, <2>2, SwapFacts
  <2>. QED
    BY <1>2, <2>2, <2>3
<1>16. Len(list') <= pass.nBefore /\ Len(list') <= Cardinality(saved)
  <2>1. Cardinality(saved) <= pass.nBefore /\ IsFiniteSet(saved)
    BY <1>0, <1>3 DEF SizeInv
  <2>2. Len(list') = Cardinality(L) /\ Len(list') \in Nat
    BY <1>14, CountElements, SeqFacts
  <2>3. pass.nBefore \in Nat /\ Cardinality(saved) \in Nat
    BY <1>0, <2>1, PassType, FS_CardinalityType
  <2>. QED
    BY <1>15, <2>1, <2>2, <2>3
<1>17. Apart(cube, L)
  <2>1. \A x \in T : Distance(cube[a], cube[x]) >= 2 /\ Distance(cube[b], cube[x]) >= 2
    <3>1. \A i \in 1 .. 2 : \A x \in T : Distance(cube[GC(link, i)], cube[x]) >= 2
      BY <1>0, <1>2, <1>3, <1>7 DEF TwoInv, Missed
    <3>2. 1 \in 1 .. 2 /\ 2 \in 1 .. 2
      OBVIOUS
    <3>. QED
      BY <1>1, <3>1, <3>2
  <2>2. Distance(cube[a], cube[b]) >= 2
    <3>1. Vain(Elements(list), cube, lits, qcost, link, saved, FunctionRead(added))
      BY <1>0, <1>3 DEF VainInv
    <3>2. PICK p, q, g : p = cube[link.C1] /\ q = cube[link.C2] /\ g = link.group
      OBVIOUS
    <3>3. Distance(p, q) = 2 /\ \A n \in 0 .. 31 : link.el[n] # NULL => cube[link.el[n]] = ELCube(p, q, n)
      BY <1>2, <3>1, <3>2 DEF Vain
    <3>4. p \in Cube /\ q \in Cube
      BY <3>1, <3>2 DEF Vain, DataOK
    <3>5. g \in 1 .. Groups(2)
      BY <1>2, <1>3, <3>2, GroupFacts
    <3>6. PICK r : r = GroupRules(2)[g]
      OBVIOUS
    <3>7. r[1] \in 0 .. 31 /\ r[2] \in 0 .. 31
      <4>1. Row(r, 2)
        BY <1>2, <1>3, <3>5, <3>6, TableRows
      <4>2. \A i \in 1 .. 2 : r[i] \in 0 .. 31
        BY <4>1, SeqFacts DEF Row
      <4>3. 1 \in 1 .. 2 /\ 2 \in 1 .. 2
        OBVIOUS
      <4>. QED
        BY <4>2, <4>3
    <3>8. a = link.el[r[1]] /\ b = link.el[r[2]]
      BY <1>1, <1>2, <3>2, <3>6 DEF GC
    <3>9. a # NULL /\ b # NULL
      BY <1>0, <1>8, CellsFacts
    <3>10. cube[a] = ELCube(p, q, r[1]) /\ cube[b] = ELCube(p, q, r[2])
      BY <3>3, <3>7, <3>8, <3>9
    <3>. QED
      BY <3>3, <3>4, <3>5, <3>6, <3>10, LastGroupApart
  <2>3. \A x, y \in T : x # y => Distance(cube[x], cube[y]) >= 2
    BY <1>0, <1>7 DEF ApartInv, Apart
  <2>4. SUFFICES ASSUME NEW x \in L, NEW y \in L, x # y PROVE Distance(cube[x], cube[y]) >= 2
    BY DEF Apart
  <2>5. Distance(cube[x], cube[y]) = Distance(cube[y], cube[x])
    BY DifferFacts
  <2>. QED
    BY <1>7, <2>1, <2>2, <2>3, <2>4, <2>5
<1>18. que' \in Queues /\ \A e \in Distances : QueueOK(que'[e], Places, FALSE, e = link.dist, pass.stop)
  BY <1>0, <1>2, <1>3, SameQueues DEF TypeOK
<1>19. /\ Elements(free') = Elements(free) \cup F
       /\ \A k \in Cells : ID'[k] = IF k \in F THEN 0 ELSE ID[k]
  BY <1>12, <1>13
<1>. QED
  BY <1>2, <1>3, <1>8, <1>13, <1>14, <1>15, <1>16, <1>17, <1>18, <1>19, EndLinkStep

LEMMA RestorePairStep ==
  ASSUME IInv, RestorePair
  PROVE  IInv' /\ Len(list') <= Cardinality(saved)
<1>0. /\ TypeOK /\ PhaseInv /\ PlacesInv /\ MarksInv /\ ApartInv /\ VainInv /\ SizeInv /\ QueueInv
  BY DEF IInv
<1>1. PICK a, b, more, F : a = link.C1 /\ b = link.C2 /\ more = <<>> /\ F = MadeCells(link)
  OBVIOUS
<1>2. /\ pc = "failed" /\ CleanUp(FALSE, more) /\ pc' = "next" /\ list' = <<b, a>> \o list
      /\ que' = MarkRewind
      /\ UNCHANGED <<args, added, cube, lits, qcost, cIDs, enabled, store, chk, pass, saved>>
  BY <1>1 DEF RestorePair
<1>3. Linking /\ LinkOK(link) /\ link.dist \in Distances /\ ~Touched /\ InScan = {}
  BY <1>0, <1>2, LinkingIs DEF Touched, InScan
<1>4. Held = {a, b} \cup F
  <2>1. {} \in SUBSET (1 .. link.dist) /\ GCs(link, {}) = {}
    BY DEF GCs
  <2>. QED
    BY <1>1, <1>3, <2>1, HeldNow
<1>5. a # b /\ \A k \in F : k # a /\ k # b
  BY <1>1, <1>3 DEF LinkOK, MadeCells
<1>6. PICK T, L : T = Elements(list) /\ L = T \cup {a, b}
  OBVIOUS
<1>7. /\ F \subseteq Cells /\ F \cap Elements(free) = {} /\ a \in Cells /\ b \in Cells
      /\ L \cap Elements(free) = {} /\ L \cap F = {} /\ Cells \subseteq L \cup F \cup Elements(free)
      /\ a \notin T /\ b \notin T
  <2>1. /\ Held \subseteq Cells /\ Held \cap Elements(free) = {} /\ Held \cap T = {} /\ T \cap Elements(free) = {}
        /\ Cells \subseteq T \cup Held \cup Elements(free)
    BY <1>0, <1>6, ListFacts DEF PlacesInv
  <2>. QED
    BY <1>4, <1>5, <1>6, <2>1
<1>8. more \in Seq(Cells) /\ Distinct(more) /\ Elements(more) = {}
  BY <1>1 DEF Distinct, Elements
<1>9. /\ free' \in Seq(Cells) /\ Distinct(free')
      /\ Elements(free') = Elements(free) \cup Elements(more) \cup F
      /\ ID' \in [Cells -> 0 .. LastID]
      /\ \A k \in Cells : ID'[k] = IF k \in Elements(more) \cup F THEN 0 ELSE ID[k]
      /\ fMark' \in [Cells -> BOOLEAN] /\ \A k \in Cells : ~fMark'[k]
      /\ link' \in Links /\ NoLink(link') /\ link'.dist = link.dist
  <2>1. PICK take, K : take = FALSE /\ K = {} /\ take \in BOOLEAN
    OBVIOUS
  <2>2. K = (IF take THEN Elements(Rules[link.group]) ELSE {}) /\ CleanUp(take, more)
    BY <1>2, <2>1
  <2>3. F = Returned(K)
    BY <1>0, <1>1, <1>3, <2>1, KeptFacts
  <2>4. Elements(more) \cap Elements(free) = {} /\ Elements(more) \cap F = {}
    BY <1>8
  <2>5. Distinct(free) /\ args' = args
    BY <1>0, <1>2 DEF PlacesInv
  <2>. QED
    BY <1>0, <1>3, <1>7, <1>8, <2>1, <2>2, <2>3, <2>4, <2>5, CleanUpFacts
<1>10. list' \in Seq(Cells) /\ Distinct(list') /\ Elements(list') = L
  <2>1. PICK s : s = <<b, a>>
    OBVIOUS
  <2>2. s \in Seq(Cells) /\ Elements(s) = {b, a} /\ Distinct(s)
    BY <1>5, <1>7, <2>1, TwoFacts
  <2>3. list \in Seq(Cells) /\ Distinct(list) /\ list' = s \o list
    BY <1>0, <1>2, <2>1 DEF TypeOK, PlacesInv
  <2>4. Elements(s) \cap Elements(list) = {}
    BY <1>6, <1>7, <2>2
  <2>5. list' \in Seq(Cells) /\ Distinct(list') /\ Elements(list') = Elements(s) \cup Elements(list)
    BY <2>2, <2>3, <2>4, ConcatFacts
  <2>. QED
    BY <1>6, <2>2, <2>5
<1>11. /\ Apart(cube, L) /\ \A x \in Points : Par(cube, L, x) <=> x \in FunctionRead(added)
       /\ Cardinality(T) + 2 <= Cardinality(saved)
  <2>1. Vain(T, cube, lits, qcost, link, saved, FunctionRead(added))
    BY <1>0, <1>3, <1>6 DEF VainInv
  <2>. QED
    BY <1>1, <1>6, <2>1 DEF Vain
<1>12. Len(list') <= pass.nBefore /\ Len(list') <= Cardinality(saved)
  <2>1. Cardinality(saved) <= pass.nBefore /\ IsFiniteSet(saved)
    BY <1>0, <1>3 DEF SizeInv
  <2>2. Len(list') = Cardinality(L) /\ Len(list') \in Nat
    BY <1>10, CountElements, SeqFacts
  <2>3. pass.nBefore \in Nat /\ Cardinality(saved) \in Nat
    BY <1>0, <2>1, PassType, FS_CardinalityType
  <2>4. IsFiniteSet(T) /\ Cardinality(T) \in Nat
    BY <1>0, <1>6, ListFacts
  <2>5. Cardinality(L) = Cardinality(T) + 2
    <3>1. PICK U : U = T \cup {a}
      OBVIOUS
    <3>2. IsFiniteSet(U) /\ Cardinality(U) = Cardinality(T) + 1 /\ b \notin U /\ L = U \cup {b}
      BY <1>5, <1>6, <1>7, <2>4, <3>1, FS_AddElement
    <3>3. Cardinality(L) = Cardinality(U) + 1
      BY <3>2, FS_AddElement
    <3>. QED
      BY <2>4, <3>2, <3>3
  <2>. QED
    BY <1>11, <2>1, <2>2, <2>3, <2>4, <2>5
<1>13. PICK qs : qs = que'
  OBVIOUS
<1>14. que' \in Queues /\ \A e \in Distances : QueueOK(que'[e], Places, FALSE, e = link.dist, pass.stop)
  <2>1. /\ qs \in Queues
        /\ \A e \in Distances : QueueOK(qs[e], Places, TRUE, e = link.dist, pass.stop)
    BY <1>0, <1>2, <1>3, <1>13, RewindQueues
  <2>2. ASSUME NEW e \in Distances PROVE QueueOK(qs[e], Places, FALSE, e = link.dist, pass.stop)
    <3>1. QueueOK(qs[e], Places, TRUE, e = link.dist, pass.stop)
      BY <2>1
    <3>. QED
      BY <3>1 DEF QueueOK
  <2>. QED
    BY <1>13, <2>1, <2>2
<1>15. /\ Elements(free') = Elements(free) \cup F
       /\ \A k \in Cells : ID'[k] = IF k \in F THEN 0 ELSE ID[k]
  BY <1>8, <1>9
<1>. QED
  BY <1>2, <1>3, <1>7, <1>9, <1>10, <1>11, <1>12, <1>14, <1>15, EndLinkStep

-----------------------------------------------------------------------------
(* The initial state.                                                       *)
LEMMA CallFacts ==
  ASSUME args \in Arguments
  PROVE  /\ args.esop \in Seq(Cube) /\ Len(args.esop) \in Nat
         /\ nCubesAlloc \in Nat /\ IsFiniteSet(Cells) /\ NULL \notin Cells
         /\ nPosAlloc \in Nat /\ nPosAlloc > 0
<1>1. args.esop \in Seq(Cube)
  BY ExorcismAssumption
<1>2. PICK l \in Nat : l = Len(args.esop)
  BY <1>1
<1>3. PICK a \in Nat : a = AdditionalCubes
  BY ExorcismAssumption
<1>4. PICK n : n = l + a
  OBVIOUS
<1>5. nCubesAlloc = n /\ n \in Nat
  BY <1>2, <1>3, <1>4 DEF nCubesAlloc
<1>6. Cells = 1 .. n
  BY <1>5 DEF Cells
<1>7. IsFiniteSet(Cells)
  BY <1>5, <1>6, FS_Interval
<1>8. PICK f \in Nat \ {0} : f = CubePairFactor /\ f <= a * a
  BY <1>3, ExorcismAssumption
<1>9. PICK m : m = n * n
  OBVIOUS
<1>10. m \in Nat /\ f <= m
  <2>1. n * n = l * l + 2 * (l * a) + a * a
    BY <1>4
  <2>2. l * l >= 0 /\ l * a >= 0 /\ a * a \in Nat /\ l * l \in Nat /\ l * a \in Nat
    OBVIOUS
  <2>3. \A r, s, t \in Nat : f <= t => f <= r + 2 * s + t /\ r + 2 * s + t \in Nat
    OBVIOUS
  <2>. QED
    BY <1>8, <1>9, <2>1, <2>2, <2>3
<1>11. m \div f \in Nat /\ m \div f > 0
  BY <1>8, <1>10
<1>. QED
  BY <1>1, <1>2, <1>5, <1>6, <1>7, <1>8, <1>9, <1>11 DEF NULL, nPosAlloc

LEMMA InitType == ASSUME Init PROVE TypeOK
<1>0. args \in Arguments
  BY DEF Init
<1>1. PICK n \in Nat : n = nCubesAlloc /\ Cells = 1 .. n /\ NULL = 0
  BY <1>0, CallFacts DEF Cells, NULL
<1>2. /\ cube \in [Cells -> Cube \cup {Blank}] /\ lits \in [Cells -> 0 .. N]
      /\ qcost \in [Cells -> Nat] /\ fMark \in [Cells -> BOOLEAN]
      /\ ID \in [Cells -> 0 .. LastID] /\ cIDs \in 1 .. LastID
  <2>1. N \in Nat /\ LastID \in Nat \ {0}
    BY CubesAssumption, ExorcismAssumption
  <2>2. 0 \in 0 .. N /\ 0 \in 0 .. LastID /\ 1 \in 1 .. LastID
    BY <2>1
  <2>. QED
    BY <2>2 DEF Init
<1>3. list \in Seq(Cells) /\ free \in Seq(Cells)
  <2>1. free \in [1 .. n -> Cells]
    BY <1>1 DEF Init
  <2>2. free \in Seq(Cells)
    BY <2>1, AsSeq
  <2>. QED
    BY <2>2 DEF Init
<1>4. que \in Queues
  <2>1. PICK m \in Nat : m = nPosAlloc /\ m > 0
    BY <1>0, CallFacts
  <2>2. 0 \in Places
    BY <2>1 DEF Places
  <2>3. NoPair \in Pairs
    <3>1. 0 \in 0 .. nCubesAlloc /\ 0 \in 0 .. LastID
      BY <1>1, ExorcismAssumption
    <3>. QED
      BY <3>1 DEF NoPair, Pairs, NULL
  <2>4. PICK f : f = [i \in Places |-> NoPair]
    OBVIOUS
  <2>5. f \in [Places -> Pairs]
    BY <2>3, <2>4
  <2>6. PICK q : q = [buf |-> f, out |-> 0, in |-> 0, mark |-> 0]
    OBVIOUS
  <2>7. q \in [buf : [Places -> Pairs], out : Places, in : Places, mark : Places]
    BY <2>2, <2>5, <2>6
  <2>8. que = [d \in Distances |-> q]
    BY <2>4, <2>6 DEF Init
  <2>. QED
    BY <2>7, <2>8 DEF Queues
<1>5. store \in Stores
  <2>1. 0 \in 0 .. n /\ 0 \in 0 .. N /\ 0 \in 0 .. OutPos /\ 0 \in 0 .. LastID
    BY CubesAssumption, ExorcismAssumption DEF OutPos
  <2>2. {} \in Literal \cup SUBSET Outs
    OBVIOUS
  <2>3. store = [fInput |-> FALSE, p |-> 0, PrevQa |-> 0, PrevPa |-> 0, PrevQq |-> 0,
                 PrevPq |-> 0, Var |-> 0, Value |-> {}, PrevID |-> 0]
    BY <1>1 DEF Init
  <2>. QED
    BY <1>1, <2>1, <2>2, <2>3 DEF Stores
<1>6. chk \in Checks
  BY <1>1 DEF Init, Checks
<1>7. link \in Links
  <2>1. PICK f : f = [m \in 0 .. 31 |-> NULL]
    OBVIOUS
  <2>2. f \in [0 .. 31 -> 0 .. n]
    BY <1>1, <2>1
  <2>3. link = [dist |-> 2, C1 |-> NULL, C2 |-> NULL, el |-> f, visited |-> {}, group |-> 0,
                c |-> 0, ins |-> {}, gain |-> 0]
    BY <2>1 DEF Init
  <2>. QED
    BY <1>1, <2>2, <2>3 DEF Links, Distances
<1>8. pass \in Passes
  <2>1. 0 \in Places
    <3>1. PICK m \in Nat : m = nPosAlloc /\ m > 0
      BY <1>0, CallFacts
    <3>. QED
      BY <3>1 DEF Places
  <2>2. <<>> \in Seq([dist : Distances, four : BOOLEAN])
    OBVIOUS
  <2>. QED
    BY <2>1, <2>2 DEF Init, Passes
<1>9. added \in 0 .. Len(args.esop)
  <2>1. PICK l \in Nat : l = Len(args.esop)
    BY <1>0, CallFacts
  <2>2. added = 0
    BY DEF Init
  <2>. QED
    BY <2>1, <2>2
<1>10. enabled \in SUBSET Distances /\ pc = "add" /\ saved \in SUBSET Cube
  BY DEF Init, Distances
<1>. QED
  BY <1>0, <1>2, <1>3, <1>4, <1>5, <1>6, <1>7, <1>8, <1>9, <1>10 DEF TypeOK

LEMMA InitStep == ASSUME Init PROVE IInv
<1>1. TypeOK
  BY InitType
<1>2. pc = "add" /\ list = <<>> /\ free = [k \in Cells |-> k] /\ added = 0 /\ link.C1 = NULL
      /\ ID = [k \in Cells |-> 0] /\ fMark = [k \in Cells |-> FALSE]
      /\ link.el = [n \in 0 .. 31 |-> NULL] /\ link.visited = {}
  BY DEF Init
<1>3. /\ ~Linking /\ InScan = {} /\ Held = {} /\ Owed = {} /\ Elements(list) = {} /\ Working = {}
      /\ ~Adding /\ ~Probing /\ ~Inserting
  BY <1>2 DEF Linking, InScan, Held, Owed, Elements, Working, Adding, Probing, Inserting
<1>4. Elements(free) = Cells /\ Distinct(free) /\ Distinct(list)
  BY <1>2 DEF Elements, Distinct
<1>5. PlacesInv
  BY <1>2, <1>3, <1>4 DEF PlacesInv
<1>6. MarksInv
  BY <1>2 DEF MarksInv
<1>7. PhaseInv
  BY <1>2, <1>3 DEF PhaseInv, NoLink
<1>8. QueueInv
  <2>1. SUFFICES ASSUME NEW d \in Distances
        PROVE  QueueOK(que[d], Places, Linking, InPass /\ d = link.dist, pass.stop)
    BY DEF QueueInv
  <2>2. que[d].out = 0 /\ que[d].in = 0
    BY DEF Init
  <2>3. \A i \in Places : ~(i < 0)
    <3>1. PICK m \in Nat : m = nPosAlloc
      BY <1>1, CellsFacts
    <3>. QED
      BY <3>1 DEF Places
  <2>4. ~InPass
    BY <1>2, <1>3 DEF InPass
  <2>. QED
    BY <1>3, <2>2, <2>3, <2>4 DEF QueueOK
<1>9. DataInv /\ ApartInv
  BY <1>2, <1>3 DEF DataInv, ApartInv, Apart
<1>10. VainInv /\ UndoInv /\ TwoInv /\ SizeInv
  BY <1>2, <1>3 DEF VainInv, UndoInv, Undoable, TwoInv, SizeInv
<1>11. LedgerInv
  <2>1. SUFFICES ASSUME NEW x \in Points PROVE ~Par(cube, {}, x) /\ x \notin FunctionRead(0)
    BY <1>2, <1>3 DEF LedgerInv
  <2>2. ~Odd({})
    BY FS_EmptySet DEF Odd
  <2>3. On(cube, {}, x) = {} /\ {i \in 1 .. 0 : Covers(args.esop[i], x)} = {}
    BY DEF On
  <2>. QED
    BY <2>2, <2>3 DEF Par, FunctionRead
<1>. QED
  BY <1>1, <1>5, <1>6, <1>7, <1>8, <1>9, <1>10, <1>11 DEF IInv

(* Nothing happens.                                                         *)
LEMMA StutterStep == ASSUME IInv, UNCHANGED vars PROVE IInv'
<1>1. /\ args' = args /\ added' = added /\ cube' = cube /\ ID' = ID /\ lits' = lits
      /\ qcost' = qcost /\ fMark' = fMark /\ list' = list /\ free' = free /\ cIDs' = cIDs
      /\ que' = que /\ enabled' = enabled /\ store' = store /\ chk' = chk /\ link' = link
      /\ pass' = pass /\ pc' = pc /\ saved' = saved
  BY DEF vars, cells
<1>2. /\ Cells' = Cells /\ Places' = Places /\ FunctionRead(added)' = FunctionRead(added)
      /\ Queues' = Queues /\ Stores' = Stores /\ Checks' = Checks /\ Links' = Links /\ Passes' = Passes
  BY <1>1, SameArgs
<1>3. /\ Elements(list)' = Elements(list) /\ Elements(free)' = Elements(free)
      /\ Linking' = Linking /\ InScan' = InScan /\ Merging' = Merging
  BY <1>1 DEF Elements, Linking, InScan, Merging
<1>4. Touched' = Touched /\ Given' = Given /\ \A i : GC(link', i) = GC(link, i)
  BY <1>1, <1>3 DEF Touched, Given, GC
<1>5. Made' = Made /\ Gone' = Gone
  BY <1>1, <1>4 DEF Made, Gone
<1>6. Held' = Held
  BY <1>1, <1>3, <1>5 DEF Held
<1>7. Owed' = Owed
  BY <1>1, <1>3, <1>4 DEF Owed, GroupCell, Rules
<1>8. Working' = Working
  BY <1>3, <1>7 DEF Working
<1>9. /\ Adding' = Adding /\ Probing' = Probing /\ Inserting' = Inserting /\ InPass' = InPass
      /\ TotalGain' = TotalGain
  BY <1>1, <1>3 DEF Adding, Probing, Inserting, InPass, TotalGain
<1>10. TypeOK'
  BY <1>1, <1>2 DEF IInv, TypeOK
<1>11. PlacesInv' /\ MarksInv'
  BY <1>1, <1>2, <1>3, <1>5, <1>6 DEF IInv, PlacesInv, MarksInv, Distinct
<1>12. PhaseInv'
  BY <1>1, <1>4, <1>9 DEF IInv, PhaseInv
<1>13. QueueInv' /\ DataInv' /\ ApartInv'
  BY <1>1, <1>2, <1>3, <1>9 DEF IInv, QueueInv, DataInv, ApartInv
<1>14. VainInv' /\ LedgerInv'
  BY <1>1, <1>2, <1>3, <1>4, <1>8 DEF IInv, VainInv, LedgerInv
<1>15. UndoInv'
  <2>1. SameLink(link', link)
    BY <1>1 DEF SameLink
  <2>2. Undoable' = Undoable
    BY <1>9 DEF Undoable
  <2>. QED
    BY <1>1, <1>3, <1>4, <2>1, <2>2, UndoFrame
<1>16. SizeInv'
  BY <1>1, <1>3, <1>4, <1>8, <1>9 DEF IInv, SizeInv
<1>17. TwoInv'
  <2>1. \A i : Missed(i)' <=> Missed(i)
    BY <1>1 DEF Missed
  <2>. QED
    BY <1>1, <1>3, <1>4, <2>1 DEF IInv, TwoInv
<1>. QED
  BY <1>10, <1>11, <1>12, <1>13, <1>14, <1>15, <1>16, <1>17 DEF IInv

LEMMA NextStep == ASSUME IInv, [Next]_vars PROVE IInv'
BY QuitStep, AddCubeStep, StartReduceStep, ScanMergeStep, ScanCancelStep, ScanKeepStep, GoDeepStep,
   EndIterationStep, FinishStep, BeginPassStep, EndPassStep, SkipPairStep, LinkPairStep,
   NextGroupStep, ProbeCubeStep, ProbeMissedStep, ProbeRejectedStep, ProbeGainedStep,
   GroupMissedStep, GroupUndoneStep, GroupGainedStep, InsertCubeStep, AcceptGroupStep,
   TakeLastGroupStep, RestorePairStep, StutterStep DEF Next, Terminated

(* What is known in every state, in the middle of a scan or of an ExorLink:  *)
(* the parts of IInv need each other to be kept by the code's steps.        *)
THEOREM InductiveInvariant == Spec => []IInv
<1>1. Init => IInv
  BY InitStep
<1>2. IInv /\ [Next]_vars => IInv'
  BY NextStep
<1>. QED
  BY <1>1, <1>2, PTL DEF Spec

-----------------------------------------------------------------------------
LEMMA AccountedFacts == ASSUME IInv PROVE CellsAccounted
<1>0. TypeOK /\ PhaseInv /\ PlacesInv /\ MarksInv
  BY DEF IInv
<1>1. Cells \ (Elements(list) \cup Elements(free)) = Held
  BY <1>0 DEF PlacesInv
<1>2. \A n \in Made : link.el[n] # NULL /\ link.el[n] \in Linked
  BY DEF Made, Linked
<1>3. ASSUME Linking PROVE {link.C1, link.C2} \subseteq Held /\ Held \subseteq Linked
  <2>1. LinkOK(link) /\ link.dist \in Distances
    BY <1>0, <1>3, LinkingIs
  <2>2. link.C1 \in Linked /\ link.C2 \in Linked
    BY <2>1 DEF LinkOK, Linked
  <2>3. InScan \subseteq Linked
    <3>1. SUFFICES ASSUME pc = "scan" PROVE chk.p \in Linked
      BY DEF InScan
    <3>2. chk.ret \in {"probed", "insert"}
      BY <1>0, <1>3, <3>1, ChkType, LinkingIs
    <3>3. PICK e \in 2 .. 4 : e = link.dist
      BY <2>1 DEF Distances
    <3>4. \E i \in 1 .. e : chk.p = GC(link, i)
      <4>1. CASE chk.ret = "probed"
        <5>1. ProbeOK(link) /\ link.c <= link.dist /\ chk.p = GC(link, link.c)
          BY <1>0, <3>1, <4>1 DEF PhaseInv, Probing
        <5>2. PICK c \in 1 .. e + 1 : c = link.c
          BY <3>3, <5>1 DEF ProbeOK
        <5>3. c \in 1 .. e
          BY <3>3, <5>1, <5>2
        <5>. QED
          BY <5>1, <5>2, <5>3
      <4>2. CASE chk.ret = "insert"
        BY <1>0, <3>1, <3>3, <4>2 DEF PhaseInv, Inserting
      <4>. QED
        BY <3>2, <4>1, <4>2
    <3>5. chk.p \in MadeCells(link)
      BY <2>1, <3>3, <3>4, GroupFacts
    <3>. QED
      BY <3>5 DEF MadeCells, Linked
  <2>. QED
    BY <1>2, <1>3, <2>2, <2>3 DEF Held
<1>4. ~Linking => Held = IF Adding THEN {chk.p} ELSE {}
  BY DEF Held, InScan, Adding
<1>5. \A k \in Cells : fMark[k] => Linking /\ k \in Linked
  BY <1>0, <1>2 DEF MarksInv
<1>. QED
  BY <1>0, <1>1, <1>3, <1>4, <1>5 DEF CellsAccounted, PlacesInv, Distinct

LEMMA LedgerFacts == ASSUME IInv PROVE CoverLedger
<1>1. \A x \in Points : Par(cube, Working, x) <=> x \in FunctionRead(added)
  BY DEF IInv, LedgerInv
<1>2. FunctionOf(Working) = {x \in Points : Par(cube, Working, x)}
  BY DEF FunctionOf, Par, On
<1>3. FunctionRead(added) \subseteq Points
  BY DEF FunctionRead
<1>4. FunctionOf(Working) = FunctionRead(added)
  BY <1>1, <1>2, <1>3
<1>. QED
  BY <1>4 DEF CoverLedger, Working

LEMMA VainFacts == ASSUME IInv PROVE TriedInVain
<1>1. SUFFICES ASSUME Linking, ~Touched
      PROVE  /\ Cover = saved \ {cube[link.C1], cube[link.C2]}
             /\ \A n \in ELCubes(link.dist) :
                  link.el[n] # NULL => cube[link.el[n]] = ELCube(cube[link.C1], cube[link.C2], n)
  BY DEF TriedInVain
<1>2. Vain(Elements(list), cube, lits, qcost, link, saved, FunctionRead(added))
  BY <1>1 DEF IInv, VainInv
<1>3. ELCubes(link.dist) \subseteq 0 .. 31
  BY TableIsSmall, LinkType DEF IInv
<1>4. Cover = saved \ {cube[link.C1], cube[link.C2]}
  BY <1>2 DEF Vain, Cover
<1>5. \A n \in 0 .. 31 :
        link.el[n] # NULL => cube[link.el[n]] = ELCube(cube[link.C1], cube[link.C2], n)
  BY <1>2 DEF Vain
<1>. QED
  BY <1>3, <1>4, <1>5

LEMMA CloseFacts == ASSUME IInv PROVE NoClosePairs
<1>1. Apart(cube, Elements(list)) /\ Distinct(list)
  BY DEF IInv, ApartInv, PlacesInv
<1>2. SUFFICES ASSUME NEW i \in DOMAIN list, NEW j \in DOMAIN list, i # j
      PROVE  Distance(cube[list[i]], cube[list[j]]) >= 2
  BY DEF NoClosePairs
<1>3. list[i] \in Elements(list) /\ list[j] \in Elements(list) /\ list[i] # list[j]
  BY <1>1, <1>2 DEF Elements, Distinct
<1>. QED
  BY <1>1, <1>3 DEF Apart

LEMMA CountedFacts == ASSUME IInv PROVE LiteralsCounted
BY DEF IInv, DataInv, DataOK, LiteralsCounted

(* The variables of the minimiser keep their types, whatever the starting   *)
(* cover, the quality and the sizes of the cube store and of the queues.    *)
THEOREM TypeCorrect == Spec => []TypeOK
<1>1. IInv => TypeOK
  BY DEF IInv
<1>. QED
  BY <1>1, InductiveInvariant, PTL

(* No cell is lost, freed twice, or in the list and free at once, through    *)
(* every merge, undone merge, rewritten pair and clean-up (AddToFreeCubes,   *)
(* CubeInsert, CubeExtract, UndoRecentChanges, ExorLinkCubeIteratorCleanUp). *)
THEOREM CellsAccountedCorrect == Spec => []CellsAccounted
BY AccountedFacts, InductiveInvariant, PTL

(* In every state the list and what it owes stand for the cubes read so far: *)
(* the cover returned is one of the function given (CheckForCloseCubes,      *)
(* IterativelyApplyExorLink2/3/4).                                          *)
THEOREM CoverLedgerCorrect == Spec => []CoverLedger
BY LedgerFacts, InductiveInvariant, PTL

(* A group of cubes that is given up leaves the list as it was, even if one  *)
(* of its cubes was merged and the merge undone (UndoRecentChanges).         *)
THEOREM TriedInVainCorrect == Spec => []TriedInVain
BY VainFacts, InductiveInvariant, PTL

(* No two cubes of the list cancel or merge, although a pair given back and  *)
(* the last group of an ExorLink-2 are inserted unchecked.                   *)
THEOREM NoClosePairsCorrect == Spec => []NoClosePairs
BY CloseFacts, InductiveInvariant, PTL

(* The numbers of literals and the costs kept by increments are those of the *)
(* cubes (p->a and p->q in CheckForCloseCubes, CubeLiterals in exorLink.c).  *)
THEOREM LiteralsCountedCorrect == Spec => []LiteralsCounted
BY CountedFacts, InductiveInvariant, PTL

-----------------------------------------------------------------------------
(* The list, between two operations, as a cover.                            *)
ACover == IF Linking \/ Adding THEN saved ELSE Cover
Read == IF Adding THEN added - 1 ELSE added
AFunction == FunctionRead(Read)
FunctionOfCubes(C) == {x \in Points : Odd({c \in C : Covers(c, x)})}
Resting == ~Linking /\ ~Adding

LEMMA SameAbstract ==
  /\ Abstract!Cube = Cube /\ Abstract!Points = Points
  /\ \A a, b : Abstract!Xor(a, b) = Xor(a, b)
  /\ \A c, x : Abstract!Covers(c, x) <=> Covers(c, x)
  /\ \A S : Abstract!Cardinality(S) = Cardinality(S)
  /\ \A C : Abstract!Function(C) = FunctionOfCubes(C)
<1>1. /\ Abstract!Inputs = Inputs /\ Abstract!OutPos = OutPos /\ Abstract!Absent = Absent
  BY DEF Abstract!Inputs, Inputs, Abstract!OutPos, OutPos, Abstract!Absent, Absent
<1>2. Abstract!Positions = Positions /\ Abstract!Literal = Literal
  BY <1>1 DEF Abstract!Positions, Positions, Abstract!Literal, Literal
<1>3. Abstract!Cube = Cube
  BY <1>1, <1>2 DEF Abstract!Cube, Cube
<1>4. Abstract!Points = Points
  BY <1>1, <1>2 DEF Abstract!Points, Points
<1>5. \A a, b : Abstract!Xor(a, b) = Xor(a, b)
  BY DEF Abstract!Xor, Xor
<1>6. \A c, x : Abstract!Covers(c, x) <=> Covers(c, x)
  BY <1>2 DEF Abstract!Covers, Covers
<1>7. \A S : Abstract!Cardinality(S) = Cardinality(S)
  BY Zenon DEF Abstract!Cardinality, Cardinality
<1>8. \A S : Abstract!Odd(S) <=> Odd(S)
  BY <1>7 DEF Abstract!Odd, Odd
<1>9. ASSUME NEW C PROVE Abstract!Function(C) = FunctionOfCubes(C)
  <2>1. \A x : {c \in C : Abstract!Covers(c, x)} = {c \in C : Covers(c, x)}
    BY <1>6
  <2>. QED
    BY <1>4, <1>8, <2>1 DEF Abstract!Function, FunctionOfCubes
<1>. QED
  BY <1>3, <1>4, <1>5, <1>6, <1>7, <1>9

(* The steps of the abstract specification.                                 *)
LEMMA AbstractExchange ==
  ASSUME AFunction' = AFunction, ACover' \in SUBSET Cube,
         Cardinality(ACover') <= Cardinality(ACover), FunctionOfCubes(ACover') = AFunction'
  PROVE  Abstract!Next
BY SameAbstract DEF Abstract!Next, Abstract!Exchange, Abstract!CoverOf, ACover, AFunction, Read

LEMMA AbstractRead ==
  ASSUME NEW c \in Cube, AFunction' = Xor(AFunction, {x \in Points : Covers(c, x)}),
         ACover' \in SUBSET Cube, Cardinality(ACover') <= Cardinality(ACover) + 1,
         FunctionOfCubes(ACover') = AFunction'
  PROVE  Abstract!Next
<1>1. {x \in Abstract!Points : Abstract!Covers(c, x)} = {x \in Points : Covers(c, x)}
  BY SameAbstract
<1>2. AFunction' = Abstract!Xor(AFunction, {x \in Abstract!Points : Abstract!Covers(c, x)})
  BY <1>1, SameAbstract
<1>. QED
  BY <1>2, SameAbstract DEF Abstract!Next, Abstract!Read, Abstract!CoverOf, ACover, AFunction, Read

(* How a step of the minimiser looks from outside.                          *)
Stays == args' = args /\ Read' = Read /\ ACover' = ACover
Grows ==
  /\ args' = args /\ Read' = Read + 1 /\ Cardinality(ACover') <= Cardinality(ACover) + 1
  /\ Abstract!Next
Shrinks ==
  /\ args' = args /\ Read' = Read /\ Cardinality(ACover') <= Cardinality(ACover)
  /\ Abstract!Next

LEMMA AbstractStutter == ASSUME Stays PROVE UNCHANGED Abstract!evars
<1>1. AFunction' = AFunction
  BY DEF Stays, AFunction, FunctionRead
<1>. QED
  BY <1>1 DEF Stays, Abstract!evars, ACover, AFunction, Read

(* A list at rest is a cover of what was read.                              *)
LEMMA RestingFacts ==
  ASSUME IInv, Resting
  PROVE  /\ ACover = Cover /\ AFunction = FunctionRead(added)
         /\ Cover \in SUBSET Cube /\ Cardinality(Cover) = Len(list)
         /\ FunctionOfCubes(Cover) = FunctionRead(added)
<1>0. TypeOK /\ PlacesInv /\ DataInv /\ ApartInv /\ LedgerInv
  BY DEF IInv
<1>1. ACover = Cover /\ AFunction = FunctionRead(added)
  BY DEF Resting, ACover, AFunction, Read
<1>2. PICK L : L = Elements(list)
  OBVIOUS
<1>3. Working = L
  BY <1>2 DEF Resting, Adding, Working, Owed, InScan
<1>4. IsFiniteSet(L) /\ Cardinality(L) = Len(list)
  BY <1>0, <1>2, ListFacts
<1>5. Cover \in SUBSET Cube /\ Cardinality(Cover) = Len(list)
  BY <1>0, <1>2, <1>4, CoverFacts
<1>6. Apart(cube, L)
  BY <1>0, <1>2 DEF ApartInv
<1>7. ASSUME NEW x PROVE Odd({c \in Cover : Covers(c, x)}) <=> Par(cube, L, x)
  <2>1. PICK S : S = On(cube, L, x)
    OBVIOUS
  <2>2. S \subseteq L /\ IsFiniteSet(S)
    BY <1>4, <2>1, FS_Subset DEF On
  <2>3. Apart(cube, S)
    BY <1>6, <2>2 DEF Apart
  <2>4. Cardinality({cube[k] : k \in S}) = Cardinality(S)
    BY <2>2, <2>3, CoverSize
  <2>5. {c \in Cover : Covers(c, x)} = {cube[k] : k \in S}
    BY <1>2, <2>1 DEF Cover, On
  <2>. QED
    BY <2>1, <2>4, <2>5 DEF Odd, Par
<1>8. FunctionOfCubes(Cover) = {x \in Points : Par(cube, L, x)}
  BY <1>7 DEF FunctionOfCubes
<1>9. FunctionRead(added) \subseteq Points
  BY DEF FunctionRead
<1>10. FunctionOfCubes(Cover) = FunctionRead(added)
  BY <1>0, <1>3, <1>8, <1>9 DEF LedgerInv
<1>. QED
  BY <1>1, <1>5, <1>10

(* The operations between two passes, and the end of one.                   *)
LEMMA QuietStutter ==
  ASSUME IInv, pc \in Idle, pc' \in Idle, UNCHANGED <<args, added, cells>>, link'.C1 = link.C1
  PROVE  Stays
<1>1. ~Linking /\ ~Adding /\ ~Linking' /\ ~Adding'
  BY IdleFacts DEF IInv, Idle, Linking, Adding
<1>2. /\ args' = args /\ added' = added /\ cube' = cube /\ list' = list
  BY DEF cells
<1>3. Cover' = Cover
  BY <1>2 DEF Cover, Elements
<1>. QED
  BY <1>1, <1>2, <1>3 DEF Stays, ACover, Read

(* The steps of an ExorLink.                                                *)
LEMMA LinkStutter ==
  ASSUME Linking, Linking', UNCHANGED <<args, added, saved>>
  PROVE  Stays
<1>1. ~Adding /\ ~Adding'
  BY DEF Adding
<1>. QED
  BY <1>1 DEF Stays, ACover, Read

-----------------------------------------------------------------------------
LEMMA AddCubeMapped == ASSUME IInv, AddCube PROVE Stays
<1>1. /\ pc = "add" /\ pc' = "scan" /\ saved' = Cover /\ added' = added + 1 /\ args' = args /\ link' = link
  BY DEF AddCube
<1>2. ~Linking /\ ~Adding /\ ~Linking' /\ Adding'
  BY <1>1, IdleFacts DEF IInv, Idle, Linking, Adding
<1>3. PICK n \in Nat : n = added
  <2>1. PICK l \in Nat : l = Len(args.esop)
    BY CellsFacts DEF IInv
  <2>2. added \in 0 .. l
    BY <2>1 DEF IInv, TypeOK
  <2>. QED
    BY <2>1, <2>2
<1>4. added' - 1 = added
  BY <1>1, <1>3
<1>. QED
  BY <1>1, <1>2, <1>4 DEF Stays, ACover, Read

LEMMA LinkPairMapped == ASSUME IInv, LinkPair PROVE Stays
<1>1. /\ pc = "next" /\ pc' = "probe" /\ saved' = Cover /\ added' = added /\ args' = args
  BY DEF LinkPair
<1>2. ~Linking /\ ~Adding
  BY <1>1, IdleFacts DEF IInv, Idle, Linking, Adding
<1>3. Linking' /\ ~Adding'
  <2>1. IInv'
    BY LinkPairStep
  <2>2. LinkOK(link')
    BY <1>1, <2>1 DEF IInv, PhaseInv
  <2>. QED
    BY <1>1, <2>2 DEF LinkOK, Linking, Adding
<1>. QED
  BY <1>1, <1>2, <1>3 DEF Stays, ACover, Read

(* The end of a check that adds a cube read.                                *)
LEMMA AddedMapped ==
  ASSUME IInv, IInv', Adding, pc' = "add", UNCHANGED <<args, added, link, saved>>,
         Elements(list') \subseteq Elements(list) \cup {chk.p}
  PROVE  Grows
<1>0. TypeOK /\ PhaseInv /\ PlacesInv /\ SizeInv
  BY DEF IInv
<1>1. ~Linking /\ pc = "scan"
  BY DEF Adding
<1>2. chk.ret = "add"
  BY <1>0, <1>1, ChkType, LinkingIs
<1>3. PICK n, esop : n \in Nat /\ added = n + 1 /\ esop = args.esop /\ esop[n + 1] \in Cube
  <2>1. PICK l \in Nat : l = Len(args.esop) /\ args.esop \in Seq(Cube)
    BY <1>0, CellsFacts
  <2>2. added \in 0 .. l /\ added > 0
    BY <1>0, <1>1, <1>2, <2>1 DEF TypeOK, PhaseInv
  <2>3. PICK e : e = args.esop
    OBVIOUS
  <2>4. e[added] \in Cube
    BY <2>1, <2>2, <2>3
  <2>5. added - 1 \in Nat /\ added = (added - 1) + 1
    BY <2>2
  <2>. QED
    BY <2>3, <2>4, <2>5
<1>4. PICK c \in Cube : c = esop[n + 1]
  BY <1>3
<1>5. Resting'
  BY <1>1 DEF Resting, Linking, Adding
<1>6. /\ ACover' = Cover' /\ AFunction' = FunctionRead(added)'
      /\ Cover' \in SUBSET Cube /\ Cardinality(Cover') = Len(list')
      /\ FunctionOfCubes(Cover') = FunctionRead(added)'
  <2>1. /\ (ACover = Cover)' /\ (AFunction = FunctionRead(added))'
        /\ (Cover \in SUBSET Cube)' /\ (Cardinality(Cover) = Len(list))'
        /\ (FunctionOfCubes(Cover) = FunctionRead(added))'
    BY <1>5, RestingFacts, PTL
  <2>. QED
    BY <2>1
<1>7. FunctionRead(added)' = FunctionRead(n + 1)
  <2>1. FunctionRead(added)' = FunctionRead(added)
    BY SameArgs
  <2>. QED
    BY <1>3, <2>1
<1>8. ACover = saved /\ AFunction = FunctionRead(n)
  <2>1. added - 1 = n
    BY <1>3
  <2>. QED
    BY <2>1 DEF ACover, AFunction, Read
<1>9. FunctionRead(n + 1) = Xor(FunctionRead(n), {x \in Points : Covers(c, x)})
  <2>1. ASSUME NEW x \in Points
        PROVE  x \in FunctionRead(n + 1) <=> ~(x \in FunctionRead(n) <=> Covers(c, x))
    <3>1. ReadUpTo(esop, n + 1, x) <=> ~(ReadUpTo(esop, n, x) <=> Covers(esop[n + 1], x))
      BY <1>3, ReadMore
    <3>2. /\ x \in FunctionRead(n + 1) <=> ReadUpTo(esop, n + 1, x)
          /\ x \in FunctionRead(n) <=> ReadUpTo(esop, n, x)
      BY <1>3 DEF FunctionRead, ReadUpTo
    <3>. QED
      BY <1>4, <3>1, <3>2
  <2>2. FunctionRead(n + 1) \subseteq Points /\ FunctionRead(n) \subseteq Points
    BY DEF FunctionRead
  <2>3. PICK C : C = {x \in Points : Covers(c, x)}
    OBVIOUS
  <2>4. \A x \in Points : x \in C <=> Covers(c, x)
    BY <2>3
  <2>5. C \subseteq Points
    BY <2>3
  <2>6. FunctionRead(n + 1) = Xor(FunctionRead(n), C)
    BY <2>1, <2>2, <2>4, <2>5 DEF Xor
  <2>. QED
    BY <2>3, <2>6
<1>10. Len(list') <= Cardinality(saved) + 1
  <2>1. Working = Elements(list) \cup {chk.p}
    BY <1>1 DEF Working, Owed, InScan
  <2>2. Cardinality(Working) <= Cardinality(saved) + 1 /\ IsFiniteSet(saved)
    BY <1>0 DEF SizeInv
  <2>3. IsFiniteSet(Working)
    BY <1>0, <2>1, ListFacts, FS_AddElement
  <2>4. Cardinality(Elements(list')) <= Cardinality(Working)
    BY <2>1, <2>3, FS_Subset
  <2>5. Cardinality(Elements(list')) = Len(list') /\ Len(list') \in Nat
    <3>1. list' \in Seq(Cells') /\ Distinct(list')
      BY DEF IInv, TypeOK, PlacesInv, Distinct
    <3>. QED
      BY <3>1, CountElements, SeqFacts
  <2>6. Cardinality(saved) \in Nat /\ Cardinality(Working) \in Nat
    BY <2>2, <2>3, FS_CardinalityType
  <2>. QED
    BY <2>2, <2>4, <2>5, <2>6
<1>11. PICK C : C = {x \in Points : Covers(c, x)}
  OBVIOUS
<1>12. AFunction' = Xor(AFunction, {x \in Points : Covers(c, x)})
  BY <1>6, <1>7, <1>8, <1>9
<1>13. Cardinality(ACover') <= Cardinality(ACover) + 1
  BY <1>6, <1>8, <1>10
<1>14. Abstract!Next
  BY <1>6, <1>12, <1>13, AbstractRead
<1>15. Read' = Read + 1
  BY <1>3, <1>5 DEF Read, Resting
<1>. QED
  BY <1>13, <1>14, <1>15 DEF Grows

LEMMA ScanKeepMapped == ASSUME IInv, IInv', ScanKeep PROVE Stays \/ Grows
<1>1. /\ pc = "scan" /\ list' = (IF chk.add THEN <<chk.p>> \o list ELSE list) /\ pc' = chk.ret
      /\ UNCHANGED <<args, added, link, saved>>
  BY DEF ScanKeep
<1>2. CASE Linking
  <2>1. Linking'
    BY <1>1, <1>2 DEF Linking
  <2>. QED
    BY <1>1, <1>2, <2>1, LinkStutter
<1>3. CASE ~Linking
  <2>1. Adding /\ chk.ret = "add"
    BY <1>1, <1>3, ChkType, LinkingIs DEF IInv, Adding
  <2>2. Elements(list') \subseteq Elements(list) \cup {chk.p}
    <3>1. list \in Seq(Cells) /\ chk.p \in Cells
      BY <1>1, ScanFacts DEF IInv, TypeOK
    <3>2. Elements(<<chk.p>> \o list) = Elements(list) \cup {chk.p}
      BY <3>1, ConsFacts
    <3>. QED
      BY <1>1, <3>2
  <2>. QED
    BY <1>1, <2>1, <2>2, AddedMapped
<1>. QED
  BY <1>2, <1>3

LEMMA ScanCancelMapped == ASSUME IInv, IInv', ScanCancel PROVE Stays \/ Grows
<1>1. /\ pc = "scan" /\ Hits # {} /\ list' = Without(list, Hit) /\ pc' = chk.ret
      /\ UNCHANGED <<args, added, link, saved>>
  BY DEF ScanCancel
<1>2. CASE Linking
  <2>1. Linking'
    BY <1>1, <1>2 DEF Linking
  <2>. QED
    BY <1>1, <1>2, <2>1, LinkStutter
<1>3. CASE ~Linking
  <2>1. Adding /\ chk.ret = "add"
    BY <1>1, <1>3, ChkType, LinkingIs DEF IInv, Adding
  <2>2. Elements(list') \subseteq Elements(list) \cup {chk.p}
    <3>1. list \in Seq(Cells) /\ Distinct(list) /\ Hit \in Elements(list)
      BY <1>1, ScanFacts DEF IInv, TypeOK, PlacesInv
    <3>2. Elements(Without(list, Hit)) = Elements(list) \ {Hit}
      BY <3>1, WithoutFacts
    <3>. QED
      BY <1>1, <3>2
  <2>. QED
    BY <1>1, <2>1, <2>2, AddedMapped
<1>. QED
  BY <1>2, <1>3

LEMMA ScanMergeMapped == ASSUME IInv, ScanMerge PROVE Stays
<1>1. /\ pc = "scan" /\ pc' = "scan" /\ UNCHANGED <<args, added, link, saved>>
  BY DEF ScanMerge
<1>2. CASE Linking
  <2>1. Linking'
    BY <1>1, <1>2 DEF Linking
  <2>. QED
    BY <1>1, <1>2, <2>1, LinkStutter
<1>3. CASE ~Linking
  <2>1. Adding /\ Adding' /\ ~Linking'
    BY <1>1, <1>3 DEF Adding, Linking
  <2>. QED
    BY <1>1, <2>1 DEF Stays, ACover, Read
<1>. QED
  BY <1>2, <1>3

(* The end of an ExorLink.                                                  *)
LEMMA EndedMapped ==
  ASSUME IInv, IInv', Linking, pc' = "next", UNCHANGED <<args, added>>,
         Len(list') <= Cardinality(saved)
  PROVE  Shrinks
<1>1. Resting'
  BY LinkingIs DEF Resting, Adding, IInv, PhaseInv, NoLink, Linking
<1>2. /\ ACover' = Cover' /\ AFunction' = FunctionRead(added)'
      /\ Cover' \in SUBSET Cube /\ Cardinality(Cover') = Len(list')
      /\ FunctionOfCubes(Cover') = FunctionRead(added)'
  <2>1. /\ (ACover = Cover)' /\ (AFunction = FunctionRead(added))'
        /\ (Cover \in SUBSET Cube)' /\ (Cardinality(Cover) = Len(list))'
        /\ (FunctionOfCubes(Cover) = FunctionRead(added))'
    BY <1>1, RestingFacts, PTL
  <2>. QED
    BY <2>1
<1>3. ~Adding
  BY DEF Adding
<1>4. ACover = saved /\ AFunction = FunctionRead(added)
  BY <1>3 DEF ACover, AFunction, Read
<1>5. FunctionRead(added)' = FunctionRead(added)
  BY SameArgs
<1>6. Cardinality(ACover') <= Cardinality(ACover)
  BY <1>2, <1>4
<1>7. Abstract!Next
  BY <1>2, <1>4, <1>5, <1>6, AbstractExchange
<1>. QED
  BY <1>1, <1>3, <1>6, <1>7 DEF Shrinks, Read, Resting

-----------------------------------------------------------------------------
LEMMA LinkingAfter ==
  ASSUME TypeOK, PhaseInv, pc \in {"probe", "probed", "insert", "failed"} \/ (pc = "scan" /\ chk.ret # "add")
  PROVE  Linking
BY LinkingIs

LEMMA LinkingStays ==
  ASSUME IInv, IInv', pc \in {"probe", "probed", "insert", "failed"},
         pc' \in {"probe", "probed", "insert", "failed"} \/ (pc' = "scan" /\ chk'.ret # "add"),
         UNCHANGED <<args, added, saved>>
  PROVE  Stays
<1>1. Linking
  BY LinkingAfter DEF IInv
<1>2. (TypeOK /\ PhaseInv /\ (pc \in {"probe", "probed", "insert", "failed"} \/ (pc = "scan" /\ chk.ret # "add"))
         => Linking)'
  BY LinkingAfter, PTL
<1>3. Linking'
  BY <1>2 DEF IInv
<1>. QED
  BY <1>1, <1>3, LinkStutter

LEMMA BeginPassMapped == ASSUME IInv, BeginPass PROVE Stays
<1>1. /\ pc = "pass" /\ pc' = "next" /\ UNCHANGED <<args, added, cells>>
      /\ link' = [link EXCEPT !.dist = Head(pass.todo).dist]
  BY DEF BeginPass
<1>2. link \in Links
  BY DEF IInv, TypeOK
<1>3. link'.C1 = link.C1
  BY <1>1, <1>2 DEF Links
<1>. QED
  BY <1>1, <1>3, QuietStutter DEF Idle

LEMMA QuietMapped ==
  ASSUME IInv, Quit \/ StartReduce \/ GoDeep \/ EndIteration \/ Finish \/ EndPass \/ SkipPair
  PROVE  Stays
<1>1. /\ pc \in Idle /\ pc' \in Idle /\ UNCHANGED <<args, added, cells, link>>
  BY DEF Quit, StartReduce, GoDeep, EndIteration, Finish, EndPass, SkipPair, Idle
<1>. QED
  BY <1>1, QuietStutter

LEMMA LinkedMapped ==
  ASSUME IInv, IInv',
         \/ NextGroup \/ ProbeCube \/ ProbeMissed \/ ProbeRejected \/ ProbeGained
         \/ GroupMissed \/ GroupUndone \/ GroupGained \/ InsertCube
  PROVE  Stays
<1>1. /\ pc \in {"probe", "probed", "insert", "failed"} /\ UNCHANGED <<args, added, saved>>
  BY DEF NextGroup, ProbeCube, ProbeMissed, ProbeRejected, ProbeGained, GroupMissed, GroupUndone,
         GroupGained, InsertCube
<1>2. ProbeCube \/ InsertCube => pc' = "scan" /\ chk'.ret # "add"
  BY DEF ProbeCube, InsertCube, Check
<1>3. ~(ProbeCube \/ InsertCube) => pc' \in {"probe", "insert", "failed"}
  BY DEF NextGroup, ProbeMissed, ProbeRejected, ProbeGained, GroupMissed, GroupUndone, GroupGained
<1>. QED
  BY <1>1, <1>2, <1>3, LinkingStays

LEMMA EndsMapped ==
  ASSUME IInv, IInv', AcceptGroup \/ TakeLastGroup \/ RestorePair
  PROVE  Shrinks
<1>1. Len(list') <= Cardinality(saved)
  BY AcceptGroupStep, TakeLastGroupStep, RestorePairStep
<1>2. pc \in {"insert", "failed"} /\ pc' = "next" /\ UNCHANGED <<args, added>>
  BY DEF AcceptGroup, TakeLastGroup, RestorePair
<1>3. Linking
  BY <1>2, LinkingAfter DEF IInv
<1>. QED
  BY <1>1, <1>2, <1>3, EndedMapped

LEMMA StutterMapped == ASSUME UNCHANGED vars PROVE Stays
<1>1. /\ args' = args /\ added' = added /\ cube' = cube /\ list' = list /\ link' = link /\ pc' = pc
      /\ saved' = saved
  BY DEF vars, cells
<1>2. Linking' = Linking /\ Adding' = Adding /\ Cover' = Cover
  BY <1>1 DEF Linking, Adding, Cover, Elements
<1>. QED
  BY <1>1, <1>2 DEF Stays, ACover, Read

LEMMA MappedStep == ASSUME IInv, IInv', [Next]_vars PROVE Stays \/ Grows \/ Shrinks
BY AddCubeMapped, ScanMergeMapped, ScanCancelMapped, ScanKeepMapped, BeginPassMapped, QuietMapped,
   LinkPairMapped, LinkedMapped, EndsMapped, StutterMapped DEF Next, Terminated

LEMMA MappedInit == ASSUME Init PROVE Abstract!Init
<1>1. pc = "add" /\ list = <<>> /\ added = 0 /\ link.C1 = NULL
  BY DEF Init
<1>2. ~Linking /\ ~Adding
  BY <1>1 DEF Linking, Adding
<1>3. Cover = {}
  BY <1>1 DEF Cover, Elements
<1>4. FunctionRead(0) = {}
  <2>1. ~Odd({})
    BY FS_EmptySet DEF Odd
  <2>2. \A x : {i \in 1 .. 0 : Covers(args.esop[i], x)} = {}
    OBVIOUS
  <2>. QED
    BY <2>1, <2>2 DEF FunctionRead
<1>. QED
  BY <1>1, <1>2, <1>3, <1>4 DEF Abstract!Init

(* Between two operations the minimiser is an EsopCover: a cube read makes   *)
(* the list at most one cube longer, a pair rewritten never makes it longer, *)
(* and what it stands for is what was read (Exorcism, CheckForCloseCubes).   *)
THEOREM ImplementsEsopCoverCorrect == Spec => ImplementsEsopCover
<1>1. Init => Abstract!Init
  BY MappedInit
<1>2. IInv /\ IInv' /\ [Next]_vars => [Abstract!Next]_Abstract!evars
  BY MappedStep, AbstractStutter DEF Grows, Shrinks
<1>. QED
  BY <1>1, <1>2, InductiveInvariant, PTL DEF Spec, ImplementsEsopCover, Abstract!Spec

-----------------------------------------------------------------------------
(* The cover returned: the given function, in no more cubes than were given  *)
(* (the assumption of DcMinimize on MyExorcism).                            *)
ReturnsEsop ==
  pc = "done" =>
    /\ FunctionOf(Elements(list)) = FunctionRead(Len(args.esop))
    /\ Len(list) <= Len(args.esop)

(* Passes begin when all cubes are read; there are no more than that.       *)
Reducing == pc \notin {"add", "scan", "quit"} \/ Linking
CountInv ==
  /\ Reducing => added = Len(args.esop)
  /\ Cardinality(ACover) <= Read

LEMMA ReadFacts == ASSUME IInv PROVE Read \in Int /\ IsFiniteSet(ACover) /\ Cardinality(ACover) \in Nat
<1>0. TypeOK /\ PlacesInv /\ SizeInv /\ ApartInv
  BY DEF IInv
<1>1. PICK n \in Int : n = added
  <2>1. PICK l \in Nat : l = Len(args.esop)
    BY <1>0, CellsFacts
  <2>2. added \in 0 .. l
    BY <1>0, <2>1 DEF TypeOK
  <2>. QED
    BY <2>2
<1>2. Read \in Int
  BY <1>1 DEF Read
<1>3. IsFiniteSet(ACover)
  <2>1. CASE Linking \/ Adding
    BY <1>0, <2>1 DEF SizeInv, ACover
  <2>2. CASE ~Linking /\ ~Adding
    <3>1. IsFiniteSet(Elements(list))
      BY <1>0, ListFacts
    <3>2. IsFiniteSet({cube[k] : k \in Elements(list)})
      BY <1>0, <3>1, CoverSize DEF ApartInv
    <3>. QED
      BY <2>2, <3>2 DEF ACover, Cover
  <2>. QED
    BY <2>1, <2>2
<1>. QED
  BY <1>2, <1>3, FS_CardinalityType

LEMMA ReducingStep ==
  ASSUME IInv, IInv', Reducing => added = Len(args.esop), [Next]_vars, Reducing'
  PROVE  added' = Len(args'.esop)
<1>0. TypeOK /\ PhaseInv
  BY DEF IInv
<1>1. CASE AddCube
  <2>1. pc = "add" /\ pc' = "scan" /\ link' = link
    BY <1>1 DEF AddCube
  <2>2. ~Linking'
    BY <1>0, <2>1, IdleFacts DEF Idle, Linking
  <2>. QED
    BY <2>1, <2>2 DEF Reducing
<1>2. CASE StartReduce
  BY <1>2 DEF StartReduce
<1>3. CASE Quit
  <2>1. pc = "add" /\ pc' = "quit" /\ link' = link
    BY <1>3 DEF Quit
  <2>2. ~Linking'
    BY <1>0, <2>1, IdleFacts DEF Idle, Linking
  <2>. QED
    BY <2>1, <2>2 DEF Reducing
<1>4. CASE ScanMerge \/ ScanCancel \/ ScanKeep
  <2>1. pc = "scan" /\ pc' \in {"scan", chk.ret} /\ link' = link /\ added' = added /\ args' = args
    BY <1>4 DEF ScanMerge, ScanCancel, ScanKeep
  <2>2. Linking
    <3>1. SUFFICES ASSUME ~Linking PROVE ~Reducing'
      OBVIOUS
    <3>2. chk.ret = "add" /\ ~Linking'
      BY <1>0, <2>1, <3>1, ChkType, LinkingIs DEF Linking
    <3>. QED
      BY <2>1, <3>2 DEF Reducing
  <2>. QED
    BY <2>1, <2>2 DEF Reducing
<1>5. CASE \/ GoDeep \/ EndIteration \/ Finish \/ BeginPass \/ EndPass \/ SkipPair
  <2>1. pc \in {"pass", "next"} /\ added' = added /\ args' = args
    BY <1>5 DEF GoDeep, EndIteration, Finish, BeginPass, EndPass, SkipPair
  <2>. QED
    BY <2>1 DEF Reducing
<1>6. CASE LinkPair
  BY <1>6 DEF LinkPair, Reducing
<1>7. CASE \/ NextGroup \/ ProbeCube \/ ProbeMissed \/ ProbeRejected \/ ProbeGained
           \/ GroupMissed \/ GroupUndone \/ GroupGained \/ InsertCube
           \/ AcceptGroup \/ TakeLastGroup \/ RestorePair
  <2>1. pc \in {"probe", "probed", "insert", "failed"} /\ added' = added /\ args' = args
    BY <1>7 DEF NextGroup, ProbeCube, ProbeMissed, ProbeRejected, ProbeGained, GroupMissed,
         GroupUndone, GroupGained, InsertCube, AcceptGroup, TakeLastGroup, RestorePair
  <2>. QED
    BY <2>1 DEF Reducing
<1>8. CASE UNCHANGED vars
  BY <1>8 DEF vars, Reducing, Linking
<1>. QED
  BY <1>1, <1>2, <1>3, <1>4, <1>5, <1>6, <1>7, <1>8 DEF Next, Terminated

LEMMA CountStep == ASSUME IInv, IInv', CountInv, [Next]_vars PROVE CountInv'
<1>1. Reducing' => added' = Len(args'.esop)
  BY ReducingStep DEF CountInv
<1>2. PICK r \in Int, a \in Nat : r = Read /\ a = Cardinality(ACover) /\ a <= r
  BY ReadFacts DEF CountInv
<1>3. PICK b \in Nat : b = Cardinality(ACover')
  <2>1. (Cardinality(ACover) \in Nat)'
    BY ReadFacts, PTL
  <2>. QED
    BY <2>1
<1>7. Cardinality(ACover') <= Read'
  <2>1. CASE Stays
    <3>1. ACover' = ACover /\ Read' = Read
      BY <2>1 DEF Stays
    <3>. QED
      BY <1>2, <3>1
  <2>2. CASE Grows
    <3>1. Read' = r + 1 /\ b <= a + 1
      BY <1>2, <1>3, <2>2 DEF Grows
    <3>. QED
      BY <1>2, <1>3, <3>1
  <2>3. CASE Shrinks
    <3>1. Read' = r /\ b <= a
      BY <1>2, <1>3, <2>3 DEF Shrinks
    <3>. QED
      BY <1>2, <1>3, <3>1
  <2>. QED
    BY <2>1, <2>2, <2>3, MappedStep
<1>. QED
  BY <1>1, <1>7 DEF CountInv

LEMMA CountInit == ASSUME Init PROVE CountInv
<1>1. pc = "add" /\ list = <<>> /\ added = 0 /\ link.C1 = NULL
  BY DEF Init
<1>2. ~Linking /\ ~Adding
  BY <1>1 DEF Linking, Adding
<1>3. ACover = {} /\ Read = 0
  BY <1>1, <1>2 DEF ACover, Cover, Elements, Read
<1>4. Cardinality({}) = 0
  BY FS_EmptySet
<1>. QED
  BY <1>1, <1>2, <1>3, <1>4 DEF CountInv, Reducing

LEMMA CountFacts == ASSUME IInv, CountInv PROVE ReturnsEsop
<1>. SUFFICES ASSUME pc = "done"
     PROVE  /\ FunctionOf(Elements(list)) = FunctionRead(Len(args.esop))
            /\ Len(list) <= Len(args.esop)
  BY DEF ReturnsEsop
<1>1. PhaseInv
  BY DEF IInv
<1>2. ~Linking /\ Owed = {}
  BY <1>1, IdleFacts DEF Idle
<1>3. Resting
  BY <1>2 DEF Resting, Adding
<1>4. ACover = Cover /\ Cardinality(Cover) = Len(list) /\ Read = added
  BY <1>3, RestingFacts DEF Read, Resting
<1>5. added = Len(args.esop)
  BY DEF CountInv, Reducing
<1>6. FunctionOf(Elements(list)) = FunctionRead(added)
  <2>1. Elements(list) \cup Owed = Elements(list)
    BY <1>2
  <2>2. CoverLedger
    BY LedgerFacts
  <2>. QED
    BY <2>1, <2>2 DEF CoverLedger
<1>. QED
  BY <1>4, <1>5, <1>6 DEF CountInv

(* When exorcism is done, the list is an ESOP of the function it was given,  *)
(* with no more cubes (what dcmin relies on when it joins its groups).       *)
THEOREM ResultCorrect == Spec => []ReturnsEsop
<1>1. Init => CountInv
  BY CountInit
<1>2. IInv /\ IInv' /\ CountInv /\ [Next]_vars => CountInv'
  BY CountStep
<1>3. IInv /\ CountInv => ReturnsEsop
  BY CountFacts
<1>. QED
  BY <1>1, <1>2, <1>3, InductiveInvariant, PTL DEF Spec
=============================================================================
