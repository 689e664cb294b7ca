------------------------------ MODULE Exorcism ------------------------------
(***************************************************************************)
(* The ESOP minimiser of src/base/exor: the store of cubes (exorCubes.c,   *)
(* exorList.c), the queues of close pairs, the rewriting of a pair by       *)
(* ExorLink (exorLink.c) and the script that repeats it (exor.c).           *)
(*                                                                         *)
(* A step is one scan of the list (CheckForCloseCubes up to its return or   *)
(* its recursive call), or what the code does between two scans.  A cube's  *)
(* cell is its pointer.  The program's assertions are guards: where one     *)
(* would fail, no step is possible.                                         *)
(***************************************************************************)
EXTENDS Cubes

CONSTANTS
  Arguments,        \* the calls: starting cover, quality, cost to use
  nCubesMax,        \* a longer cover is refused
  AdditionalCubes,  \* ADDITIONAL_CUBES
  CubePairFactor,   \* CUBE_PAIR_FACTOR
  LastID            \* IDs are 1..LastID, then 1 again (a byte: 255)

ASSUME ExorcismAssumption ==
  /\ nCubesMax \in Nat
  /\ AdditionalCubes \in Nat
  /\ CubePairFactor \in Nat \ {0}
  /\ CubePairFactor <= AdditionalCubes * AdditionalCubes
  /\ LastID \in Nat \ {0}
  /\ \A args \in Arguments : args.esop \in Seq(Cube) /\ args.Quality \in Nat

VARIABLES
  args,       \* vEsop, Quality, fUseQCost
  added,      \* how many cubes of vEsop were taken
  cube,       \* the data of each cell
  ID, lits, qcost, fMark,   \* its fields ID, a, q and fMark
  list,       \* s_List
  free,       \* s_CubesFree, a stack
  cIDs,       \* the next ID
  que,        \* s_Que: the pairs seen at distance 2, 3 and 4
  enabled,    \* the distances whose pairs are recorded: s_fDistEnable2/3/4
  store,      \* s_ChangeStore: how to undo the last merge
  chk,        \* the running CheckForCloseCubes
  link,       \* the running ExorLink
  pass,       \* the running IterativelyApplyExorLink and the script around it
  pc,
  saved       \* history: the cover when the cube or the pair in hand was taken

cells == <<cube, ID, lits, qcost, fMark, list, free, cIDs>>
vars == <<args, added, cells, que, enabled, store, chk, link, pass, pc, saved>>

nCubesAlloc == Len(args.esop) + AdditionalCubes
nPosAlloc == (nCubesAlloc * nCubesAlloc) \div CubePairFactor
Cells == 1 .. nCubesAlloc
Places == 0 .. nPosAlloc - 1
NULL == 0
Distances == 2 .. 4

Elements(s) == {s[i] : i \in DOMAIN s}

(* CubeExtract: s without the cell x, which occurs in it.                   *)
Without(s, x) ==
  LET i == CHOOSE i \in DOMAIN s : s[i] = x
  IN  [j \in 1 .. Len(s) - 1 |-> IF j < i THEN s[j] ELSE s[j + 1]]

Cover == {cube[k] : k \in Elements(list)}

-----------------------------------------------------------------------------
(* The starting cover: AddCubesToStartingCover.                             *)
Blank == [v \in Positions |-> {}]
NoPair == [p1 |-> NULL, p2 |-> NULL, ID1 |-> 0, ID2 |-> 0]

Init ==
  /\ args \in Arguments
  /\ added = 0
  /\ cube = [k \in Cells |-> Blank]
  /\ ID = [k \in Cells |-> 0]
  /\ lits = [k \in Cells |-> 0]
  /\ qcost = [k \in Cells |-> 0]
  /\ fMark = [k \in Cells |-> FALSE]
  /\ list = <<>>
  /\ free = [k \in Cells |-> k]
  /\ cIDs = 1
  /\ que = [d \in Distances |->
              [buf |-> [i \in Places |-> NoPair], out |-> 0, in |-> 0, mark |-> 0]]
  /\ enabled = {2}
  /\ store = [fInput |-> FALSE, p |-> NULL, PrevQa |-> 0, PrevPa |-> 0, PrevQq |-> 0,
              PrevPq |-> 0, Var |-> 0, Value |-> {}, PrevID |-> 0]
  /\ chk = [p |-> NULL, add |-> FALSE, gain |-> 0, ret |-> "add"]
  /\ link = [dist |-> 2, C1 |-> NULL, C2 |-> NULL, el |-> [n \in 0 .. 31 |-> NULL],
             visited |-> {}, group |-> 0, c |-> 0, ins |-> {}, gain |-> 0]
  /\ pass = [todo |-> <<>>, stage |-> "start", nIter |-> 0, GainTotal |-> 0,
             nBefore |-> 0, stop |-> 0, fDecrease |-> FALSE]
  /\ pc = "add"
  /\ saved = {}

(* mutant: the byte wraps to 0, the ID of free cells.                       *)
NewIDZero(i) == (cIDs + i) % (LastID + 1)

(* The i-th ID handed out from now, counting from 0.                        *)
NewID(i) == ((cIDs + i - 1) % LastID) + 1

Quit ==
  /\ pc = "add" /\ added = 0
  /\ Len(args.esop) > nCubesMax
  /\ pc' = "quit"
  /\ UNCHANGED <<args, added, cells, que, enabled, store, chk, link, pass, saved>>

AddCube ==
  /\ pc = "add"
  /\ Len(args.esop) <= nCubesMax
  /\ added < Len(args.esop)
  /\ free # <<>>
  /\ LET new == Head(free)
         c   == args.esop[added + 1]
     IN  /\ cube' = [cube EXCEPT ![new] = c]
         /\ lits' = [lits EXCEPT ![new] = Literals(c)]
         /\ qcost' = [qcost EXCEPT ![new] = ComputeQCost(c)]
         /\ ID' = [ID EXCEPT ![new] = cIDs]
         /\ chk' = [p |-> new, add |-> TRUE, gain |-> 0, ret |-> "add"]
  /\ free' = Tail(free)
  /\ cIDs' = NewID(1)
  /\ added' = added + 1
  /\ saved' = Cover
  /\ pc' = "scan"
  /\ UNCHANGED <<args, fMark, list, que, enabled, store, link, pass>>

-----------------------------------------------------------------------------
(* CheckForCloseCubes( p, fAddCube ): the list is scanned from its head up  *)
(* to the first cube at distance 0 or 1; pairs seen before are written into *)
(* the queues, at places that only NewRangeAdd takes into use.  p->a, p->q   *)
(* follow a merge; an input's change is made by GetDistancePlus itself.     *)
From(x) == Distance(cube[chk.p], cube[x])
(* mutant: cubes at distance 1 are passed by.                               *)
HitsEqual == {i \in DOMAIN list : From(list[i]) < 1}

Hits == {i \in DOMAIN list : From(list[i]) <= 1}
Hit == list[Smallest(Hits)]
Passed == IF Hits = {} THEN list ELSE SubSeq(list, 1, Smallest(Hits) - 1)

NewRange(d) ==
  IF d \in enabled THEN Chosen(Passed, {x \in Elements(Passed) : From(x) = d}) ELSE <<>>

Place(d, i) == (que[d].in + i - 1) % nPosAlloc

(* NewRangeInsertCubePair for each cube of the range.  fEmpty is set when   *)
(* the queues are allocated and never cleared, so no pair is ever refused.  *)
Written(d, range) ==
  [place \in Places |->
     LET W == {i \in DOMAIN range : Place(d, i) = place}
         x == range[CHOOSE i \in W : \A j \in W : i >= j]
     IN  IF W = {} THEN que[d].buf[place]
         ELSE [p1 |-> chk.p, p2 |-> x, ID1 |-> ID[chk.p], ID2 |-> ID[x]]]

ScanQueues(keep) ==
  que' = [d \in Distances |->
            LET range == NewRange(d)
            IN  [que[d] EXCEPT !.buf = Written(d, range),
                               !.in = IF keep THEN (@ + Len(range)) % nPosAlloc ELSE @]]

(* mutant: negative literals are not counted.                               *)
LiteralInPos(value) == IF value = {1} THEN 1 ELSE 0

LiteralIn(value) == IF value = Absent THEN 0 ELSE 1

(* Distance 1: the cube found leaves the list, p becomes their XOR and is   *)
(* checked again, this time to be inserted.                                 *)
ScanMerge ==
  /\ pc = "scan"
  /\ Hits # {} /\ From(Hit) = 1
  /\ LET p == chk.p
         x == Hit
         v == Smallest(Differ(cube[p], cube[x]))
         new == Xor(cube[p][v], cube[x][v])
     IN  /\ store' = [fInput |-> v # OutPos, p |-> p, PrevQa |-> lits[x], PrevPa |-> lits[p],
                      PrevQq |-> qcost[x], PrevPq |-> qcost[p], Var |-> v,
                      Value |-> cube[x][v], PrevID |-> ID[x]]
         /\ cube' = [cube EXCEPT ![p][v] = new]
         /\ lits' = IF v = OutPos THEN lits
                    ELSE [lits EXCEPT ![p] = @ - LiteralIn(cube[p][v]) + LiteralIn(new)]
         /\ qcost' = IF v = OutPos THEN qcost
                     ELSE [qcost EXCEPT ![p] = ComputeQCost([cube[p] EXCEPT ![v] = new])]
         /\ list' = Without(list, x)
         /\ free' = <<x>> \o free
         /\ ID' = [ID EXCEPT ![x] = 0]
  /\ ScanQueues(FALSE)
  /\ chk' = [chk EXCEPT !.add = TRUE, !.gain = @ + 1]
  /\ UNCHANGED <<args, added, fMark, cIDs, enabled, link, pass, pc, saved>>

(* Distance 0: the two cubes cancel.                                        *)
ScanCancel ==
  /\ pc = "scan"
  /\ Hits # {} /\ From(Hit) = 0
  /\ list' = Without(list, Hit)
  /\ free' = <<Hit, chk.p>> \o free
  /\ ID' = [ID EXCEPT ![chk.p] = 0, ![Hit] = 0]
  /\ ScanQueues(FALSE)
  /\ chk' = [chk EXCEPT !.gain = @ + 2]
  /\ pc' = chk.ret
  /\ UNCHANGED <<args, added, cube, lits, qcost, fMark, cIDs, enabled, store, link, pass, saved>>

(* No such cube: the new pairs are kept, p is inserted if asked.            *)
ScanKeep ==
  /\ pc = "scan"
  /\ Hits = {}
  /\ list' = IF chk.add THEN <<chk.p>> \o list ELSE list
  /\ ScanQueues(TRUE)
  /\ pc' = chk.ret
  /\ UNCHANGED <<args, added, cube, ID, lits, qcost, fMark, free, cIDs, enabled, store, chk,
                 link, pass, saved>>

-----------------------------------------------------------------------------
(* ReduceEsopCover: the script of passes.                                   *)
Pass(dist, four) == [dist |-> dist, four |-> four]
Twice(s) == s \o s

Shallow == [i \in 1 .. 12 |-> Pass(IF i % 2 = 1 THEN 2 ELSE 3, FALSE)]
Deep == Twice(<<Pass(2, FALSE), Pass(3, FALSE), Pass(2, TRUE), Pass(3, TRUE),
                Pass(2, TRUE), Pass(4, TRUE), Pass(2, TRUE), Pass(4, FALSE)>>)
Final == SubSeq(Shallow, 1, 10)

StartReduce ==
  /\ pc = "add"
  /\ Len(args.esop) <= nCubesMax
  /\ added = Len(args.esop)
  /\ pass' = [pass EXCEPT !.todo = Shallow, !.stage = "shallow"]
  /\ pc' = "pass"
  /\ UNCHANGED <<args, added, cells, que, enabled, store, chk, link, saved>>

(* The long part of an iteration, once the short one stopped gaining.       *)
GoDeep ==
  /\ pc = "pass" /\ pass.todo = <<>> /\ pass.stage = "shallow"
  /\ pass.nIter > (IF args.Quality > 0 THEN 1 ELSE 0)
  /\ pass' = [pass EXCEPT !.todo = Deep, !.stage = "deep"]
  /\ UNCHANGED <<args, added, cells, que, enabled, store, chk, link, pc, saved>>

EndIteration ==
  /\ pc = "pass" /\ pass.todo = <<>>
  /\ \/ pass.stage = "deep"
     \/ pass.stage = "shallow" /\ pass.nIter <= (IF args.Quality > 0 THEN 1 ELSE 0)
  /\ LET n == IF pass.GainTotal # 0 THEN 0 ELSE pass.nIter + 1
         again == n < 1 + args.Quality
     IN  pass' = [pass EXCEPT !.nIter = n,
                              !.GainTotal = 0,
                              !.todo = IF again THEN Shallow ELSE Final,
                              !.stage = IF again THEN "shallow" ELSE "final",
                              !.fDecrease = ~again]
  /\ UNCHANGED <<args, added, cells, que, enabled, store, chk, link, pc, saved>>

Finish ==
  /\ pc = "pass" /\ pass.todo = <<>> /\ pass.stage = "final"
  /\ pc' = "done"
  /\ UNCHANGED <<args, added, cells, que, enabled, store, chk, link, pass, saved>>

(* IterativelyApplyExorLink2/3/4 and IteratorCubePairStart: the pass stops   *)
(* at the pairs that are queued while it runs.                              *)
BeginPass ==
  /\ pc = "pass" /\ pass.todo # <<>>
  /\ LET p == Head(pass.todo)
     IN  /\ link' = [link EXCEPT !.dist = p.dist]
         /\ enabled' = {2, 3} \cup (IF p.four THEN {4} ELSE {})
         /\ pass' = [pass EXCEPT !.todo = Tail(@), !.nBefore = Len(list),
                                 !.stop = que[p.dist].in]
  /\ pc' = "next"
  /\ UNCHANGED <<args, added, cells, que, store, chk, saved>>

-----------------------------------------------------------------------------
(* IteratorCubePairStart/Next: the first queued pair, before the stop, none *)
(* of whose cells was freed or handed out again since (by its ID).          *)
Queue == que[link.dist]
At(j) == Queue.buf[(Queue.out + j) % nPosAlloc]
Waiting == 0 .. ((pass.stop - Queue.out + nPosAlloc) % nPosAlloc) - 1
Valid(e) == ID[e.p1] = e.ID1 /\ ID[e.p2] = e.ID2
ValidAt == {j \in Waiting : Valid(At(j))}
Taken == At(Smallest(ValidAt))

(* ExorLinkCubeIteratorStart takes the pair only if its distance still is    *)
(* the one it was queued for.                                               *)
Outdated == Distance(cube[Taken.p1], cube[Taken.p2]) # link.dist

MovedOut(out) == [que EXCEPT ![link.dist].out = out % nPosAlloc]
MarkSet(qs) == [d \in Distances |-> [qs[d] EXCEPT !.mark = qs[d].in]]
MarkRewind == [d \in Distances |-> [que[d] EXCEPT !.in = que[d].mark]]

(* mutant: the gain is measured from the cubes read, not from the pass.     *)
EndPassTotal ==
  /\ pc = "next"
  /\ ValidAt = {}
  /\ que' = MovedOut(pass.stop)
  /\ pass' = [pass EXCEPT !.GainTotal = @ + Len(args.esop) - Len(list)]
  /\ pc' = "pass"
  /\ UNCHANGED <<args, added, cells, enabled, store, chk, link, saved>>

EndPass ==
  /\ pc = "next"
  /\ ValidAt = {}
  /\ que' = MovedOut(pass.stop)
  /\ pass' = [pass EXCEPT !.GainTotal = @ + pass.nBefore - Len(list)]
  /\ pc' = "pass"
  /\ UNCHANGED <<args, added, cells, enabled, store, chk, link, saved>>

SkipPair ==
  /\ pc = "next"
  /\ ValidAt # {} /\ Outdated
  /\ que' = MovedOut(Queue.out + Smallest(ValidAt) + 1)
  /\ UNCHANGED <<args, added, cells, enabled, store, chk, link, pass, pc, saved>>

(* The groups of the linked pair: group g consists of the cells             *)
(* link.el[Rules[g][c]].                                                    *)
Rules == GroupRules(link.dist)
GroupCost(d, g, p, q) ==
  Cardinality({w \in (1 .. d) \X Inputs :
                 w[2] \in Differ(p, q) /\ ELCube(p, q, GroupRules(d)[g][w[1]])[w[2]] # Absent})

(* A costliest group that was not visited, the first in the table.          *)
NextGroupOf(d, visited, p, q) ==
  LET cost == [g \in DOMAIN GroupRules(d) \ visited |-> GroupCost(d, g, p, q)]
  IN  Smallest({g \in DOMAIN cost : \A h \in DOMAIN cost : cost[g] >= cost[h]})

(* Cells from the free list become the cubes of group g that do not exist   *)
(* yet; the number of literals is that of A outside the columns of the      *)
(* differing inputs plus that of the cube in them.                          *)
Create(d, g, C1, C2) ==
  LET need == Chosen(GroupRules(d)[g], {n \in 0 .. 31 : link.el[n] = NULL})
      base == lits[C1] - Cardinality({v \in Differ(cube[C1], cube[C2]) \ {OutPos} :
                                        cube[C1][v] # Absent})
      new  == SubSeq(free, 1, Len(need))
      Nth(k) == CHOOSE i \in DOMAIN new : new[i] = k
      Data(k) == ELCube(cube[C1], cube[C2], need[Nth(k)])
  IN  /\ Len(need) <= Len(free)
      /\ link' = [dist |-> d, C1 |-> C1, C2 |-> C2,
                  el |-> [n \in 0 .. 31 |->
                            IF n \in Elements(need)
                            THEN new[CHOOSE i \in DOMAIN need : need[i] = n] ELSE link.el[n]],
                  visited |-> link.visited \cup {g},
                  group |-> g, c |-> 1, ins |-> {}, gain |-> 0]
      /\ cube' = [k \in Cells |-> IF k \in Elements(new) THEN Data(k) ELSE cube[k]]
      /\ lits' = [k \in Cells |-> IF k \in Elements(new)
                                  THEN base + CubeLiterals(cube[C1], cube[C2], need[Nth(k)])
                                  ELSE lits[k]]
      /\ qcost' = [k \in Cells |-> IF k \in Elements(new) THEN ComputeQCost(Data(k)) ELSE qcost[k]]
      /\ ID' = [k \in Cells |-> IF k \in Elements(new) THEN NewID(Nth(k) - 1) ELSE ID[k]]
      /\ cIDs' = NewID(Len(new))
      /\ free' = SubSeq(free, Len(need) + 1, Len(free))

LinkPair ==
  /\ pc = "next"
  /\ ValidAt # {} /\ ~Outdated
  /\ LET C1 == Taken.p1
         C2 == Taken.p2
     IN  /\ Create(link.dist, NextGroupOf(link.dist, {}, cube[C1], cube[C2]), C1, C2)
         /\ list' = Without(Without(list, C1), C2)
  /\ que' = MarkSet(MovedOut(Queue.out + Smallest(ValidAt) + 1))
  /\ saved' = Cover
  /\ pc' = "probe"
  /\ UNCHANGED <<args, added, fMark, enabled, store, chk, pass>>

NextGroup ==
  /\ pc = "failed"
  /\ Cardinality(link.visited) < Len(Rules)
  /\ Create(link.dist, NextGroupOf(link.dist, link.visited, cube[link.C1], cube[link.C2]),
            link.C1, link.C2)
  /\ que' = MarkRewind
  /\ pc' = "probe"
  /\ UNCHANGED <<args, added, fMark, list, enabled, store, chk, pass, saved>>

-----------------------------------------------------------------------------
(* The cubes of a group are checked one by one, without inserting them.     *)
GroupCell(i) == link.el[Rules[link.group][i]]
GroupCells == {GroupCell(i) : i \in 1 .. link.dist}
Unchecked == {i \in link.c .. link.dist : ~fMark[GroupCell(i)]}

Check(p, add, ret) == chk' = [p |-> p, add |-> add, gain |-> 0, ret |-> ret]

ProbeCube ==
  /\ pc = "probe"
  /\ Unchecked # {}
  /\ link' = [link EXCEPT !.c = Smallest(Unchecked)]
  /\ Check(GroupCell(Smallest(Unchecked)), FALSE, "probed")
  /\ pc' = "scan"
  /\ UNCHANGED <<args, added, cells, que, enabled, store, pass, saved>>

(* No gain: ExorLink-3 does not try the cube again in other groups.         *)
ProbeMissed ==
  /\ pc = "probed"
  /\ chk.gain = 0
  /\ fMark' = IF link.dist = 3 THEN [fMark EXCEPT ![GroupCell(link.c)] = TRUE] ELSE fMark
  /\ link' = [link EXCEPT !.c = @ + 1]
  /\ pc' = "probe"
  /\ UNCHANGED <<args, added, cube, ID, lits, qcost, list, free, cIDs, que, enabled, store, chk,
                 pass, saved>>

Cost(k) == IF args.fUseQCost THEN qcost[k] ELSE lits[k]
GroupTotal ==
  LET sum[i \in 0 .. link.dist] == IF i = 0 THEN 0 ELSE sum[i - 1] + Cost(GroupCell(i))
  IN  sum[link.dist]
PairTotal == Cost(link.C1) + Cost(link.C2)

(* UndoRecentChanges: the cell freed last is taken back with the ID it had, *)
(* and p is changed back to what it was.                                    *)
UndoRecentChanges ==
  /\ free # <<>>
  /\ LET x == Head(free)
         p == store.p
         v == IF store.fInput THEN store.Var ELSE OutPos
     IN  /\ ID' = [ID EXCEPT ![x] = store.PrevID]
         /\ list' = Without(<<x>> \o list, p)
         /\ cube' = [cube EXCEPT ![p][v] = Xor(@, IF store.fInput THEN store.Value ELSE cube[x][v])]
         /\ lits' = IF store.fInput THEN [lits EXCEPT ![p] = store.PrevPa] ELSE lits
         /\ qcost' = IF store.fInput THEN [qcost EXCEPT ![p] = store.PrevPq] ELSE qcost
  /\ free' = Tail(free)
  /\ UNCHANGED cIDs

(* ExorLink-3, when literals are to decrease: one cube gained by a group    *)
(* that costs more is not worth it.                                         *)
TooCostly ==
  /\ link.dist = 3 /\ pass.fDecrease /\ chk.gain = 1
  /\ GroupTotal > PairTotal + (IF args.fUseQCost THEN store.PrevQq ELSE store.PrevQa)

ProbeRejected ==
  /\ pc = "probed"
  /\ chk.gain > 0 /\ TooCostly
  /\ UndoRecentChanges
  /\ pc' = "failed"
  /\ UNCHANGED <<args, added, fMark, que, enabled, store, chk, link, pass, saved>>

ProbeGained ==
  /\ pc = "probed"
  /\ chk.gain > 0 /\ ~TooCostly
  /\ link' = [link EXCEPT !.c = @ + 1, !.ins = @ \cup {link.c}, !.gain = @ + chk.gain]
  /\ pc' = IF link.dist = 4 THEN "probe" ELSE "insert"
  /\ UNCHANGED <<args, added, cells, que, enabled, store, chk, pass, saved>>

(* All were checked.  ExorLink-4 marks cubes only now, and undoes the merge *)
(* of a group that gained no more than one cube.                            *)
GroupMissed ==
  /\ pc = "probe"
  /\ Unchecked = {} /\ link.gain = 0
  /\ fMark' = IF link.dist = 4 THEN [k \in Cells |-> fMark[k] \/ k \in GroupCells] ELSE fMark
  /\ pc' = "failed"
  /\ UNCHANGED <<args, added, cube, ID, lits, qcost, list, free, cIDs, que, enabled, store, chk,
                 link, pass, saved>>

(* mutant: the group is given up, its merge is not undone.                  *)
GroupUndoneNot ==
  /\ pc = "probe"
  /\ Unchecked = {} /\ link.gain = 1
  /\ fMark' = [k \in Cells |-> IF k \in GroupCells
                               THEN \A i \in link.ins : GroupCell(i) # k ELSE fMark[k]]
  /\ pc' = "failed"
  /\ UNCHANGED <<args, added, cube, ID, lits, qcost, list, free, cIDs, que, enabled, store, chk,
                 link, pass, saved>>

GroupUndone ==
  /\ pc = "probe"
  /\ Unchecked = {} /\ link.gain = 1
  /\ UndoRecentChanges
  /\ fMark' = [k \in Cells |-> IF k \in GroupCells
                               THEN \A i \in link.ins : GroupCell(i) # k ELSE fMark[k]]
  /\ pc' = "failed"
  /\ UNCHANGED <<args, added, que, enabled, store, chk, link, pass, saved>>

(* mutant: one cube gained is taken for enough.                             *)
GroupGainedOne ==
  /\ pc = "probe"
  /\ Unchecked = {} /\ link.gain > 0
  /\ pc' = "insert"
  /\ UNCHANGED <<args, added, cells, que, enabled, store, chk, link, pass, saved>>

GroupGained ==
  /\ pc = "probe"
  /\ Unchecked = {} /\ link.gain > 1
  /\ pc' = "insert"
  /\ UNCHANGED <<args, added, cells, que, enabled, store, chk, link, pass, saved>>

(* The group is taken: its other cubes are inserted, and checked again.     *)
InsertCube ==
  /\ pc = "insert"
  /\ link.ins # 1 .. link.dist
  /\ LET i == Smallest((1 .. link.dist) \ link.ins)
     IN  /\ link' = [link EXCEPT !.ins = @ \cup {i}]
         /\ Check(GroupCell(i), TRUE, "insert")
  /\ pc' = "scan"
  /\ UNCHANGED <<args, added, cells, que, enabled, store, pass, saved>>

-----------------------------------------------------------------------------
(* mutant: the cubes of the last group never go back to the free list.      *)
CleanUpKeeps(fTakeLastGroup, more) ==
  LET made == {n \in ELCubes(link.dist) : link.el[n] # NULL}
      kept == Elements(Rules[link.group])
      last == Chosen([i \in 1 .. 32 |-> 32 - i], made \ kept)
      back == [i \in DOMAIN last |-> link.el[last[i]]]
  IN  /\ free' = more \o back \o free
      /\ ID' = [k \in Cells |-> IF k \in Elements(more) \cup Elements(back) THEN 0 ELSE ID[k]]
      /\ fMark' = [k \in Cells |-> fMark[k] /\ \A n \in made : link.el[n] # k]
      /\ link' = [link EXCEPT !.C1 = NULL, !.C2 = NULL, !.el = [n \in 0 .. 31 |-> NULL],
                              !.visited = {}, !.ins = {}, !.gain = 0]

(* ExorLinkCubeIteratorCleanUp: the cubes made for the pair go back to the  *)
(* free list, except those of the last group when it is taken; more are     *)
(* freed after them.                                                        *)
CleanUp(fTakeLastGroup, more) ==
  LET made == {n \in ELCubes(link.dist) : link.el[n] # NULL}
      kept == IF fTakeLastGroup THEN Elements(Rules[link.group]) ELSE {}
      last == Chosen([i \in 1 .. 32 |-> 32 - i], made \ kept)
      back == [i \in DOMAIN last |-> link.el[last[i]]]
  IN  /\ fTakeLastGroup \/ made = ELCubes(link.dist)
      /\ free' = more \o back \o free
      /\ ID' = [k \in Cells |-> IF k \in Elements(more) \cup Elements(back) THEN 0 ELSE ID[k]]
      /\ fMark' = [k \in Cells |-> fMark[k] /\ \A n \in made : link.el[n] # k]
      /\ link' = [link EXCEPT !.C1 = NULL, !.C2 = NULL, !.el = [n \in 0 .. 31 |-> NULL],
                              !.visited = {}, !.ins = {}, !.gain = 0]

AcceptGroup ==
  /\ pc = "insert"
  /\ link.ins = 1 .. link.dist
  /\ CleanUp(TRUE, <<link.C2, link.C1>>)
  /\ pc' = "next"
  /\ UNCHANGED <<args, added, cube, lits, qcost, list, cIDs, que, enabled, store, chk, pass, saved>>

(* ExorLink-2 takes its last group even without a gain, as it may enable    *)
(* one, unless literals are to decrease.                                    *)
Reshapes == link.dist = 2 /\ ~(pass.fDecrease /\ GroupTotal >= PairTotal)
NoGroupLeft == Cardinality(link.visited) = Len(Rules)

TakeLastGroup ==
  /\ pc = "failed"
  /\ NoGroupLeft /\ Reshapes
  /\ list' = <<GroupCell(2), GroupCell(1)>> \o list
  /\ CleanUp(TRUE, <<link.C2, link.C1>>)
  /\ pc' = "next"
  /\ UNCHANGED <<args, added, cube, lits, qcost, cIDs, que, enabled, store, chk, pass, saved>>

RestorePair ==
  /\ pc = "failed"
  /\ NoGroupLeft /\ ~Reshapes
  /\ list' = <<link.C2, link.C1>> \o list
  /\ CleanUp(FALSE, <<>>)
  /\ que' = MarkRewind
  /\ pc' = "next"
  /\ UNCHANGED <<args, added, cube, lits, qcost, cIDs, enabled, store, chk, pass, saved>>

Finished == pc \in {"done", "quit"}
Terminated == Finished /\ UNCHANGED vars

Next ==
  \/ Quit \/ AddCube \/ StartReduce
  \/ ScanMerge \/ ScanCancel \/ ScanKeep
  \/ GoDeep \/ EndIteration \/ Finish
  \/ BeginPass \/ EndPass \/ SkipPair \/ LinkPair \/ NextGroup
  \/ ProbeCube \/ ProbeMissed \/ ProbeRejected \/ ProbeGained
  \/ GroupMissed \/ GroupUndone \/ GroupGained \/ InsertCube
  \/ AcceptGroup \/ TakeLastGroup \/ RestorePair
  \/ Terminated

Spec == Init /\ [][Next]_vars

(* The program runs until it returns (the deadlock check shows that a step  *)
(* is possible until then: this is weak fairness of Next).                  *)
FairSpec == Spec /\ ([]<>Finished \/ []<><<Next>>_vars)

-----------------------------------------------------------------------------
Linking == link.C1 # NULL
Adding == pc = "scan" /\ ~Linking
Linked == ({link.C1, link.C2} \cup {link.el[n] : n \in 0 .. 31}) \ {NULL}

Pairs == [p1 : 0 .. nCubesAlloc, p2 : 0 .. nCubesAlloc, ID1 : 0 .. LastID, ID2 : 0 .. LastID]

Queues ==
  [Distances -> [buf : [Places -> Pairs], out : Places, in : Places, mark : Places]]
Stores ==
  [fInput : BOOLEAN, p : 0 .. nCubesAlloc, PrevQa : 0 .. N, PrevPa : 0 .. N, PrevQq : Nat,
   PrevPq : Nat, Var : 0 .. OutPos, Value : Literal \cup SUBSET Outs, PrevID : 0 .. LastID]
Checks ==
  [p : 0 .. nCubesAlloc, add : BOOLEAN, gain : Nat, ret : {"add", "probed", "insert"}]
Links ==
  [dist : Distances, C1 : 0 .. nCubesAlloc, C2 : 0 .. nCubesAlloc,
   el : [0 .. 31 -> 0 .. nCubesAlloc], visited : SUBSET (1 .. 24), group : 0 .. 24,
   c : 0 .. 5, ins : SUBSET (1 .. 4), gain : Nat]
Passes ==
  [todo : Seq([dist : Distances, four : BOOLEAN]), stage : {"start", "shallow", "deep", "final"},
   nIter : Nat, GainTotal : Nat, nBefore : Nat, stop : Places, fDecrease : BOOLEAN]

(* The types of the variables.                                              *)
TypeOK ==
  /\ args \in Arguments /\ added \in 0 .. Len(args.esop)
  /\ cube \in [Cells -> Cube \cup {Blank}]
  /\ ID \in [Cells -> 0 .. LastID]
  /\ lits \in [Cells -> 0 .. N] /\ qcost \in [Cells -> Nat]
  /\ fMark \in [Cells -> BOOLEAN]
  /\ list \in Seq(Cells) /\ free \in Seq(Cells)
  /\ cIDs \in 1 .. LastID
  /\ que \in Queues /\ enabled \in SUBSET Distances
  /\ store \in Stores /\ chk \in Checks /\ link \in Links /\ pass \in Passes
  /\ pc \in {"add", "scan", "pass", "next", "probe", "probed", "insert", "failed", "done", "quit"}
  /\ saved \in SUBSET Cube

(* Every cell is in the list, in the free list or in hand, in one of them,  *)
(* once; a free cell is one without an ID, so that queued pairs recognise   *)
(* it (AddToFreeCubes); the cubes in hand are those of the running           *)
(* ExorLink or the one being added; only they are marked.  Between two      *)
(* steps of the script no cell is in hand: nCubesInUse + nCubesFree ==      *)
(* nCubesAlloc (the assertions of AddCubesToStartingCover, ReduceEsopCover). *)
CellsAccounted ==
  LET hand == Cells \ (Elements(list) \cup Elements(free))
  IN  /\ \A i, j \in DOMAIN list : list[i] = list[j] => i = j
      /\ \A i, j \in DOMAIN free : free[i] = free[j] => i = j
      /\ Elements(list) \cap Elements(free) = {}
      /\ \A k \in Cells : ID[k] = 0 <=> k \in Elements(free)
      /\ \A k \in Cells : fMark[k] => Linking /\ k \in Linked
      /\ IF Linking THEN {link.C1, link.C2} \subseteq hand /\ hand \subseteq Linked
         ELSE hand = IF Adding THEN {chk.p} ELSE {}

(* The cubes that the list owes: taken out of it, or read, and not yet      *)
(* given back.  A group replaces the pair once one of its cubes is merged.  *)
Merging == pc \in {"scan", "probed"} /\ chk.ret = "probed" /\ chk.gain > 0
Touched == pc # "failed" /\ (link.ins # {} \/ Merging)
Given == link.ins \cup (IF Merging THEN {link.c} ELSE {})
InScan == IF pc = "scan" THEN {chk.p} ELSE {}
Owed ==
  IF ~Linking THEN InScan
  ELSE IF ~Touched THEN {link.C1, link.C2}
  ELSE {GroupCell(i) : i \in (1 .. link.dist) \ Given} \cup InScan

FunctionOf(S) == {x \in Points : Odd({k \in S : Covers(cube[k], x)})}
FunctionRead(n) == {x \in Points : Odd({i \in 1 .. n : Covers(args.esop[i], x)})}

(* In every state, in the middle of a check or of an ExorLink, the list and *)
(* what it owes XOR to the cubes read so far (EXORs it with the given cube,  *)
(* adds the resultant cube, CheckForCloseCubes).                            *)
CoverLedger == FunctionOf(Elements(list) \cup Owed) = FunctionRead(added)

(* A group that is not taken leaves no trace, whatever was merged and        *)
(* undone while it was tried: the list holds the cubes it held before, less *)
(* the pair, and every cube made for the pair is still what the table says. *)
TriedInVain ==
  Linking /\ ~Touched =>
    /\ Cover = saved \ {cube[link.C1], cube[link.C2]}
    /\ \A n \in ELCubes(link.dist) :
         link.el[n] # NULL => cube[link.el[n]] = ELCube(cube[link.C1], cube[link.C2], n)

(* No two cubes of the list are closer than distance 2: they would have      *)
(* been merged.  Cubes are inserted without a check where it was made before *)
(* (TakeLastGroup, RestorePair).                                            *)
NoClosePairs ==
  \A i, j \in DOMAIN list : i # j => Distance(cube[list[i]], cube[list[j]]) >= 2

(* The number of literals and the cost a cube carries, kept up to date by   *)
(* increments and by undoing, are those of its data (CountLiteralsCheck     *)
(* warns otherwise).                                                        *)
LiteralsCounted ==
  \A k \in Cells : ID[k] # 0 => /\ lits[k] = Literals(cube[k])
                                /\ qcost[k] = ComputeQCost(cube[k])

(* Seen between two operations, the list is an EsopCover: its function is    *)
(* what was read, and no operation makes it longer.                         *)
Abstract == INSTANCE EsopCover WITH
  cover <- IF Linking \/ Adding THEN saved ELSE Cover,
  function <- FunctionRead(IF Adding THEN added - 1 ELSE added)
ImplementsEsopCover == Abstract!Spec

(* The script ends: with every gain the cover loses a cube, and without one  *)
(* the iterations are counted.                                              *)
SearchEnds == <>Finished

(* exorLink.c: if we already used a cube to count distances and it did not  *)
(* improve there is no need to try it again with other group.  So, when a    *)
(* group is about to be tried, its marked cubes are far from the list.       *)
MarkedCubesAreFar ==
  pc = "probe" /\ link.c = 1 /\ link.ins = {} =>
    \A i \in 1 .. link.dist :
      fMark[GroupCell(i)] =>
        \A k \in Elements(list) : Distance(cube[GroupCell(i)], cube[k]) >= 2
(* exorList.c: fEmpty "is 1 if there is nothing in the queque", so that a    *)
(* pair for which the queue has no place meets assert(0), "Have run out of   *)
(* queque space!", instead of a pair that waits: there always is room.      *)
RoomForPairs ==
  (pc = "scan" /\ Hits = {}) =>
    \A d \in Distances : ((que[d].in - que[d].out + nPosAlloc) % nPosAlloc) + Len(NewRange(d)) < nPosAlloc
=============================================================================
