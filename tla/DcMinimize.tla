----------------------------- MODULE DcMinimize -----------------------------
(***************************************************************************)
(* dcmin: read an ESOP from a PLA file, cut it into groups, minimise each    *)
(* with exorcism, put the results together and cut them again, as often as   *)
(* asked, and write them into a PLA file.                                   *)
(***************************************************************************)
EXTENDS Pla, SequencesExt

CONSTANTS
  GroupSizes,    \* the values of option -g
  Iterations,    \* the values of option -i, which is not checked
  CubesMax,      \* g_CoverInfo.nCubesMax: the largest cover exorcism takes
  NULL           \* what MyExorcism returns for a larger one

ASSUME MinimizeAssumption ==
  /\ GroupSizes \subseteq Nat \ {0, 1}    \* the command refuses smaller ones
  /\ Iterations \subseteq Int
  /\ CubesMax \in Nat

VARIABLES
  mpc,           \* "start", "iterate", "exorcism", "done" or "crashed"
  inFile,        \* the file read
  fGroupSize, fIteration,
  i,             \* iterations done
  vEsopList,     \* the groups
  vEsopList_tem, \* the groups of this iteration that were not minimised yet
  outFile

mvars == <<mpc, inFile, fGroupSize, fIteration, i, vEsopList, vEsopList_tem, outFile>>

-----------------------------------------------------------------------------
(* A cube in memory is a list of literals: 2i for input i, 2i+1 for its      *)
(* complement, the inputs numbered from 0.                                  *)
Lit(v, character) ==
  IF character = "0" THEN 2 * (v - 1) + 1 ELSE 2 * (v - 1)
Lits(t) == {Lit(v, t[v]) : v \in {w \in Vars : t[w] # "-"}}

(* mutant: odd literals are written as 1.                                   *)
TextSwapped(c) ==
  [v \in Vars |-> IF Lit(v, "0") \in c THEN "1" ELSE IF Lit(v, "1") \in c THEN "0" ELSE "-"]

Text(c) ==
  [v \in Vars |-> IF Lit(v, "1") \in c THEN "1" ELSE IF Lit(v, "0") \in c THEN "0" ELSE "-"]

LitCubes == {Lits(t) : t \in TextCubes}

LitCovers(c, m) == \A l \in c : l % 2 = 0 <=> (l \div 2) + 1 \in m
LitCovering(s, m) == {k \in DOMAIN s : LitCovers(s[k], m)}
Value(s) == {m \in Minterms : Odd(LitCovering(s, m))}

(* Two cubes at distance 0 or 1, which exorcism never leaves in a cover.     *)
CloseCubes(c, d) ==
  \E v \in Vars : \A l \in (c \ d) \cup (d \ c) : l \div 2 + 1 = v

(* The sets of at most n elements of S.                                     *)
AtMost(n, S) == {{}} \cup {ToSet(s) : s \in [1 .. n -> S]}

(* What exorcism promises (EsopCover and NoClosePairs of Exorcism): another *)
(* ESOP of the function, no longer, without close cubes.                    *)
Minimal ==
  {C \in AtMost(CubesMax, LitCubes) :
     \A c, d \in C : c # d => ~CloseCubes(c, d)}
MinimalEsops == {<<s, Value(s)>> : s \in {SetToSeq(C) : C \in Minimal}}

MyExorcism(esop) ==
  IF Len(esop) > CubesMax THEN {NULL}
  ELSE LET F == Value(esop)
       IN  {e[1] : e \in {d \in MinimalEsops : Len(d[1]) <= Len(esop) /\ d[2] = F}}

(* mutant: only full groups are kept.                                       *)
GroupsFull(cubes, size) ==
  [g \in 1 .. Len(cubes) \div size |-> SubSeq(cubes, (g - 1) * size + 1, g * size)]

(* splitESOPList: the cubes in order, size at a time; the last group, full  *)
(* or not, is always there.                                                 *)
Groups(cubes, size) ==
  LET n == IF cubes = <<>> THEN 1 ELSE (Len(cubes) + size - 1) \div size
  IN  [g \in 1 .. n |->
         SubSeq(cubes, (g - 1) * size + 1,
                IF g < n THEN g * size ELSE Len(cubes))]

-----------------------------------------------------------------------------
MinimizeInit ==
  /\ mpc = "start" /\ inFile = <<>>
  /\ fGroupSize = 0 /\ fIteration = 0
  /\ i = 0 /\ vEsopList = <<>> /\ vEsopList_tem = <<>> /\ outFile = <<>>

(* The command's options, and readPlaIntoESOP: all cubes in one group.      *)
ReadPla(file) ==
  /\ mpc = "start"
  /\ fGroupSize' \in GroupSizes /\ fIteration' \in Iterations
  /\ inFile' = file
  /\ vEsopList' = << [k \in DOMAIN file |-> Lits(file[k])] >>
  /\ mpc' = "iterate"
  /\ UNCHANGED <<i, vEsopList_tem, outFile>>

HasNull == \E g \in DOMAIN vEsopList : vEsopList[g] = NULL

Split ==
  /\ mpc = "iterate" /\ i < fIteration /\ ~HasNull
  /\ vEsopList_tem' = Groups(FlattenSeq(vEsopList), fGroupSize)
  /\ vEsopList' = <<>>
  /\ mpc' = "exorcism"
  /\ UNCHANGED <<inFile, fGroupSize, fIteration, i, outFile>>

MinimizeGroup ==
  /\ mpc = "exorcism" /\ vEsopList_tem # <<>>
  /\ \E r \in MyExorcism(Head(vEsopList_tem)) : vEsopList' = Append(vEsopList, r)
  /\ vEsopList_tem' = Tail(vEsopList_tem)
  /\ UNCHANGED <<mpc, inFile, fGroupSize, fIteration, i, outFile>>

EndIteration ==
  /\ mpc = "exorcism" /\ vEsopList_tem = <<>>
  /\ i' = i + 1
  /\ mpc' = "iterate"
  /\ UNCHANGED <<inFile, fGroupSize, fIteration, vEsopList, vEsopList_tem, outFile>>

(* countNumberOfCubes, then writeESOPListIntoPla.                           *)
WriteResult ==
  /\ mpc = "iterate" /\ i >= fIteration /\ ~HasNull
  /\ outFile' = [k \in DOMAIN FlattenSeq(vEsopList) |-> Text(FlattenSeq(vEsopList)[k])]
  /\ mpc' = "done"
  /\ UNCHANGED <<inFile, fGroupSize, fIteration, i, vEsopList, vEsopList_tem>>

(* A group that exorcism gave up on is used like the others, when the list  *)
(* is split or its cubes are counted: the null pointer is dereferenced.      *)
UseNull ==
  /\ mpc = "iterate" /\ HasNull
  /\ mpc' = "crashed"
  /\ UNCHANGED <<inFile, fGroupSize, fIteration, i, vEsopList, vEsopList_tem, outFile>>

MinimizeNext == Split \/ MinimizeGroup \/ EndIteration \/ WriteResult \/ UseNull

-----------------------------------------------------------------------------
(* Cutting, minimising and joining loses no cube: as long as exorcism took   *)
(* every group, all groups together are an ESOP of the function that was     *)
(* read, and not longer than it, also between two groups.  A file that was   *)
(* written is such an ESOP, whatever exorcism did.                          *)
AllCubes == FlattenSeq(vEsopList \o vEsopList_tem)

GroupsLedger ==
  /\ mpc \in {"iterate", "exorcism", "done"} /\ ~HasNull =>
       LET all == AllCubes
       IN  /\ Len(all) <= Len(inFile)
           /\ \A m \in Minterms : Odd(LitCovering(all, m)) <=> Odd(TextCovering(inFile, m))
  /\ mpc = "done" =>
       \A m \in Minterms : Odd(TextCovering(outFile, m)) <=> Odd(TextCovering(inFile, m))
=============================================================================
