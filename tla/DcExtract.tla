------------------------------ MODULE DcExtract ------------------------------
(***************************************************************************)
(* dcextract: divide the function by Shannon expansion, fNumCofVar times,   *)
(* extract an ESOP of each part with bddextract, and write into the cubes   *)
(* of a part the values of the inputs it was divided by.                    *)
(*                                                                         *)
(* The cubes are marked only when a part is complete: until then a cube in  *)
(* the list lacks the literals of all divisions that are still open.        *)
(***************************************************************************)
EXTENDS Pla

CONSTANTS
  Roots,        \* the functions of the outputs
  CofVarNums,   \* the values of option -n
  Extracted(_)  \* what BddExtractSingleOutput may append for a function

(* Wider outputs are refused by bddextract, part by part.                   *)
BITWIDTH == 64

ASSUME DivideAssumption ==
  /\ N <= BITWIDTH
  /\ Roots \subseteq Fns
  /\ CofVarNums \subseteq 0 .. N

(* What BddExtract guarantees of the cubes it appends: they are an ESOP of   *)
(* the function, and only mention inputs it depends on.                      *)
ASSUME ExtractedAssumption ==
  \A F \in Fns : \A C \in Extracted(F) :
    /\ C \in Seq(Cubes)
    /\ Realises(C, F)
    /\ \A k \in DOMAIN C : C[k].care \subseteq Support(F)

VARIABLES
  root,         \* the output's function
  dpc,          \* "call": DivideConquerRecur(part, nCofVar) runs next; "return"; "written"
  part,         \* pNtk of the latest call
  nCofVar,
  divisions,    \* the activations that wait for a part, outermost first
  cofVarList,   \* CofVarList: the inputs divided by
  esop,         \* ESOP
  plaFile       \* the file of the output, as a sequence of lines

dvars == <<root, dpc, part, nCofVar, divisions, cofVarList, esop, plaFile>>

Top == divisions[Len(divisions)]
Pop(s) == SubSeq(s, 1, Len(s) - 1)

DivideInit ==
  /\ root \in Roots /\ part = root
  /\ nCofVar \in CofVarNums
  /\ dpc = "call"
  /\ divisions = <<>> /\ cofVarList = {} /\ esop = <<>>
  /\ plaFile = <<>>

(* A part that is not divided further.                                      *)
SolvePart ==
  /\ dpc = "call" /\ nCofVar = 0
  /\ \E C \in Extracted(part) : esop' = esop \o [k \in DOMAIN C |-> Str(C[k])]
  /\ dpc' = "return"
  /\ UNCHANGED <<root, part, nCofVar, divisions, cofVarList, plaFile>>

(* The input chosen is one not divided by yet; which one depends on the     *)
(* sizes of the AIGs of its cofactors.  The half x = 0 comes first.          *)
Divide(v) ==
  /\ dpc = "call" /\ nCofVar > 0
  /\ v \notin cofVarList
  /\ cofVarList' = cofVarList \cup {v}
  /\ divisions' = Append(divisions, [f |-> part, minIdx |-> v, half |-> 0, before |-> Len(esop)])
  /\ part' = E(part, v)
  /\ nCofVar' = nCofVar - 1
  /\ UNCHANGED <<root, dpc, esop, plaFile>>

CharacterSwapped(half) == IF half = 0 THEN "1" ELSE "0"   \* mutant: the halves are swapped
Character(half) == IF half = 0 THEN "0" ELSE "1"

(* The loops that follow the two recursive calls: the cubes of the half get *)
(* its value.  That they did not mention the input is asserted.              *)
New == Top.before + 1 .. Len(esop)
MarkNewCubes ==
  /\ \A k \in New : esop[k][Top.minIdx] = "-"
  /\ esop' = [k \in DOMAIN esop |->
                IF k \in New THEN [esop[k] EXCEPT ![Top.minIdx] = Character(Top.half)]
                ELSE esop[k]]

OtherHalf ==
  /\ dpc = "return" /\ divisions # <<>> /\ Top.half = 0
  /\ MarkNewCubes
  /\ divisions' = [divisions EXCEPT ![Len(divisions)].half = 1,
                                    ![Len(divisions)].before = Len(esop)]
  /\ part' = T(Top.f, Top.minIdx)
  /\ dpc' = "call"
  /\ UNCHANGED <<root, nCofVar, cofVarList, plaFile>>

LeaveDivision ==
  /\ dpc = "return" /\ divisions # <<>> /\ Top.half = 1
  /\ MarkNewCubes
  /\ cofVarList' = cofVarList \ {Top.minIdx}
  /\ divisions' = Pop(divisions)
  /\ nCofVar' = nCofVar + 1
  /\ UNCHANGED <<root, dpc, part, plaFile>>

WritePla ==
  /\ dpc = "return" /\ divisions = <<>>
  /\ plaFile' = esop
  /\ dpc' = "written"
  /\ UNCHANGED <<root, part, nCofVar, divisions, cofVarList, esop>>

DivideNext ==
  \/ SolvePart
  \/ \E v \in Vars : Divide(v)
  \/ OtherHalf
  \/ LeaveDivision
  \/ WritePla

-----------------------------------------------------------------------------
(* At every moment, a minterm is in the output's function exactly if it is  *)
(* in an odd number of: the cubes in the list, each below the values of the *)
(* divisions that were open when it was appended and still are (they are not *)
(* yet written into it), the halves that open divisions still have to visit, *)
(* and the part being solved, below the values of all open divisions.       *)
InHalf(m, d, half) == d.minIdx \in m <=> half = 1
InHalves(m, n) == \A j \in 1 .. n : InHalf(m, divisions[j], divisions[j].half)

CubesNow(m) ==
  {k \in TextCovering(esop, m) :
     \A j \in DOMAIN divisions : divisions[j].before < k => InHalf(m, divisions[j], divisions[j].half)}
HalvesLeft(m) ==
  {j \in DOMAIN divisions :
     /\ divisions[j].half = 0 /\ InHalf(m, divisions[j], 1)
     /\ InHalves(m, j - 1) /\ m \in divisions[j].f}
InPart(m) == dpc = "call" /\ InHalves(m, Len(divisions)) /\ m \in part

DivideLedger ==
  \A m \in Minterms :
    (m \in root <=> InPart(m)) <=> (Odd(CubesNow(m)) <=> Odd(HalvesLeft(m)))
=============================================================================
