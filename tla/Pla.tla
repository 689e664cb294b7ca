--------------------------------- MODULE Pla ---------------------------------
(***************************************************************************)
(* Cubes as text: one character per input, '1', '0' or '-'.  The extractors *)
(* collect and write them, dcmin reads and writes them.                     *)
(***************************************************************************)
EXTENDS BoolFun

TextCubes == [Vars -> {"0", "1", "-"}]

(* cube::str in utils.h.                                                    *)
Str(c) == [v \in Vars |-> IF v \notin c.care THEN "-" ELSE IF v \in c.pol THEN "1" ELSE "0"]

(* What a line of a PLA file of type esop means.                            *)
Admits(character, m, v) ==
  /\ character = "1" => v \in m
  /\ character = "0" => v \notin m
TextCovers(t, m) == \A v \in Vars : Admits(t[v], m, v)
TextCovering(esop, m) == {k \in DOMAIN esop : TextCovers(esop[k], m)}
TextRealises(esop, F) == \A m \in Minterms : m \in F <=> Odd(TextCovering(esop, m))
=============================================================================
