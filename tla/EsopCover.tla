------------------------------ MODULE EsopCover ------------------------------
(***************************************************************************)
(* What an ESOP minimiser promises (the comments above Exorcism and         *)
(* CheckForCloseCubes in src/base/exor): the cover stands for the XOR of    *)
(* the cubes read so far, a cube read makes it at most one cube longer, and  *)
(* otherwise it is only exchanged for a cover of the same function that is   *)
(* not longer.                                                              *)
(***************************************************************************)
EXTENDS Cubes

VARIABLES
  cover,     \* a set of cubes
  function   \* the points of the cubes read so far

evars == <<cover, function>>

Function(C) == {x \in Points : Odd({c \in C : Covers(c, x)})}

Init == cover = {} /\ function = {}

(* A cover of the function', of at most n cubes.                            *)
CoverOf(n) ==
  /\ cover' \in SUBSET Cube
  /\ Cardinality(cover') <= n
  /\ Function(cover') = function'

Exchange ==
  /\ function' = function
  /\ CoverOf(Cardinality(cover))

Read ==
  /\ \E c \in Cube : function' = Xor(function, {x \in Points : Covers(c, x)})
  /\ CoverOf(Cardinality(cover) + 1)

Next == Exchange \/ Read

Spec == Init /\ [][Next]_evars
=============================================================================
