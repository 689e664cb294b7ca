----------------------------- MODULE MCExorcism -----------------------------
(* exorcism on covers of up to six cubes of three inputs and two outputs.    *)
EXTENDS Exorcism

O == {0}
I == {1}
X == {0, 1}
A == {1}
B == {2}

(* Cubes at every distance up to 4 from each other.                         *)
Some == << <<I, I, O, A>>, <<O, O, I, B>>, <<X, I, I, A>>, <<I, X, X, B>>, <<X, O, X, A>>,
           <<X, X, X, B>> >>

(* The covers made of these cubes, in this order.                           *)
Picked(S) ==
  [i \in 1 .. Cardinality(S) |-> Some[CHOOSE k \in S : Cardinality({m \in S : m < k}) = i - 1]]
Short == {Picked(S) : S \in {T \in SUBSET DOMAIN Some : Cardinality(T) <= 3}}
(* Covers with cubes that cancel or merge when read, and longer ones.        *)
Long == { <<Some[1], Some[3], Some[1]>>,
          <<Some[2], Some[4], Some[1], Some[3], Some[5]>>,
          <<Some[6], Some[5], Some[4], Some[3], Some[2], Some[1]>>,
          << <<O, I, O, B>>, <<I, O, X, A>>, <<O, O, I, A>>, <<X, I, I, B>>, <<I, I, O, A>> >> }

(* A cover in which a queued pair is met when its distance has changed.     *)
Stale == << <<I, X, I, B>>, <<X, I, I, A>>, <<I, X, O, A>>, <<X, O, X, A>> >>

Calls(covers, quality, useQ) ==
  {[esop |-> c, Quality |-> quality, fUseQCost |-> useQ] : c \in covers}

MCArguments ==
  Calls(Short, 2, FALSE) \cup Calls(Long, 0, FALSE) \cup Calls(Long, 1, TRUE)
    \cup Calls({Stale}, 2, FALSE)
    \cup {[esop |-> [i \in 1 .. 7 |-> Some[1]], Quality |-> 2, fUseQCost |-> FALSE]}
=============================================================================
