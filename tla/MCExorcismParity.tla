-------------------------- MODULE MCExorcismParity --------------------------
(* exorcism reads the minterms of a parity function of six variables, with  *)
(* the program's own constants.                                             *)
EXTENDS Exorcism

Bit(i, v) == (i \div 2 ^ (v - 1)) % 2
EvenMinterm(i) ==
  [v \in Positions |->
     IF v = OutPos THEN Outs
     ELSE {IF v < N THEN Bit(i, v) ELSE Cardinality({w \in 1 .. N - 1 : Bit(i, w) = 1}) % 2}]
Parity == [i \in 1 .. 2 ^ (N - 1) |-> EvenMinterm(i - 1)]

MCArguments == {[esop |-> Parity, Quality |-> 0, fUseQCost |-> FALSE]}
=============================================================================
