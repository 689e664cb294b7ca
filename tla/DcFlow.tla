------------------------------- MODULE DcFlow -------------------------------
(***************************************************************************)
(* dcextract writes a PLA file and dcmin reads it.                          *)
(***************************************************************************)
EXTENDS DcExtract, DcMinimize

vars == <<dvars, mvars>>

Init == DivideInit /\ MinimizeInit

Extract == DivideNext /\ UNCHANGED mvars
Read == dpc = "written" /\ ReadPla(plaFile) /\ UNCHANGED dvars
Minimize == MinimizeNext /\ UNCHANGED dvars
Terminated == mpc \in {"done", "crashed"} /\ UNCHANGED vars

Next == Extract \/ Read \/ Minimize \/ Terminated

Spec == Init /\ [][Next]_vars
=============================================================================
