---------------------------- MODULE MCWebcontrol ----------------------------
(***************************************************************************)
(* TLC instances of Webcontrol.  Lines with a valid address are             *)
(* interchangeable, and so are those without; threads are not, because      *)
(* main joins them in order.                                                *)
(***************************************************************************)
EXTENDS Webcontrol, TLC

Symmetry == Permutations(ValidLines) \cup Permutations(Lines \ ValidLines)
=============================================================================
