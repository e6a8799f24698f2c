----------------------------- MODULE MCTxtFile ------------------------------
(***************************************************************************)
(* TLC instance of TxtFile: files that are empty, that name an address     *)
(* twice with different words, and that hold a line without an address.     *)
(***************************************************************************)
EXTENDS TxtFile

CONSTANTS a, b

Line(x, word) == [addr |-> x, word |-> word]

SmallFiles ==
  { << >>,
    <<Line(a, "allow")>>,
    <<Line(a, "DENY"), Line(NoAddress, "ALLOW"), Line(b, "ALLOW"), Line(a, "ALLOW")>>,
    <<Line(a, "ALLOW"), Line(a, "DENY")>> }
=============================================================================
