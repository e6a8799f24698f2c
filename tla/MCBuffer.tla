------------------------------ MODULE MCBuffer ------------------------------
(* TLC instance of Buffer: every string of up to MaxString characters. *)
EXTENDS Buffer

CONSTANT MaxString \* bound: the longest string passed in one call

AllStrings == UNION {[1 .. n -> Chars] : n \in 0 .. MaxString}
=============================================================================
