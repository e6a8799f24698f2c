--------------------------- MODULE MCRequestChain ---------------------------
(***************************************************************************)
(* TLC instance of RequestChain with the plugins of test/test.py, the cache *)
(* in front of the directory or behind it.  Workers are interchangeable,    *)
(* and so are addresses and hosts.                                          *)
(***************************************************************************)
EXTENDS RequestChain, TLC

BothOrders == {<<"memcached", "activedirectory">>, <<"activedirectory", "memcached">>}

Symmetry == Permutations(Workers) \cup Permutations(Addresses) \cup Permutations(Hosts)
=============================================================================
