------------------------------- MODULE MCTrie -------------------------------
(* Two tries on six nodes, enough for a copy of each other.  One name is   *)
(* the beginning of the others, and one ends in a byte without an index,   *)
(* so that its insertion stops half way.                                   *)
EXTENDS Trie, TLC

CONSTANTS a, b, x, n1, n2, n3, n4, n5, n6

MCNode == {n1, n2, n3, n4, n5, n6}
MCByte == {a, b, x}
MCIndexed == {a, b}
MCName == {<<a>>, <<a, b>>, <<a, x>>}
Addresses == Permutations(MCNode)
=============================================================================
