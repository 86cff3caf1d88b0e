---------------------------- MODULE MCObjectList -----------------------------
(* ObjectList on a small instance.                                         *)
EXTENDS ObjectList, TLC

CONSTANTS o1, o2, o3, o4

MCLists == {<<>>, <<o1>>, <<o1, o2>>, <<o1, o2, o3>>}

(* Packets for no index, one, two and three.                               *)
MCMaxApdus == {1, 2, 4, 6}
=============================================================================
