------------------------------- MODULE MCTSM --------------------------------
(* TSM on a small instance.                                                *)
EXTENDS TSM, TLC

(* Calls are interchangeable, and so are peers; for the safety run only.   *)
Symmetry == Permutations(Calls) \cup Permutations(Peers)
=============================================================================
