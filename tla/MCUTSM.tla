------------------------------- MODULE MCUTSM -------------------------------
(* UTSM on a small instance: a message is for both subscribers, for one of *)
(* them or for none.                                                       *)
EXTENDS UTSM

TwoRanges == {[start |-> 1, end |-> 2], [start |-> 2, end |-> 3]}
OneId == {1}
=============================================================================
