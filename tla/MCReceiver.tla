------------------------------ MODULE MCReceiver -----------------------------
(* Receiver on a small instance.                                           *)
EXTENDS Receiver
=============================================================================
