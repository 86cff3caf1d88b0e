------------------------------- MODULE MCScan -------------------------------
(* Scan with two workers and more rounds than the workers and their        *)
(* channel take, four devices of which two have the same instance, and one *)
(* that only the round over the whole network finds.                       *)
EXTENDS Scan

CONSTANTS a, b, c, d

MCInstance == [x \in Devices |-> CASE x = a -> 1 [] x = b -> 4 [] x \in {c, d} -> 2]
=============================================================================
