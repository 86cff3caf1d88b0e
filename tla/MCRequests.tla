----------------------------- MODULE MCRequests ------------------------------
(* Requests on small instances.                                            *)
EXTENDS Requests, TLC

(* Calls are interchangeable; for the safety run only.                     *)
Symmetry == Permutations(Calls)

Input == <<"analogInput", 1>>
ThisDevice == <<"device", MaxInstance>>
OneDevice == <<"device", 1>>

Item(obj, props) == [obj |-> obj, props |-> props]

(* For the safety run: of one object one property or two, each a reply     *)
(* that fits the other request or does not.                                *)
SafetyLists == {<<Item(Input, {"value"})>>, <<Item(Input, {"value", "name"})>>}

(* For the late run: besides, two objects, the device by its wildcard and  *)
(* by its number, and what has no properties.                              *)
LateLists == SafetyLists \cup
  {<<Item(ThisDevice, {"optional"}), Item(Input, {"value"})>>,
   <<Item(OneDevice, {}), Item(Input, {"value"})>>}
=============================================================================
