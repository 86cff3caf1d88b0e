------------------------------ MODULE MCPoints -------------------------------
(* Points on a device with a binary, a multi-state and an analog point.    *)
(* The multi-state point has a value at every priority, the last beyond    *)
(* what a float32 holds; the binary one at two.                            *)
EXTENDS Points

CONSTANTS dev, bin, mul, ana

MCSort == [o \in Objects |-> CASE o = dev -> "device" [] o = bin -> "binary"
                           [] o = mul -> "multistate" [] o = ana -> "analog"]

MCBefore ==
  [o \in Objects |-> [s \in Slots |->
     CASE o = bin /\ s \in {12, 16} -> IF s = 12 THEN 1 ELSE 0
       [] o = mul -> 2^24 - 10 + s
       [] OTHER -> Null]]

MCCalls ==
  {PointWriteAnalogue(ana, 1, 0), PointWriteAnalogue(bin, 1, 1),
   PointWriteBool(bin, 1, 2), PointWriteMultiState(bin, 0, 1), PointWriteBool(bin, 1, 17),
   Written(ana, "int", 1, 1), Written(ana, "double", 1, 1),
   PointReleasePriority(bin, 0), PointReleasePriority(bin, 1), PointReleasePriority(ana, 2),
   PointReadFloat32(ana), PointReadFloat32(bin), PointReadBool(bin),
   PointReadPriority(bin), PointReadPriority(ana),
   PointWriteMultiState(mul, 2^24 + 3, 11), PointReleasePriority(mul, 1), PointReadPriority(mul),
   PointReadBool(dev), GetDevicePoints}

MCLists == {<<dev>>, <<dev, bin>>, <<dev, bin, ana>>, <<ana, dev>>}
=============================================================================
