------------------------------- MODULE Points --------------------------------
(***************************************************************************)
(* The point calls of the network layer (network/points.go, read.go,       *)
(* write.go, objects.go, device.go): writing and releasing a point at a    *)
(* priority, reading its value or its priority array, and listing the      *)
(* points of a device.                                                     *)
(*                                                                         *)
(* A call is a confirmed request, or a row of them, as in Requests: an     *)
(* answer taken is an answer to the request, but it may be lost, and a     *)
(* request given up may be run later.  Several goroutines use one handle.  *)
(* What the encoding does to a value is what Tags shows: its type is that  *)
(* of the value, but for binary outputs and values.                        *)
(***************************************************************************)
EXTENDS Integers, Sequences, FiniteSets, SequencesExt

CONSTANTS
  Callers,    (* the goroutines; each makes one call                       *)
  Objects,    (* the objects of the device                                 *)
  Sort,       (* analog, binary, multistate or device, of each             *)
  Null,       (* the null value, of a priority not in use                  *)
  Before,     (* the priority array of each at the start                   *)
  Default,    (* the relinquish default                                    *)
  Calls,      (* the calls that may be made                                *)
  Lists,      (* the object lists the device may start with                *)
  MaxChanges  (* the bound on the changes of the list                      *)

(* The lowest priority, and the values of 32 bits.                         *)
Lowest == 16
Slots == 1..Lowest
IsUint32(v) == v \in Nat /\ v \div 256 < 2^24

ASSUME PointsAssumption ==
  /\ MaxChanges \in Nat
  /\ Null \notin Nat
  /\ Default \in Nat
  /\ \A o \in Objects : \A s \in Slots : Before[o][s] = Null \/ IsUint32(Before[o][s])
  /\ \A f \in Calls :
       /\ f.kind \in {"write", "release", "float", "uint", "priorities", "list"}
       /\ f.kind # "list" => f.object \in Objects
       /\ f.kind \in {"write", "release"} => f.value.value = Null \/ IsUint32(f.value.value)
  /\ \A l \in Lists : l \in Seq(Objects) /\ \E i \in DOMAIN l : Sort[l[i]] = "device"

VARIABLES
  \* the device
  slots,      (* the priority array of each object                         *)
  list,       (* the object list                                           *)
  changes,    (* how often it changed                                      *)
  \* the calls
  call,       (* what a caller called                                      *)
  pc,         (* its next step                                             *)
  attempt,    (* the requests it sent                                      *)
  result,     (* what it returned                                          *)
  ids,        (* the objects DeviceObjects has                             *)
  size,       (* the length of the list it read                            *)
  next,       (* how many of ids GetDevicePoints has gone through          *)
  points,     (* the points it has                                         *)
  \* the network
  requests,   (* the requests not run yet                                  *)
  replies,    (* the answers on their way                                  *)
  \* kept for the properties
  effects,    (* what the requests of a caller did at the device           *)
  begun       (* the list, and how often it had changed, at the start      *)

deviceVars == <<slots, list, changes>>
listVars == <<ids, size, next, points, begun>>
netVars == <<requests, replies, effects>>
vars == <<deviceVars, call, pc, attempt, result, listVars, netVars>>

-----------------------------------------------------------------------------
(* Calls and values.  A value has a type and a number; the priority is 0   *)
(* when none is given.                                                     *)

Value(t, v) == [type |-> t, value |-> v]
Written(o, t, v, p) == [kind |-> "write", object |-> o, value |-> Value(t, v), priority |-> p]

PointWriteAnalogue(o, v, p) == Written(o, "real", v, p)
PointWriteBool(o, v, p) == Written(o, "uint", v, p)
PointWriteMultiState(o, v, p) == Written(o, "uint", v, p)
PointReleasePriority(o, p) == [Written(o, "null", Null, p) EXCEPT !.kind = "release"]
PointReadFloat32(o) == [kind |-> "float", object |-> o]
PointReadBool(o) == [kind |-> "uint", object |-> o]
PointReadPriority(o) == [kind |-> "priorities", object |-> o]
GetDevicePoints == [kind |-> "list"]

IsWrite(f) == f.kind \in {"write", "release"}

(* A call that ends before anything is sent: Write takes five types, and   *)
(* the encoder asserts a uint32 for binary points.                         *)
Fault(f) ==
  IF \/ f.kind = "release" /\ f.priority \notin Slots
     \/ IsWrite(f) /\ f.value.type \notin {"null", "uint", "real", "double", "string"}
  THEN "error"
  ELSE IF IsWrite(f) /\ Sort[f.object] = "binary" /\ f.value.type \notin {"null", "uint"}
       THEN "panic" ELSE "none"

(* retryCount, and the literal 2 of WriteProperty.                         *)
Attempts(f) == IF IsWrite(f) THEN 2 ELSE 1

\* A written null is sent without its priority.
EncodeNullLowest(f) ==
  [value |-> IF Sort[f.object] = "binary" /\ f.value.type = "uint"
               THEN Value("enum", f.value.value) ELSE f.value,
   slot |-> IF f.value.type = "null" THEN 0 ELSE f.priority]

(* What a request has on the wire.                                         *)
Encode(f) ==
  [value |-> IF Sort[f.object] = "binary" /\ f.value.type = "uint"
               THEN Value("enum", f.value.value) ELSE f.value,
   slot |-> f.priority]

-----------------------------------------------------------------------------
(* The device.                                                             *)

TypeOf(o) ==
  CASE Sort[o] = "analog" -> "real" [] Sort[o] = "binary" -> "enum" [] OTHER -> "uint"

SlotOf(slot) == IF slot = 0 THEN Lowest ELSE slot

Accepts(o, w) ==
  Sort[o] # "device" /\ SlotOf(w.slot) \in Slots /\ w.value.type \in {TypeOf(o), "null"}

Present(array) ==
  LET used == {s \in Slots : array[s] # Null}
  IN IF used = {} THEN Default ELSE array[CHOOSE s \in used : \A r \in used : s <= r]

-----------------------------------------------------------------------------
(* What is made of a reply.                                                *)

Outcome(what) == [what |-> what]

(* The decoder gives an enumerated value as uint32.                        *)
Decoded(t) == IF t = "enum" THEN "uint" ELSE t

(* toFloat, toUint32: 0 for a value of another type.                       *)
Converted(t, o, v) == IF Decoded(TypeOf(o)) = t THEN v ELSE 0

(* float32 of a uint32: of more than 24 bits the nearest that 24 can hold,  *)
(* of two as near the even one.                                            *)
ToFloat32(v) ==
  LET unit == CHOOSE u \in {2^k : k \in 0..8} :
                v \div u < 2^24 /\ (u > 1 => v \div u >= 2^23)
      q == v \div unit
      twice == 2 * (v % unit)
  IN unit * (IF twice > unit \/ (twice = unit /\ q % 2 = 1) THEN q + 1 ELSE q)

(* The fields of priority.Float32, as they are declared and looked through. *)
Float32 == <<"P1", "P2", "P3", "P4", "P5", "P6", "P7", "P8",
             "P9", "P10", "P11", "P12", "P13", "P14", "P15", "P16">>

(* The index of the array each field is set at, case by case.              *)
Index ==
  [P1 |-> 0, P2 |-> 1, P3 |-> 2, P4 |-> 3, P5 |-> 4, P6 |-> 5, P7 |-> 6, P8 |-> 7, P9 |-> 8,
   P10 |-> 9, P11 |-> 10, P12 |-> 11, P13 |-> 12, P14 |-> 13, P15 |-> 14, P16 |-> 15]

(* What the fields are when the loop over the array set each at its case.  *)
Report(array, index) ==
  [what |-> "report", at |-> array,
   pri |-> [field \in DOMAIN index |->
     LET s == index[field] + 1
     IN IF s \in Slots /\ array[s] # Null THEN ToFloat32(array[s]) ELSE Null]]

(* BuildFloat32 asserts a uint32 for every value that is not null.         *)
AssertionFails(o, array) == (\E s \in Slots : array[s] # Null) /\ Decoded(TypeOf(o)) # "uint"

\* Two cases set the same field, and none sets P12 (faulty).
BuildFloat32Copied(o, array) ==
  IF AssertionFails(o, array) THEN Outcome("panic")
  ELSE Report(array, [Index EXCEPT !.P11 = 11, !.P12 = 16])

BuildFloat32(o, array) ==
  IF AssertionFails(o, array) THEN Outcome("panic") ELSE Report(array, Index)

(* HighestFloat32: the first field that is not nil.                        *)
HighestFloat32(pri) ==
  LET set == {s \in Slots : pri[Float32[s]] # Null}
  IN IF set = {} THEN Null ELSE pri[Float32[CHOOSE s \in set : \A t \in set : s <= t]]

-----------------------------------------------------------------------------
None == Outcome("none")

Init ==
  /\ slots = [o \in Objects |-> [s \in Slots |-> Before[o][s]]]
  /\ list \in Lists
  /\ changes = 0
  /\ call \in [Callers -> Calls]
  /\ pc = [c \in Callers |-> "idle"]
  /\ attempt = [c \in Callers |-> 0]
  /\ result = [c \in Callers |-> None]
  /\ ids = [c \in Callers |-> <<>>]
  /\ size = [c \in Callers |-> 0]
  /\ next = [c \in Callers |-> 0]
  /\ points = [c \in Callers |-> <<>>]
  /\ requests = {}
  /\ replies = {}
  /\ effects = [c \in Callers |-> {}]
  /\ begun = [c \in Callers |-> [list |-> <<>>, changes |-> 0]]

Goto(c, from, to) ==
  /\ pc[c] = from
  /\ pc' = [pc EXCEPT ![c] = to]

Return(c, outcome) == result' = [result EXCEPT ![c] = outcome]

(* Faulty variants, each a plausible slip in the code; a run with one in   *)
(* place of the definition of its name must fail.                          *)

\* The loop over the indices starts at 0 and ends below the length.
ReadIndexFromZero(c) ==
  /\ pc[c] = "index"
  /\ Len(ids[c]) < size[c]
  /\ LET i == IF ids[c] = <<>> THEN 1 ELSE Len(ids[c])
     IN IF i <= Len(list)
          THEN ids' = [ids EXCEPT ![c] = Append(@, list[i])] /\ UNCHANGED <<pc, result>>
          ELSE Goto(c, "index", "done") /\ Return(c, Outcome("panic")) /\ UNCHANGED ids
  /\ UNCHANGED <<deviceVars, call, attempt, size, next, points, begun, netVars>>

-----------------------------------------------------------------------------
(* Writes and reads of a point.                                            *)

Refuse(c) ==
  /\ call[c].kind # "list" /\ Fault(call[c]) # "none"
  /\ Goto(c, "idle", "done")
  /\ Return(c, Outcome(Fault(call[c])))
  /\ UNCHANGED <<deviceVars, call, attempt, listVars, netVars>>

(* The first request, or one more when the last was not answered.          *)
Send(c) ==
  /\ call[c].kind # "list" /\ Fault(call[c]) = "none"
  /\ pc[c] \in {"idle", "wait"} /\ attempt[c] < Attempts(call[c])
  /\ pc' = [pc EXCEPT ![c] = "wait"]
  /\ attempt' = [attempt EXCEPT ![c] = @ + 1]
  /\ requests' = requests \cup {[caller |-> c, attempt |-> attempt[c] + 1]}
  /\ UNCHANGED <<deviceVars, call, result, listVars, replies, effects>>

(* The device runs a request; its answer may be lost on the way.           *)
Run(r) ==
  LET f == call[r.caller]
      o == f.object
      w == Encode(f)
      reply(what, data) == replies' = replies \cup {[caller |-> r.caller, what |-> what, data |-> data]}
  IN /\ requests' = requests \ {r}
     /\ IF IsWrite(f)
          THEN IF Accepts(o, w)
                 THEN /\ slots' = [slots EXCEPT ![o][SlotOf(w.slot)] = w.value.value]
                      /\ effects' = [effects EXCEPT ![r.caller] =
                                       @ \cup {<<o, SlotOf(w.slot), w.value.value>>}]
                      /\ reply("ack", <<>>)
                 ELSE reply("error", <<>>) /\ UNCHANGED <<slots, effects>>
          ELSE /\ IF Sort[o] = "device" THEN reply("error", <<>>) ELSE reply("ack", slots[o])
               /\ UNCHANGED <<slots, effects>>
     /\ UNCHANGED <<list, changes, call, pc, attempt, result, listVars>>

(* What a caller makes of the answer to its request.                       *)
Outcomes(f, r) ==
  CASE r.what = "error" -> Outcome("error")
    [] r.what = "ack" /\ IsWrite(f) -> Outcome("ok")
    [] r.what = "ack" /\ f.kind \in {"float", "uint"} ->
         [what |-> "value", at |-> r.data,
          value |-> Converted(IF f.kind = "float" THEN "real" ELSE "uint", f.object, Present(r.data))]
    [] r.what = "ack" /\ f.kind = "priorities" ->
         BuildFloat32(f.object, r.data)

Receive(c) ==
  /\ Goto(c, "wait", "done")
  /\ \E r \in replies :
       /\ r.caller = c
       /\ Return(c, Outcomes(call[c], r))
       /\ replies' = replies \ {r}
  /\ UNCHANGED <<deviceVars, call, attempt, listVars, requests, effects>>

GiveUp(c) ==
  /\ call[c].kind # "list" /\ attempt[c] = Attempts(call[c])
  /\ Goto(c, "wait", "done")
  /\ Return(c, Outcome("error"))
  /\ UNCHANGED <<deviceVars, call, attempt, listVars, netVars>>

-----------------------------------------------------------------------------
(* GetDevicePoints.  Each read is a request of its own.                    *)

ListUnchanged == UNCHANGED <<deviceVars, call, attempt, netVars>>

(* DeviceObjects with checkAPDU asks WhoIs first.                          *)
Whois(c) ==
  /\ call[c].kind = "list"
  /\ \/ Goto(c, "idle", "whole") /\ UNCHANGED result
     \/ Goto(c, "idle", "done") /\ Return(c, Outcome("error"))
  /\ begun' = [begun EXCEPT ![c] = [list |-> list, changes |-> changes]]
  /\ ListUnchanged /\ UNCHANGED <<ids, size, next, points>>

(* The whole list; a list of one is read as a value, which is no array.    *)
ReadWhole(c) ==
  /\ Goto(c, "whole", "details")
  /\ ids' = [ids EXCEPT ![c] = IF Len(list) = 1 THEN <<>> ELSE list]
  /\ ListUnchanged /\ UNCHANGED <<result, size, next, points, begun>>

(* It does not fit or is lost: deviceObjectsBuilder.                       *)
WholeFails(c) ==
  /\ Goto(c, "whole", "length")
  /\ ListUnchanged /\ UNCHANGED <<result, listVars>>

ReadLength(c) ==
  /\ \/ /\ Goto(c, "length", "index")
        /\ size' = [size EXCEPT ![c] = Len(list)]
        /\ UNCHANGED result
     \/ /\ Goto(c, "length", "done")
        /\ Return(c, Outcome("error"))
        /\ UNCHANGED size
  /\ ListUnchanged /\ UNCHANGED <<ids, next, points, begun>>

(* An index beyond the list is answered with an error, and the error is    *)
(* not looked at: the result has no property to take.                      *)
ReadIndex(c) ==
  /\ pc[c] = "index"
  /\ Len(ids[c]) < size[c]
  /\ LET i == Len(ids[c]) + 1
     IN IF i <= Len(list)
          THEN ids' = [ids EXCEPT ![c] = Append(@, list[i])] /\ UNCHANGED <<pc, result>>
          ELSE Goto(c, "index", "done") /\ Return(c, Outcome("panic")) /\ UNCHANGED ids
  /\ UNCHANGED <<deviceVars, call, attempt, size, next, points, begun, netVars>>

IndexFails(c) ==
  /\ Len(ids[c]) < size[c]
  /\ Goto(c, "index", "done")
  /\ Return(c, Outcome("panic"))
  /\ ListUnchanged /\ UNCHANGED listVars

IndicesRead(c) ==
  /\ Len(ids[c]) = size[c]
  /\ Goto(c, "index", "details")
  /\ ListUnchanged /\ UNCHANGED <<result, listVars>>

IsPoint(o) == Sort[o] # "device"

(* PointDetails of one more object, but not of a device; a name that       *)
(* cannot be read is empty.                                                *)
PointDetails(c) ==
  /\ pc[c] = "details" /\ next[c] < Len(ids[c])
  /\ next' = [next EXCEPT ![c] = @ + 1]
  /\ LET o == ids[c][next[c] + 1]
     IN \/ ~IsPoint(o) /\ UNCHANGED points
        \/ /\ IsPoint(o)
           /\ \E name \in {Null} \cup ({o} \cap ToSet(list)) :
                points' = [points EXCEPT ![c] = Append(@, [object |-> o, name |-> name])]
  /\ ListUnchanged /\ UNCHANGED <<pc, result, ids, size, begun>>

AllDetailed(c) ==
  /\ next[c] = Len(ids[c])
  /\ Goto(c, "details", "done")
  /\ Return(c, [what |-> "points", points |-> points[c]])
  /\ ListUnchanged /\ UNCHANGED listVars

(* The device gets an object or loses one.                                 *)
Change ==
  /\ changes < MaxChanges
  /\ changes' = changes + 1
  /\ list' \in Lists \ {list}
  /\ UNCHANGED <<slots, call, pc, attempt, result, listVars, netVars>>

-----------------------------------------------------------------------------
Next ==
  \/ \E c \in Callers :
       \/ Refuse(c) \/ Send(c) \/ Receive(c) \/ GiveUp(c)
       \/ Whois(c) \/ ReadWhole(c) \/ WholeFails(c) \/ ReadLength(c)
       \/ ReadIndex(c) \/ IndexFails(c) \/ IndicesRead(c)
       \/ PointDetails(c) \/ AllDetailed(c)
  \/ \E r \in requests : Run(r)
  \/ Change

Spec == Init /\ [][Next]_vars

-----------------------------------------------------------------------------
(* Properties.                                                             *)

(* What the calls of a caller did at the device is what it asked for, at   *)
(* the priority it gave, and a write or release that returned without an   *)
(* error was done (Write, PointReleasePriority, WriteProperty).            *)
WritesAsAsked ==
  \A c \in Callers :
    LET f == call[c]
        wanted == IF IsWrite(f) THEN {<<f.object, SlotOf(f.priority), f.value.value>>} ELSE {}
    IN /\ effects[c] \subseteq wanted
       /\ result[c].what = "ok" => effects[c] = wanted

(* v is reported as x: null as null, a number as the float next to it, and *)
(* so as itself below 2^24.                                                *)
ReportedAs(v, x) ==
  IF v = Null THEN x = Null
  ELSE x \in Nat /\ x - v \in -(v \div 2^24)..(v \div 2^24)

(* A priority array is reported as it was at the device, each value in the *)
(* field of its priority, and the highest of the report is the present     *)
(* value; numbers of more than 24 bits are rounded to the float next to    *)
(* them.  A value of the type read for is the present one, as it is        *)
(* (BuildFloat32, HighestFloat32, PointReadFloat32, PointReadBool).        *)
ReportsTrue ==
  \A c \in Callers :
    LET r == result[c]
        sort == Sort[call[c].object]
    IN /\ r.what = "report" =>
            /\ \A s \in Slots : ReportedAs(r.at[s], r.pri[Float32[s]])
            /\ ReportedAs(IF \A s \in Slots : r.at[s] = Null THEN Null ELSE Present(r.at),
                          HighestFloat32(r.pri))
       /\ r.what = "value" /\ (call[c].kind = "float" <=> sort = "analog") =>
            r.value = Present(r.at)

(* What was made of the first n of objs: their points, each once and in    *)
(* their order.                                                            *)
PointsOf(pts, objs, n) ==
  \E f \in [DOMAIN pts -> DOMAIN objs] :
    /\ \A i, j \in DOMAIN pts : i < j => f[i] < f[j]
    /\ {f[i] : i \in DOMAIN pts} = {j \in 1..n : IsPoint(objs[j])}
    /\ \A i \in DOMAIN pts : /\ pts[i].object = objs[f[i]]
                             /\ pts[i].name \in {pts[i].object, Null}

(* The points listed are those of the device, in order, when its list did  *)
(* not change meanwhile, whichever way the list was read, with other       *)
(* calls and changes between its reads (GetDevicePoints, DeviceObjects,    *)
(* deviceObjectsBuilder).                                                  *)
PointsListed ==
  \A c \in Callers :
    result[c].what = "points" /\ begun[c].changes = changes =>
      PointsOf(result[c].points, begun[c].list, Len(begun[c].list))
=============================================================================
