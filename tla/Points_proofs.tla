---------------------------- MODULE Points_proofs ----------------------------
(***************************************************************************)
(* Theorems about writing and releasing points, for any callers, objects,  *)
(* calls and priorities.                                                   *)
(***************************************************************************)
EXTENDS Points, WellFoundedInduction, TLAPS

(* What a call is to do at the device.                                     *)
Wanted(f) == IF IsWrite(f) THEN {<<f.object, SlotOf(f.priority), f.value.value>>} ELSE {}

\* Requests are those of calls that pass the checks; an acknowledged write was
\* done, and nothing but it.
WriteInv ==
  /\ call \in [Callers -> Calls]
  /\ effects = [c \in Callers |-> effects[c]]
  /\ pc = [c \in Callers |-> pc[c]]
  /\ result = [c \in Callers |-> result[c]]
  /\ \A c \in Callers : pc[c] = "wait" => call[c].kind # "list"
  /\ \A r \in requests : r.caller \in Callers
  /\ \A r \in replies : /\ r.caller \in Callers /\ r.what \in {"ack", "error"}
                        /\ r.what = "ack" => effects[r.caller] = Wanted(call[r.caller])
  /\ \A c \in Callers : effects[c] \subseteq Wanted(call[c])
  /\ \A c \in Callers : result[c].what = "ok" => effects[c] = Wanted(call[c])

\* An acknowledged write is the only way to return "ok".
LEMMA OnlyAcksSucceed ==
  ASSUME NEW f \in Calls, f.kind # "list", NEW r, r.what \in {"ack", "error"},
         Outcomes(f, r).what = "ok"
  PROVE  r.what = "ack"
  BY DEF Outcomes, Outcome

\* The encoder keeps value and priority.
LEMMA Encoded ==
  ASSUME NEW f
  PROVE  Encode(f).value.value = f.value.value /\ Encode(f).slot = f.priority
  BY DEF Encode, Value

LEMMA WriteInit == Init => WriteInv
  BY DEF Init, WriteInv, Outcome, None

\* The steps at the device and of the lists.
LEMMA WriteStays ==
  ASSUME WriteInv, UNCHANGED <<call, netVars>>, NEW c \in Callers,
         pc' = pc \/ \E to \in {"done", "whole", "details", "length", "index"} :
                       pc' = [pc EXCEPT ![c] = to],
         result' = result \/ \E x : result' = [result EXCEPT ![c] = x] /\ x.what # "ok"
  PROVE  WriteInv'
<1>1. UNCHANGED <<call, requests, replies, effects>>
  BY DEF netVars
<1>2. \A d \in Callers : pc'[d] = "wait" => pc[d] = "wait"
  BY DEF WriteInv
<1>3. \A d \in Callers : result'[d].what = "ok" => result[d].what = "ok"
  BY DEF WriteInv
<1>4. pc' = [d \in Callers |-> pc'[d]] /\ result' = [d \in Callers |-> result'[d]]
  BY DEF WriteInv
<1> QED
  BY <1>1, <1>2, <1>3, <1>4 DEF WriteInv

LEMMA WriteStep == WriteInv /\ [Next]_vars => WriteInv'
<1> SUFFICES ASSUME WriteInv, [Next]_vars PROVE WriteInv'
  OBVIOUS
<1> USE DEF deviceVars, listVars, netVars, ListUnchanged, Goto, Return
<1>1. ASSUME NEW c \in Callers, Refuse(c) PROVE WriteInv'
  <2>1. Fault(call[c]) \in {"error", "panic"}
    BY <1>1 DEF Refuse, Fault
  <2>2. pc' = [pc EXCEPT ![c] = "done"] /\ UNCHANGED <<call, netVars>>
        /\ result' = [result EXCEPT ![c] = Outcome(Fault(call[c]))]
    BY <1>1 DEF Refuse
  <2>3. Outcome(Fault(call[c])).what # "ok"
    BY <2>1 DEF Outcome
  <2> HIDE DEF netVars
  <2> QED
    BY <2>2, <2>3, WriteStays
<1>2. ASSUME NEW c \in Callers, Send(c) PROVE WriteInv'
  BY <1>2 DEF Send, WriteInv
<1>3. ASSUME NEW c \in Callers, Receive(c) PROVE WriteInv'
  <2>1. PICK r \in replies : /\ r.caller = c
                             /\ result' = [result EXCEPT ![c] = Outcomes(call[c], r)]
                             /\ replies' = replies \ {r}
    BY <1>3 DEF Receive
  <2>2. pc[c] = "wait" /\ pc' = [pc EXCEPT ![c] = "done"]
        /\ UNCHANGED <<call, requests, effects>>
    BY <1>3 DEF Receive
  <2>3. call[c] \in Calls /\ call[c].kind # "list" /\ r.what \in {"ack", "error"}
    BY <2>1, <2>2 DEF WriteInv
  <2>4. Outcomes(call[c], r).what = "ok" => effects[c] = Wanted(call[c])
    BY <2>1, <2>3, OnlyAcksSucceed DEF WriteInv
  <2> QED
    BY <2>1, <2>2, <2>4 DEF WriteInv
<1>4. ASSUME NEW c \in Callers, GiveUp(c) PROVE WriteInv'
  <2>1. pc' = [pc EXCEPT ![c] = "done"] /\ UNCHANGED <<call, netVars>>
        /\ result' = [result EXCEPT ![c] = Outcome("error")]
    BY <1>4 DEF GiveUp
  <2>2. Outcome("error").what # "ok"
    BY DEF Outcome
  <2> HIDE DEF netVars
  <2> QED
    BY <2>1, <2>2, WriteStays
<1>5. ASSUME NEW c \in Callers,
             \/ Whois(c) \/ ReadWhole(c) \/ WholeFails(c) \/ ReadLength(c)
             \/ ReadIndex(c) \/ IndexFails(c) \/ IndicesRead(c)
      PROVE  WriteInv'
  <2>1. /\ UNCHANGED <<call, netVars>>
        /\ pc' = pc \/ \E to \in {"done", "whole", "details", "length", "index"} :
                         pc' = [pc EXCEPT ![c] = to]
    BY <1>5 DEF Whois, ReadWhole, WholeFails, ReadLength, ReadIndex, IndexFails, IndicesRead
  <2>2. result' = result \/ \E what \in {"error", "panic"} :
                               result' = [result EXCEPT ![c] = Outcome(what)]
    BY <1>5 DEF Whois, ReadWhole, WholeFails, ReadLength, ReadIndex, IndexFails, IndicesRead
  <2>3. \A what \in {"error", "panic"} : Outcome(what).what # "ok"
    BY DEF Outcome
  <2> HIDE DEF netVars
  <2> QED
    BY <2>1, <2>2, <2>3, WriteStays
<1>6. ASSUME NEW c \in Callers, PointDetails(c) \/ AllDetailed(c) PROVE WriteInv'
  <2>1. /\ UNCHANGED <<call, netVars>>
        /\ pc' = pc \/ \E to \in {"done", "whole", "details", "length", "index"} :
                         pc' = [pc EXCEPT ![c] = to]
    BY <1>6 DEF PointDetails, AllDetailed
  <2>2. result' = result \/ \E x : result' = [result EXCEPT ![c] = x] /\ x.what # "ok"
    <3>1. \A pts : [what |-> "points", points |-> pts].what # "ok"
      OBVIOUS
    <3> QED
      BY <1>6, <3>1 DEF PointDetails, AllDetailed
  <2> HIDE DEF netVars
  <2> QED
    BY <2>1, <2>2, WriteStays
<1>7. ASSUME NEW r \in requests, Run(r) PROVE WriteInv'
  <2> DEFINE c == r.caller
             f == call[c]
             w == Encode(f)
             done == IsWrite(f) /\ Accepts(f.object, w)
  <2>1. c \in Callers /\ requests' \subseteq requests
        /\ UNCHANGED <<call, pc, result>>
    BY <1>7 DEF Run, WriteInv
  <2>2. CASE done
    <3>1. /\ effects' = [effects EXCEPT ![c] = @ \cup Wanted(f)]
          /\ replies' = replies \cup {[caller |-> c, what |-> "ack", data |-> <<>>]}
      BY <1>7, <2>2, Encoded DEF Run, Wanted
    <3>2. effects'[c] = Wanted(f) /\ \A d \in Callers : d # c => effects'[d] = effects[d]
      BY <2>1, <3>1 DEF WriteInv
    <3>3. \A r2 \in replies' : /\ r2.caller \in Callers /\ r2.what \in {"ack", "error"}
                               /\ r2.what = "ack" => effects'[r2.caller] = Wanted(call'[r2.caller])
      BY <2>1, <3>1, <3>2 DEF WriteInv
    <3>4. effects' = [d \in Callers |-> effects'[d]]
      BY <2>1, <3>1 DEF WriteInv
    <3>5. \A d \in Callers : effects'[d] \subseteq Wanted(call'[d])
      BY <2>1, <3>2 DEF WriteInv
    <3>6. \A d \in Callers : result'[d].what = "ok" => effects'[d] = Wanted(call'[d])
      BY <2>1, <3>2 DEF WriteInv
    <3> QED
      BY <2>1, <3>3, <3>4, <3>5, <3>6 DEF WriteInv
  <2>3. CASE ~done
    <3>1. /\ UNCHANGED effects
          /\ \E what \in {"ack", "error"} : \E data :
               /\ replies' = replies \cup {[caller |-> c, what |-> what, data |-> data]}
               /\ what = "ack" => ~IsWrite(f)
      BY <1>7, <2>3 DEF Run
    <3>2. PICK what \in {"ack", "error"} : \E data :
            /\ replies' = replies \cup {[caller |-> c, what |-> what, data |-> data]}
            /\ what = "ack" => ~IsWrite(f)
      BY <3>1
    <3>3. PICK data : /\ replies' = replies \cup {[caller |-> c, what |-> what, data |-> data]}
                      /\ what = "ack" => ~IsWrite(f)
      BY <3>2
    <3>4. effects[c] \subseteq Wanted(f) /\ (~IsWrite(f) => Wanted(f) = {})
      BY <2>1 DEF WriteInv, Wanted
    <3>5. \A r2 \in replies' : /\ r2.caller \in Callers /\ r2.what \in {"ack", "error"}
                               /\ r2.what = "ack" => effects'[r2.caller] = Wanted(call'[r2.caller])
      <4> SUFFICES ASSUME NEW r2 \in replies'
                   PROVE  /\ r2.caller \in Callers /\ r2.what \in {"ack", "error"}
                          /\ r2.what = "ack" => effects'[r2.caller] = Wanted(call'[r2.caller])
        OBVIOUS
      <4>1. CASE r2 \in replies
        BY <2>1, <3>1, <4>1 DEF WriteInv
      <4>2. CASE r2 = [caller |-> c, what |-> what, data |-> data]
        BY <2>1, <3>1, <3>3, <3>4, <4>2
      <4> QED
        BY <3>3, <4>1, <4>2
    <3> QED
      BY <2>1, <3>1, <3>5 DEF WriteInv
  <2> QED
    BY <2>2, <2>3
<1>8. CASE Change \/ UNCHANGED vars
  BY <1>8 DEF Change, vars, WriteInv
<1> QED
  BY <1>1, <1>2, <1>3, <1>4, <1>5, <1>6, <1>7, <1>8 DEF Next

\* A write or release does at the device what was asked, and returns without an
\* error only when it was done, though requests are lost or run late.
THEOREM Writes == Spec => []WritesAsAsked
<1>1. WriteInv => WritesAsAsked
  BY DEF WriteInv, WritesAsAsked, Wanted
<1> QED
  BY <1>1, WriteInit, WriteStep, PTL DEF Spec
-----------------------------------------------------------------------------
(* What reads report.                                                      *)

\* Of the priorities in use one is the lowest number.
LEMMA LowestUsed ==
  ASSUME NEW used, used \subseteq Slots, used # {}
  PROVE  \E s \in used : \A r \in used : s <= r
<1> DEFINE less == OpToRel(<, Nat)
<1>1. IsWellFoundedOn(less, Nat)
  BY NatLessThanWellFounded
<1>2. used \subseteq Nat
  BY DEF Slots, Lowest
<1>3. \A x, y \in Nat : y < x => <<y, x>> \in less
  BY DEF OpToRel
<1> HIDE DEF less
<1>4. PICK s \in used : \A r \in used : <<r, s>> \notin less
  BY <1>1, <1>2, WFMin
<1>5. ASSUME NEW r \in used PROVE s <= r
  <2>1. s \in Nat /\ r \in Nat /\ ~(r < s)
    BY <1>2, <1>3, <1>4
  <2> QED
    BY <2>1
<1> QED
  BY <1>5

\* A uint32 is reported as the float next to it.
LEMMA Nearest ==
  ASSUME NEW v, IsUint32(v)
  PROVE  ReportedAs(v, ToFloat32(v))
<1> DEFINE units == {2^k : k \in 0..8}
           fits(u) == v \div u < 2^24 /\ (u > 1 => v \div u >= 2^23)
<1>1. units = {1, 2, 4, 8, 16, 32, 64, 128, 256}
  <2>1. 0..8 = {0, 1, 2, 3, 4, 5, 6, 7, 8}
    OBVIOUS
  <2>2. 2^0 = 1 /\ 2^1 = 2 /\ 2^2 = 4 /\ 2^3 = 8 /\ 2^4 = 16 /\ 2^5 = 32
        /\ 2^6 = 64 /\ 2^7 = 128 /\ 2^8 = 256
    OBVIOUS
  <2> QED
    BY <2>1, <2>2
<1>2. v \in Nat /\ v \div 256 < 16777216 /\ 2^24 = 16777216 /\ 2^23 = 8388608
  BY DEF IsUint32
<1>3. \E u \in units : fits(u)
  BY <1>1, <1>2
<1> DEFINE unit == CHOOSE u \in units : fits(u)
           q == v \div unit
           r == v % unit
           up == 2 * r > unit \/ (2 * r = unit /\ q % 2 = 1)
           x == unit * (IF up THEN q + 1 ELSE q)
<1>4. unit \in units /\ fits(unit)
  BY <1>3
<1>5. ToFloat32(v) = x
  BY DEF ToFloat32
<1> HIDE DEF units, unit
<1>6. ASSUME NEW u \in {1, 2, 4, 8, 16, 32, 64, 128, 256}, unit = u
      PROVE  x \in Nat /\ x - v \in -(v \div 16777216)..(v \div 16777216)
  <2>1. v \div u < 16777216 /\ (u > 1 => v \div u >= 8388608)
    BY <1>2, <1>4, <1>6
  <2>2. q = v \div u /\ r = v % u /\ v = u * q + r /\ r \in 0..u - 1 /\ q \in Nat
    BY <1>2, <1>6
  <2>3. x = IF up THEN u * q + u ELSE u * q
    BY <1>6, <2>2
  <2> HIDE DEF q, r, x
  <2>4. CASE u = 1
    BY <1>2, <1>6, <2>1, <2>2, <2>3, <2>4
  <2>5. CASE u > 1
    <3>1. 2 * (x - v) <= u /\ 2 * (v - x) <= u /\ x \in Nat
      BY <1>6, <2>2, <2>3
    <3>2. 16777216 * u <= 2 * v
      BY <1>2, <2>1, <2>2, <2>5
    <3> QED
      BY <1>2, <3>1, <3>2
  <2> QED
    BY <2>4, <2>5
<1>7. x \in Nat /\ x - v \in -(v \div 16777216)..(v \div 16777216)
  BY <1>1, <1>4, <1>6
<1> HIDE DEF x
<1>8. v # Null
  BY <1>2, PointsAssumption
<1> QED
  BY <1>2, <1>5, <1>7, <1>8 DEF ReportedAs

\* What a priority array has.
ArrayOK(a) == \A s \in Slots : a[s] = Null \/ IsUint32(a[s])

\* Each field of a report has what is at its priority.
LEMMA FieldOf ==
  ASSUME NEW array, NEW s \in Slots
  PROVE  Report(array, Index).pri[Float32[s]] =
           IF array[s] # Null THEN ToFloat32(array[s]) ELSE Null
<1>1. s \in {1, 2, 3, 4, 5, 6, 7, 8, 9, 10, 11, 12, 13, 14, 15, 16}
  BY DEF Slots, Lowest
<1>2. Float32[s] \in DOMAIN Index /\ Index[Float32[s]] + 1 = s
  BY <1>1 DEF Float32, Index
<1> QED
  BY <1>2 DEF Report

\* The highest of a report is the present value.
LEMMA HighestIsPresent ==
  ASSUME NEW array, ArrayOK(array)
  PROVE  ReportedAs(IF \A s \in Slots : array[s] = Null THEN Null ELSE Present(array),
                    HighestFloat32(Report(array, Index).pri))
<1> DEFINE pri == Report(array, Index).pri
           set == {s \in Slots : pri[Float32[s]] # Null}
           used == {s \in Slots : array[s] # Null}
<1>1. \A s \in Slots : array[s] # Null => ReportedAs(array[s], pri[Float32[s]])
  BY FieldOf, Nearest DEF ArrayOK
<1>2. \A s \in Slots : array[s] # Null <=> pri[Float32[s]] # Null
  BY <1>1, FieldOf, PointsAssumption DEF ReportedAs
<1>3. set = used
  BY <1>2
<1> HIDE DEF pri
<1>4. CASE used = {}
  <2>1. HighestFloat32(pri) = Null
    BY <1>3, <1>4 DEF HighestFloat32
  <2>2. \A s \in Slots : array[s] = Null
    BY <1>4
  <2> QED
    BY <2>1, <2>2 DEF pri, ReportedAs
<1>5. CASE used # {}
  <2>1. \E s \in used : \A t \in used : s <= t
    BY <1>5, LowestUsed
  <2> DEFINE s == CHOOSE s \in used : \A t \in used : s <= t
  <2>2. s \in used
    BY <2>1
  <2>3. HighestFloat32(pri) = pri[Float32[s]]
    BY <1>3, <1>5 DEF HighestFloat32
  <2>4. Present(array) = array[s] /\ array[s] # Null
    BY <1>5, <2>2 DEF Present
  <2> HIDE DEF s
  <2>5. ReportedAs(array[s], pri[Float32[s]])
    BY <1>1, <2>2
  <2>6. ~\A t \in Slots : array[t] = Null
    BY <1>5
  <2>7. ReportedAs(Present(array), HighestFloat32(pri))
    BY <2>3, <2>4, <2>5
  <2> QED
    BY <2>6, <2>7 DEF pri
<1> QED
  BY <1>4, <1>5

\* What a call makes of the answer to it is true of the array answered.
TrueOf(f, r) ==
  /\ r.what = "report" =>
       /\ \A s \in Slots : ReportedAs(r.at[s], r.pri[Float32[s]])
       /\ ReportedAs(IF \A s \in Slots : r.at[s] = Null THEN Null ELSE Present(r.at),
                     HighestFloat32(r.pri))
  /\ r.what = "value" /\ (f.kind = "float" <=> Sort[f.object] = "analog") =>
       r.value = Present(r.at)

LEMMA AnswersTrue ==
  ASSUME NEW f \in Calls, f.kind # "list", NEW r, r.what \in {"ack", "error"},
         r.what = "ack" /\ f.kind = "priorities" => ArrayOK(r.data)
  PROVE  /\ TrueOf(f, Outcomes(f, r))
         /\ Outcomes(f, r).what # "points"
<1>0. f.kind \in {"write", "release", "float", "uint", "priorities"}
  BY PointsAssumption
<1> DEFINE v == [what |-> "value", at |-> r.data,
                 value |-> Converted(IF f.kind = "float" THEN "real" ELSE "uint",
                                     f.object, Present(r.data))]
<1>1. CASE r.what = "error" \/ IsWrite(f)
  <2>1. Outcomes(f, r).what \in {"error", "ok"}
    BY <1>1 DEF Outcomes, Outcome, IsWrite
  <2> QED
    BY <2>1 DEF TrueOf
<1>2. CASE r.what = "ack" /\ f.kind \in {"float", "uint"}
  <2>1. Outcomes(f, r) = v
    BY <1>2 DEF Outcomes, IsWrite
  <2>2. (f.kind = "float" <=> Sort[f.object] = "analog") => v.value = Present(r.data)
    BY <1>2 DEF Converted, Decoded, TypeOf
  <2>3. v.what = "value" /\ v.at = r.data
    OBVIOUS
  <2> HIDE DEF v
  <2> QED
    BY <2>1, <2>2, <2>3 DEF TrueOf
<1>3. CASE r.what = "ack" /\ f.kind = "priorities"
  <2>1. Outcomes(f, r) = BuildFloat32(f.object, r.data)
    BY <1>3 DEF Outcomes, IsWrite
  <2>2. CASE AssertionFails(f.object, r.data)
    <3>1. Outcomes(f, r) = Outcome("panic")
      BY <2>1, <2>2 DEF BuildFloat32
    <3> QED
      BY <3>1 DEF Outcome, TrueOf
  <2>3. CASE ~AssertionFails(f.object, r.data)
    <3> DEFINE report == Report(r.data, Index)
    <3>1. Outcomes(f, r) = report /\ report.what = "report" /\ report.at = r.data
      BY <2>1, <2>3 DEF BuildFloat32, Report
    <3>2. ArrayOK(r.data)
      BY <1>3
    <3>3. \A s \in Slots : ReportedAs(r.data[s], report.pri[Float32[s]])
      BY <3>2, FieldOf, Nearest DEF ArrayOK, ReportedAs
    <3>4. ReportedAs(IF \A s \in Slots : r.data[s] = Null THEN Null ELSE Present(r.data),
                     HighestFloat32(report.pri))
      BY <3>2, HighestIsPresent
    <3> HIDE DEF report
    <3> QED
      BY <3>1, <3>3, <3>4 DEF TrueOf
  <2> QED
    BY <2>2, <2>3
<1> QED
  BY <1>0, <1>1, <1>2, <1>3 DEF IsWrite

\* The device has numbers of 32 bits at its priorities, and answers with them.
ArrayInv ==
  /\ slots = [o \in Objects |-> [s \in Slots |-> slots[o][s]]]
  /\ \A o \in Objects : ArrayOK(slots[o])
  /\ \A r \in replies : r.what = "ack" /\ call[r.caller].kind = "priorities" => ArrayOK(r.data)

LEMMA ArrayInit == Init => ArrayInv
<1>1. \A o \in Objects : ArrayOK([s \in Slots |-> Before[o][s]])
  BY PointsAssumption DEF ArrayOK
<1> QED
  BY <1>1 DEF Init, ArrayInv

LEMMA ArrayStep == WriteInv /\ ArrayInv /\ [Next]_vars => ArrayInv'
<1> SUFFICES ASSUME WriteInv, ArrayInv, [Next]_vars PROVE ArrayInv'
  OBVIOUS
<1> USE DEF deviceVars, listVars, netVars, ListUnchanged
<1>1. CASE UNCHANGED <<slots, call>> /\ replies' \subseteq replies
  BY <1>1 DEF ArrayInv
<1>2. ASSUME NEW r \in requests, Run(r) PROVE ArrayInv'
  <2> DEFINE c == r.caller
             f == call[c]
             o == f.object
             w == Encode(f)
             done == IsWrite(f) /\ Accepts(o, w)
  <2>1. c \in Callers /\ f \in Calls /\ UNCHANGED call
    BY <1>2 DEF Run, WriteInv
  <2>2. CASE done
    <3>1. /\ slots' = [slots EXCEPT ![o][SlotOf(w.slot)] = f.value.value]
          /\ replies' = replies \cup {[caller |-> c, what |-> "ack", data |-> <<>>]}
      BY <1>2, <2>2, Encoded DEF Run
    <3>2. f.kind \in {"write", "release"}
      BY <2>2 DEF IsWrite
    <3>3. f.value.value = Null \/ IsUint32(f.value.value)
      BY <2>1, <3>2, PointsAssumption
    <3> HIDE DEF w
    <3>4. /\ slots' = [p \in Objects |-> [s \in Slots |-> slots'[p][s]]]
          /\ \A p \in Objects : \A s \in Slots :
               slots'[p][s] \in {slots[p][s], f.value.value}
      BY <3>1 DEF ArrayInv
    <3>5. \A p \in Objects : ArrayOK(slots'[p])
      BY <3>3, <3>4 DEF ArrayInv, ArrayOK
    <3>6. \A r2 \in replies' :
            r2.what = "ack" /\ call[r2.caller].kind = "priorities" => ArrayOK(r2.data)
      BY <3>1, <3>2 DEF ArrayInv
    <3> QED
      BY <2>1, <3>4, <3>5, <3>6 DEF ArrayInv
  <2>3. CASE ~done
    <3>1. UNCHANGED slots
      BY <1>2, <2>3 DEF Run
    <3>2. \E what \in {"ack", "error"} : \E data :
            /\ replies' = replies \cup {[caller |-> c, what |-> what, data |-> data]}
            /\ what = "ack" => ~IsWrite(f) /\ data = slots[o]
      BY <1>2, <2>3 DEF Run
    <3>3. PICK what \in {"ack", "error"} : \E data :
            /\ replies' = replies \cup {[caller |-> c, what |-> what, data |-> data]}
            /\ what = "ack" => ~IsWrite(f) /\ data = slots[o]
      BY <3>2
    <3>4. PICK data : /\ replies' = replies \cup {[caller |-> c, what |-> what, data |-> data]}
                      /\ what = "ack" => ~IsWrite(f) /\ data = slots[o]
      BY <3>3
    <3>5. f.kind = "priorities" => o \in Objects
      BY <2>1, PointsAssumption
    <3>6. ASSUME NEW r2 \in replies', r2.what = "ack", call[r2.caller].kind = "priorities"
          PROVE  ArrayOK(r2.data)
      <4>1. CASE r2 \in replies
        BY <3>6, <4>1 DEF ArrayInv
      <4>2. CASE r2 = [caller |-> c, what |-> what, data |-> data]
        BY <3>4, <3>5, <3>6, <4>2 DEF ArrayInv
      <4> QED
        BY <3>4, <4>1, <4>2
    <3> QED
      BY <2>1, <3>1, <3>6 DEF ArrayInv
  <2> QED
    BY <2>2, <2>3
<1>3. ASSUME NEW c \in Callers,
             \/ Refuse(c) \/ Send(c) \/ Receive(c) \/ GiveUp(c)
             \/ Whois(c) \/ ReadWhole(c) \/ WholeFails(c) \/ ReadLength(c)
             \/ ReadIndex(c) \/ IndexFails(c) \/ IndicesRead(c)
             \/ PointDetails(c) \/ AllDetailed(c)
      PROVE  ArrayInv'
  BY <1>1, <1>3 DEF Refuse, Send, Receive, GiveUp, Whois, ReadWhole, WholeFails, ReadLength,
     ReadIndex, IndexFails, IndicesRead, PointDetails, AllDetailed
<1>4. CASE Change \/ UNCHANGED vars
  BY <1>1, <1>4 DEF Change, vars
<1> QED
  BY <1>2, <1>3, <1>4 DEF Next

\* What a step can do to the results.
LEMMA ResultStep ==
  ASSUME WriteInv, ArrayInv, [Next]_vars
  PROVE  /\ UNCHANGED call
         /\ \/ UNCHANGED result
            \/ \E c \in Callers : AllDetailed(c)
            \/ \E c \in Callers : \E x :
                 /\ result' = [result EXCEPT ![c] = x]
                 /\ pc[c] # "done" /\ pc' = [pc EXCEPT ![c] = "done"]
                 /\ TrueOf(call[c], x) /\ x.what # "points"
<1> USE DEF deviceVars, listVars, netVars, ListUnchanged, Goto, Return
<1>0. \A what \in {"none", "error", "ok", "panic"} : \A f :
        TrueOf(f, Outcome(what)) /\ Outcome(what).what # "points"
  BY DEF TrueOf, Outcome
<1>1. ASSUME NEW c \in Callers, Refuse(c)
      PROVE  /\ UNCHANGED call
             /\ \E x : /\ result' = [result EXCEPT ![c] = x]
                       /\ pc[c] # "done" /\ pc' = [pc EXCEPT ![c] = "done"]
                       /\ TrueOf(call[c], x) /\ x.what # "points"
  <2>1. Fault(call[c]) \in {"error", "panic"}
    BY <1>1 DEF Refuse, Fault
  <2> QED
    BY <1>0, <1>1, <2>1 DEF Refuse
<1>2. ASSUME NEW c \in Callers, Receive(c)
      PROVE  /\ UNCHANGED call
             /\ \E x : /\ result' = [result EXCEPT ![c] = x]
                       /\ pc[c] # "done" /\ pc' = [pc EXCEPT ![c] = "done"]
                       /\ TrueOf(call[c], x) /\ x.what # "points"
  <2>1. PICK r \in replies : /\ r.caller = c
                             /\ result' = [result EXCEPT ![c] = Outcomes(call[c], r)]
    BY <1>2 DEF Receive
  <2>2. pc[c] = "wait" /\ pc' = [pc EXCEPT ![c] = "done"] /\ UNCHANGED call
    BY <1>2 DEF Receive
  <2>3. call[c] \in Calls /\ call[c].kind # "list" /\ r.what \in {"ack", "error"}
    BY <2>1, <2>2 DEF WriteInv
  <2>4. TrueOf(call[c], Outcomes(call[c], r)) /\ Outcomes(call[c], r).what # "points"
    BY <2>1, <2>3, AnswersTrue DEF ArrayInv
  <2> QED
    BY <2>1, <2>2, <2>4
<1>3. ASSUME NEW c \in Callers,
             GiveUp(c) \/ Whois(c) \/ ReadLength(c) \/ ReadIndex(c) \/ IndexFails(c)
      PROVE  /\ UNCHANGED call
             /\ \/ UNCHANGED result
                \/ \E x : /\ result' = [result EXCEPT ![c] = x]
                          /\ pc[c] # "done" /\ pc' = [pc EXCEPT ![c] = "done"]
                          /\ TrueOf(call[c], x) /\ x.what # "points"
  <2>1. \/ UNCHANGED result
        \/ \E what \in {"error", "panic"} :
             /\ result' = [result EXCEPT ![c] = Outcome(what)]
             /\ pc[c] # "done" /\ pc' = [pc EXCEPT ![c] = "done"]
    BY <1>3 DEF GiveUp, Whois, ReadLength, ReadIndex, IndexFails
  <2>2. UNCHANGED call
    BY <1>3 DEF GiveUp, Whois, ReadLength, ReadIndex, IndexFails
  <2> QED
    BY <1>0, <2>1, <2>2
<1>4. ASSUME NEW c \in Callers,
             Send(c) \/ ReadWhole(c) \/ WholeFails(c) \/ IndicesRead(c) \/ PointDetails(c)
      PROVE  UNCHANGED <<call, result>>
  BY <1>4 DEF Send, ReadWhole, WholeFails, IndicesRead, PointDetails
<1>5. ASSUME NEW c \in Callers, AllDetailed(c) PROVE UNCHANGED call
  BY <1>5 DEF AllDetailed
<1>6. ASSUME NEW r \in requests, Run(r) PROVE UNCHANGED <<call, result>>
  BY <1>6 DEF Run
<1>7. CASE Change \/ UNCHANGED vars
  BY <1>7 DEF Change, vars
<1> QED
  BY <1>1, <1>2, <1>3, <1>4, <1>5, <1>6, <1>7 DEF Next

LEMMA ReportsStep == WriteInv /\ ArrayInv /\ ReportsTrue /\ [Next]_vars => ReportsTrue'
<1> SUFFICES ASSUME WriteInv, ArrayInv, ReportsTrue, [Next]_vars PROVE ReportsTrue'
  OBVIOUS
<1>1. \A c \in Callers : TrueOf(call[c], result[c])
  BY DEF ReportsTrue, TrueOf
<1>2. UNCHANGED call
  BY ResultStep
<1>3. \A c \in Callers : TrueOf(call[c], result'[c])
  <2>1. CASE UNCHANGED result
    BY <1>1, <2>1
  <2>2. CASE \E c \in Callers : \E x :
               result' = [result EXCEPT ![c] = x] /\ TrueOf(call[c], x)
    BY <1>1, <2>2 DEF WriteInv
  <2>3. ASSUME NEW c \in Callers, AllDetailed(c)
        PROVE  \E x : result' = [result EXCEPT ![c] = x] /\ TrueOf(call[c], x)
    <3>1. result' = [result EXCEPT ![c] = [what |-> "points", points |-> points[c]]]
      BY <2>3 DEF AllDetailed, Return
    <3>2. TrueOf(call[c], [what |-> "points", points |-> points[c]])
      BY DEF TrueOf
    <3> QED
      BY <3>1, <3>2
  <2> QED
    BY <2>1, <2>2, <2>3, ResultStep
<1> QED
  BY <1>2, <1>3 DEF ReportsTrue, TrueOf

\* A priority array is reported as it was, each value as the float next to it in
\* the field of its priority, the highest of the report is the present value, and
\* a value read with its type is the present one, whatever was written meanwhile
\* and however late.
THEOREM Reports == Spec => []ReportsTrue
<1>1. Init => ReportsTrue
  BY DEF Init, ReportsTrue, None, Outcome
<1> QED
  BY <1>1, WriteInit, WriteStep, ArrayInit, ArrayStep, ReportsStep, PTL DEF Spec

-----------------------------------------------------------------------------
(* Which points are listed.                                                *)

PointRecords == [object : Objects, name : Objects \cup {Null}]

LEMMA NothingYet ==
  ASSUME NEW objs \in Seq(Objects)
  PROVE  PointsOf(<<>>, objs, 0)
<1> DEFINE f == [i \in DOMAIN <<>> |-> objs[i]]
<1>1. f \in [DOMAIN <<>> -> DOMAIN objs] /\ DOMAIN <<>> = {}
  OBVIOUS
<1>2. {f[i] : i \in DOMAIN <<>>} = {j \in 1..0 : IsPoint(objs[j])}
  OBVIOUS
<1> HIDE DEF f
<1> QED
  BY <1>1, <1>2 DEF PointsOf

\* A device makes no point.
LEMMA PassedOver ==
  ASSUME NEW pts \in Seq(PointRecords), NEW objs \in Seq(Objects),
         NEW n \in Nat, n < Len(objs), PointsOf(pts, objs, n), ~IsPoint(objs[n + 1])
  PROVE  PointsOf(pts, objs, n + 1)
<1>1. {j \in 1..n + 1 : IsPoint(objs[j])} = {j \in 1..n : IsPoint(objs[j])}
  OBVIOUS
<1>2. PICK f \in [DOMAIN pts -> DOMAIN objs] :
        /\ \A i, j \in DOMAIN pts : i < j => f[i] < f[j]
        /\ {f[i] : i \in DOMAIN pts} = {j \in 1..n : IsPoint(objs[j])}
        /\ \A i \in DOMAIN pts : /\ pts[i].object = objs[f[i]]
                                 /\ pts[i].name \in {pts[i].object, Null}
  BY DEF PointsOf
<1>3. {f[i] : i \in DOMAIN pts} = {j \in 1..n + 1 : IsPoint(objs[j])}
  BY <1>1, <1>2
<1> QED
  BY <1>2, <1>3 DEF PointsOf

\* Any other object makes one, behind those before it.
LEMMA OneMore ==
  ASSUME NEW pts \in Seq(PointRecords), NEW objs \in Seq(Objects),
         NEW n \in Nat, n < Len(objs), PointsOf(pts, objs, n), IsPoint(objs[n + 1]),
         NEW name \in {objs[n + 1], Null}
  PROVE  PointsOf(Append(pts, [object |-> objs[n + 1], name |-> name]), objs, n + 1)
<1> DEFINE p == [object |-> objs[n + 1], name |-> name]
           more == Append(pts, p)
           k == Len(pts) + 1
<1>1. PICK f \in [DOMAIN pts -> DOMAIN objs] :
        /\ \A i, j \in DOMAIN pts : i < j => f[i] < f[j]
        /\ {f[i] : i \in DOMAIN pts} = {j \in 1..n : IsPoint(objs[j])}
        /\ \A i \in DOMAIN pts : /\ pts[i].object = objs[f[i]]
                                 /\ pts[i].name \in {pts[i].object, Null}
  BY DEF PointsOf
<1> DEFINE g == [i \in DOMAIN more |-> IF i = k THEN n + 1 ELSE f[i]]
<1>2. /\ k \in Nat \ {0} /\ DOMAIN pts = 1..k - 1 /\ DOMAIN more = 1..k
      /\ more[k] = p /\ \A i \in DOMAIN pts : more[i] = pts[i]
      /\ DOMAIN objs = 1..Len(objs) /\ n + 1 \in DOMAIN objs
  <2>1. p \in PointRecords
    BY DEF PointRecords
  <2> QED
    BY <2>1
<1> HIDE DEF more, k, p
<1>3. g \in [DOMAIN more -> DOMAIN objs]
  BY <1>1, <1>2
<1>4. \A i \in DOMAIN pts : f[i] \in 1..n /\ f[i] \in Int
  <2>1. \A i \in DOMAIN pts : f[i] \in {f[h] : h \in DOMAIN pts}
    OBVIOUS
  <2> QED
    BY <1>1, <2>1
<1>5. \A i, j \in DOMAIN more : i < j => g[i] < g[j]
  BY <1>1, <1>2, <1>4
<1>6. {g[i] : i \in DOMAIN more} = {j \in 1..n + 1 : IsPoint(objs[j])}
  <2>1. {g[i] : i \in DOMAIN more} = {f[i] : i \in DOMAIN pts} \cup {n + 1}
    <3>1. k \notin DOMAIN pts /\ DOMAIN more = DOMAIN pts \cup {k}
      BY <1>2
    <3>2. g[k] = n + 1 /\ \A i \in DOMAIN pts : g[i] = f[i]
      BY <3>1
    <3> HIDE DEF g
    <3>3. {g[i] : i \in DOMAIN pts} = {f[i] : i \in DOMAIN pts}
      BY <3>2
    <3> QED
      BY <3>1, <3>2, <3>3
  <2>2. {j \in 1..n + 1 : IsPoint(objs[j])} = {j \in 1..n : IsPoint(objs[j])} \cup {n + 1}
    OBVIOUS
  <2> QED
    BY <1>1, <2>1, <2>2
<1>7. \A i \in DOMAIN more : /\ more[i].object = objs[g[i]]
                            /\ more[i].name \in {more[i].object, Null}
  BY <1>1, <1>2 DEF p
<1> QED
  BY <1>3, <1>5, <1>6, <1>7 DEF PointsOf, more, p

\* A list of one device has no points, though it is not read as a list.
LEMMA LoneDevice ==
  ASSUME NEW l \in Lists, Len(l) = 1, NEW pts, PointsOf(pts, <<>>, 0)
  PROVE  PointsOf(pts, l, Len(l))
<1>1. l \in Seq(Objects) /\ DOMAIN l = {1} /\ ~IsPoint(l[1])
  BY PointsAssumption DEF IsPoint
<1>2. DOMAIN pts = {}
  BY DEF PointsOf
<1> DEFINE f == [i \in DOMAIN pts |-> 1]
<1>3. f \in [DOMAIN pts -> DOMAIN l]
  BY <1>2
<1>4. {f[i] : i \in DOMAIN pts} = {j \in 1..Len(l) : IsPoint(l[j])}
  BY <1>1, <1>2
<1> QED
  BY <1>2, <1>3, <1>4 DEF PointsOf

\* While the list is as it was at the start of a call, what the call has read is
\* a part of it, all of it once it is read, and what it has made of that is
\* the points of that part.
Progress ==
  \A c \in Callers :
    LET same == begun[c].changes = changes
    IN /\ begun[c].changes <= changes
       /\ pc[c] \in {"idle", "whole", "length"} => ids[c] = <<>>
       /\ pc[c] \in {"idle", "whole", "length", "index"} => next[c] = 0 /\ points[c] = <<>>
       /\ pc[c] \in {"whole", "length", "index", "details"} /\ same => begun[c].list = list
       /\ pc[c] = "index" /\ same =>
            /\ size[c] = Len(list) /\ Len(ids[c]) <= Len(list)
            /\ \A i \in 1..Len(ids[c]) : ids[c][i] = list[i]
       /\ pc[c] = "details" /\ same =>
            ids[c] = list \/ (ids[c] = <<>> /\ Len(list) = 1)
       /\ pc[c] = "details" => /\ next[c] <= Len(ids[c])
                               /\ PointsOf(points[c], ids[c], next[c])
       /\ result[c].what = "points" => pc[c] = "done"

Types ==
  /\ list \in Lists
  /\ changes \in Nat
  /\ ids \in [Callers -> Seq(Objects)]
  /\ size \in [Callers -> Nat]
  /\ next \in [Callers -> Nat]
  /\ points \in [Callers -> Seq(PointRecords)]
  /\ begun \in [Callers -> [list : Seq(Objects), changes : Nat]]

ListInv == WriteInv /\ ArrayInv /\ Types /\ Progress /\ PointsListed

LEMMA ListInit == Init => ListInv
<1> SUFFICES ASSUME Init PROVE ListInv
  OBVIOUS
<1>1. Types
  BY DEF Init, Types
<1>2. \A c \in Callers : result[c].what = "none"
  BY DEF Init, None, Outcome
<1>3. Progress
  BY <1>2 DEF Init, Progress
<1>4. PointsListed
  BY <1>2 DEF PointsListed
<1> QED
  BY <1>1, <1>3, <1>4, WriteInit, ArrayInit DEF ListInv

LEMMA TypesStep == WriteInv /\ Types /\ [Next]_vars => Types'
<1> SUFFICES ASSUME WriteInv, Types, [Next]_vars PROVE Types'
  OBVIOUS
<1> USE DEF deviceVars, listVars, netVars, ListUnchanged, Goto, Return
<1>0. list \in Seq(Objects)
  BY PointsAssumption DEF Types
<1>1. ASSUME NEW c \in Callers, Refuse(c) \/ Send(c) \/ Receive(c) \/ GiveUp(c) PROVE Types'
  BY <1>1 DEF Refuse, Send, Receive, GiveUp, Types
<1>2. ASSUME NEW c \in Callers, Whois(c) PROVE Types'
  BY <1>0, <1>2 DEF Whois, Types
<1>3. ASSUME NEW c \in Callers, ReadWhole(c) PROVE Types'
  BY <1>0, <1>3 DEF ReadWhole, Types
<1>4. ASSUME NEW c \in Callers, ReadLength(c) PROVE Types'
  <2>1. Len(list) \in Nat
    BY <1>0
  <2>2. /\ UNCHANGED <<list, changes, ids, next, points, begun>>
        /\ UNCHANGED size \/ size' = [size EXCEPT ![c] = Len(list)]
    BY <1>4 DEF ReadLength
  <2> QED
    BY <2>1, <2>2 DEF Types
<1>5. ASSUME NEW c \in Callers, ReadIndex(c) PROVE Types'
  <2>1. ASSUME Len(ids[c]) + 1 <= Len(list)
        PROVE  Append(ids[c], list[Len(ids[c]) + 1]) \in Seq(Objects)
    BY <1>0, <2>1 DEF Types
  <2>2. \/ UNCHANGED ids
        \/ /\ Len(ids[c]) + 1 <= Len(list)
           /\ ids' = [ids EXCEPT ![c] = Append(ids[c], list[Len(ids[c]) + 1])]
    BY <1>5 DEF ReadIndex
  <2>3. UNCHANGED <<list, changes, size, next, points, begun>>
    BY <1>5 DEF ReadIndex
  <2> QED
    BY <2>1, <2>2, <2>3 DEF Types
<1>6. ASSUME NEW c \in Callers,
             WholeFails(c) \/ IndexFails(c) \/ IndicesRead(c) \/ AllDetailed(c)
      PROVE  Types'
  BY <1>6 DEF WholeFails, IndexFails, IndicesRead, AllDetailed, Types
<1>7. ASSUME NEW c \in Callers, PointDetails(c) PROVE Types'
  <2> DEFINE o == ids[c][next[c] + 1]
  <2>1. o \in Objects
    BY <1>7 DEF PointDetails, Types
  <2>2. next' = [next EXCEPT ![c] = @ + 1] /\ UNCHANGED <<list, changes, ids, size, begun>>
    BY <1>7 DEF PointDetails
  <2>3. \/ UNCHANGED points
        \/ \E name \in {Null, o} :
             points' = [points EXCEPT ![c] = Append(@, [object |-> o, name |-> name])]
    BY <1>7 DEF PointDetails
  <2>4. \A name \in {Null, o} : [object |-> o, name |-> name] \in PointRecords
    BY <2>1 DEF PointRecords
  <2> HIDE DEF o
  <2>5. points' \in [Callers -> Seq(PointRecords)]
    <3>1. ASSUME NEW name \in {Null, o},
                 points' = [points EXCEPT ![c] = Append(@, [object |-> o, name |-> name])]
          PROVE  points' \in [Callers -> Seq(PointRecords)]
      <4> DEFINE p == [object |-> o, name |-> name]
      <4>1. points[c] \in Seq(PointRecords) /\ p \in PointRecords
        BY <2>4 DEF Types
      <4> HIDE DEF p
      <4>2. Append(points[c], p) \in Seq(PointRecords)
        BY <4>1
      <4> QED
        BY <3>1, <4>2 DEF Types, p
    <3> QED
      BY <2>3, <3>1 DEF Types
  <2>6. next' \in [Callers -> Nat]
    BY <2>2 DEF Types
  <2> QED
    BY <2>2, <2>5, <2>6 DEF Types
<1>8. ASSUME NEW r \in requests, Run(r) PROVE Types'
  BY <1>8 DEF Run, Types
<1>9. CASE Change \/ UNCHANGED vars
  BY <1>9 DEF Change, vars, Types
<1> QED
  BY <1>1, <1>2, <1>3, <1>4, <1>5, <1>6, <1>7, <1>8, <1>9 DEF Next

\* A step of one caller leaves what the others have as it was.
LEMMA ProgressStays ==
  ASSUME WriteInv, Types, Progress, UNCHANGED <<ids, size, next, points, begun, list, changes>>,
         NEW c \in Callers,
         pc' = pc \/ \E to \in {"wait", "done"} : pc' = [pc EXCEPT ![c] = to],
         \/ result' = result
         \/ \E x : result' = [result EXCEPT ![c] = x] /\ (x.what = "points" => pc'[c] = "done"),
         pc[c] # "done" \/ pc' = pc
  PROVE  Progress'
<1>1. \A d \in Callers : pc'[d] # pc[d] => pc[d] # "done" /\ pc'[d] \in {"wait", "done"}
  BY DEF WriteInv
<1>2. \A d \in Callers : result'[d].what = "points" => pc'[d] = "done"
  BY DEF WriteInv, Progress
<1> QED
  BY <1>1, <1>2 DEF Progress

LEMMA ProgressStep == WriteInv /\ Types /\ Progress /\ [Next]_vars => Progress'
<1> SUFFICES ASSUME WriteInv, Types, Progress, [Next]_vars PROVE Progress'
  OBVIOUS
<1> USE DEF deviceVars, listVars, netVars, ListUnchanged, Goto, Return
<1>1. ASSUME NEW c \in Callers, Refuse(c) \/ Receive(c) \/ GiveUp(c) \/ IndexFails(c)
      PROVE  Progress'
  <2>1. /\ UNCHANGED <<ids, size, next, points, begun, list, changes>>
        /\ pc[c] # "done" /\ pc' = [pc EXCEPT ![c] = "done"]
        /\ \E x : result' = [result EXCEPT ![c] = x]
    BY <1>1 DEF Refuse, Receive, GiveUp, IndexFails
  <2>2. pc'[c] = "done"
    BY <2>1 DEF WriteInv
  <2> QED
    BY <2>1, <2>2, ProgressStays
<1>2. ASSUME NEW c \in Callers, Send(c) PROVE Progress'
  <2>1. /\ UNCHANGED <<ids, size, next, points, begun, list, changes, result>>
        /\ pc[c] # "done" /\ pc' = [pc EXCEPT ![c] = "wait"]
    BY <1>2 DEF Send
  <2> QED
    BY <2>1, ProgressStays
<1>3. ASSUME NEW c \in Callers, AllDetailed(c) PROVE Progress'
  <2>1. /\ UNCHANGED <<ids, size, next, points, begun, list, changes>>
        /\ pc[c] # "done" /\ pc' = [pc EXCEPT ![c] = "done"]
        /\ \E x : result' = [result EXCEPT ![c] = x]
    BY <1>3 DEF AllDetailed
  <2>2. pc'[c] = "done"
    BY <2>1 DEF WriteInv
  <2> QED
    BY <2>1, <2>2, ProgressStays
<1>4. ASSUME NEW c \in Callers, Whois(c) PROVE Progress'
  <2>1. /\ UNCHANGED <<ids, size, next, points, list, changes>>
        /\ begun' = [begun EXCEPT ![c] = [list |-> list, changes |-> changes]]
        /\ pc[c] = "idle"
        /\ \E to \in {"whole", "done"} : pc' = [pc EXCEPT ![c] = to]
        /\ \A d \in Callers : d # c => result'[d] = result[d]
        /\ result'[c].what = "points" => pc'[c] = "done"
    <3>1. Outcome("error").what # "points"
      BY DEF Outcome
    <3>2. result[c].what # "points"
      BY <1>4 DEF Whois, Progress
    <3> QED
      BY <1>4, <3>1, <3>2 DEF Whois, WriteInv
  <2>2. begun'[c].list = list /\ begun'[c].changes = changes
        /\ \A d \in Callers : d # c => begun'[d] = begun[d] /\ pc'[d] = pc[d]
    BY <2>1 DEF WriteInv, Types
  <2>3. pc'[c] \in {"whole", "done"} /\ pc[c] = "idle"
    BY <2>1 DEF WriteInv
  <2>4. changes \in Nat
    BY DEF Types
  <2> QED
    BY <2>1, <2>2, <2>3, <2>4 DEF Progress
<1>5. ASSUME NEW c \in Callers, ReadWhole(c) PROVE Progress'
  <2>1. /\ UNCHANGED <<size, next, points, begun, list, changes, result>>
        /\ pc[c] = "whole" /\ pc' = [pc EXCEPT ![c] = "details"]
        /\ ids' = [ids EXCEPT ![c] = IF Len(list) = 1 THEN <<>> ELSE list]
    BY <1>5 DEF ReadWhole
  <2>2. /\ pc'[c] = "details" /\ ids'[c] = IF Len(list) = 1 THEN <<>> ELSE list
        /\ \A d \in Callers : d # c => ids'[d] = ids[d] /\ pc'[d] = pc[d]
    BY <2>1 DEF WriteInv, Types
  <2>3. next[c] = 0 /\ points[c] = <<>> /\ result[c].what # "points"
    BY <2>1 DEF Progress
  <2>4. ids'[c] \in Seq(Objects) /\ 0 <= Len(ids'[c])
    BY <2>2, PointsAssumption DEF Types
  <2>5. PointsOf(points[c], ids'[c], next[c])
    BY <2>3, <2>4, NothingYet
  <2> QED
    BY <2>1, <2>2, <2>3, <2>4, <2>5 DEF Progress
<1>6. ASSUME NEW c \in Callers, WholeFails(c) PROVE Progress'
  BY <1>6 DEF WholeFails, Progress, WriteInv
<1>7. ASSUME NEW c \in Callers, ReadLength(c) PROVE Progress'
  <2>1. /\ UNCHANGED <<ids, next, points, begun, list, changes>>
        /\ pc[c] = "length"
        /\ \/ /\ pc' = [pc EXCEPT ![c] = "index"]
              /\ size' = [size EXCEPT ![c] = Len(list)]
              /\ UNCHANGED result
           \/ /\ pc' = [pc EXCEPT ![c] = "done"] /\ UNCHANGED size
              /\ \E x : result' = [result EXCEPT ![c] = x]
    BY <1>7 DEF ReadLength
  <2>2. CASE /\ pc' = [pc EXCEPT ![c] = "done"] /\ UNCHANGED size
             /\ \E x : result' = [result EXCEPT ![c] = x]
    BY <2>1, <2>2 DEF Progress, WriteInv
  <2>3. CASE /\ pc' = [pc EXCEPT ![c] = "index"]
             /\ size' = [size EXCEPT ![c] = Len(list)]
             /\ UNCHANGED result
    <3>1. pc'[c] = "index" /\ size'[c] = Len(list) /\ ids[c] = <<>> /\ Len(list) \in Nat
      BY <2>1, <2>3, PointsAssumption DEF WriteInv, Types, Progress
    <3>2. Len(ids[c]) = 0
      BY <3>1
    <3>3. \A d \in Callers : d # c => pc'[d] = pc[d] /\ size'[d] = size[d]
      BY <2>3 DEF WriteInv, Types
    <3> QED
      BY <2>1, <2>3, <3>1, <3>2, <3>3 DEF Progress
  <2> QED
    BY <2>1, <2>2, <2>3
<1>8. ASSUME NEW c \in Callers, ReadIndex(c) PROVE Progress'
  <2> DEFINE i == Len(ids[c]) + 1
  <2>1. /\ UNCHANGED <<size, next, points, begun, list, changes>>
        /\ pc[c] = "index" /\ Len(ids[c]) < size[c] /\ next[c] = 0 /\ points[c] = <<>>
    BY <1>8 DEF ReadIndex, Progress
  <2>2. CASE i > Len(list)
    <3>0. ~(i <= Len(list))
      <4>1. Len(list) \in Nat /\ Len(ids[c]) \in Nat
        BY PointsAssumption DEF Types
      <4> QED
        BY <2>2, <4>1
    <3>1. /\ UNCHANGED ids /\ pc' = [pc EXCEPT ![c] = "done"]
          /\ \E x : result' = [result EXCEPT ![c] = x]
      BY <1>8, <3>0 DEF ReadIndex
    <3>2. pc'[c] = "done"
      BY <3>1 DEF WriteInv
    <3> QED
      BY <2>1, <3>1, <3>2, ProgressStays
  <2>3. CASE i <= Len(list)
    <3>1. ids' = [ids EXCEPT ![c] = Append(ids[c], list[i])] /\ UNCHANGED <<pc, result>>
      BY <1>8, <2>3 DEF ReadIndex
    <3>2. list \in Seq(Objects) /\ ids[c] \in Seq(Objects) /\ list[i] \in Objects
      BY <2>3, PointsAssumption DEF Types
    <3>3. /\ Len(ids'[c]) = i /\ ids'[c][i] = list[i]
          /\ \A j \in 1..Len(ids[c]) : ids'[c][j] = ids[c][j]
          /\ \A d \in Callers : d # c => ids'[d] = ids[d]
      BY <3>1, <3>2 DEF Types
    <3>4. begun[c].changes = changes =>
            size[c] = Len(list) /\ \A j \in 1..Len(ids[c]) : ids[c][j] = list[j]
      BY <2>1 DEF Progress
    <3>5. begun[c].changes = changes =>
            \A j \in 1..Len(ids'[c]) : ids'[c][j] = list[j]
      BY <3>2, <3>3, <3>4
    <3> QED
      BY <2>1, <2>3, <3>1, <3>3, <3>4, <3>5 DEF Progress
  <2> QED
    BY <2>2, <2>3, PointsAssumption DEF Types
<1>9. ASSUME NEW c \in Callers, IndicesRead(c) PROVE Progress'
  <2>1. /\ UNCHANGED <<listVars, list, changes, result>>
        /\ pc[c] = "index" /\ pc' = [pc EXCEPT ![c] = "details"] /\ Len(ids[c]) = size[c]
        /\ next[c] = 0 /\ points[c] = <<>>
    BY <1>9 DEF IndicesRead, Progress
  <2>2. list \in Seq(Objects) /\ ids[c] \in Seq(Objects)
    BY PointsAssumption DEF Types
  <2>3. begun[c].changes = changes => ids[c] = list
    <3>1. SUFFICES ASSUME begun[c].changes = changes PROVE ids[c] = list
      OBVIOUS
    <3>2. Len(ids[c]) = Len(list) /\ \A i \in 1..Len(ids[c]) : ids[c][i] = list[i]
      BY <2>1, <3>1 DEF Progress
    <3> QED
      BY <2>2, <3>2
  <2>4. PointsOf(points[c], ids[c], next[c]) /\ next[c] <= Len(ids[c])
    BY <2>1, <2>2, NothingYet
  <2>5. pc'[c] = "details" /\ \A d \in Callers : d # c => pc'[d] = pc[d]
    BY <2>1 DEF WriteInv
  <2> QED
    BY <2>1, <2>3, <2>4, <2>5 DEF Progress
<1>10. ASSUME NEW c \in Callers, PointDetails(c) PROVE Progress'
  <2> DEFINE o == ids[c][next[c] + 1]
  <2>1. /\ UNCHANGED <<pc, ids, size, begun, list, changes, result>>
        /\ pc[c] = "details" /\ next[c] < Len(ids[c])
        /\ next' = [next EXCEPT ![c] = @ + 1]
        /\ \/ ~IsPoint(o) /\ UNCHANGED points
           \/ /\ IsPoint(o)
              /\ \E name \in {Null, o} :
                   points' = [points EXCEPT ![c] = Append(@, [object |-> o, name |-> name])]
    BY <1>10 DEF PointDetails
  <2>2. /\ next'[c] = next[c] + 1 /\ next[c] \in Nat
        /\ ids[c] \in Seq(Objects) /\ points[c] \in Seq(PointRecords)
        /\ PointsOf(points[c], ids[c], next[c])
    BY <2>1 DEF Types, Progress
  <2>3. \A d \in Callers : d # c => next'[d] = next[d] /\ points'[d] = points[d]
    BY <2>1 DEF Types
  <2>4. PointsOf(points'[c], ids[c], next'[c])
    <3>1. CASE ~IsPoint(o) /\ UNCHANGED points
      BY <2>1, <2>2, <3>1, PassedOver
    <3>2. ASSUME IsPoint(o), NEW name \in {Null, o},
                 points' = [points EXCEPT ![c] = Append(@, [object |-> o, name |-> name])]
          PROVE  PointsOf(points'[c], ids[c], next'[c])
      <4>1. points'[c] = Append(points[c], [object |-> o, name |-> name])
        BY <3>2 DEF Types
      <4>2. PointsOf(Append(points[c], [object |-> o, name |-> name]), ids[c], next[c] + 1)
        BY <2>1, <2>2, <3>2, OneMore
      <4> QED
        BY <2>2, <4>1, <4>2
    <3> QED
      BY <2>1, <3>1, <3>2
  <2>5. next'[c] <= Len(ids[c])
    BY <2>1, <2>2
  <2> QED
    BY <2>1, <2>3, <2>4, <2>5 DEF Progress
<1>11. ASSUME NEW r \in requests, Run(r) PROVE Progress'
  BY <1>11 DEF Run, Progress
<1>12. CASE Change
  <2>1. changes' = changes + 1 /\ UNCHANGED <<pc, result, listVars>> /\ changes \in Nat
    BY <1>12 DEF Change, Types
  <2>2. \A c \in Callers : begun[c].changes \in Nat /\ begun[c].changes <= changes
    BY DEF Types, Progress
  <2>3. \A c \in Callers : begun[c].changes <= changes' /\ begun[c].changes # changes'
    BY <2>1, <2>2
  <2> QED
    BY <2>1, <2>3 DEF Progress
<1>13. CASE UNCHANGED vars
  BY <1>13 DEF vars, Progress
<1> QED
  BY <1>1, <1>2, <1>3, <1>4, <1>5, <1>6, <1>7, <1>8, <1>9, <1>10, <1>11, <1>12, <1>13 DEF Next

LEMMA ListedStep ==
  WriteInv /\ ArrayInv /\ Types /\ Progress /\ PointsListed /\ [Next]_vars => PointsListed'
<1> SUFFICES ASSUME WriteInv, ArrayInv, Types, Progress, PointsListed, [Next]_vars PROVE PointsListed'
  OBVIOUS
<1> DEFINE Good(r, b, n) == r.what = "points" /\ b.changes = n =>
                                 PointsOf(r.points, b.list, Len(b.list))
<1>1. \A c \in Callers : Good(result[c], begun[c], changes)
  BY DEF PointsListed
<1>2. \A c \in Callers : Good(result'[c], begun'[c], changes')
  <2>1. CASE Change
    <3>1. changes' = changes + 1 /\ UNCHANGED begun /\ changes \in Nat
      BY <2>1 DEF Change, listVars, Types
    <3>2. \A c \in Callers : begun[c].changes \in Nat /\ begun[c].changes <= changes
      BY DEF Types, Progress
    <3> QED
      BY <3>1, <3>2
  <2>2. ASSUME NEW c \in Callers, AllDetailed(c)
        PROVE  \A d \in Callers : Good(result'[d], begun'[d], changes')
    <3>1. /\ result' = [result EXCEPT ![c] = [what |-> "points", points |-> points[c]]]
          /\ pc[c] = "details" /\ next[c] = Len(ids[c])
          /\ UNCHANGED <<begun, changes>>
      BY <2>2 DEF AllDetailed, Goto, Return, ListUnchanged, deviceVars, listVars
    <3>2. result'[c].points = points[c] /\ \A d \in Callers : d # c => result'[d] = result[d]
      BY <3>1 DEF WriteInv
    <3>3. begun[c].changes = changes => PointsOf(points[c], list, Len(list))
      <4>1. PointsOf(points[c], ids[c], Len(ids[c])) /\ list \in Lists
        BY <3>1 DEF Progress, Types
      <4>2. begun[c].changes = changes => ids[c] = list \/ (ids[c] = <<>> /\ Len(list) = 1)
        BY <3>1 DEF Progress
      <4>3. Len(<<>>) = 0
        OBVIOUS
      <4> QED
        BY <4>1, <4>2, <4>3, LoneDevice
    <3>4. begun[c].changes = changes => begun[c].list = list
      BY <3>1 DEF Progress
    <3> QED
      BY <1>1, <3>1, <3>2, <3>3, <3>4
  <2>3. CASE ~Change /\ ~\E c \in Callers : AllDetailed(c)
    <3>1. \A c \in Callers : result'[c].what = "points" => result'[c] = result[c]
      BY <2>3, ResultStep DEF WriteInv
    <3>2. UNCHANGED changes
      BY <2>3 DEF Next, vars, deviceVars, ListUnchanged, Refuse, Send, Receive, GiveUp, Whois,
                  ReadWhole, WholeFails, ReadLength, ReadIndex, IndexFails, IndicesRead,
                  PointDetails, Run
    <3>3. UNCHANGED begun
          \/ \E c \in Callers : Whois(c) /\ begun' = [begun EXCEPT ![c] = [list |-> list, changes |-> changes]]
      BY <2>3 DEF Next, vars, listVars, Refuse, Send, Receive, GiveUp, Whois,
                  ReadWhole, WholeFails, ReadLength, ReadIndex, IndexFails, IndicesRead,
                  PointDetails, Run
    <3>4. \A c \in Callers : Whois(c) => result[c].what # "points"
      BY DEF Whois, Goto, Progress
    <3>5. \A c \in Callers : result'[c].what = "points" => begun'[c] = begun[c]
      BY <3>1, <3>3, <3>4 DEF Types
    <3> QED
      BY <1>1, <3>1, <3>2, <3>5
  <2> QED
    BY <2>1, <2>2, <2>3
<1> QED
  BY <1>2 DEF PointsListed

\* A device whose list does not change during a call is listed with all its
\* points, each once and in their order, whichever way the list was read.
THEOREM Listed == Spec => []PointsListed
<1>1. ListInv /\ [Next]_vars => ListInv'
  BY WriteStep, ArrayStep, TypesStep, ProgressStep, ListedStep DEF ListInv
<1>2. ListInv => PointsListed
  BY DEF ListInv
<1> QED
  BY <1>1, <1>2, ListInit, PTL DEF Spec
=============================================================================
