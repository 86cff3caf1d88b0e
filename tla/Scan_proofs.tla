----------------------------- MODULE Scan_proofs -----------------------------
(***************************************************************************)
(* Theorems about the discover command, for any network, any number of     *)
(* workers and any ranges, and about the object list of a device that its  *)
(* workers read, for lists and packets of any size and any number of       *)
(* changes.                                                                *)
(***************************************************************************)
EXTENDS Scan, ObjectList, FiniteSetTheorems, SequenceTheorems, TLAPS

----------------------------------------------------------------------------
(* Type correctness                                                        *)

\* A sequence of the members of a set of devices is a sequence of devices.
LEMMA SequenceOfSet ==
  ASSUME NEW S \in SUBSET Devices, NEW s \in SetToSeqs(S)
  PROVE  s \in Seq(Devices)
<1>1. Cardinality(S) \in Nat
  BY ScanAssumption, FS_Subset, FS_CardinalityType
<1>2. s \in [1..Cardinality(S) -> S]
  BY DEF SetToSeqs
<1>3. s \in [1..Cardinality(S) -> Devices]
  BY <1>2
<1> QED
  BY <1>1, <1>3

LEMMA TypeInit == Init => TypeOK
<1> SUFFICES ASSUME Init PROVE TypeOK
  OBVIOUS
<1>1. <<>> \in Seq(Devices) /\ <<>> \in Seq(Seq(Devices))
  OBVIOUS
<1>2. held \in [Workers -> Devices \cup {NoDevice}] /\ devs \in [Workers -> Seq(Devices)]
  BY <1>1 DEF Init
<1> QED
  BY <1>1, <1>2 DEF Init, TypeOK, Unread

LEMMA TypeStep == TypeOK /\ [Next]_vars => TypeOK'
<1> SUFFICES ASSUME TypeOK, [Next]_vars PROVE TypeOK'
  OBVIOUS
<1> USE ScanAssumption
    DEF TypeOK, MainGoto, Goto, mainVars, workerVars, listVars, readVars, Unread
<1>1. ASSUME WhoIs PROVE TypeOK'
  <2>1. found' \in Seq(Devices)
    BY <1>1, SequenceOfSet DEF WhoIs
  <2>2. main' = "send" /\ UNCHANGED <<round, scan, merge, closed, fetched>>
    BY <1>1 DEF WhoIs
  <2>3. UNCHANGED <<pc, devs, held, taken, results, repeats, length>>
    BY <1>1 DEF WhoIs
  <2>4. /\ main' \in {"whois", "send", "wait", "read", "saved"} /\ round' \in Nat
        /\ found' \in Seq(Devices) /\ scan' \in Seq(Seq(Devices)) /\ merge' \in Seq(Devices)
        /\ closed' \subseteq {"scan", "merge"} /\ fetched' \subseteq Devices
    BY <2>1, <2>2
  <2> QED
    BY <2>3, <2>4
<1>2. ASSUME WhoIsFails \/ CloseScan \/ Wait \/ Save \/ ReadArray PROVE TypeOK'
  <2>1. CASE WhoIsFails
    BY <2>1 DEF WhoIsFails
  <2>2. CASE CloseScan
    BY <2>2 DEF CloseScan
  <2>3. CASE Wait
    BY <2>3 DEF Wait
  <2>4. CASE Save \/ ReadArray
    BY <2>4 DEF Save, ReadArray
  <2> QED
    BY <1>2, <2>1, <2>2, <2>3, <2>4
<1>3. ASSUME SendRange PROVE TypeOK'
  <2>1. <<>> \in Seq(Devices) /\ Append(scan, found) \in Seq(Seq(Devices))
    OBVIOUS
  <2> QED
    BY <1>3, <2>1 DEF SendRange
<1>4. ASSUME ReadLength PROVE TypeOK'
  <2>1. Len(results) \in Nat
    OBVIOUS
  <2> QED
    BY <1>4, <2>1 DEF ReadLength
<1>5. ASSUME NEW w \in Workers, TakeRange(w) PROVE TypeOK'
  <2>1. Head(scan) \in Seq(Devices) /\ Tail(scan) \in Seq(Seq(Devices))
    BY <1>5 DEF TakeRange
  <2> QED
    BY <1>5, <2>1 DEF TakeRange
<1>6. ASSUME NEW w \in Workers, WorkerEnds(w) \/ NextRange(w) PROVE TypeOK'
  BY <1>6 DEF WorkerEnds, NextRange
<1>7. ASSUME NEW w \in Workers, Objects(w) \/ ObjectsFails(w) PROVE TypeOK'
  <2>1. /\ devs[w] \in Seq(Devices) /\ devs[w] # <<>>
    BY <1>7 DEF Objects, ObjectsFails
  <2>2. Head(devs[w]) \in Devices /\ Tail(devs[w]) \in Seq(Devices)
    BY <2>1
  <2>3. CASE Objects(w)
    BY <2>2, <2>3 DEF Objects
  <2>4. CASE ObjectsFails(w)
    BY <2>2, <2>4 DEF ObjectsFails
  <2> QED
    BY <1>7, <2>3, <2>4
<1>8. ASSUME Take PROVE TypeOK'
  <2>1. Head(merge) \in Devices /\ Tail(merge) \in Seq(Devices)
    BY <1>8 DEF Take
  <2> QED
    BY <1>8, <2>1 DEF Take
<1>9. ASSUME Merge PROVE TypeOK'
  <2>1. taken \in Devices /\ Append(results, taken) \in Seq(Devices) /\ Instance[taken] \in 0..MaxInstance
    BY <1>9 DEF Merge
  <2> QED
    BY <1>9, <2>1 DEF Merge
<1>10. ASSUME NEW w \in Workers, HandOver(w) PROVE TypeOK'
  <2>1. w \in Workers /\ pc[w] = "merge"
    BY <1>10 DEF HandOver
  <2> QED
    BY <1>10, <2>1 DEF HandOver
<1>11. ASSUME UNCHANGED vars PROVE TypeOK'
  BY <1>11 DEF vars
<1> QED
  BY <1>1, <1>2, <1>3, <1>4, <1>5, <1>6, <1>7, <1>8, <1>9, <1>10, <1>11
  DEF Next, Command, Merger, Work

\* The variables of the command, its workers and its merger keep their types,
\* and a worker holds a device just when it has one to hand over.
THEOREM TypeCorrect == Spec => []TypeOK
<1> QED
  BY TypeInit, TypeStep, PTL DEF Spec

----------------------------------------------------------------------------
(* What is merged.                                                         *)

\* The instances in the merged list are those in repeats.
Listed(d) == \E i \in DOMAIN results : Instance[results[i]] = Instance[d]
Held(d) == \E w \in Workers : held[w] = d
Queued(d) == \E i \in DOMAIN merge : merge[i] = d

MergeInv ==
  /\ repeats = {Instance[results[i]] : i \in DOMAIN results}
  /\ \A i, j \in DOMAIN results : Instance[results[i]] = Instance[results[j]] => i = j
  /\ \A d \in fetched : Held(d) \/ Queued(d) \/ taken = d \/ Listed(d)

LEMMA MergeInit == Init => MergeInv
  BY DEF Init, MergeInv

LEMMA MergeStep == TypeOK /\ TypeOK' /\ MergeInv /\ [Next]_vars => MergeInv'
<1> SUFFICES ASSUME TypeOK, TypeOK', MergeInv, [Next]_vars PROVE MergeInv'
  OBVIOUS
<1> USE ScanAssumption DEF MainGoto, Goto, mainVars, workerVars, listVars, readVars
<1>1. ASSUME UNCHANGED <<held, merge, taken, results, repeats, fetched>> PROVE MergeInv'
  BY <1>1 DEF MergeInv, Held, Queued, Listed
<1>2. ASSUME NEW w \in Workers, Objects(w) PROVE MergeInv'
  <2>1. UNCHANGED <<merge, taken, results, repeats>>
    BY <1>2 DEF Objects
  <2>2. pc[w] = "devices" /\ held' = [held EXCEPT ![w] = Head(devs[w])]
        /\ fetched' = fetched \cup {Head(devs[w])}
    BY <1>2 DEF Objects
  <2>3. held[w] = NoDevice /\ held \in [Workers -> Devices \cup {NoDevice}]
    BY <2>2 DEF TypeOK
  <2>4. ASSUME NEW d \in fetched' PROVE Held(d)' \/ Queued(d)' \/ (taken = d)' \/ Listed(d)'
    <3>1. CASE d = Head(devs[w])
      BY <2>2, <2>3, <3>1 DEF Held
    <3>2. CASE d \in fetched /\ Held(d)
      <4>1. d # NoDevice
        BY <3>2 DEF TypeOK
      <4>2. PICK v \in Workers : held[v] = d
        BY <3>2 DEF Held
      <4>3. v # w /\ held'[v] = d
        BY <2>2, <2>3, <4>1, <4>2
      <4> QED
        BY <4>3 DEF Held
    <3>3. CASE d \in fetched /\ ~Held(d)
      BY <2>1, <3>3 DEF MergeInv, Queued, Listed
    <3> QED
      BY <2>2, <3>1, <3>2, <3>3
  <2>5. ASSUME NEW i \in DOMAIN results', NEW j \in DOMAIN results',
               Instance[results'[i]] = Instance[results'[j]]
        PROVE  i = j
    BY <2>1, <2>5 DEF MergeInv
  <2>6. repeats' = {Instance[results'[i]] : i \in DOMAIN results'}
    BY <2>1 DEF MergeInv
  <2> QED
    BY <2>4, <2>5, <2>6 DEF MergeInv
<1>3. ASSUME NEW w \in Workers, HandOver(w) PROVE MergeInv'
  <2>1. UNCHANGED <<taken, results, repeats, fetched>>
    BY <1>3 DEF HandOver
  <2>2. merge' = Append(merge, held[w]) /\ held' = [held EXCEPT ![w] = NoDevice]
    BY <1>3 DEF HandOver
  <2>3. /\ merge \in Seq(Devices) /\ held \in [Workers -> Devices \cup {NoDevice}]
        /\ pc[w] = "merge" /\ held[w] \in Devices
    BY <1>3 DEF HandOver, TypeOK
  <2>4. ASSUME NEW d, Queued(d) \/ d = held[w] PROVE Queued(d)'
    <3>1. /\ DOMAIN merge' = 1..Len(merge) + 1 /\ merge'[Len(merge) + 1] = held[w]
          /\ DOMAIN merge = 1..Len(merge) /\ Len(merge) \in Nat
          /\ \A i \in 1..Len(merge) : merge'[i] = merge[i]
      BY <2>2, <2>3
    <3> QED
      BY <2>4, <3>1 DEF Queued
  <2>5. ASSUME NEW d, Held(d) PROVE Held(d)' \/ d = held[w]
    <3>1. PICK v \in Workers : held[v] = d
      BY <2>5 DEF Held
    <3> QED
      BY <2>2, <2>3, <3>1 DEF Held
  <2>6. ASSUME NEW d \in fetched' PROVE Held(d)' \/ Queued(d)' \/ (taken = d)' \/ Listed(d)'
    BY <2>1, <2>4, <2>5 DEF MergeInv, Listed
  <2>7. repeats' = {Instance[results'[i]] : i \in DOMAIN results'}
        /\ \A i, j \in DOMAIN results' : Instance[results'[i]] = Instance[results'[j]] => i = j
    BY <2>1 DEF MergeInv
  <2> QED
    BY <2>6, <2>7 DEF MergeInv
<1>4. ASSUME Take PROVE MergeInv'
  <2>1. UNCHANGED <<held, results, repeats, fetched>>
    BY <1>4 DEF Take
  <2>2. merge # <<>> /\ taken = NoDevice /\ taken' = Head(merge) /\ merge' = Tail(merge)
    BY <1>4 DEF Take
  <2>3. merge \in Seq(Devices) /\ NoDevice \notin fetched
    BY DEF TypeOK
  <2>4. ASSUME NEW d, Queued(d) PROVE Queued(d)' \/ taken' = d
    <3>1. PICK i \in 1..Len(merge) : merge[i] = d
      BY <2>3, <2>4 DEF Queued
    <3>2. CASE i = 1
      BY <2>2, <2>3, <3>1, <3>2
    <3>3. CASE i # 1
      <4>1. i - 1 \in DOMAIN merge' /\ merge'[i - 1] = d
        BY <2>2, <2>3, <3>1, <3>3
      <4> QED
        BY <4>1 DEF Queued
    <3> QED
      BY <3>2, <3>3
  <2>5. ASSUME NEW d \in fetched' PROVE Held(d)' \/ Queued(d)' \/ (taken = d)' \/ Listed(d)'
    BY <2>1, <2>2, <2>3, <2>4 DEF MergeInv, Held, Listed
  <2>6. repeats' = {Instance[results'[i]] : i \in DOMAIN results'}
        /\ \A i, j \in DOMAIN results' : Instance[results'[i]] = Instance[results'[j]] => i = j
    BY <2>1 DEF MergeInv
  <2> QED
    BY <2>5, <2>6 DEF MergeInv
<1>5. ASSUME Merge PROVE MergeInv'
  <2>1. UNCHANGED <<held, merge, fetched>> /\ taken # NoDevice /\ taken' = NoDevice
    BY <1>5 DEF Merge
  <2>2. taken \in Devices /\ results \in Seq(Devices) /\ NoDevice \notin fetched
    BY <2>1 DEF TypeOK
  <2>3. CASE Instance[taken] \in repeats
    <3>1. UNCHANGED <<results, repeats>>
      BY <1>5, <2>3 DEF Merge, Repeated
    <3>2. Listed(taken)
      BY <2>3 DEF MergeInv, Listed
    <3>3. ASSUME NEW d \in fetched' PROVE Held(d)' \/ Queued(d)' \/ Listed(d)'
      BY <2>1, <3>1, <3>2 DEF MergeInv, Held, Queued, Listed
    <3> QED
      BY <3>1, <3>3 DEF MergeInv
  <2>4. CASE Instance[taken] \notin repeats
    <3>1. results' = Append(results, taken) /\ repeats' = repeats \cup {Instance[taken]}
      BY <1>5, <2>4 DEF Merge, Repeated
    <3>2. /\ DOMAIN results = 1..Len(results) /\ Len(results) \in Nat
          /\ DOMAIN results' = 1..Len(results) + 1 /\ results'[Len(results) + 1] = taken
          /\ \A i \in 1..Len(results) : results'[i] = results[i]
      BY <2>2, <3>1
    <3>3. repeats' = {Instance[results'[i]] : i \in DOMAIN results'}
      BY <3>1, <3>2 DEF MergeInv
    <3>4. \A i, j \in DOMAIN results' : Instance[results'[i]] = Instance[results'[j]] => i = j
      BY <2>4, <3>2 DEF MergeInv
    <3>5. ASSUME NEW d, Listed(d) \/ d = taken PROVE Listed(d)'
      BY <3>2, <3>5 DEF Listed
    <3>6. ASSUME NEW d \in fetched' PROVE Held(d)' \/ Queued(d)' \/ Listed(d)'
      BY <2>1, <3>5 DEF MergeInv, Held, Queued
    <3> QED
      BY <3>3, <3>4, <3>6 DEF MergeInv
  <2> QED
    BY <2>3, <2>4
<1>6. CASE Command \/ UNCHANGED vars
  BY <1>1, <1>6 DEF Command, WhoIs, WhoIsFails, SendRange, CloseScan, Wait, ReadArray, ReadLength,
                    Save, vars
<1>7. ASSUME NEW w \in Workers, TakeRange(w) \/ WorkerEnds(w) \/ NextRange(w) \/ ObjectsFails(w)
      PROVE  MergeInv'
  BY <1>1, <1>7 DEF TakeRange, WorkerEnds, NextRange, ObjectsFails
<1> QED
  BY <1>2, <1>3, <1>4, <1>5, <1>6, <1>7 DEF Next, Merger, Work

LEMMA MergeInvariant == Spec => []MergeInv
<1>1. TypeOK /\ TypeOK' /\ MergeInv /\ [Next]_vars => MergeInv'
  BY MergeStep
<1> QED
  BY <1>1, MergeInit, TypeCorrect, PTL DEF Spec

\* The merged list has no instance twice, and no device that was read is lost
\* on the way into it (discover, its workers and its merger).
THEOREM Merged == Spec => []MergedOnce
<1>1. MergeInv => MergedOnce
  BY DEF MergeInv, MergedOnce, OnTheirWay, ToSet, Held, Queued, Listed
<1> QED
  BY <1>1, MergeInvariant, PTL

----------------------------------------------------------------------------
(* What is saved.                                                          *)

\* The devices read that are not among the first n merged.
Missing(n) == {d \in fetched : \A i \in 1..n : Instance[results[i]] # Instance[d]}

\* Nothing is read any more when the list is; what is missing at its end is
\* in the channel or taken.
BacklogInv ==
  /\ Len(merge) <= Concurrency
  /\ main \in {"read", "saved"} => \A w \in Workers : pc[w] = "done"
  /\ length # Unread =>
       /\ main \in {"read", "saved"}
       /\ length <= Len(results)
       /\ Cardinality(Missing(length)) <= Concurrency + 1
  /\ main = "saved" => length # Unread

LEMMA BacklogInit == Init => BacklogInv
<1>1. Concurrency \in Nat
  BY ScanAssumption, FS_CardinalityType DEF Concurrency
<1> QED
  BY <1>1 DEF Init, BacklogInv, Unread

\* A channel of n devices and one more are n + 1 devices at most.
LEMMA BacklogBound ==
  ASSUME TypeOK, BacklogInv, MergeInv, \A w \in Workers : pc[w] = "done"
  PROVE  Cardinality(Missing(Len(results))) <= Concurrency + 1
<1> DEFINE Queue == ToSet(merge)
<1>1. merge \in Seq(Devices) /\ Len(merge) \in Nat /\ Concurrency \in Nat
      /\ DOMAIN merge = 1..Len(merge) /\ DOMAIN results = 1..Len(results)
  BY ScanAssumption, FS_CardinalityType DEF TypeOK, Concurrency
<1>2. IsFiniteSet(1..Len(merge)) /\ Cardinality(1..Len(merge)) = Len(merge)
  <2>1. ASSUME NEW n \in Nat PROVE IsFiniteSet(1..n) /\ Cardinality(1..n) = n
    <3>1. IsFiniteSet(1..n) /\ Cardinality(1..n) = IF 1 > n THEN 0 ELSE n - 1 + 1
      BY FS_Interval
    <3> QED
      BY <3>1
  <2> QED
    BY <1>1, <2>1
<1>3. merge \in Surjection(1..Len(merge), Queue)
  BY <1>1 DEF Surjection, ToSet
<1>4. IsFiniteSet(Queue) /\ Cardinality(Queue) <= Len(merge) /\ Cardinality(Queue) \in Nat
  BY <1>2, <1>3, FS_Surjection, FS_CardinalityType
<1>5. IsFiniteSet(Queue \cup {taken}) /\ Cardinality(Queue \cup {taken}) <= Len(merge) + 1
      /\ Cardinality(Queue \cup {taken}) \in Nat
  <2>1. IsFiniteSet(Queue \cup {taken})
        /\ \/ Cardinality(Queue \cup {taken}) = Cardinality(Queue)
           \/ Cardinality(Queue \cup {taken}) = Cardinality(Queue) + 1
    BY <1>4, FS_AddElement
  <2> HIDE DEF Queue
  <2> QED
    BY <1>1, <1>4, <2>1
<1>6. Missing(Len(results)) \subseteq Queue \cup {taken}
  <2> SUFFICES ASSUME NEW d \in Missing(Len(results)) PROVE d \in Queue \cup {taken}
    OBVIOUS
  <2>1. d \in fetched /\ ~Listed(d)
    BY <1>1 DEF Missing, Listed
  <2>2. ~Held(d)
    BY <2>1, ScanAssumption DEF Held, TypeOK
  <2> QED
    BY <2>1, <2>2 DEF MergeInv, Queued, ToSet
<1>7. Cardinality(Missing(Len(results))) <= Cardinality(Queue \cup {taken})
      /\ Cardinality(Missing(Len(results))) \in Nat
  BY <1>5, <1>6, FS_Subset, FS_CardinalityType
<1>8. Len(merge) <= Concurrency
  BY DEF BacklogInv
<1> QED
  BY <1>1, <1>5, <1>7, <1>8

LEMMA BacklogStep ==
  TypeOK /\ TypeOK' /\ MergeInv /\ BacklogInv /\ [Next]_vars => BacklogInv'
<1> SUFFICES ASSUME TypeOK, TypeOK', MergeInv, BacklogInv, [Next]_vars PROVE BacklogInv'
  OBVIOUS
<1> USE DEF MainGoto, Goto, mainVars, workerVars, listVars, readVars
<1>a. Concurrency \in Nat /\ Len(merge) \in Nat /\ Len(results) \in Nat
  BY ScanAssumption, FS_CardinalityType DEF TypeOK, Concurrency
<1>1. ASSUME WhoIs \/ WhoIsFails \/ SendRange \/ CloseScan \/ UNCHANGED vars PROVE BacklogInv'
  <2>1. UNCHANGED <<merge, pc, length, results, fetched>>
    BY <1>1 DEF WhoIs, WhoIsFails, SendRange, CloseScan, vars
  <2>2. \/ main \notin {"read", "saved"} /\ main' \notin {"read", "saved"}
        \/ main' = main
    BY <1>1 DEF WhoIs, WhoIsFails, SendRange, CloseScan, vars
  <2>3. Missing(length)' = Missing(length)
    BY <2>1 DEF Missing
  <2> QED
    BY <2>1, <2>2, <2>3 DEF BacklogInv
<1>2. ASSUME Wait PROVE BacklogInv'
  <2>1. UNCHANGED <<merge, pc, length, results, fetched>> /\ main = "wait" /\ main' = "read"
        /\ \A w \in Workers : pc[w] = "done"
    BY <1>2 DEF Wait
  <2>2. length = Unread
    BY <2>1 DEF BacklogInv
  <2> QED
    BY <2>1, <2>2 DEF BacklogInv
<1>3. ASSUME ReadArray PROVE BacklogInv'
  <2>1. UNCHANGED <<main, merge, pc, length, results, fetched>>
    BY <1>3 DEF ReadArray
  <2>2. Missing(length)' = Missing(length)
    BY <2>1 DEF Missing
  <2> QED
    BY <2>1, <2>2 DEF BacklogInv
<1>4. ASSUME ReadLength PROVE BacklogInv'
  <2>1. UNCHANGED <<main, merge, pc, results, fetched>> /\ main = "read"
        /\ length' = Len(results)
    BY <1>4 DEF ReadLength
  <2>2. Cardinality(Missing(Len(results))) <= Concurrency + 1
    BY <2>1, BacklogBound DEF BacklogInv
  <2>3. Missing(length)' = Missing(Len(results))
    BY <2>1 DEF Missing
  <2> QED
    BY <1>a, <2>1, <2>2, <2>3 DEF BacklogInv
<1>5. ASSUME Save PROVE BacklogInv'
  <2>1. UNCHANGED <<merge, pc, length, results, fetched>> /\ main = "read" /\ main' = "saved"
        /\ length # Unread
    BY <1>5 DEF Save
  <2> QED
    BY <2>1 DEF BacklogInv, Missing
<1>6. ASSUME NEW w \in Workers,
             TakeRange(w) \/ WorkerEnds(w) \/ NextRange(w) \/ ObjectsFails(w) \/ Objects(w)
             \/ HandOver(w)
      PROVE  BacklogInv'
  <2>1. pc[w] # "done" /\ UNCHANGED <<main, length, results>>
    BY <1>6 DEF TakeRange, WorkerEnds, NextRange, ObjectsFails, Objects, HandOver
  <2>2. main \notin {"read", "saved"} /\ length = Unread
    BY <2>1 DEF BacklogInv
  <2>3. \/ merge' = merge
        \/ Len(merge) < Concurrency /\ merge' = Append(merge, held[w]) /\ held[w] \in Devices
    <3>1. CASE HandOver(w)
      <4>1. pc[w] = "merge" /\ merge' = Append(merge, held[w]) /\ Len(merge) < Concurrency
        BY <3>1 DEF HandOver
      <4> QED
        BY <4>1 DEF TypeOK
    <3> QED
      BY <1>6, <3>1 DEF TakeRange, WorkerEnds, NextRange, ObjectsFails, Objects
  <2>4. Len(merge') <= Concurrency
    <3>1. merge \in Seq(Devices) /\ Len(merge) <= Concurrency
      BY DEF TypeOK, BacklogInv
    <3> QED
      BY <1>a, <2>3, <3>1
  <2> QED
    BY <2>1, <2>2, <2>4 DEF BacklogInv
<1>7. ASSUME Take PROVE BacklogInv'
  <2>1. UNCHANGED <<main, length, results, fetched, pc>> /\ merge' = Tail(merge) /\ merge # <<>>
    BY <1>7 DEF Take
  <2>2. Len(merge') <= Concurrency
    <3>1. merge \in Seq(Devices) /\ Len(merge) <= Concurrency
      BY DEF TypeOK, BacklogInv
    <3> QED
      BY <1>a, <2>1, <3>1
  <2> QED
    BY <2>1, <2>2 DEF BacklogInv, Missing
<1>8. ASSUME Merge PROVE BacklogInv'
  <2>1. UNCHANGED <<main, length, fetched, pc, merge>>
        /\ (results' = results \/ (results' = Append(results, taken) /\ taken \in Devices))
    BY <1>8 DEF Merge, TypeOK
  <2>2. results \in Seq(Devices) /\ length \in Nat \cup {Unread}
    BY DEF TypeOK
  <2>3. Len(results) <= Len(results') /\ Len(results') \in Nat
        /\ \A i \in 1..Len(results) : results'[i] = results[i]
    BY <1>a, <2>1, <2>2
  <2>4. CASE length = Unread
    BY <2>1, <2>4 DEF BacklogInv
  <2>5. CASE length # Unread
    <3>1. length \in Nat /\ length <= Len(results)
      BY <2>2, <2>5 DEF BacklogInv
    <3>2. \A i \in 1..length : results'[i] = results[i]
      BY <1>a, <2>3, <3>1
    <3>3. Missing(length)' = Missing(length)
      BY <2>1, <3>2 DEF Missing
    <3>4. length <= Len(results')
      BY <1>a, <2>3, <3>1
    <3> QED
      BY <2>1, <2>5, <3>3, <3>4 DEF BacklogInv
  <2> QED
    BY <2>4, <2>5
<1> QED
  BY <1>1, <1>2, <1>3, <1>4, <1>5, <1>6, <1>7, <1>8 DEF Next, Command, Merger, Work

\* What is saved misses at most a full channel of devices and one more,
\* though nothing waits for the merger (discover, close(merge) and save).
THEOREM Saved == Spec => []SavedButForBacklog
<1>1. TypeOK /\ TypeOK' /\ MergeInv /\ BacklogInv /\ [Next]_vars => BacklogInv'
  BY BacklogStep
<1>2. BacklogInv => SavedButForBacklog
  BY DEF BacklogInv, SavedButForBacklog, Missing
<1> QED
  BY <1>1, <1>2, BacklogInit, MergeInvariant, TypeCorrect, PTL DEF Spec

----------------------------------------------------------------------------
(* ObjectList: an answer that is accepted has the item of every index      *)
(* asked for.                                                              *)

\* A sequence without repetitions of the elements of a finite set has as many
\* elements as the set, and those.
LEMMA Orders ==
  ASSUME NEW S, IsFiniteSet(S), NEW ks \in SetToSeqs(S)
  PROVE  /\ Cardinality(S) \in Nat
         /\ Len(ks) = Cardinality(S) /\ ks \in [1..Len(ks) -> S]
         /\ {ks[j] : j \in 1..Len(ks)} = S
<1>1. Cardinality(S) \in Nat
  BY FS_CardinalityType
<1>2. /\ ks \in [1..Cardinality(S) -> S]
      /\ \A i, j \in 1..Cardinality(S) : i # j => ks[i] # ks[j]
  BY DEF SetToSeqs
<1>3. ks \in Seq(S) /\ Len(ks) = Cardinality(S)
  BY <1>1, <1>2
<1> DEFINE R == {ks[j] : j \in 1..Len(ks)}
<1>4. ks \in Bijection(1..Cardinality(S), R)
  BY <1>2, <1>3 DEF Bijection, Injection, Surjection, IsInjective
<1>5. Cardinality(R) = Cardinality(S) /\ IsFiniteSet(R)
  <2>1. IsFiniteSet(1..Cardinality(S)) /\ Cardinality(1..Cardinality(S)) = Cardinality(S)
    BY <1>1, FS_Interval
  <2>2. ExistsBijection(1..Cardinality(S), R)
    BY <1>4 DEF ExistsBijection
  <2> QED
    BY <2>1, <2>2, FS_Bijection
<1>6. R \subseteq S
  BY <1>2, <1>3
<1>7. R = S
  BY <1>5, <1>6, FS_Subset
<1> QED
  BY <1>1, <1>2, <1>3, <1>7

\* What is accepted has the items asked for, and none is missing.
LEMMA AcceptedItems ==
  ASSUME NEW indices, indices \subseteq Nat \ {0}, IsFiniteSet(indices), indices # {},
         NEW reply \in Replies(indices), Accepts(indices, reply)
  PROVE  /\ {reply[j].object : j \in 1..Len(reply)} = {Item(k) : k \in indices}
         /\ \A k \in indices : Item(k) # NoObject
<1> DEFINE orders == UNION {SetToSeqs(some) : some \in SUBSET indices}
<1>1. PICK ks \in orders, labelled \in BOOLEAN : reply = Answer(ks, labelled)
  BY DEF Replies
<1>2. PICK some \in SUBSET indices : ks \in SetToSeqs(some)
  OBVIOUS
<1>3. IsFiniteSet(some) /\ Cardinality(indices) \in Nat
  BY FS_Subset, FS_CardinalityType
<1>4. /\ Len(ks) = Cardinality(some) /\ Cardinality(some) \in Nat
      /\ ks \in [1..Len(ks) -> some] /\ {ks[j] : j \in 1..Len(ks)} = some
  BY <1>2, <1>3, Orders
<1>5. /\ Len(reply) = Len(ks)
      /\ \A j \in 1..Len(ks) : /\ reply[j].object = Item(ks[j])
                               /\ reply[j].index = IF labelled THEN ks[j] ELSE 0
  BY <1>1, <1>4 DEF Answer
<1>6. some = indices
  <2> DEFINE indexed == {j \in 1..Len(reply) : reply[j].index \in indices}
  <2>1. CASE indexed # {}
    <3>1. {reply[j].index : j \in indexed} = indices
      BY <2>1 DEF Accepts
    <3>2. ASSUME NEW k \in indices PROVE k \in some
      <4>1. PICK j \in indexed : reply[j].index = k
        BY <3>1, <3>2
      <4>2. j \in 1..Len(ks) /\ k # 0
        BY <1>5, <3>2
      <4>3. k = ks[j]
        BY <1>5, <4>1, <4>2
      <4> QED
        BY <1>4, <4>2, <4>3
    <3> QED
      BY <3>2
  <2>2. CASE indexed = {}
    <3>1. Cardinality(some) = Cardinality(indices)
      BY <1>4, <1>5, <2>2 DEF Accepts
    <3> QED
      BY <3>1, FS_Subset
  <2> QED
    BY <2>1, <2>2
<1>7. \A k \in indices : \E j \in 1..Len(reply) : reply[j].object = Item(k)
  BY <1>4, <1>5, <1>6
<1>8. \A j \in 1..Len(reply) : \E k \in indices : reply[j].object = Item(k)
  BY <1>4, <1>5, <1>6
<1>9. \A j \in 1..Len(reply) : reply[j].object # NoObject
  BY DEF Accepts
<1> QED
  BY <1>7, <1>8, <1>9

----------------------------------------------------------------------------
(* The list.                                                               *)

\* The ranges read so far start at 1 and end before next; as long as nothing
\* has shifted, the device's items are those listed.
ListInv ==
  /\ maxApdu \in Nat
  /\ step = "length" => list \in Seq(DeviceObjects) /\ next = 1 /\ objs = {}
  /\ step \notin {"length", "failed"} => listed \in Seq(DeviceObjects) /\ listLen = Len(listed)
  /\ step = "range" => next \in Nat \ {0}
  /\ step = "range" /\ ~shifted => \A k \in 1..listLen : Item(k) = listed[k]
  /\ step = "range" /\ ~shifted => objs = {listed[k] : k \in 1..Least(next - 1, listLen)}
  /\ step \in {"names", "ok"} /\ ~shifted => objs = Range(listed)

LEMMA ListInit == ObjectsInit => ListInv
<1> SUFFICES ASSUME ObjectsInit PROVE ListInv
  OBVIOUS
<1>1. list \in Seq(DeviceObjects)
  BY ObjectListAssumption DEF ObjectsInit
<1>2. maxApdu \in Nat
  BY ObjectListAssumption DEF ObjectsInit
<1> QED
  BY <1>1, <1>2 DEF ObjectsInit, ListInv

LEMMA RangeSizeType == ASSUME ListInv PROVE RangeSize \in Nat \ {0}
  BY ObjectListAssumption DEF ListInv, RangeSize

LEMMA ListStep == ListInv /\ [ObjectsNext]_objectsVars => ListInv'
<1> SUFFICES ASSUME ListInv, [ObjectsNext]_objectsVars PROVE ListInv'
  OBVIOUS
<1> USE DEF deviceVars
<1>1. CASE ObjectListLen
  <2>1. /\ step = "length" /\ step' = "range" /\ listLen' = Len(list) /\ listed' = list
        /\ UNCHANGED <<maxApdu, list, next, objs, shifted>>
    BY <1>1 DEF ObjectListLen
  <2>2. list \in Seq(DeviceObjects) /\ next = 1 /\ objs = {} /\ Len(list) \in Nat
    BY <2>1 DEF ListInv
  <2>3. Least(next' - 1, listLen') = 0 \/ listLen' < 0
    BY <2>1, <2>2 DEF Least
  <2>4. \A k \in 1..listLen' : Item(k)' = listed'[k]
    BY <2>1, <2>2 DEF Item
  <2>5. objs' = {listed'[k] : k \in 1..Least(next' - 1, listLen')}
    BY <2>1, <2>2, <2>3
  <2>6. listed' \in Seq(DeviceObjects) /\ listLen' = Len(listed') /\ next' \in Nat \ {0}
    BY <2>1, <2>2
  <2>7. step' = "range" /\ maxApdu' \in Nat
    BY <2>1 DEF ListInv
  <2> QED
    BY <2>4, <2>5, <2>6, <2>7 DEF ListInv
<1>2. CASE ReadRange
  <2>1. /\ step = "range" /\ next <= listLen /\ next' = next + RangeSize
        /\ UNCHANGED <<maxApdu, list, step, listLen, listed, shifted>>
    BY <1>2 DEF ReadRange
  <2>2. PICK reply \in Replies(Indices) :
          /\ Accepts(Indices, reply)
          /\ objs' = objs \cup {reply[j].object : j \in 1..Len(reply)}
    BY <1>2 DEF ReadRange
  <2>3. next \in Nat \ {0} /\ listLen \in Nat /\ listed \in Seq(DeviceObjects) /\ RangeSize \in Nat \ {0}
    BY <2>1, RangeSizeType DEF ListInv
  <2>4. Indices \subseteq Nat \ {0} /\ IsFiniteSet(Indices) /\ Indices # {}
    <3> DEFINE last == Least(next + RangeSize - 1, listLen)
    <3>1. last \in Nat /\ last >= next
      BY <2>1, <2>3 DEF Least
    <3>2. IsFiniteSet(next..last)
      BY <2>3, <3>1, FS_Interval
    <3> HIDE DEF last
    <3>3. next \in next..last /\ next..last \subseteq Nat \ {0}
      BY <2>3, <3>1
    <3>4. Indices = next..last
      BY DEF Indices, last
    <3> QED
      BY <3>2, <3>3, <3>4
  <2>5. objs' = objs \cup {Item(k) : k \in Indices}
    BY <2>2, <2>4, AcceptedItems
  <2>6. ASSUME ~shifted PROVE objs' = {listed[k] : k \in 1..Least(next' - 1, listLen)}
    <3>1. /\ objs = {listed[k] : k \in 1..Least(next - 1, listLen)}
          /\ \A k \in 1..listLen : Item(k) = listed[k]
      BY <2>1, <2>6 DEF ListInv
    <3>2. Indices \subseteq 1..listLen
          /\ 1..Least(next' - 1, listLen) = (1..Least(next - 1, listLen)) \cup Indices
      BY <2>1, <2>3 DEF Indices, Least
    <3>3. {Item(k) : k \in Indices} = {listed[k] : k \in Indices}
      BY <3>1, <3>2
    <3> QED
      BY <2>5, <3>1, <3>2, <3>3
  <2>7. Item(0)' = Item(0) /\ \A k \in 1..listLen : Item(k)' = Item(k)
    BY <2>1 DEF Item
  <2> QED
    BY <2>1, <2>3, <2>6, <2>7 DEF ListInv
<1>3. CASE ReadFails
  BY <1>3 DEF ReadFails, ListInv
<1>4. CASE ListRead
  <2>1. /\ step = "range" /\ next > listLen /\ step' = "names"
        /\ UNCHANGED <<maxApdu, list, listLen, objs, listed, shifted>>
    BY <1>4 DEF ListRead
  <2>2. listed \in Seq(DeviceObjects) /\ listLen = Len(listed) /\ next \in Nat
    BY <2>1 DEF ListInv
  <2>3. ~shifted => objs = Range(listed)
    BY <2>1, <2>2 DEF ListInv, Least, Range
  <2> QED
    BY <2>1, <2>2, <2>3 DEF ListInv
<1>5. CASE ReadNames
  BY <1>5 DEF ReadNames, ListInv
<1>6. CASE NamesRead
  BY <1>6 DEF NamesRead, ListInv
<1>7. CASE Change
  <2>1. /\ step \in {"range", "names"}
        /\ shifted' = (shifted \/ (step = "range" /\ \E k \in 1..listLen : Item(k)' # listed[k]))
        /\ UNCHANGED <<maxApdu, step, listLen, next, objs, listed>>
    BY <1>7 DEF Change
  <2>2. ~shifted' => ~shifted
    BY <2>1
  <2>3. step = "range" /\ ~shifted' => \A k \in 1..listLen : Item(k)' = listed[k]
    BY <2>1
  <2> QED
    BY <2>1, <2>2, <2>3 DEF ListInv
<1>8. CASE Finished \/ UNCHANGED objectsVars
  BY <1>8 DEF Finished, objectsVars, ListInv, Item
<1> QED
  BY <1>1, <1>2, <1>3, <1>4, <1>5, <1>6, <1>7, <1>8 DEF ObjectsNext, Call

\* The list is complete when nothing that was being read has shifted, for
\* answers split, ordered and labelled in any way that is accepted.
THEOREM Complete == ObjectsSpec => []ListComplete
<1>1. ListInv => ListComplete
  BY DEF ListInv, ListComplete
<1> QED
  BY <1>1, ListInit, ListStep, PTL DEF ObjectsSpec
=============================================================================
