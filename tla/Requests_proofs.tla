--------------------------- MODULE Requests_proofs ---------------------------
(***************************************************************************)
(* Theorems about the confirmed requests, for any calls, devices and       *)
(* number of ids, over a network that loses, delays, duplicates and        *)
(* reorders.                                                               *)
(***************************************************************************)
EXTENDS Requests, FiniteSetTheorems, SequenceTheorems, TLAPS

----------------------------------------------------------------------------
(* Types                                                                   *)

LEMMA TypeInit == Init => TypeOK
<1> SUFFICES ASSUME Init PROVE TypeOK
  OBVIOUS
<1> USE RequestsAssumption
<1>1. asked \in [Calls -> [src : Devices, svc : Kinds]] /\ owner = [i \in Ids |-> NoCall]
      /\ inbox = [c \in Calls |-> <<>>]
  BY DEF Init, M!Init, M!Requests, M!Ids, Ids
<1>2. freeId \in Seq(Ids)
  BY DEF Init, Ids
<1>3. inbox \in [Calls -> Mail] /\ answer \in [Calls -> Mail]
  BY <1>1 DEF Init, Mail
<1>8. wanted \in [Calls -> Lists \cup {<<>>}]
  BY DEF Init
<1>4. id \in [Calls -> 0..NumIds] /\ attempt \in [Calls -> Nat] /\ runs \in [Calls -> Nat]
      /\ late \in [Calls -> Nat]
  BY DEF Init
<1>7. \A c \in Calls : id[c] = 0 /\ pc[c] = "start"
  BY DEF Init
<1>5. pc \in [Calls -> Phases] /\ result \in [Calls -> Results]
  BY DEF Init, Phases, Results
<1>6. requests = {} /\ replies = {}
  BY DEF Init
<1> QED
  BY <1>1, <1>2, <1>3, <1>4, <1>5, <1>6, <1>7, <1>8 DEF TypeOK

LEMMA TypeStep == TypeOK /\ [Next]_vars => TypeOK'
<1> SUFFICES ASSUME TypeOK, [Next]_vars PROVE TypeOK'
  OBVIOUS
<1> USE RequestsAssumption DEF TypeOK, callVars, managerVars, netVars
<1>1. ASSUME NEW c \in Calls, TakeId(c) PROVE TypeOK'
  <2>1. Head(freeId) \in Ids /\ Tail(freeId) \in Seq(Ids)
    BY <1>1 DEF TakeId
  <2>2. owner' \in [Ids -> Calls \cup {NoCall}] /\ UNCHANGED <<asked, inbox>>
    BY <1>1, <2>1 DEF TakeId, M!Reserve
  <2>3. freeId' \in Seq(Ids) /\ id' \in [Calls -> 0..NumIds] /\ pc' \in [Calls -> Phases]
    BY <1>1, <2>1 DEF TakeId, Phases, Ids
  <2>4. late' \in [Calls -> Nat]
    BY <1>1 DEF TakeId
  <2>5. UNCHANGED <<wanted, attempt, result, answer, requests, replies, runs>>
    BY <1>1 DEF TakeId
  <2>6. \A d \in Calls : id'[d] = 0 <=> pc'[d] \in {"start", "done"}
    BY <1>1, <2>1 DEF TakeId, Ids
  <2> QED
    BY <2>2, <2>3, <2>4, <2>5, <2>6
<1>2. ASSUME NEW c \in Calls, NoId(c) \/ Encode(c) \/ Refuse(c) PROVE TypeOK'
  BY <1>2 DEF NoId, Encode, Refuse, Return, Phases, Results
<1>3. ASSUME NEW c \in Calls, Send(c) PROVE TypeOK'
  <2>1. requests' \subseteq [by : Calls, id : Ids]
    <3>1. pc[c] = "send" /\ requests' = requests \cup {[by |-> c, id |-> id[c]]}
      BY <1>3 DEF Send
    <3>2. id[c] \in 0..NumIds /\ id[c] # 0
      BY <3>1
    <3>3. id[c] \in Ids
      BY <3>2 DEF Ids
    <3> QED
      BY <3>1, <3>3
  <2>2. attempt' \in [Calls -> Nat] /\ pc' \in [Calls -> Phases]
    BY <1>3 DEF Send, Phases
  <2>3. UNCHANGED <<wanted, id, result, answer, asked, owner, inbox, freeId, replies, runs, late>>
    BY <1>3 DEF Send
  <2>4. \A d \in Calls : id'[d] = 0 <=> pc'[d] \in {"start", "done"}
    BY <1>3 DEF Send
  <2> QED
    BY <2>1, <2>2, <2>3, <2>4
\* The end of an attempt: another one, or the call returns.
<1>4. ASSUME NEW c \in Calls, pc[c] \in {"send", "wait", "decode"},
             \/ pc' = [pc EXCEPT ![c] = "send"] /\ UNCHANGED result
             \/ pc' = [pc EXCEPT ![c] = "put"]
                /\ \E x \in {"ok", "error"} : result' = [result EXCEPT ![c] = x],
             UNCHANGED id
      PROVE  /\ pc' \in [Calls -> Phases] /\ result' \in [Calls -> Results]
             /\ \A d \in Calls : id'[d] = 0 <=> pc'[d] \in {"start", "done"}
  <2>1. /\ pc' \in [Calls -> Phases] /\ result' \in [Calls -> Results]
        /\ pc'[c] \in {"send", "put"} /\ \A d \in Calls : d # c => pc'[d] = pc[d]
    <3>0. pc \in [Calls -> Phases] /\ result \in [Calls -> Results]
      OBVIOUS
    <3> HIDE DEF TypeOK
    <3>1. CASE pc' = [pc EXCEPT ![c] = "send"] /\ UNCHANGED result
      BY <3>0, <3>1 DEF Phases
    <3>2. CASE pc' = [pc EXCEPT ![c] = "put"]
               /\ \E x \in {"ok", "error"} : result' = [result EXCEPT ![c] = x]
      BY <3>0, <3>2 DEF Phases, Results
    <3> QED
      BY <1>4, <3>1, <3>2
  <2>2. \A d \in Calls : pc'[d] \in {"start", "done"} <=> pc[d] \in {"start", "done"}
    BY <1>4, <2>1
  <2> QED
    BY <1>4, <2>1, <2>2
<1>5. ASSUME NEW c \in Calls, SendFails(c) PROVE TypeOK'
  <2>1. attempt' \in [Calls -> Nat]
        /\ UNCHANGED <<wanted, id, answer, asked, owner, inbox, freeId, requests, replies, runs, late>>
    BY <1>5 DEF SendFails
  <2>2. pc[c] = "send"
        /\ \/ pc' = [pc EXCEPT ![c] = "send"] /\ UNCHANGED result
           \/ pc' = [pc EXCEPT ![c] = "put"] /\ result' = [result EXCEPT ![c] = "error"]
    BY <1>5 DEF SendFails, TryAgain
  <2> QED
    BY <1>4, <2>1, <2>2
<1>6. ASSUME NEW c \in Calls, Receive(c) PROVE TypeOK'
  <2>1. pc[c] = "wait" /\ pc' = [pc EXCEPT ![c] = "decode"]
        /\ answer' = [answer EXCEPT ![c] = inbox[c]] /\ inbox' = [inbox EXCEPT ![c] = <<>>]
    BY <1>6 DEF Receive, M!Read
  <2>2. answer' \in [Calls -> Mail] /\ inbox' \in [Calls -> Mail]
    BY <2>1 DEF Mail
  <2>3. UNCHANGED <<wanted, id, attempt, result, asked, owner, freeId, requests, replies, runs, late>>
    BY <1>6 DEF Receive, M!Read
  <2>4. pc' \in [Calls -> Phases] /\ \A d \in Calls : id'[d] = 0 <=> pc'[d] \in {"start", "done"}
    BY <2>1, <2>3 DEF Phases
  <2> QED
    BY <2>2, <2>3, <2>4
<1>12. ASSUME NEW c \in Calls, Decode(c) PROVE TypeOK'
  <2>1. UNCHANGED <<wanted, id, attempt, answer, asked, owner, inbox, freeId, requests, replies, runs,
                    late>>
    BY <1>12 DEF Decode
  <2>2. pc[c] = "decode"
        /\ \/ pc' = [pc EXCEPT ![c] = "send"] /\ UNCHANGED result
           \/ pc' = [pc EXCEPT ![c] = "put"]
              /\ \E x \in {"ok", "error"} : result' = [result EXCEPT ![c] = x]
    BY <1>12 DEF Decode, TryAgain, Return
  <2> QED
    BY <1>4, <2>1, <2>2
<1>7. ASSUME NEW c \in Calls, Timeout(c) PROVE TypeOK'
  <2>1. UNCHANGED <<wanted, id, attempt, answer, asked, owner, inbox, freeId, requests, replies, runs,
                    late>>
    BY <1>7 DEF Timeout, M!Expire
  <2>2. pc[c] = "wait"
        /\ \/ pc' = [pc EXCEPT ![c] = "send"] /\ UNCHANGED result
           \/ pc' = [pc EXCEPT ![c] = "put"] /\ result' = [result EXCEPT ![c] = "error"]
    BY <1>7 DEF Timeout, TryAgain
  <2> QED
    BY <1>4, <2>1, <2>2
<1>8. ASSUME NEW c \in Calls, Put(c) PROVE TypeOK'
  <2>1. pc[c] = "put" /\ id' = [id EXCEPT ![c] = 0] /\ pc' = [pc EXCEPT ![c] = "done"]
        /\ freeId' = Append(freeId, id[c])
    BY <1>8 DEF Put
  <2>0. id[c] \in 0..NumIds /\ id[c] # 0
    BY <2>1
  <2>2. id[c] \in Ids
    BY <2>0 DEF Ids
  <2>3. owner' \in [Ids -> Calls \cup {NoCall}] /\ inbox' \in [Calls -> Mail]
    BY <1>8 DEF Put, M!Release, Mail
  <2>4. UNCHANGED <<wanted, attempt, result, answer, asked, requests, replies, runs, late>>
    BY <1>8 DEF Put, M!Release
  <2>5. freeId' \in Seq(Ids)
    BY <2>1, <2>2
  <2>6. pc' \in [Calls -> Phases] /\ id' \in [Calls -> 0..NumIds]
        /\ \A d \in Calls : id'[d] = 0 <=> pc'[d] \in {"start", "done"}
    BY <2>1 DEF Phases
  <2> QED
    BY <2>3, <2>4, <2>5, <2>6
<1>9. ASSUME NEW m \in requests, NEW what \in Answers(kind[m.by]), Answer(m, what) PROVE TypeOK'
  <2>1. m.by \in Calls /\ m.id \in Ids /\ what \in Whats
    BY DEF Answers, Whats
  <2>2. PICK lists \in Listings(kind[m.by], what) :
          replies' = replies \cup {[by |-> m.by, id |-> m.id, what |-> what, lists |-> lists]}
    BY <1>9 DEF Answer
  <2>3. lists \in Lists \cup {<<>>}
    BY DEF Listings
  <2>4. replies' \subseteq [by : Calls, id : Ids, what : Whats, lists : Lists \cup {<<>>}]
    BY <2>1, <2>2, <2>3
  <2>5. runs' \in [Calls -> Nat]
    BY <1>9, <2>1 DEF Answer
  <2> QED
    BY <1>9, <2>4, <2>5 DEF Answer
<1>10. ASSUME NEW p \in replies, Deliver(p) PROVE TypeOK'
  <2> DEFINE g == [src |-> asked[p.by].src, by |-> p.by, what |-> p.what, lists |-> p.lists,
                   svc |-> IF p.what = "abort" THEN NoService ELSE kind[p.by]]
  <2>1. p.by \in Calls /\ p.id \in Ids /\ p.what \in Whats /\ p.lists \in Lists \cup {<<>>}
        /\ kind[p.by] \in Kinds
    BY DEF kind
  <2>2. g \in Got
    BY <2>1 DEF Got
  <2>3. inbox' = [inbox EXCEPT ![owner[p.id]] = <<g>>]
    BY <1>10 DEF Deliver, M!Deliver
  <2>4. inbox' \in [Calls -> Mail]
    BY <2>2, <2>3 DEF Mail
  <2> QED
    BY <1>10, <2>4 DEF Deliver, M!Deliver
<1>11. ASSUME UNCHANGED vars PROVE TypeOK'
  BY <1>11 DEF vars
<1> QED
  BY <1>1, <1>2, <1>3, <1>5, <1>6, <1>7, <1>8, <1>9, <1>10, <1>11, <1>12
  DEF Next, Step, Network, Finished

\* The variables of calls, manager and network keep their types, and a call
\* has an id just while it is under way.
THEOREM TypeCorrect == Spec => []TypeOK
<1> QED
  BY TypeInit, TypeStep, PTL DEF Spec

----------------------------------------------------------------------------
(* Invoke ids                                                              *)

Away == {c \in Calls : pc[c] \notin {"start", "done"}}
Queued(i) == \E k \in 1..Len(freeId) : freeId[k] = i

\* Ids and calls under way belong to each other, and the queue has every other
\* id once.
IdInv ==
  /\ \A c \in Calls : id[c] # 0 => owner[id[c]] = c
  /\ \A i \in Ids : owner[i] # NoCall => id[owner[i]] = i
  /\ \A k, l \in 1..Len(freeId) : freeId[k] = freeId[l] => k = l
  /\ \A i \in Ids : Queued(i) <=> owner[i] = NoCall
  /\ IsFiniteSet(Away) /\ Len(freeId) + Cardinality(Away) = NumIds

LEMMA IdInit == Init => IdInv
<1> SUFFICES ASSUME Init PROVE IdInv
  OBVIOUS
<1>1. Away = {} /\ IsFiniteSet(Away) /\ Cardinality(Away) = 0
  BY FS_EmptySet DEF Init, Away
<1>2. Len(freeId) = NumIds /\ \A k \in 1..NumIds : freeId[k] = k
  BY RequestsAssumption DEF Init
<1>3. \A i \in Ids : owner[i] = NoCall
  BY DEF Init, M!Init, M!Ids, Ids
<1> QED
  BY <1>1, <1>2, <1>3, RequestsAssumption DEF Init, IdInv, Queued, Ids

\* The steps that leave id, owner and queue alone keep a call under way.
LEMMA IdStays ==
  ASSUME TypeOK, IdInv, UNCHANGED <<id, owner, freeId>>,
         \A c \in Calls : pc'[c] \in {"start", "done"} <=> pc[c] \in {"start", "done"}
  PROVE  IdInv'
<1>1. Away' = Away
  BY DEF Away
<1> QED
  BY <1>1 DEF IdInv, Queued

LEMMA IdStep == TypeOK /\ IdInv /\ [Next]_vars => IdInv'
<1> SUFFICES ASSUME TypeOK, IdInv, [Next]_vars PROVE IdInv'
  OBVIOUS
<1> USE RequestsAssumption DEF callVars, managerVars, netVars
<1>0. freeId \in Seq(Ids) /\ Len(freeId) \in Nat /\ DOMAIN freeId = 1..Len(freeId)
      /\ owner \in [Ids -> Calls \cup {NoCall}] /\ Cardinality(Away) \in Nat
  BY FS_CardinalityType DEF TypeOK, IdInv
<1>1. ASSUME NEW c \in Calls, TakeId(c) PROVE IdInv'
  <2> DEFINE i == Head(freeId)
  <2>1. /\ pc[c] = "start" /\ freeId # <<>> /\ freeId' = Tail(freeId)
        /\ id' = [id EXCEPT ![c] = i] /\ pc' = [pc EXCEPT ![c] = "ready"]
        /\ owner[i] = NoCall /\ owner' = [owner EXCEPT ![i] = c]
        /\ \A j \in Ids : owner[j] # c
    BY <1>1 DEF TakeId, M!Reserve, M!Ids, Ids
  <2>2. /\ i = freeId[1] /\ i \in Ids /\ Len(freeId) >= 1 /\ Len(freeId') = Len(freeId) - 1
        /\ \A k \in 1..Len(freeId') : freeId'[k] = freeId[k + 1] /\ k + 1 \in 1..Len(freeId)
    BY <1>0, <2>1
  <2>3. id[c] = 0 /\ id \in [Calls -> 0..NumIds] /\ pc \in [Calls -> Phases] /\ i # 0
    BY <2>1, <2>2 DEF TypeOK, Ids
  <2>4. \A d \in Calls : id'[d] # 0 => owner'[id'[d]] = d
    <3> SUFFICES ASSUME NEW d \in Calls, id'[d] # 0 PROVE owner'[id'[d]] = d
      OBVIOUS
    <3>1. CASE d = c
      BY <1>0, <2>1, <2>2, <2>3, <3>1
    <3>2. CASE d # c
      <4>1. id'[d] = id[d] /\ owner[id[d]] = d /\ id[d] \in Ids
        BY <2>1, <2>3, <3>2 DEF IdInv, Ids
      <4>2. id[d] # i
        BY <2>1, <4>1
      <4> QED
        BY <1>0, <2>1, <2>2, <4>1, <4>2
    <3> QED
      BY <3>1, <3>2
  <2>5. \A j \in Ids : owner'[j] # NoCall => id'[owner'[j]] = j
    BY <1>0, <2>1, <2>2, <2>3 DEF IdInv
  <2>6. \A k, l \in 1..Len(freeId') : freeId'[k] = freeId'[l] => k = l
    BY <1>0, <2>2 DEF IdInv
  <2>7. ASSUME NEW j \in Ids PROVE Queued(j)' <=> owner'[j] = NoCall
    <3>1. CASE j = i
      <4>1. owner'[j] = c
        BY <1>0, <2>1, <2>2, <3>1
      <4>2. ~Queued(j)'
        <5> SUFFICES ASSUME NEW k \in 1..Len(freeId'), freeId'[k] = i PROVE FALSE
          BY <3>1 DEF Queued
        <5>1. freeId[k + 1] = freeId[1] /\ k + 1 \in 1..Len(freeId) /\ 1 \in 1..Len(freeId)
          BY <1>0, <2>2
        <5>2. k + 1 = 1
          BY <5>1 DEF IdInv
        <5> QED
          BY <1>0, <2>2, <5>2
      <4> QED
        BY <4>1, <4>2
    <3>2. CASE j # i
      <4>1. owner'[j] = owner[j]
        BY <1>0, <2>1, <2>2, <3>2
      <4>2. ASSUME Queued(j) PROVE Queued(j)'
        <5>1. PICK k \in 1..Len(freeId) : freeId[k] = j
          BY <4>2 DEF Queued
        <5>2. k # 1
          BY <2>2, <3>2, <5>1
        <5>3. k - 1 \in 1..Len(freeId') /\ freeId'[k - 1] = j
          BY <1>0, <2>2, <5>1, <5>2
        <5> QED
          BY <5>3 DEF Queued
      <4>3. ASSUME Queued(j)' PROVE Queued(j)
        BY <2>2, <4>3 DEF Queued
      <4> QED
        BY <4>1, <4>2, <4>3 DEF IdInv
    <3> QED
      BY <3>1, <3>2
  <2>8. Away' = Away \cup {c} /\ c \notin Away
    BY <2>1, <2>3 DEF Away
  <2>9. IsFiniteSet(Away') /\ Cardinality(Away') = Cardinality(Away) + 1
    BY <2>8, FS_AddElement DEF IdInv
  <2>10. Len(freeId') + Cardinality(Away') = NumIds
    BY <1>0, <2>2, <2>9 DEF IdInv
  <2> QED
    BY <2>4, <2>5, <2>6, <2>7, <2>9, <2>10 DEF IdInv
<1>2. ASSUME NEW c \in Calls, NoId(c) \/ Encode(c) \/ Refuse(c) \/ Send(c) \/ SendFails(c)
      PROVE  IdInv'
  <2>1. UNCHANGED <<id, owner, freeId>>
    BY <1>2 DEF NoId, Encode, Refuse, Send, SendFails
  <2>2. \A d \in Calls : pc'[d] \in {"start", "done"} <=> pc[d] \in {"start", "done"}
    BY <1>2 DEF NoId, Encode, Refuse, Return, Send, SendFails, TryAgain, TypeOK
  <2> QED
    BY <2>1, <2>2, IdStays
<1>3. ASSUME NEW c \in Calls, Receive(c) \/ Decode(c) \/ Timeout(c) PROVE IdInv'
  <2>1. UNCHANGED <<id, owner, freeId>>
    BY <1>3 DEF Receive, Decode, Timeout, M!Read, M!Expire
  <2>2. pc[c] \in {"wait", "decode"} /\ \E x \in {"send", "decode", "put"} : pc' = [pc EXCEPT ![c] = x]
    BY <1>3 DEF Receive, Decode, Timeout, TryAgain, Return
  <2>3. \A d \in Calls : pc'[d] \in {"start", "done"} <=> pc[d] \in {"start", "done"}
    BY <2>2 DEF TypeOK
  <2> QED
    BY <2>1, <2>3, IdStays
<1>4. ASSUME NEW c \in Calls, Put(c) PROVE IdInv'
  <2> DEFINE i == id[c]
  <2>1. /\ pc[c] = "put" /\ id' = [id EXCEPT ![c] = 0] /\ pc' = [pc EXCEPT ![c] = "done"]
        /\ freeId' = Append(freeId, i)
        /\ owner[i] = c /\ owner' = [owner EXCEPT ![i] = NoCall]
    BY <1>4 DEF Put, M!Release
  <2>2. id \in [Calls -> 0..NumIds] /\ pc \in [Calls -> Phases] /\ i # 0
    BY <2>1 DEF TypeOK
  <2>3. i \in Ids
    BY <2>2 DEF Ids
  <2>4. /\ Len(freeId') = Len(freeId) + 1 /\ freeId'[Len(freeId) + 1] = i
        /\ \A k \in 1..Len(freeId) : freeId'[k] = freeId[k]
    BY <1>0, <2>1, <2>3, AppendProperties
  <2>5. ~Queued(i)
    BY <2>1, <2>3 DEF IdInv
  <2>6. \A d \in Calls : id'[d] # 0 => owner'[id'[d]] = d
    <3> SUFFICES ASSUME NEW d \in Calls, id'[d] # 0 PROVE owner'[id'[d]] = d
      OBVIOUS
    <3>1. d # c /\ id'[d] = id[d] /\ id[d] \in Ids
      BY <2>1, <2>2 DEF Ids
    <3>2. owner[id[d]] = d /\ id[d] # i
      BY <2>1, <3>1 DEF IdInv
    <3> QED
      BY <1>0, <2>1, <2>3, <3>1, <3>2
  <2>7. \A j \in Ids : owner'[j] # NoCall => id'[owner'[j]] = j
    <3> SUFFICES ASSUME NEW j \in Ids, owner'[j] # NoCall PROVE id'[owner'[j]] = j
      OBVIOUS
    <3>1. j # i /\ owner'[j] = owner[j]
      BY <1>0, <2>1, <2>3
    <3>2. id[owner[j]] = j /\ owner[j] \in Calls
      BY <1>0, <3>1 DEF IdInv
    <3>3. owner[j] # c
      BY <3>1, <3>2
    <3> QED
      BY <2>1, <2>2, <3>1, <3>2, <3>3
  <2>8. \A k, l \in 1..Len(freeId') : freeId'[k] = freeId'[l] => k = l
    <3> SUFFICES ASSUME NEW k \in 1..Len(freeId'), NEW l \in 1..Len(freeId'),
                        freeId'[k] = freeId'[l]
                 PROVE  k = l
      OBVIOUS
    <3>1. \A n \in 1..Len(freeId) : freeId'[n] # i
      BY <2>4, <2>5 DEF Queued
    <3>2. CASE k \in 1..Len(freeId) /\ l \in 1..Len(freeId)
      BY <2>4, <3>2 DEF IdInv
    <3>3. CASE k = Len(freeId) + 1 \/ l = Len(freeId) + 1
      BY <1>0, <2>4, <3>1, <3>3
    <3> QED
      BY <1>0, <2>4, <3>2, <3>3
  <2>9. ASSUME NEW j \in Ids PROVE Queued(j)' <=> owner'[j] = NoCall
    <3>1. CASE j = i
      <4>1. Queued(j)'
        BY <1>0, <2>4, <3>1 DEF Queued
      <4> QED
        BY <1>0, <2>1, <2>3, <3>1, <4>1
    <3>2. CASE j # i
      <4>1. owner'[j] = owner[j]
        BY <1>0, <2>1, <2>3, <3>2
      <4>2. Queued(j) => Queued(j)'
        BY <1>0, <2>4 DEF Queued
      <4>3. ASSUME Queued(j)' PROVE Queued(j)
        <5>1. PICK k \in 1..Len(freeId') : freeId'[k] = j
          BY <4>3 DEF Queued
        <5>2. k \in 1..Len(freeId)
          BY <1>0, <2>4, <3>2, <5>1
        <5> QED
          BY <2>4, <5>1, <5>2 DEF Queued
      <4> QED
        BY <4>1, <4>2, <4>3 DEF IdInv
    <3> QED
      BY <3>1, <3>2
  <2>10. Away' = Away \ {c} /\ c \in Away
    BY <2>1, <2>2 DEF Away
  <2>11. IsFiniteSet(Away') /\ Cardinality(Away') = Cardinality(Away) - 1
    BY <2>10, FS_RemoveElement DEF IdInv
  <2>12. Len(freeId') + Cardinality(Away') = NumIds
    BY <1>0, <2>4, <2>11 DEF IdInv
  <2> QED
    BY <2>6, <2>7, <2>8, <2>9, <2>11, <2>12 DEF IdInv
<1>5. ASSUME UNCHANGED <<pc, id, owner, freeId>> PROVE IdInv'
  BY <1>5, IdStays
<1>6. ASSUME NEW m \in requests, NEW what \in Answers(kind[m.by]), Answer(m, what)
      PROVE  IdInv'
  BY <1>5, <1>6 DEF Answer
<1>7. ASSUME NEW p \in replies, Deliver(p) PROVE IdInv'
  BY <1>5, <1>7 DEF Deliver, M!Deliver
<1>8. ASSUME UNCHANGED vars PROVE IdInv'
  BY <1>5, <1>8 DEF vars
<1> QED
  BY <1>1, <1>2, <1>3, <1>4, <1>6, <1>7, <1>8 DEF Next, Step, Network, Finished

LEMMA IdInvariant == Spec => []IdInv
<1> QED
  BY IdInit, IdStep, TypeCorrect, PTL DEF Spec

\* Each id is free, in one place of the queue, or with a request under way,
\* whichever way the requests before came to their end.
THEOREM IdsReturn == Spec => []IdsReturned
<1>1. IdInv => IdsReturned
  BY DEF IdInv, IdsReturned, Away, Queued
<1> QED
  BY <1>1, IdInvariant, PTL

----------------------------------------------------------------------------
(* Verdicts                                                                *)

\* What is tried again, but for a single read.
LEMMA Repeated ==
  ASSUME TypeOK, NEW c \in Calls, NEW r \in Got, Verdict(c, r) = "again", kind[c] # "read"
  PROVE  kind[c] \in {"readMulti", "writeMulti"} /\ r.what \in {"error", "abort", "garbled"}
<1>1. r.what \in Whats /\ kind[c] \in AllKinds
  BY RequestsAssumption DEF Got, TypeOK, kind
<1> QED
  BY <1>1 DEF Verdict, Whats, AllKinds

\* A call that goes on has had no answer, or one its verdict says to try again
\* after; a call that succeeded accepted its answer.
Settled(c) ==
  /\ pc[c] \in {"wait", "decode"} => attempt[c] >= 1
  /\ pc[c] \notin {"put", "done"} => result[c] = "none"
  /\ pc[c] = "decode" => answer[c] # <<>>
  /\ pc[c] \in {"start", "ready"} => answer[c] = <<>>
  /\ result[c] = "ok" => /\ answer[c] # <<>> /\ answer[c][1].what # "endless"
                         /\ Verdict(c, answer[c][1]) = "accept"
  /\ pc[c] \in {"send", "wait"} /\ answer[c] # <<>> =>
       Verdict(c, answer[c][1]) = "again" /\ kind[c] # "read"

VerdictInv == \A c \in Calls : Settled(c)

LEMMA VerdictInit == Init => VerdictInv
  BY DEF Init, VerdictInv, Settled

LEMMA VerdictStep == TypeOK /\ VerdictInv /\ [Next]_vars => VerdictInv'
<1> SUFFICES ASSUME TypeOK, VerdictInv, [Next]_vars, NEW d \in Calls
             PROVE  Settled(d)'
  BY DEF VerdictInv
<1> USE RequestsAssumption DEF callVars, managerVars, netVars
<1>0. UNCHANGED <<asked, wanted, kind>>
  <2>1. UNCHANGED <<asked, wanted>>
    BY DEF Next, Step, Network, Finished, TakeId, NoId, Encode, Refuse, Send, SendFails, Receive,
           Decode, Timeout, Put, Answer, Deliver, M!Reserve, M!Read, M!Expire, M!Release, M!Deliver, vars
  <2> QED
    BY <2>1 DEF kind
<1>10. Settled(d)
  BY DEF VerdictInv
<1>1. ASSUME pc'[d] = pc[d], attempt'[d] = attempt[d], result'[d] = result[d], answer'[d] = answer[d]
      PROVE  Settled(d)'
  BY <1>0, <1>10, <1>1 DEF Settled, Verdict
<1>2. ASSUME NEW c \in Calls, c # d, Step(c) PROVE Settled(d)'
  <2>1. pc'[d] = pc[d] /\ attempt'[d] = attempt[d] /\ result'[d] = result[d] /\ answer'[d] = answer[d]
    BY <1>2 DEF Step, TakeId, NoId, Encode, Refuse, Send, SendFails, Receive, Decode, Timeout, Put,
                TryAgain, Return, TypeOK
  <2> QED
    BY <1>1, <2>1
<1>3. ASSUME TakeId(d) \/ NoId(d) \/ Encode(d) \/ Refuse(d) PROVE Settled(d)'
  <2>1. pc[d] \in {"start", "ready"} /\ UNCHANGED <<attempt, answer>>
    BY <1>3 DEF TakeId, NoId, Encode, Refuse
  <2>2. \/ pc'[d] \in {"ready", "send"} /\ result'[d] = result[d]
        \/ pc'[d] \in {"put", "done"} /\ result'[d] = "error"
    BY <1>3 DEF TakeId, NoId, Encode, Refuse, Return, TypeOK
  <2>3. answer'[d] = <<>> /\ result[d] = "none"
    BY <1>10, <2>1 DEF Settled
  <2> QED
    BY <2>2, <2>3 DEF Settled
<1>4. ASSUME Send(d) PROVE Settled(d)'
  <2>1. pc[d] = "send" /\ pc'[d] = "wait" /\ attempt'[d] = attempt[d] + 1 /\ attempt[d] \in Nat
        /\ UNCHANGED <<result, answer>>
    BY <1>4 DEF Send, TypeOK
  <2> QED
    BY <1>0, <1>10, <2>1 DEF Settled, Verdict
<1>5. ASSUME SendFails(d) PROVE Settled(d)'
  <2>1. pc[d] = "send" /\ UNCHANGED answer
        /\ \/ pc'[d] = "send" /\ UNCHANGED result
           \/ pc'[d] = "put" /\ result'[d] = "error"
    BY <1>5 DEF SendFails, TryAgain, TypeOK
  <2> QED
    BY <1>0, <1>10, <2>1 DEF Settled, Verdict
<1>6. ASSUME Receive(d) PROVE Settled(d)'
  <2>1. pc[d] = "wait" /\ pc'[d] = "decode" /\ answer'[d] = inbox[d] /\ inbox[d] # <<>>
        /\ UNCHANGED <<attempt, result>>
    BY <1>6 DEF Receive, M!Read, TypeOK
  <2> QED
    BY <1>10, <2>1 DEF Settled
<1>11. ASSUME Decode(d) PROVE Settled(d)'
  <2>1. pc[d] = "decode" /\ UNCHANGED <<answer, attempt>> /\ answer[d][1].what # "endless"
    BY <1>11 DEF Decode, Hangs
  <2>2. attempt[d] >= 1 /\ attempt[d] \in Nat /\ result[d] = "none" /\ answer[d] # <<>>
    BY <1>10, <2>1 DEF Settled, TypeOK
  <2>3. \/ Verdict(d, answer[d][1]) = "accept" /\ pc'[d] = "put" /\ result'[d] = "ok"
        \/ pc'[d] = "put" /\ result'[d] = "error"
        \/ /\ Verdict(d, answer[d][1]) = "again" /\ pc'[d] = "send" /\ result' = result
           /\ attempt[d] < Attempts(d)
    BY <1>11 DEF Decode, Return, TryAgain, TypeOK
  <2>4. attempt[d] < Attempts(d) => kind[d] # "read"
    BY <2>2 DEF Attempts
  <2> QED
    BY <1>0, <2>1, <2>2, <2>3, <2>4 DEF Settled, Verdict
<1>7. ASSUME Timeout(d) PROVE Settled(d)'
  <2>1. pc[d] = "wait" /\ UNCHANGED answer
        /\ \/ pc'[d] = "send" /\ UNCHANGED result
           \/ pc'[d] = "put" /\ result'[d] = "error"
    BY <1>7 DEF Timeout, TryAgain, TypeOK
  <2> QED
    BY <1>0, <1>10, <2>1 DEF Settled, Verdict
<1>8. ASSUME Put(d) PROVE Settled(d)'
  <2>1. pc[d] = "put" /\ pc'[d] = "done" /\ UNCHANGED <<answer, result>>
    BY <1>8 DEF Put, TypeOK
  <2> QED
    BY <1>0, <1>10, <2>1 DEF Settled, Verdict
<1>9. ASSUME Network \/ Finished \/ UNCHANGED vars PROVE Settled(d)'
  <2>1. UNCHANGED <<pc, attempt, result, answer>>
    BY <1>9 DEF Network, Finished, Answer, Deliver, vars
  <2> QED
    BY <1>1, <2>1
<1> QED
  BY <1>2, <1>3, <1>4, <1>5, <1>6, <1>7, <1>8, <1>9, <1>11 DEF Next, Step

LEMMA VerdictInvariant == Spec => []VerdictInv
<1> QED
  BY VerdictInit, VerdictStep, TypeCorrect, PTL DEF Spec

\* A reply is of the device asked and of the service asked, if it names one;
\* only reads have values that do not decode.
Fits(c, r) ==
  /\ r.src = asked[c].src
  /\ r.what # "abort" => kind[r.by] = kind[c]
  /\ r.what \in Answers(kind[r.by])

FitInv ==
  /\ \A p \in replies : p.what \in Answers(kind[p.by])
  /\ \A c \in Calls : inbox[c] # <<>> => Fits(c, inbox[c][1])
  /\ \A c \in Calls : answer[c] # <<>> => Fits(c, answer[c][1])

LEMMA FitInit == Init => FitInv
  BY DEF Init, M!Init, FitInv

LEMMA FitStep == TypeOK /\ FitInv /\ [Next]_vars => FitInv'
<1> SUFFICES ASSUME TypeOK, FitInv, [Next]_vars PROVE FitInv'
  OBVIOUS
<1> USE RequestsAssumption DEF callVars, managerVars, netVars
<1>0. UNCHANGED <<asked, kind>>
  <2>1. asked' = asked
    BY DEF Next, Step, Network, Finished, TakeId, NoId, Encode, Refuse, Send, SendFails, Receive,
           Decode, Timeout, Put, Answer, Deliver, M!Reserve, M!Read, M!Expire, M!Release, M!Deliver,
           vars
  <2> QED
    BY <2>1 DEF kind
<1>1. ASSUME NEW c \in Calls, NEW r, Fits(c, r) PROVE Fits(c, r)'
  BY <1>0, <1>1 DEF Fits
<1>2. ASSUME NEW c \in Calls, Receive(c) PROVE FitInv'
  <2>1. /\ inbox' = [inbox EXCEPT ![c] = <<>>] /\ answer' = [answer EXCEPT ![c] = inbox[c]]
        /\ replies' = replies
    BY <1>2 DEF Receive, M!Read
  <2>2. \A d \in Calls : inbox'[d] # <<>> => inbox'[d] = inbox[d]
    BY <2>1 DEF TypeOK
  <2>3. \A d \in Calls : answer'[d] = answer[d] \/ (d = c /\ answer'[d] = inbox[d])
    BY <2>1 DEF TypeOK
  <2> QED
    BY <1>0, <1>1, <2>1, <2>2, <2>3 DEF FitInv
<1>3. ASSUME NEW c \in Calls, Put(c) PROVE FitInv'
  <2>1. inbox' = [inbox EXCEPT ![c] = <<>>] /\ UNCHANGED <<answer, replies>>
    BY <1>3 DEF Put, M!Release
  <2>2. \A d \in Calls : inbox'[d] # <<>> => inbox'[d] = inbox[d]
    BY <2>1 DEF TypeOK
  <2> QED
    BY <1>0, <1>1, <2>1, <2>2 DEF FitInv
<1>4. ASSUME NEW m \in requests, NEW what \in Answers(kind[m.by]), Answer(m, what) PROVE FitInv'
  <2>1. PICK lists \in Listings(kind[m.by], what) :
          replies' = replies \cup {[by |-> m.by, id |-> m.id, what |-> what, lists |-> lists]}
    BY <1>4 DEF Answer
  <2>2. UNCHANGED <<inbox, answer>>
    BY <1>4 DEF Answer
  <2>3. \A p \in replies' : p.what \in Answers(kind[p.by])
    BY <2>1 DEF FitInv
  <2> QED
    BY <1>0, <1>1, <2>2, <2>3 DEF FitInv, Answers
<1>5. ASSUME NEW p \in replies, Deliver(p) PROVE FitInv'
  <2> DEFINE g == [src |-> asked[p.by].src, by |-> p.by, what |-> p.what, lists |-> p.lists,
                   svc |-> IF p.what = "abort" THEN NoService ELSE kind[p.by]]
             o == owner[p.id]
  <2>1. /\ inbox' = [inbox EXCEPT ![o] = <<g>>] /\ UNCHANGED <<answer, replies>>
        /\ o # NoCall /\ g.src = asked[o].src /\ g.svc \in {NoService, asked[o].svc}
    BY <1>5 DEF Deliver, M!Deliver
  <2>2. o \in Calls /\ p.by \in Calls /\ asked[p.by].svc \in Kinds
    BY <2>1 DEF TypeOK
  <2>3. kind[p.by] \in Kinds /\ kind[o] = asked[o].svc
    BY <2>2 DEF kind
  <2>4. Fits(o, g)
    BY <2>1, <2>3 DEF Fits, FitInv
  <2>5. \A d \in Calls : inbox'[d] # <<>> =>
          inbox'[d] = inbox[d] \/ (d = o /\ inbox'[d][1] = g)
    BY <2>1, <2>2 DEF TypeOK
  <2> HIDE DEF g, o
  <2>6. \A d \in Calls : inbox'[d] # <<>> => Fits(d, inbox'[d][1])
    BY <2>4, <2>5 DEF FitInv
  <2>7. \A d \in Calls : answer'[d] # <<>> => Fits(d, answer'[d][1])
    BY <2>1 DEF FitInv
  <2> QED
    BY <1>0, <1>1, <2>1, <2>6, <2>7 DEF FitInv
<1>6. ASSUME UNCHANGED <<inbox, answer, replies>> PROVE FitInv'
  BY <1>0, <1>1, <1>6 DEF FitInv
<1>7. ASSUME NEW c \in Calls,
             TakeId(c) \/ NoId(c) \/ Encode(c) \/ Refuse(c) \/ Send(c) \/ SendFails(c) \/ Decode(c)
               \/ Timeout(c)
      PROVE  FitInv'
  BY <1>6, <1>7 DEF TakeId, NoId, Encode, Refuse, Send, SendFails, Decode, Timeout, M!Reserve, M!Expire
<1>8. ASSUME Finished \/ UNCHANGED vars PROVE FitInv'
  BY <1>6, <1>8 DEF Finished, vars
<1> QED
  BY <1>2, <1>3, <1>4, <1>5, <1>7, <1>8 DEF Next, Step, Network

LEMMA FitInvariant == Spec => []FitInv
<1> QED
  BY FitInit, FitStep, TypeCorrect, PTL DEF Spec

\* A request that succeeds returns what the device it asked answered to the
\* service it asked for, and a multiple read what it asked for, however late
\* the network is.
THEOREM AnswersFit == Spec => []AnswerFits
<1>1. TypeOK /\ VerdictInv /\ FitInv => AnswerFits
  <2> SUFFICES ASSUME TypeOK, VerdictInv, FitInv, NEW c \in Calls, result[c] = "ok"
               PROVE  LET r == answer[c][1]
                      IN /\ r.what = "ack" /\ r.src = asked[c].src /\ kind[r.by] = kind[c]
                         /\ kind[c] = "readMulti" => matchReadMultipleReply(wanted[c], r.lists)
    BY DEF AnswerFits
  <2> DEFINE r == answer[c][1]
  <2>1. answer[c] # <<>> /\ r.what # "endless" /\ Verdict(c, r) = "accept"
    BY DEF VerdictInv, Settled
  <2>2. Fits(c, r)
    BY <2>1 DEF FitInv
  <2>3. kind[c] \in AllKinds
    BY RequestsAssumption DEF TypeOK, kind
  <2> HIDE DEF r
  <2>4. r.what \notin {"error", "abort"}
    BY <2>1, <2>3 DEF Verdict, AllKinds
  <2>5. kind[r.by] = kind[c] /\ r.what \in Answers(kind[c])
    BY <2>2, <2>4 DEF Fits
  <2>6. r.what # "garbled"
    BY <2>1, <2>3, <2>5 DEF Verdict, AllKinds, Answers
  <2>7. r.what = "ack"
    BY <2>1, <2>4, <2>5, <2>6 DEF Answers
  <2>8. kind[c] = "readMulti" => matchReadMultipleReply(wanted[c], r.lists)
    BY <2>1, <2>7 DEF Verdict
  <2> QED
    BY <2>2, <2>5, <2>7, <2>8 DEF Fits, r
<1> QED
  BY <1>1, VerdictInvariant, FitInvariant, TypeCorrect, PTL

\* An answered request is not sent again, but for a multiple request that was
\* answered with an error.
THEOREM NotResent == Spec => AnsweredNotResent
<1>1. TypeOK /\ VerdictInv =>
        \A c \in Calls : Send(c) /\ answer[c] # <<>> =>
          /\ kind[c] \in {"readMulti", "writeMulti"}
          /\ answer[c][1].what \in {"error", "abort", "garbled"}
  <2> SUFFICES ASSUME TypeOK, VerdictInv, NEW c \in Calls, Send(c), answer[c] # <<>>
               PROVE  /\ kind[c] \in {"readMulti", "writeMulti"}
                      /\ answer[c][1].what \in {"error", "abort", "garbled"}
    OBVIOUS
  <2>1. pc[c] = "send" /\ answer[c] \in Mail
    BY DEF Send, TypeOK
  <2>2. answer[c][1] \in Got
    BY <2>1 DEF Mail
  <2>3. Verdict(c, answer[c][1]) = "again" /\ kind[c] # "read"
    BY <2>1 DEF VerdictInv, Settled
  <2> QED
    BY <2>2, <2>3, Repeated
<1> QED
  BY <1>1, VerdictInvariant, TypeCorrect, PTL DEF AnsweredNotResent

----------------------------------------------------------------------------
(* Late replies                                                            *)

\* The network is no later than the queue of ids is long.
Near == Lifetime <= NumIds - Size + 1

\* A message of a call is under its id while the call goes on; afterwards, for
\* as long as the message may come in, the id is in the queue of free ids, at
\* a place that late and the length of the queue bound.
Apart(c, i) ==
  /\ pc[c] # "start"
  /\ pc[c] # "done" => id[c] = i
  /\ pc[c] = "done" /\ Alive(c) =>
       \E k \in 1..Len(freeId) : freeId[k] = i /\ k + late[c] >= NumIds - Size + 1

OwnInv ==
  /\ Cardinality(Away) <= Size
  /\ \A c \in Calls : pc[c] # "done" => late[c] = 0
  /\ \A m \in requests : Apart(m.by, m.id)
  /\ \A p \in replies : Apart(p.by, p.id) /\ runs[p.by] > 0
  /\ \A c \in Calls : inbox[c] # <<>> => inbox[c][1].by = c /\ runs[c] > 0
  /\ \A c \in Calls : answer[c] # <<>> => answer[c][1].by = c /\ runs[c] > 0

LEMMA OwnInit == Init => OwnInv
<1> SUFFICES ASSUME Init PROVE OwnInv
  OBVIOUS
<1>1. Away = {} /\ Cardinality(Away) = 0
  BY FS_EmptySet DEF Init, Away
<1> QED
  BY <1>1, RequestsAssumption DEF Init, OwnInv, M!Init

\* A call under way is counted, and only these are.
LEMMA Counted == ASSUME TypeOK PROVE InFlight = Away
  BY DEF InFlight, Away, TypeOK

\* The id of a message that may come in is not another call's.
LEMMA NotAnothers ==
  ASSUME TypeOK, IdInv, NEW c \in Calls, NEW i \in Ids, Apart(c, i), Alive(c), owner[i] # NoCall
  PROVE  owner[i] = c
<1>1. pc[c] # "done"
  BY DEF Apart, IdInv, Queued
<1>2. id[c] = i /\ i # 0
  BY <1>1 DEF Apart, Ids
<1> QED
  BY <1>2 DEF IdInv

\* Whoever else takes an id, the id of an earlier message moves on one place
\* at most, and its call is one later.
LEMMA ApartTakeId ==
  ASSUME TypeOK, IdInv, Near, NEW c \in Calls, TakeId(c),
         NEW d \in Calls, NEW i \in Ids, Apart(d, i)
  PROVE  Apart(d, i)'
<1> USE RequestsAssumption
<1>1. /\ pc[c] = "start" /\ freeId # <<>> /\ freeId' = Tail(freeId)
      /\ id' = [id EXCEPT ![c] = Head(freeId)] /\ pc' = [pc EXCEPT ![c] = "ready"]
      /\ late'[d] = IF pc[d] = "done" /\ Alive(d) THEN late[d] + 1 ELSE late[d]
  BY DEF TakeId
<1>2. d # c /\ pc'[d] = pc[d] /\ id'[d] = id[d]
  BY <1>1 DEF Apart, TypeOK
<1>3. /\ freeId \in Seq(Ids) /\ Len(freeId) \in Nat /\ Len(freeId) >= 1
      /\ Len(freeId') = Len(freeId) - 1
      /\ \A k \in 1..Len(freeId') : freeId'[k] = freeId[k + 1]
      /\ late[d] \in Nat /\ NumIds \in Nat /\ Size \in Nat /\ Lifetime \in Nat
  BY <1>1 DEF TypeOK
<1>4. ASSUME pc[d] = "done", Alive(d)'
      PROVE  \E k \in 1..Len(freeId') : freeId'[k] = i /\ k + late'[d] >= NumIds - Size + 1
  <2>1. late[d] < Lifetime /\ late'[d] = late[d] + 1 /\ late[d] + 1 < Lifetime
    BY <1>1, <1>3, <1>4 DEF Alive
  <2>2. PICK k \in 1..Len(freeId) : freeId[k] = i /\ k + late[d] >= NumIds - Size + 1
    BY <1>4, <2>1 DEF Apart, Alive
  <2>3. k >= 2
    BY <1>3, <2>1, <2>2 DEF Near
  <2>4. k - 1 \in 1..Len(freeId') /\ freeId'[k - 1] = i
    BY <1>3, <2>2, <2>3
  <2>5. (k - 1) + late'[d] >= NumIds - Size + 1
    BY <1>3, <2>1, <2>2
  <2> QED
    BY <2>4, <2>5
<1> QED
  BY <1>2, <1>4 DEF Apart

\* An id that comes back is behind all others; those stay where they are.
LEMMA ApartPut ==
  ASSUME TypeOK, IdInv, OwnInv, NEW c \in Calls, Put(c),
         NEW d \in Calls, NEW i \in Ids, Apart(d, i)
  PROVE  Apart(d, i)'
<1> USE RequestsAssumption
<1>1. /\ pc[c] = "put" /\ id' = [id EXCEPT ![c] = 0] /\ pc' = [pc EXCEPT ![c] = "done"]
      /\ freeId' = Append(freeId, id[c]) /\ late' = late
  BY DEF Put, netVars
<1>2. id[c] \in 0..NumIds /\ id[c] # 0
  BY <1>1 DEF TypeOK
<1>3. /\ freeId \in Seq(Ids) /\ Len(freeId) \in Nat /\ id[c] \in Ids
      /\ late[d] \in Nat /\ NumIds \in Nat /\ Size \in Nat
  BY <1>2 DEF TypeOK, Ids
<1>4. /\ Len(freeId') = Len(freeId) + 1 /\ freeId'[Len(freeId) + 1] = id[c]
      /\ \A k \in 1..Len(freeId) : freeId'[k] = freeId[k]
  BY <1>1, <1>3, AppendProperties
<1>5. CASE d = c
  <2>1. id[c] = i /\ pc'[d] = "done"
    BY <1>1, <1>5 DEF Apart, TypeOK
  <2>2. Len(freeId) + 1 >= NumIds - Size + 1
    <3>1. Cardinality(Away) \in Nat /\ Cardinality(Away) <= Size
          /\ Len(freeId) + Cardinality(Away) = NumIds
      BY FS_CardinalityType DEF IdInv, OwnInv
    <3> QED
      BY <1>3, <3>1
  <2>3. Len(freeId) + 1 \in 1..Len(freeId')
    BY <1>3, <1>4
  <2>4. Len(freeId) + 1 + late'[d] >= NumIds - Size + 1
    BY <1>1, <1>3, <2>2
  <2> QED
    BY <1>4, <2>1, <2>3, <2>4 DEF Apart
<1>6. CASE d # c
  <2>1. pc'[d] = pc[d] /\ id'[d] = id[d] /\ late'[d] = late[d]
    BY <1>1, <1>6 DEF TypeOK
  <2>2. \A k \in 1..Len(freeId) : k \in 1..Len(freeId') /\ freeId'[k] = freeId[k]
    BY <1>3, <1>4
  <2> QED
    BY <2>1, <2>2 DEF Apart, Alive
<1> QED
  BY <1>5, <1>6

\* The steps that move no id keep messages apart.
LEMMA ApartStays ==
  ASSUME TypeOK, UNCHANGED <<id, freeId, late>>,
         \A c \in Calls : pc[c] # "start" =>
           pc'[c] # "start" /\ (pc'[c] = "done" <=> pc[c] = "done"),
         NEW d \in Calls, NEW i \in Ids, Apart(d, i)
  PROVE  Apart(d, i)'
  BY DEF Apart, Alive

\* Likewise the whole invariant, when the step neither sends nor receives.
LEMMA OwnStays ==
  ASSUME TypeOK, OwnInv, UNCHANGED <<id, freeId, late, requests, replies, runs, inbox>>,
         \A c \in Calls : pc'[c] \in {"start", "done"} <=> pc[c] \in {"start", "done"},
         \A c \in Calls : pc[c] # "start" =>
           pc'[c] # "start" /\ (pc'[c] = "done" <=> pc[c] = "done"),
         UNCHANGED answer
  PROVE  OwnInv'
<1>1. Away' = Away
  BY DEF Away
<1>2. \A m \in requests : Apart(m.by, m.id)'
  BY ApartStays DEF OwnInv, TypeOK
<1>3. \A p \in replies : Apart(p.by, p.id)'
  BY ApartStays DEF OwnInv, TypeOK
<1>4. \A c \in Calls : pc'[c] # "done" => late'[c] = 0
  BY DEF OwnInv
<1> QED
  BY <1>1, <1>2, <1>3, <1>4 DEF OwnInv

LEMMA OwnStep == TypeOK /\ IdInv /\ VerdictInv /\ Near /\ OwnInv /\ [Next]_vars => OwnInv'
<1> SUFFICES ASSUME TypeOK, IdInv, VerdictInv, Near, OwnInv, [Next]_vars PROVE OwnInv'
  OBVIOUS
<1> USE RequestsAssumption DEF callVars, managerVars, netVars
<1>0. /\ \A m \in requests : m.by \in Calls /\ m.id \in Ids
      /\ \A p \in replies : p.by \in Calls /\ p.id \in Ids
      /\ IsFiniteSet(Away) /\ Cardinality(Away) \in Nat /\ Size \in Nat
  BY FS_CardinalityType DEF TypeOK, IdInv
<1>1. ASSUME NEW c \in Calls, TakeId(c) PROVE OwnInv'
  <2>1. /\ pc[c] = "start" /\ pc' = [pc EXCEPT ![c] = "ready"]
        /\ Cardinality(InFlight) < Size
        /\ late' = [d \in Calls |-> IF pc[d] = "done" /\ Alive(d) THEN late[d] + 1 ELSE late[d]]
        /\ UNCHANGED <<result, answer, requests, replies, runs, inbox>>
    BY <1>1 DEF TakeId, M!Reserve
  <2>2. Away' = Away \cup {c} /\ c \notin Away
    BY <2>1 DEF Away, TypeOK
  <2>3. Cardinality(Away') <= Size
    <3>1. Cardinality(Away') = Cardinality(Away) + 1
      BY <1>0, <2>2, FS_AddElement
    <3>2. Cardinality(Away) < Size
      BY <2>1, Counted
    <3> QED
      BY <1>0, <3>1, <3>2
  <2>4. \A d \in Calls : pc'[d] # "done" => late'[d] = 0
    BY <2>1 DEF OwnInv, TypeOK
  <2>5. \A m \in requests : Apart(m.by, m.id)'
    BY <1>0, <1>1, ApartTakeId DEF OwnInv
  <2>6. \A p \in replies : Apart(p.by, p.id)'
    BY <1>0, <1>1, ApartTakeId DEF OwnInv
  <2> QED
    BY <2>1, <2>3, <2>4, <2>5, <2>6 DEF OwnInv
<1>2. ASSUME NEW c \in Calls, NoId(c) \/ Encode(c) \/ Refuse(c) \/ SendFails(c) \/ Decode(c) \/ Timeout(c)
      PROVE  OwnInv'
  <2>1. UNCHANGED <<id, freeId, late, requests, replies, runs, inbox, answer>>
    BY <1>2 DEF NoId, Encode, Refuse, SendFails, Decode, Timeout, M!Expire
  <2>2. \/ pc[c] = "start" /\ pc' = [pc EXCEPT ![c] = "done"]
        \/ /\ pc[c] \in {"ready", "send", "wait", "decode"}
           /\ \E x \in {"send", "put"} : pc' = [pc EXCEPT ![c] = x]
    BY <1>2 DEF NoId, Encode, Refuse, SendFails, Decode, Timeout, TryAgain, Return
  <2>3. \A d \in Calls : /\ pc'[d] \in {"start", "done"} <=> pc[d] \in {"start", "done"}
                         /\ pc[d] # "start" =>
                              pc'[d] # "start" /\ (pc'[d] = "done" <=> pc[d] = "done")
    BY <2>2 DEF TypeOK
  <2> QED
    BY <2>1, <2>3, OwnStays
<1>3. ASSUME NEW c \in Calls, Receive(c) PROVE OwnInv'
  <2>1. /\ pc[c] = "wait" /\ pc' = [pc EXCEPT ![c] = "decode"]
        /\ inbox' = [inbox EXCEPT ![c] = <<>>] /\ answer' = [answer EXCEPT ![c] = inbox[c]]
        /\ UNCHANGED <<id, freeId, late, requests, replies, runs>>
    BY <1>3 DEF Receive, M!Read
  <2>2. \A d \in Calls : pc[d] # "start" =>
          pc'[d] # "start" /\ (pc'[d] = "done" <=> pc[d] = "done")
    BY <2>1 DEF TypeOK
  <2>3. Away' = Away
    BY <2>1 DEF Away, TypeOK
  <2>4. \A m \in requests : Apart(m.by, m.id)'
    BY <1>0, <2>1, <2>2, ApartStays DEF OwnInv
  <2>5. \A p \in replies : Apart(p.by, p.id)'
    BY <1>0, <2>1, <2>2, ApartStays DEF OwnInv
  <2>6. \A d \in Calls : inbox'[d] # <<>> => inbox'[d][1].by = d /\ runs'[d] > 0
    BY <2>1 DEF OwnInv, TypeOK
  <2>7. \A d \in Calls : answer'[d] # <<>> => answer'[d][1].by = d /\ runs'[d] > 0
    BY <2>1 DEF OwnInv, TypeOK
  <2>8. \A d \in Calls : pc'[d] # "done" => late'[d] = 0
    BY <2>1 DEF OwnInv, TypeOK
  <2> QED
    BY <2>1, <2>3, <2>4, <2>5, <2>6, <2>7, <2>8 DEF OwnInv
<1>4. ASSUME NEW c \in Calls, Send(c) PROVE OwnInv'
  <2>1. /\ pc[c] = "send" /\ pc' = [pc EXCEPT ![c] = "wait"]
        /\ requests' = requests \cup {[by |-> c, id |-> id[c]]}
        /\ UNCHANGED <<id, freeId, late, replies, runs, inbox, result, answer>>
    BY <1>4 DEF Send
  <2>2. Away' = Away /\ \A d \in Calls : pc'[d] # "done" => late'[d] = 0
    BY <2>1 DEF Away, OwnInv, TypeOK
  <2>3. \A d \in Calls : pc[d] # "start" =>
          pc'[d] # "start" /\ (pc'[d] = "done" <=> pc[d] = "done")
    BY <2>1 DEF TypeOK
  <2>4. ASSUME NEW m \in requests' PROVE Apart(m.by, m.id)'
    <3>1. CASE m \in requests
      BY <1>0, <2>1, <2>3, <3>1, ApartStays DEF OwnInv
    <3>2. CASE m = [by |-> c, id |-> id[c]]
      BY <2>1, <3>2 DEF Apart, TypeOK
    <3> QED
      BY <2>1, <3>1, <3>2
  <2>5. \A p \in replies : Apart(p.by, p.id)'
    BY <1>0, <2>1, <2>3, ApartStays DEF OwnInv
  <2> QED
    BY <2>1, <2>2, <2>4, <2>5 DEF OwnInv
<1>5. ASSUME NEW c \in Calls, Put(c) PROVE OwnInv'
  <2>1. /\ pc[c] = "put" /\ pc' = [pc EXCEPT ![c] = "done"] /\ owner[id[c]] = c
        /\ inbox' = [inbox EXCEPT ![c] = <<>>]
        /\ UNCHANGED <<result, answer, requests, replies, runs, late>>
    BY <1>5 DEF Put, M!Release
  <2>2. Away' = Away \ {c} /\ c \in Away
    BY <2>1 DEF Away, TypeOK
  <2>3. Cardinality(Away') <= Size
    <3>1. Cardinality(Away') = Cardinality(Away) - 1
      BY <1>0, <2>2, FS_RemoveElement
    <3> QED
      BY <1>0, <3>1 DEF OwnInv
  <2>4. \A d \in Calls : pc'[d] # "done" => late'[d] = 0
    BY <2>1 DEF OwnInv, TypeOK
  <2>5. \A m \in requests : Apart(m.by, m.id)'
    BY <1>0, <1>5, ApartPut DEF OwnInv
  <2>6. \A p \in replies : Apart(p.by, p.id)'
    BY <1>0, <1>5, ApartPut DEF OwnInv
  <2>7. \A d \in Calls : inbox'[d] # <<>> => inbox'[d][1].by = d /\ runs'[d] > 0
    BY <2>1 DEF OwnInv, TypeOK
  <2> QED
    BY <2>1, <2>3, <2>4, <2>5, <2>6, <2>7 DEF OwnInv
<1>6. ASSUME NEW m \in requests, NEW what \in Answers(kind[m.by]), Answer(m, what)
      PROVE  OwnInv'
  <2>1. /\ runs' = [runs EXCEPT ![m.by] = @ + 1]
        /\ \E lists \in Listings(kind[m.by], what) :
             replies' = replies \cup {[by |-> m.by, id |-> m.id, what |-> what, lists |-> lists]}
        /\ UNCHANGED <<pc, id, freeId, late, requests, inbox, result, answer>>
    BY <1>6 DEF Answer
  <2>2. runs'[m.by] > 0 /\ \A d \in Calls : runs[d] > 0 => runs'[d] > 0
    BY <1>0, <2>1 DEF TypeOK
  <2>3. \A d \in requests : Apart(d.by, d.id)'
    BY <1>0, <2>1, ApartStays DEF OwnInv
  <2>4. ASSUME NEW p \in replies' PROVE Apart(p.by, p.id)' /\ runs'[p.by] > 0
    <3>1. CASE p \in replies
      <4>1. Apart(p.by, p.id)'
        BY <1>0, <2>1, <3>1, ApartStays DEF OwnInv
      <4> QED
        BY <1>0, <2>2, <3>1, <4>1 DEF OwnInv
    <3>2. CASE p.by = m.by /\ p.id = m.id
      BY <2>2, <2>3, <3>2
    <3> QED
      BY <2>1, <3>1, <3>2
  <2>5. Away' = Away
    BY <2>1 DEF Away
  <2> QED
    BY <2>1, <2>2, <2>3, <2>4, <2>5 DEF OwnInv
<1>7. ASSUME NEW p \in replies, Deliver(p) PROVE OwnInv'
  <2> DEFINE g == [src |-> asked[p.by].src, by |-> p.by, what |-> p.what, lists |-> p.lists,
                   svc |-> IF p.what = "abort" THEN NoService ELSE kind[p.by]]
  <2>1. /\ Alive(p.by) /\ owner[p.id] # NoCall /\ inbox' = [inbox EXCEPT ![owner[p.id]] = <<g>>]
        /\ UNCHANGED <<pc, id, freeId, late, requests, replies, runs, result, answer>>
    BY <1>7 DEF Deliver, M!Deliver
  <2>2. owner[p.id] = p.by /\ runs[p.by] > 0
    BY <1>0, <2>1, NotAnothers DEF OwnInv
  <2>3. \A d \in Calls : inbox'[d] # <<>> => inbox'[d][1].by = d /\ runs'[d] > 0
    BY <1>0, <2>1, <2>2 DEF OwnInv, TypeOK
  <2>4. \A m \in requests : Apart(m.by, m.id)'
    BY <1>0, <2>1, ApartStays DEF OwnInv
  <2>5. \A q \in replies : Apart(q.by, q.id)'
    BY <1>0, <2>1, ApartStays DEF OwnInv
  <2>6. Away' = Away
    BY <2>1 DEF Away
  <2> QED
    BY <2>1, <2>3, <2>4, <2>5, <2>6 DEF OwnInv
<1>8. ASSUME UNCHANGED vars PROVE OwnInv'
  BY <1>8 DEF vars, OwnInv, Apart, Alive, Away
<1> QED
  BY <1>1, <1>2, <1>3, <1>4, <1>5, <1>6, <1>7, <1>8 DEF Next, Step, Network, Finished

LEMMA OwnInvariant == Spec => [](Near => OwnInv)
<1>1. Init => (Near => OwnInv)
  BY OwnInit
<1>2. TypeOK /\ IdInv /\ VerdictInv /\ (Near => OwnInv) /\ [Next]_vars => (Near => OwnInv)'
  BY OwnStep DEF Near
<1> QED
  BY <1>1, <1>2, TypeCorrect, IdInvariant, VerdictInvariant, PTL DEF Spec

\* A request that succeeds returns the answer to itself, over a network no later
\* than the queue of free ids is long.
THEOREM OwnAnswers == Spec => []AnswersOwnRequest
<1>1. VerdictInv /\ (Near => OwnInv) => AnswersOwnRequest
  BY DEF Near, OwnInv, AnswersOwnRequest, VerdictInv, Settled
<1> QED
  BY <1>1, OwnInvariant, VerdictInvariant, PTL
=============================================================================
