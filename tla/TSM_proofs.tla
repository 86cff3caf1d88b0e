------------------------------ MODULE TSM_proofs -----------------------------
(***************************************************************************)
(* Theorems about the transaction state manager, for any calls, peers,     *)
(* services, number of ids and size.                                       *)
(***************************************************************************)
EXTENDS TSM, FiniteSetTheorems, SequenceTheorems, TLAPS

----------------------------------------------------------------------------
(* Type correctness.  It is not inductive alone: what a call reads under   *)
(* its id, and through its reference, is known only in some phases.        *)

Numbered == {"register", "registered", "receiving", "putId", "putSpace", "putDelete"}

PhaseOK ==
  \A c \in Calls :
    /\ pc[c] \in Numbered => id[c] \in Ids
    /\ pc[c] = "receiving" => ref[c] \in Calls

TypeInv == TypeOK /\ PhaseOK

(* New fills free.id with ids and leaves everything else empty.            *)
LEMMA TypeInit == Init => TypeInv
<1> SUFFICES ASSUME Init PROVE TypeInv
  OBVIOUS
<1> USE TSMAssumption DEF Init
<1>1. freeId \in Seq(Ids)
  BY DEF InitialIds, Ids
<1>2. Without("none") \in Outcomes
  BY DEF Without, Outcomes, Contents
<1>3. TypeOK
  BY <1>1, <1>2 DEF TypeOK, Phases, Contents
<1>4. PhaseOK
  BY DEF PhaseOK, Numbered
<1> QED
  BY <1>3, <1>4 DEF TypeInv

(* What the channels hold after one step of a call.                        *)
LEMMA OutcomeTypes ==
  /\ Without("timeout") \in Outcomes
  /\ Without("notReceiving") \in Outcomes
  /\ \A b \in Contents : [kind |-> IF b # <<>> THEN "reply" ELSE "notReceiving", body |-> b]
                           \in Outcomes
BY DEF Without, Outcomes, Contents

LEMMA TypeStep == TypeInv /\ [Next]_vars => TypeInv'
<1> SUFFICES ASSUME TypeInv, [Next]_vars PROVE TypeInv'
  OBVIOUS
<1> USE TSMAssumption DEF TypeInv, TypeOK, PhaseOK, Numbered, Goto, Phases, objVars
<1>1. ASSUME NEW c \in Calls, TakeSpace(c) PROVE TypeInv'
  BY <1>1 DEF TakeSpace
<1>2. ASSUME NEW c \in Calls, SpaceTimeout(c) PROVE TypeInv'
  BY <1>2 DEF SpaceTimeout
<1>3. ASSUME NEW c \in Calls, TakeId(c) PROVE TypeInv'
  <2>1. Head(freeId) \in Ids /\ Tail(freeId) \in Seq(Ids)
    BY <1>3, HeadTailProperties DEF TakeId
  <2> QED
    BY <1>3, <2>1 DEF TakeId
<1>4. ASSUME NEW c \in Calls, IdTimeout(c) PROVE TypeInv'
  BY <1>4 DEF IdTimeout
<1>5. ASSUME NEW c \in Calls, Register(c) PROVE TypeInv'
  BY <1>5 DEF Register
<1>6. ASSUME NEW c \in Calls, Lookup(c) PROVE TypeInv'
  <2>1. /\ states[id[c]] \in Calls \cup {NoCall}
        /\ tries[c] + 1 \in 0..MaxReceives
        /\ tries' = [tries EXCEPT ![c] = tries[c] + 1]
        /\ ref' = [ref EXCEPT ![c] = states[id[c]]]
        /\ UNCHANGED <<peer, svc, id, mutex, states, freeId, freeSpace, chan, closed>>
    BY <1>6 DEF Lookup
  <2>2. CASE states[id[c]] = NoCall
    <3>1. pc' = pc /\ got' = [got EXCEPT ![c] = Without("notReceiving")]
      BY <1>6, <2>2 DEF Lookup
    <3>2. TypeOK'
      BY <2>1, <3>1, OutcomeTypes
    <3>3. PhaseOK'
      BY <1>6, <2>1, <3>1 DEF Lookup
    <3> QED
      BY <3>2, <3>3
  <2>3. CASE states[id[c]] # NoCall
    <3>1. pc' = [pc EXCEPT ![c] = "receiving"] /\ got' = got
      BY <1>6, <2>3 DEF Lookup
    <3> QED
      BY <1>6, <2>1, <2>3, <3>1 DEF Lookup
  <2> QED
    BY <2>2, <2>3
<1>7. ASSUME NEW c \in Calls, ReceiveData(c) PROVE TypeInv'
  <2>1. chan[ref[c]] \in Contents /\ <<>> \in Contents
    BY <1>7 DEF ReceiveData, Contents
  <2>2. /\ got' \in [Calls -> Outcomes]
        /\ chan' \in [Calls -> Contents]
    BY <1>7, <2>1, OutcomeTypes DEF ReceiveData
  <2> QED
    BY <1>7, <2>2 DEF ReceiveData
<1>8. ASSUME NEW c \in Calls, ReceiveTimeout(c) PROVE TypeInv'
  BY <1>8, OutcomeTypes DEF ReceiveTimeout
<1>9. ASSUME NEW c \in Calls, PutClose(c) PROVE TypeInv'
  <2>1. CASE states[id[c]] = NoCall
    <3>1. /\ pc' = [pc EXCEPT ![c] = "done"]
          /\ UNCHANGED <<peer, svc, id, ref, tries, got, mutex, states, freeId, freeSpace,
                         chan, closed>>
      BY <1>9, <2>1 DEF PutClose
    <3> QED
      BY <3>1
  <2>2. CASE states[id[c]] # NoCall
    <3>1. /\ pc' = [pc EXCEPT ![c] = "putId"]
          /\ mutex' = c
          /\ closed' = [closed EXCEPT ![states[id[c]]] = TRUE]
          /\ UNCHANGED <<peer, svc, id, ref, tries, got, states, freeId, freeSpace, chan>>
      BY <1>9, <2>2 DEF PutClose
    <3> QED
      BY <1>9, <3>1 DEF PutClose
  <2> QED
    BY <2>1, <2>2
<1>10. ASSUME NEW c \in Calls, PutId(c) PROVE TypeInv'
  <2>1. Append(freeId, id[c]) \in Seq(Ids)
    BY <1>10, AppendProperties DEF PutId
  <2> QED
    BY <1>10, <2>1 DEF PutId
<1>11. ASSUME NEW c \in Calls, PutSpace(c) PROVE TypeInv'
  BY <1>11 DEF PutSpace
<1>12. ASSUME NEW c \in Calls, PutDelete(c) PROVE TypeInv'
  BY <1>12 DEF PutDelete
<1>13. ASSUME NEW i \in Ids, NEW r \in Replies, Send(i, r) PROVE TypeInv'
  BY <1>13 DEF Send, Contents, callVars
<1>14. CASE UNCHANGED vars
  BY <1>14 DEF vars, callVars
<1> QED
  BY <1>1, <1>2, <1>3, <1>4, <1>5, <1>6, <1>7, <1>8, <1>9, <1>10, <1>11, <1>12, <1>13,
     <1>14 DEF Next, Acquire, Receive, Put, Finished

(* Every reachable state has the types of the Go code: in particular no    *)
(* call ever works with invalidID and no channel exceeds its capacity.     *)
THEOREM TypeCorrect == Spec => []TypeOK
<1>1. Init => TypeInv
  BY TypeInit
<1>2. TypeInv /\ [Next]_vars => TypeInv'
  BY TypeStep
<1>3. TypeInv => TypeOK
  BY DEF TypeInv
<1> QED
  BY <1>1, <1>2, <1>3, PTL DEF Spec

----------------------------------------------------------------------------
(* The invariant behind the safety properties.  The mutex is held exactly  *)
(* during a Put, the closed channels are those of calls at or past it, a   *)
(* receiver waits on its own object, and an unread reply fits its call.    *)

MutexOK == \A c \in Calls : InPut(c) <=> mutex = c
ClosedOK == \A c \in Calls : closed[c] <=> InPut(c) \/ pc[c] = "done"
RefOK == \A c \in Calls : pc[c] = "receiving" => ref[c] = c
ChanOK == \A c \in Calls : chan[c] # <<>> => Matches(c, Head(chan[c]))

IInv ==
  /\ TypeInv
  /\ MutexOK
  /\ ClosedOK
  /\ RefOK
  /\ ChanOK
  /\ IdExclusive
  /\ StatesFollowOwners
  /\ OwnReplies

LEMMA IInvInit == Init => IInv
<1> SUFFICES ASSUME Init PROVE IInv
  OBVIOUS
<1>1. TypeInv
  BY TypeInit
<1> USE TSMAssumption DEF Init
<1>2. MutexOK /\ ClosedOK /\ RefOK /\ ChanOK
  BY DEF MutexOK, ClosedOK, RefOK, ChanOK, InPut
<1>3. IdExclusive
  BY DEF IdExclusive, Owners, Queued, QueuedAt, InitialIds
<1>4. StatesFollowOwners
  BY DEF StatesFollowOwners, Mapped
<1>5. OwnReplies
  BY DEF OwnReplies, Without
<1> QED
  BY <1>1, <1>2, <1>3, <1>4, <1>5 DEF IInv

(* Under the invariant, the map lookups of Receive and Put find the call   *)
(* itself, so these steps take the branch the code expects.                *)
LEMMA OwnObject ==
  ASSUME IInv, NEW c \in Calls
  PROVE  /\ Lookup(c) =>
              /\ Goto(c, "registered", "receiving")
              /\ mutex = NoCall
              /\ ref' = [ref EXCEPT ![c] = c]
              /\ UNCHANGED <<peer, svc, id, got, mutex, states, freeId, freeSpace, chan,
                             closed>>
         /\ ReceiveData(c) =>
              /\ chan[c] # <<>>
              /\ got' = [got EXCEPT ![c] = [kind |-> "reply", body |-> chan[c]]]
              /\ chan' = [chan EXCEPT ![c] = <<>>]
         /\ PutClose(c) =>
              /\ Goto(c, "registered", "putId")
              /\ mutex = NoCall
              /\ mutex' = c
              /\ closed' = [closed EXCEPT ![c] = TRUE]
              /\ UNCHANGED <<peer, svc, id, ref, tries, got, states, freeId, freeSpace, chan>>
<1>1. pc[c] = "registered" => states[id[c]] = c /\ c # NoCall
  BY TSMAssumption DEF IInv, StatesFollowOwners, Mapped
<1>2. pc[c] = "receiving" => ref[c] = c /\ ~closed[c]
  BY DEF IInv, RefOK, ClosedOK, InPut
<1>3. ASSUME Lookup(c)
      PROVE  /\ Goto(c, "registered", "receiving")
             /\ mutex = NoCall
             /\ ref' = [ref EXCEPT ![c] = c]
             /\ UNCHANGED <<peer, svc, id, got, mutex, states, freeId, freeSpace, chan,
                            closed>>
  BY <1>1, <1>3 DEF Lookup, Goto, objVars
<1>4. ASSUME ReceiveData(c)
      PROVE  /\ chan[c] # <<>>
             /\ got' = [got EXCEPT ![c] = [kind |-> "reply", body |-> chan[c]]]
             /\ chan' = [chan EXCEPT ![c] = <<>>]
  BY <1>2, <1>4 DEF ReceiveData, Goto
<1>5. ASSUME PutClose(c)
      PROVE  /\ Goto(c, "registered", "putId")
             /\ mutex = NoCall
             /\ mutex' = c
             /\ closed' = [closed EXCEPT ![c] = TRUE]
             /\ UNCHANGED <<peer, svc, id, ref, tries, got, states, freeId, freeSpace, chan>>
  BY <1>1, <1>5 DEF PutClose, Goto
<1> QED
  BY <1>3, <1>4, <1>5

(* The steps of Next, one case each.                                       *)
LEMMA NextCases ==
  [Next]_vars <=>
    \/ \E c \in Calls :
         \/ TakeSpace(c) \/ SpaceTimeout(c) \/ TakeId(c) \/ IdTimeout(c) \/ Register(c)
         \/ Lookup(c) \/ ReceiveData(c) \/ ReceiveTimeout(c)
         \/ PutClose(c) \/ PutId(c) \/ PutSpace(c) \/ PutDelete(c)
    \/ \E i \in Ids, r \in Replies : Send(i, r)
    \/ UNCHANGED vars
BY DEF Next, Acquire, Receive, Put, Finished

(* Put takes the mutex when it closes the channel and gives it back with   *)
(* the map entry; no other step changes who holds it.                      *)
LEMMA MutexStep == IInv /\ [Next]_vars => MutexOK'
<1> SUFFICES ASSUME IInv, [Next]_vars PROVE MutexOK'
  OBVIOUS
<1> USE TSMAssumption DEF IInv, TypeInv, TypeOK, MutexOK, InPut, Goto
<1>1. ASSUME NEW c \in Calls, TakeSpace(c) \/ SpaceTimeout(c) \/ TakeId(c) \/ IdTimeout(c)
                               \/ Register(c)
      PROVE  MutexOK'
  BY <1>1 DEF TakeSpace, SpaceTimeout, TakeId, IdTimeout, Register
<1>2. ASSUME NEW c \in Calls, Lookup(c) \/ ReceiveData(c) \/ ReceiveTimeout(c)
      PROVE  MutexOK'
  BY <1>2, OwnObject DEF ReceiveData, ReceiveTimeout
<1>3. ASSUME NEW c \in Calls, PutClose(c)
      PROVE  MutexOK'
  BY <1>3, OwnObject
<1>4. ASSUME NEW c \in Calls, PutId(c) \/ PutSpace(c) \/ PutDelete(c)
      PROVE  MutexOK'
  BY <1>4 DEF PutId, PutSpace, PutDelete
<1>5. ASSUME NEW i \in Ids, NEW r \in Replies, Send(i, r) PROVE MutexOK'
  BY <1>5 DEF Send, callVars
<1>6. CASE UNCHANGED vars
  BY <1>6 DEF vars, callVars
<1> QED
  BY <1>1, <1>2, <1>3, <1>4, <1>5, <1>6, NextCases

(* Only a Put closes a channel, and a call past it never registers again;  *)
(* a receiver keeps the object it found.                                   *)
LEMMA ObjectStep == IInv /\ [Next]_vars => ClosedOK' /\ RefOK'
<1> SUFFICES ASSUME IInv, [Next]_vars PROVE ClosedOK' /\ RefOK'
  OBVIOUS
<1> USE TSMAssumption DEF IInv, TypeInv, TypeOK, InPut, Goto, objVars, ClosedOK, RefOK
<1>1. ASSUME NEW c \in Calls, TakeSpace(c) \/ SpaceTimeout(c) \/ TakeId(c) \/ IdTimeout(c)
                               \/ Register(c)
      PROVE  ClosedOK' /\ RefOK'
  <2>1. /\ pc[c] \in {"space", "id", "register"}
        /\ \E to \in {"id", "failed", "register", "registered"} : pc' = [pc EXCEPT ![c] = to]
        /\ UNCHANGED <<ref, closed>>
    BY <1>1 DEF TakeSpace, SpaceTimeout, TakeId, IdTimeout, Register
  <2> QED
    BY <2>1
<1>2. ASSUME NEW c \in Calls, Lookup(c) PROVE ClosedOK' /\ RefOK'
  <2>1. /\ pc[c] = "registered" /\ pc' = [pc EXCEPT ![c] = "receiving"]
        /\ ref' = [ref EXCEPT ![c] = c] /\ closed' = closed
    BY <1>2, OwnObject
  <2> QED
    BY <2>1
<1>3. ASSUME NEW c \in Calls, ReceiveData(c) \/ ReceiveTimeout(c) PROVE ClosedOK' /\ RefOK'
  <2>1. /\ pc[c] = "receiving" /\ pc' = [pc EXCEPT ![c] = "registered"]
        /\ ref' = [ref EXCEPT ![c] = NoCall] /\ closed' = closed
    BY <1>3 DEF ReceiveData, ReceiveTimeout
  <2> QED
    BY <2>1
<1>4. ASSUME NEW c \in Calls, PutClose(c) PROVE ClosedOK' /\ RefOK'
  <2>1. /\ pc[c] = "registered" /\ pc' = [pc EXCEPT ![c] = "putId"]
        /\ closed' = [closed EXCEPT ![c] = TRUE] /\ ref' = ref
    BY <1>4, OwnObject
  <2> QED
    BY <2>1
<1>5. ASSUME NEW c \in Calls, PutId(c) \/ PutSpace(c) \/ PutDelete(c)
      PROVE  ClosedOK' /\ RefOK'
  <2>1. /\ InPut(c)
        /\ \E to \in {"putSpace", "putDelete", "done"} : pc' = [pc EXCEPT ![c] = to]
        /\ UNCHANGED <<closed, ref>>
    BY <1>5 DEF PutId, PutSpace, PutDelete
  <2> QED
    BY <2>1
<1>6. ASSUME NEW i \in Ids, NEW r \in Replies, Send(i, r) PROVE ClosedOK' /\ RefOK'
  BY <1>6 DEF Send, callVars
<1>7. CASE UNCHANGED vars
  BY <1>7 DEF vars, callVars
<1> QED
  BY <1>1, <1>2, <1>3, <1>4, <1>5, <1>6, <1>7, NextCases

(* Send checks the reply against the object it stores it in.               *)
LEMMA ChanStep == IInv /\ [Next]_vars => ChanOK'
<1> SUFFICES ASSUME IInv, [Next]_vars PROVE ChanOK'
  OBVIOUS
<1> USE TSMAssumption DEF ChanOK, Matches, objVars
<1>0. /\ IInv
      /\ chan \in [Calls -> Contents]
      /\ states \in [Ids -> Calls \cup {NoCall}]
  BY DEF IInv, TypeInv, TypeOK
<1>1. ASSUME NEW c \in Calls, \/ TakeSpace(c) \/ SpaceTimeout(c) \/ TakeId(c) \/ IdTimeout(c)
                               \/ Register(c) \/ PutId(c) \/ PutSpace(c) \/ PutDelete(c)
                               \/ Lookup(c) \/ ReceiveTimeout(c) \/ PutClose(c)
      PROVE  ChanOK'
  <2>1. UNCHANGED <<peer, svc, chan>>
    BY <1>1 DEF TakeSpace, SpaceTimeout, TakeId, IdTimeout, Register, PutId, PutSpace,
                PutDelete, Lookup, ReceiveTimeout, PutClose
  <2> QED
    BY <1>0, <2>1 DEF IInv
<1>2. ASSUME NEW c \in Calls, ReceiveData(c) PROVE ChanOK'
  <2>1. chan' = [chan EXCEPT ![c] = <<>>] /\ UNCHANGED <<peer, svc>>
    BY <1>2, OwnObject DEF ReceiveData
  <2> QED
    BY <1>0, <2>1 DEF IInv
<1>3. ASSUME NEW i \in Ids, NEW r \in Replies, Send(i, r) PROVE ChanOK'
  <2>1. Head(<<r>>) = r
    OBVIOUS
  <2>2. /\ chan' = [chan EXCEPT ![states[i]] = <<r>>] /\ UNCHANGED <<peer, svc>>
        /\ Matches(states[i], r) /\ states[i] \in Calls
    BY <1>0, <1>3 DEF Send, callVars
  <2> QED
    BY <1>0, <2>1, <2>2 DEF IInv
<1>4. CASE UNCHANGED vars
  BY <1>0, <1>4 DEF vars, callVars, IInv
<1> QED
  BY <1>1, <1>2, <1>3, <1>4, NextCases

(* A Receive returns what its own channel held.                            *)
LEMMA RepliesStep == IInv /\ [Next]_vars => OwnReplies'
<1> SUFFICES ASSUME IInv, [Next]_vars PROVE OwnReplies'
  OBVIOUS
<1> USE TSMAssumption DEF IInv, TypeInv, TypeOK, OwnReplies, Matches
<1>1. ASSUME NEW c \in Calls, TakeSpace(c) \/ SpaceTimeout(c) \/ TakeId(c) \/ IdTimeout(c)
                               \/ Register(c)
      PROVE  OwnReplies'
  BY <1>1 DEF TakeSpace, SpaceTimeout, TakeId, IdTimeout, Register
<1>2. ASSUME NEW c \in Calls, Lookup(c) \/ PutClose(c) PROVE OwnReplies'
  BY <1>2, OwnObject
<1>3. ASSUME NEW c \in Calls, ReceiveData(c) PROVE OwnReplies'
  <2>1. /\ chan[c] # <<>>
        /\ got' = [got EXCEPT ![c] = [kind |-> "reply", body |-> chan[c]]]
    BY <1>3, OwnObject
  <2>2. PICK r \in Replies : chan[c] = <<r>>
    BY <2>1 DEF Contents
  <2>3. r.src = peer[c] /\ r.svc \in {svc[c], NoService}
    BY <2>2 DEF ChanOK
  <2>4. UNCHANGED <<peer, svc>>
    BY <1>3 DEF ReceiveData
  <2>5. got'[c].body = <<r>> /\ \A d \in Calls \ {c} : got'[d] = got[d]
    BY <2>1, <2>2
  <2>6. got'[c].kind = "reply"
    BY <2>1
  <2> QED
    BY <2>3, <2>4, <2>5, <2>6
<1>4. ASSUME NEW c \in Calls, ReceiveTimeout(c) PROVE OwnReplies'
  BY <1>4 DEF ReceiveTimeout, Without
<1>5. ASSUME NEW c \in Calls, PutId(c) \/ PutSpace(c) \/ PutDelete(c) PROVE OwnReplies'
  BY <1>5 DEF PutId, PutSpace, PutDelete
<1>6. ASSUME NEW i \in Ids, NEW r \in Replies, Send(i, r) PROVE OwnReplies'
  BY <1>6 DEF Send, callVars
<1>7. CASE UNCHANGED vars
  BY <1>7 DEF vars, callVars
<1> QED
  BY <1>1, <1>2, <1>3, <1>4, <1>5, <1>6, <1>7, NextCases

(* free.id as a queue without repetitions.                                 *)
NoRepetition(q) == \A j, k \in 1..Len(q) : q[j] = q[k] => j = k

LEMMA Dequeue ==
  ASSUME NEW q \in Seq(Ids), q # <<>>, NoRepetition(q)
  PROVE  /\ Head(q) = q[1] /\ Len(q) >= 1
         /\ Tail(q) \in Seq(Ids) /\ Len(Tail(q)) = Len(q) - 1
         /\ \A k \in 1..Len(Tail(q)) : Tail(q)[k] = q[k+1]
         /\ NoRepetition(Tail(q))
         /\ \A k \in 1..Len(Tail(q)) : Tail(q)[k] # Head(q)
<1>1. /\ Head(q) = q[1] /\ Len(q) \in Nat /\ Len(q) >= 1
  OBVIOUS
<1>2. /\ Tail(q) \in Seq(Ids) /\ Len(Tail(q)) = Len(q) - 1
      /\ \A k \in 1..Len(Tail(q)) : Tail(q)[k] = q[k+1]
  BY HeadTailProperties
<1>3. \A k \in 1..Len(Tail(q)) : k \in 1..Len(q) /\ k + 1 \in 1..Len(q)
  BY <1>1, <1>2
<1>4. NoRepetition(Tail(q))
  <2> SUFFICES ASSUME NEW j \in 1..Len(Tail(q)), NEW k \in 1..Len(Tail(q)),
                      Tail(q)[j] = Tail(q)[k]
               PROVE  j = k
    BY DEF NoRepetition
  <2>1. q[j+1] = q[k+1]
    BY <1>2
  <2>2. j + 1 = k + 1
    BY <1>3, <2>1 DEF NoRepetition
  <2> QED
    BY <2>2
<1>5. \A k \in 1..Len(Tail(q)) : Tail(q)[k] # Head(q)
  <2> SUFFICES ASSUME NEW k \in 1..Len(Tail(q)), q[k+1] = q[1] PROVE FALSE
    BY <1>1, <1>2
  <2>1. k + 1 = 1
    BY <1>1, <1>3 DEF NoRepetition
  <2> QED
    BY <1>1, <1>2, <2>1
<1> QED
  BY <1>1, <1>2, <1>4, <1>5

LEMMA Enqueue ==
  ASSUME NEW q \in Seq(Ids), NEW i \in Ids, NoRepetition(q),
         \A k \in 1..Len(q) : q[k] # i
  PROVE  /\ Append(q, i) \in Seq(Ids) /\ Len(Append(q, i)) = Len(q) + 1
         /\ Append(q, i)[Len(q) + 1] = i
         /\ \A k \in 1..Len(q) : Append(q, i)[k] = q[k]
         /\ NoRepetition(Append(q, i))
<1>1. /\ Append(q, i) \in Seq(Ids) /\ Len(Append(q, i)) = Len(q) + 1
      /\ Append(q, i)[Len(q) + 1] = i
      /\ \A k \in 1..Len(q) : Append(q, i)[k] = q[k]
      /\ Len(q) \in Nat
  BY AppendProperties
<1>2. NoRepetition(Append(q, i))
  BY <1>1 DEF NoRepetition
<1> QED
  BY <1>1, <1>2

(* The parts of IdExclusive, with the queue named.                         *)
LEMMA ExclusiveParts ==
  IdExclusive <=>
    /\ \A c, d \in Owners : id[c] = id[d] => c = d
    /\ \A c \in Owners : \A k \in 1..Len(freeId) : freeId[k] # id[c]
    /\ NoRepetition(freeId)
BY DEF IdExclusive, Queued, QueuedAt, NoRepetition

(* A step that moves no id between the queue and the calls keeps IdExclusive. *)
LEMMA ExclusiveKept ==
  ASSUME IInv, UNCHANGED freeId, Owners' \subseteq Owners,
         \A c \in Owners' : id'[c] = id[c]
  PROVE  IdExclusive'
BY DEF IInv, IdExclusive, Queued, QueuedAt

(* TakeId moves the head of the queue to a call, PutId a call's id to the  *)
(* tail; the other steps leave the ids where they are.                     *)
LEMMA ExclusiveStep == IInv /\ [Next]_vars => IdExclusive'
<1> SUFFICES ASSUME IInv, [Next]_vars PROVE IdExclusive'
  OBVIOUS
<1>0. /\ pc \in [Calls -> Phases] /\ id \in [Calls -> Ids \cup {0}]
      /\ freeId \in Seq(Ids)
      /\ NoRepetition(freeId)
      /\ \A c \in Owners : \A k \in 1..Len(freeId) : freeId[k] # id[c]
      /\ \A c, d \in Owners : id[c] = id[d] => c = d
  BY ExclusiveParts DEF IInv, TypeInv, TypeOK
<1>1. ASSUME NEW c \in Calls, \/ TakeSpace(c) \/ SpaceTimeout(c) \/ IdTimeout(c)
                               \/ Register(c) \/ PutSpace(c)
      PROVE  IdExclusive'
  <2>1. UNCHANGED <<freeId, id>> /\ Owners' \subseteq Owners
    BY <1>0, <1>1 DEF TakeSpace, SpaceTimeout, IdTimeout, Register, PutSpace, Goto, Owners
  <2> QED
    BY <2>1, ExclusiveKept
<1>2. ASSUME NEW c \in Calls, Lookup(c) \/ ReceiveData(c) \/ ReceiveTimeout(c) \/ PutClose(c)
      PROVE  IdExclusive'
  <2>1. /\ UNCHANGED <<freeId, id>>
        /\ pc[c] \in {"registered", "receiving"}
        /\ \E to \in Phases : pc' = [pc EXCEPT ![c] = to]
    BY <1>2, OwnObject DEF ReceiveData, ReceiveTimeout, Goto, Phases
  <2>2. Owners' \subseteq Owners
    BY <1>0, <2>1 DEF Owners
  <2> QED
    BY <2>1, <2>2, ExclusiveKept
<1>3. ASSUME NEW c \in Calls, PutDelete(c) PROVE IdExclusive'
  <2>1. /\ UNCHANGED freeId /\ Owners' \subseteq Owners /\ c \notin Owners'
        /\ \A d \in Calls \ {c} : id'[d] = id[d]
    BY <1>0, <1>3 DEF PutDelete, Goto, Owners
  <2>2. \A d \in Owners' : id'[d] = id[d]
    BY <2>1 DEF Owners
  <2> QED
    BY <2>1, <2>2, ExclusiveKept
<1>4. ASSUME NEW c \in Calls, TakeId(c) PROVE IdExclusive'
  <2>1. /\ freeId # <<>> /\ freeId' = Tail(freeId) /\ id' = [id EXCEPT ![c] = freeId[1]]
        /\ Len(freeId) \in Nat /\ Len(freeId) >= 1 /\ Len(freeId') = Len(freeId) - 1
        /\ \A k \in 1..Len(freeId') : freeId'[k] = freeId[k+1] /\ freeId'[k] # freeId[1]
        /\ NoRepetition(freeId')
    BY <1>0, <1>4, Dequeue DEF TakeId
  <2>2. /\ Owners' = Owners \cup {c} /\ c \notin Owners
    BY <1>0, <1>4 DEF TakeId, Goto, Owners
  <2>3. /\ id'[c] = freeId[1]
        /\ \A d \in Owners : id'[d] = id[d] /\ id[d] # freeId[1]
    BY <1>0, <2>1, <2>2 DEF Owners
  <2>4. \A d \in Owners' : \A k \in 1..Len(freeId') : freeId'[k] # id'[d]
    <3> SUFFICES ASSUME NEW d \in Owners', NEW k \in 1..Len(freeId')
                 PROVE  freeId'[k] # id'[d]
      OBVIOUS
    <3>1. k + 1 \in 1..Len(freeId) /\ freeId'[k] = freeId[k+1]
      BY <2>1
    <3>2. CASE d = c
      BY <2>1, <2>3, <3>2
    <3>3. CASE d \in Owners
      BY <1>0, <2>3, <3>1, <3>3
    <3> QED
      BY <2>2, <3>2, <3>3
  <2>5. \A d, e \in Owners' : id'[d] = id'[e] => d = e
    BY <1>0, <2>2, <2>3
  <2> QED
    BY <2>1, <2>4, <2>5, ExclusiveParts DEF IdExclusive, Queued, QueuedAt, NoRepetition
<1>5. ASSUME NEW c \in Calls, PutId(c) PROVE IdExclusive'
  <2>1. /\ c \in Owners /\ Owners' = Owners \ {c} /\ id' = id
    BY <1>0, <1>5 DEF PutId, Goto, Owners
  <2>2. id[c] \in Ids /\ \A k \in 1..Len(freeId) : freeId[k] # id[c]
    BY <1>0, <1>5, <2>1 DEF IInv, TypeInv, PhaseOK, Numbered, PutId, Goto
  <2>3. /\ Len(freeId) \in Nat /\ Len(freeId') = Len(freeId) + 1
        /\ freeId'[Len(freeId) + 1] = id[c]
        /\ \A k \in 1..Len(freeId) : freeId'[k] = freeId[k]
        /\ NoRepetition(freeId')
    BY <1>0, <1>5, <2>2, Enqueue DEF PutId
  <2>4. \A d \in Owners' : \A k \in 1..Len(freeId') : freeId'[k] # id'[d]
    BY <1>0, <2>1, <2>3
  <2> QED
    BY <1>0, <2>1, <2>3, <2>4 DEF IdExclusive, Queued, QueuedAt, NoRepetition
<1>6. ASSUME NEW i \in Ids, NEW r \in Replies, Send(i, r) PROVE IdExclusive'
  BY <1>6, ExclusiveKept DEF Send, callVars, Owners
<1>7. CASE UNCHANGED vars
  BY <1>7, ExclusiveKept DEF vars, callVars, Owners
<1> QED
  BY <1>1, <1>2, <1>3, <1>4, <1>5, <1>6, <1>7, NextCases

(* Register enters a call under an id no mapped call has: a call that gave *)
(* the id back still holds the mutex.  PutDelete removes its own entry.    *)
LEMMA StatesStep == IInv /\ [Next]_vars => StatesFollowOwners'
<1> SUFFICES ASSUME IInv, [Next]_vars PROVE StatesFollowOwners'
  OBVIOUS
<1> USE TSMAssumption
<1>0. /\ pc \in [Calls -> Phases] /\ id \in [Calls -> Ids \cup {0}]
      /\ states \in [Ids -> Calls \cup {NoCall}]
      /\ \A c \in Mapped : c \in Calls /\ id[c] \in Ids /\ states[id[c]] = c
      /\ \A i \in Ids : states[i] # NoCall => states[i] \in Mapped /\ id[states[i]] = i
  BY DEF IInv, TypeInv, TypeOK, StatesFollowOwners, PhaseOK, Numbered, Mapped
<1>1. ASSUME UNCHANGED states, Mapped' = Mapped, \A c \in Mapped : id'[c] = id[c]
      PROVE  StatesFollowOwners'
  BY <1>0, <1>1 DEF StatesFollowOwners
<1>2. ASSUME NEW c \in Calls, TakeSpace(c) \/ SpaceTimeout(c) \/ TakeId(c) \/ IdTimeout(c)
      PROVE  StatesFollowOwners'
  <2>1. /\ UNCHANGED states
        /\ c \notin Mapped /\ \A d \in Calls \ {c} : id'[d] = id[d]
        /\ \E to \in {"id", "failed", "register"} : pc' = [pc EXCEPT ![c] = to]
    BY <1>0, <1>2 DEF TakeSpace, SpaceTimeout, TakeId, IdTimeout, Goto, Mapped
  <2>2. Mapped' = Mapped
    BY <1>0, <2>1 DEF Mapped
  <2> QED
    BY <1>0, <1>1, <2>1, <2>2
<1>3. ASSUME NEW c \in Calls, \/ Lookup(c) \/ ReceiveData(c) \/ ReceiveTimeout(c)
                               \/ PutClose(c) \/ PutId(c) \/ PutSpace(c)
      PROVE  StatesFollowOwners'
  <2>1. /\ UNCHANGED <<states, id>> /\ c \in Mapped
        /\ \E to \in {"registered", "receiving", "putId", "putSpace", "putDelete"} :
              pc' = [pc EXCEPT ![c] = to]
    BY <1>0, <1>3, OwnObject DEF ReceiveData, ReceiveTimeout, PutId, PutSpace, Goto, Mapped
  <2>2. Mapped' = Mapped
    BY <1>0, <2>1 DEF Mapped
  <2> QED
    BY <1>1, <2>1, <2>2
<1>4. ASSUME NEW c \in Calls, Register(c) PROVE StatesFollowOwners'
  <2>1. /\ pc[c] = "register" /\ pc' = [pc EXCEPT ![c] = "registered"]
        /\ states' = [states EXCEPT ![id[c]] = c] /\ id' = id /\ mutex = NoCall
    BY <1>4 DEF Register, Goto
  <2>2. id[c] \in Ids /\ c \in Owners /\ c \notin Mapped
    BY <2>1 DEF IInv, TypeInv, PhaseOK, Numbered, Owners, Mapped
  <2>3. \A d \in Mapped : d \in Owners
    BY <1>0, <2>1 DEF IInv, MutexOK, InPut, Mapped, Owners
  <2>4. \A d \in Mapped : id[d] # id[c]
    BY <2>2, <2>3 DEF IInv, IdExclusive
  <2>5. Mapped' = Mapped \cup {c}
    BY <1>0, <2>1 DEF Mapped
  <2> QED
    BY <1>0, <2>1, <2>2, <2>4, <2>5 DEF StatesFollowOwners
<1>5. ASSUME NEW c \in Calls, PutDelete(c) PROVE StatesFollowOwners'
  <2>1. /\ pc[c] = "putDelete" /\ pc' = [pc EXCEPT ![c] = "done"]
        /\ states' = [states EXCEPT ![id[c]] = NoCall] /\ id' = [id EXCEPT ![c] = 0]
    BY <1>5 DEF PutDelete, Goto
  <2>2. c \in Mapped /\ Mapped' = Mapped \ {c}
    BY <1>0, <2>1 DEF Mapped
  <2>3. \A d \in Mapped \ {c} : id[d] # id[c]
    BY <1>0, <2>2
  <2> QED
    BY <1>0, <2>1, <2>2, <2>3 DEF StatesFollowOwners
<1>6. ASSUME NEW i \in Ids, NEW r \in Replies, Send(i, r) PROVE StatesFollowOwners'
  BY <1>1, <1>6 DEF Send, callVars, Mapped
<1>7. CASE UNCHANGED vars
  BY <1>1, <1>7 DEF vars, callVars, Mapped
<1> QED
  BY <1>2, <1>3, <1>4, <1>5, <1>6, <1>7, NextCases

LEMMA Inductive == Spec => []IInv
<1>1. Init => IInv
  BY IInvInit
<1>2. IInv /\ [Next]_vars => IInv'
  <2> SUFFICES ASSUME IInv, [Next]_vars PROVE IInv'
    OBVIOUS
  <2>1. TypeInv'
    BY TypeStep DEF IInv
  <2> QED
    BY <2>1, MutexStep, ObjectStep, ChanStep, RepliesStep, ExclusiveStep, StatesStep DEF IInv
<1> QED
  BY <1>1, <1>2, PTL DEF Spec

(* Two requests in flight never share an invoke id.                        *)
THEOREM IdsExclusive == Spec => []IdExclusive
<1>1. IInv => IdExclusive
  BY DEF IInv
<1> QED
  BY <1>1, Inductive, PTL

(* A request always finds its own state object under its id.               *)
THEOREM OwnersMapped == Spec => []StatesFollowOwners
<1>1. IInv => StatesFollowOwners
  BY DEF IInv
<1> QED
  BY <1>1, Inductive, PTL

(* A reply that waits unread in the channel of a call, and one that its    *)
(* Receive returned, came from the peer and for the service of that call.  *)
THEOREM RepliesAreOwn == Spec => [](ChanOK /\ OwnReplies)
<1>1. IInv => ChanOK /\ OwnReplies
  BY DEF IInv
<1> QED
  BY <1>1, Inductive, PTL

(* A reply that arrives while an id is given back cannot make Send panic.  *)
THEOREM SendIsSafe == Spec => []NoSendOnClosed
<1>1. IInv => NoSendOnClosed
  <2> SUFFICES ASSUME IInv, mutex = NoCall, NEW i \in Ids, states[i] # NoCall
               PROVE  ~closed[states[i]]
    BY DEF NoSendOnClosed
  <2>1. states[i] \in Calls /\ pc[states[i]] # "done"
    BY DEF IInv, StatesFollowOwners, Mapped
  <2> QED
    BY <2>1, TSMAssumption DEF IInv, ClosedOK, MutexOK
<1> QED
  BY <1>1, Inductive, PTL

----------------------------------------------------------------------------
(* Conservation of tokens and ids, and what follows from it.  It needs no  *)
(* more of IInv than types: each step moves one token or one id.           *)

PoolInv == IsFiniteSet(Holders) /\ IsFiniteSet(Owners) /\ PoolsConserved

LEMMA PoolInit == Init => PoolInv
<1> SUFFICES ASSUME Init PROVE PoolInv
  OBVIOUS
<1>1. Holders = {} /\ Owners = {}
  BY DEF Init, Holders, Owners
<1>2. Len(freeId) = NumIds
  BY TSMAssumption DEF Init, InitialIds
<1> QED
  BY <1>1, <1>2, FS_EmptySet, TSMAssumption DEF PoolInv, PoolsConserved, Init

LEMMA PoolStep == IInv /\ PoolInv /\ [Next]_vars => PoolInv'
<1> SUFFICES ASSUME IInv, PoolInv, [Next]_vars PROVE PoolInv'
  OBVIOUS
<1> USE TSMAssumption
<1>0. /\ pc \in [Calls -> Phases] /\ freeSpace \in Nat
      /\ id \in [Calls -> Ids \cup {0}] /\ freeId \in Seq(Ids) /\ Len(freeId) \in Nat
      /\ IsFiniteSet(Holders) /\ Cardinality(Holders) \in Nat
      /\ IsFiniteSet(Owners) /\ Cardinality(Owners) \in Nat
      /\ freeSpace + Cardinality(Holders) = Size
      /\ Len(freeId) + Cardinality(Owners) = NumIds
      /\ NumIds \in Nat /\ Size \in Nat
  BY FS_CardinalityType DEF IInv, TypeInv, TypeOK, PoolInv, PoolsConserved
<1>1. ASSUME UNCHANGED <<freeSpace, freeId>>, Holders' = Holders, Owners' = Owners
      PROVE  PoolInv'
  BY <1>1 DEF PoolInv, PoolsConserved
<1>2. ASSUME NEW c \in Calls, TakeSpace(c) PROVE PoolInv'
  <2>1. /\ freeSpace' = freeSpace - 1 /\ freeId' = freeId
        /\ c \notin Holders /\ Holders' = Holders \cup {c} /\ Owners' = Owners
    BY <1>0, <1>2 DEF TakeSpace, Goto, Holders, Owners
  <2>2. IsFiniteSet(Holders') /\ Cardinality(Holders') = Cardinality(Holders) + 1
    BY <1>0, <2>1, FS_AddElement
  <2> QED
    BY <1>0, <2>1, <2>2 DEF PoolInv, PoolsConserved
<1>3. ASSUME NEW c \in Calls, IdTimeout(c) \/ PutSpace(c) PROVE PoolInv'
  <2>1. /\ freeSpace' = freeSpace + 1 /\ freeId' = freeId
        /\ c \in Holders /\ Holders' = Holders \ {c} /\ Owners' = Owners
    BY <1>0, <1>3 DEF IdTimeout, PutSpace, Goto, Holders, Owners
  <2>2. IsFiniteSet(Holders') /\ Cardinality(Holders') = Cardinality(Holders) - 1
    BY <1>0, <2>1, FS_RemoveElement
  <2> QED
    BY <1>0, <2>1, <2>2 DEF PoolInv, PoolsConserved
<1>4. ASSUME NEW c \in Calls, TakeId(c) PROVE PoolInv'
  <2>1. /\ freeSpace' = freeSpace /\ freeId # <<>> /\ freeId' = Tail(freeId)
        /\ c \notin Owners /\ Owners' = Owners \cup {c} /\ Holders' = Holders
    BY <1>0, <1>4 DEF TakeId, Goto, Holders, Owners
  <2>2. Len(freeId') = Len(freeId) - 1
    BY <1>0, <2>1, HeadTailProperties
  <2>3. IsFiniteSet(Owners') /\ Cardinality(Owners') = Cardinality(Owners) + 1
    BY <1>0, <2>1, FS_AddElement
  <2> QED
    BY <1>0, <2>1, <2>2, <2>3 DEF PoolInv, PoolsConserved
<1>5. ASSUME NEW c \in Calls, PutId(c) PROVE PoolInv'
  <2>1. /\ freeSpace' = freeSpace /\ freeId' = Append(freeId, id[c])
        /\ c \in Owners /\ Owners' = Owners \ {c} /\ Holders' = Holders
    BY <1>0, <1>5 DEF PutId, Goto, Holders, Owners
  <2>2. Len(freeId') = Len(freeId) + 1
    BY <1>0, <1>5, <2>1, AppendProperties DEF PutId, Goto, IInv, TypeInv, PhaseOK, Numbered
  <2>3. IsFiniteSet(Owners') /\ Cardinality(Owners') = Cardinality(Owners) - 1
    BY <1>0, <2>1, FS_RemoveElement
  <2> QED
    BY <1>0, <2>1, <2>2, <2>3 DEF PoolInv, PoolsConserved
<1>6. ASSUME NEW c \in Calls, SpaceTimeout(c) \/ PutDelete(c) PROVE PoolInv'
  <2>1. /\ UNCHANGED <<freeSpace, freeId>> /\ Holders' = Holders /\ Owners' = Owners
    BY <1>0, <1>6 DEF SpaceTimeout, PutDelete, Goto, Holders, Owners
  <2> QED
    BY <1>1, <2>1
<1>7. ASSUME NEW c \in Calls, \/ Register(c) \/ Lookup(c) \/ ReceiveData(c)
                               \/ ReceiveTimeout(c) \/ PutClose(c)
      PROVE  PoolInv'
  <2>1. /\ UNCHANGED <<freeSpace, freeId>>
        /\ pc[c] \in {"register", "registered", "receiving"}
        /\ \E to \in {"registered", "receiving", "putId"} : pc' = [pc EXCEPT ![c] = to]
    BY <1>7, OwnObject DEF Register, ReceiveData, ReceiveTimeout, Goto
  <2>2. Owners' = Owners
    BY <1>0, <2>1 DEF Owners
  <2>3. Holders' = Holders
    BY <1>0, <2>1, <2>2 DEF Holders
  <2> QED
    BY <1>1, <2>1, <2>2, <2>3
<1>8. ASSUME NEW i \in Ids, NEW r \in Replies, Send(i, r) PROVE PoolInv'
  BY <1>1, <1>8 DEF Send, callVars, Holders, Owners
<1>9. CASE UNCHANGED vars
  BY <1>1, <1>9 DEF vars, callVars, Holders, Owners
<1> QED
  BY <1>2, <1>3, <1>4, <1>5, <1>6, <1>7, <1>8, <1>9, NextCases

LEMMA PoolInductive == Spec => [](IInv /\ PoolInv)
<1>1. Init => PoolInv
  BY PoolInit
<1>2. IInv /\ PoolInv /\ [Next]_vars => PoolInv'
  BY PoolStep
<1> QED
  BY <1>1, <1>2, Inductive, PTL DEF Spec

(* Tokens and ids are neither lost nor made.                               *)
THEOREM Conservation == Spec => []PoolsConserved
<1>1. PoolInv => PoolsConserved
  BY DEF PoolInv
<1> QED
  BY <1>1, PoolInductive, PTL

(* What the counts say of the calls that hold something.                   *)
LEMMA Counts ==
  ASSUME IInv, PoolInv
  PROVE  /\ Cardinality(Owners) \in Nat /\ Cardinality(Owners) <= Size
         /\ freeSpace \in Nat /\ Len(freeId) \in Nat
         /\ Len(freeId) + Cardinality(Owners) = NumIds
         /\ \A c \in Holders : freeSpace < Size
         /\ \A c \in Owners : Len(freeId) < NumIds
         /\ \A c \in Holders \ Owners : Cardinality(Owners) < Size
<1> USE TSMAssumption
<1>1. /\ freeSpace \in Nat /\ Len(freeId) \in Nat
      /\ Cardinality(Holders) \in Nat /\ Cardinality(Owners) \in Nat
      /\ freeSpace + Cardinality(Holders) = Size
      /\ Len(freeId) + Cardinality(Owners) = NumIds
  BY FS_CardinalityType DEF IInv, TypeInv, TypeOK, PoolInv, PoolsConserved
<1>2. Owners \subseteq Holders /\ Cardinality(Owners) <= Cardinality(Holders)
  BY FS_Subset DEF PoolInv, Holders
<1>3. Holders # {} => Cardinality(Holders) > 0
  BY <1>1, FS_EmptySet DEF PoolInv
<1>4. Owners # {} => Cardinality(Owners) > 0
  BY <1>1, FS_EmptySet DEF PoolInv
<1>5. Owners # Holders => Cardinality(Owners) < Cardinality(Holders)
  BY <1>1, <1>2, FS_Subset DEF PoolInv
<1> QED
  BY <1>1, <1>2, <1>3, <1>4, <1>5

(* No channel send of Put or of a timed-out ID blocks, so Put always lets  *)
(* the mutex go.                                                           *)
THEOREM PutCompletes == Spec => []PutNeverBlocks
<1>1. IInv /\ PoolInv => PutNeverBlocks
  BY Counts, TSMAssumption DEF PutNeverBlocks, Holders, Owners
<1> QED
  BY <1>1, PoolInductive, PTL

(* A call that has its token never waits for an id.                        *)
THEOREM IdsSuffice == Spec => []IdAvailable
<1>1. IInv /\ PoolInv => IdAvailable
  <2> SUFFICES ASSUME IInv, PoolInv, Size <= NumIds, NEW c \in Calls, pc[c] = "id"
               PROVE  freeId # <<>>
    BY DEF IdAvailable
  <2>1. c \in Holders \ Owners
    BY DEF Holders, Owners
  <2>2. Len(freeId) > 0
    BY <2>1, Counts, TSMAssumption
  <2> QED
    BY <2>2
<1> QED
  BY <1>1, PoolInductive, PTL

(* An id given back is at least NumIds - Size reservations away from its   *)
(* next request.                                                           *)
THEOREM ReuseIsFar == Spec => ReuseDistance
<1> DEFINE Step(i) ==
             /\ ~Queued(i) /\ Queued(i)' => \A k \in QueuedAt(i)' : k > NumIds - Size
             /\ Queued(i) /\ ~Queued(i)' => 1 \in QueuedAt(i)
             /\ Queued(i) /\ Queued(i)' =>
                  \A k \in QueuedAt(i)' : k \in QueuedAt(i) \/ k + 1 \in QueuedAt(i)
<1>1. ASSUME IInv, PoolInv, NEW c \in Calls, TakeId(c), NEW i \in Ids PROVE Step(i)
  <2>1. freeId \in Seq(Ids) /\ NoRepetition(freeId)
    BY <1>1, ExclusiveParts DEF IInv, TypeInv, TypeOK
  <2>2. /\ Len(freeId) \in Nat /\ Len(freeId') = Len(freeId) - 1
        /\ \A k \in 1..Len(freeId') : freeId'[k] = freeId[k+1]
    BY <1>1, <2>1, Dequeue DEF TakeId
  <2>3. \A k \in QueuedAt(i)' : k + 1 \in QueuedAt(i)
    BY <2>2 DEF QueuedAt
  <2>4. \A k \in QueuedAt(i) : k = 1 \/ k - 1 \in QueuedAt(i)'
    <3> SUFFICES ASSUME NEW k \in QueuedAt(i), k # 1 PROVE k - 1 \in QueuedAt(i)'
      OBVIOUS
    <3>1. k - 1 \in 1..Len(freeId') /\ (k - 1) + 1 = k /\ freeId[k] = i
      BY <2>2 DEF QueuedAt
    <3> QED
      BY <2>2, <3>1 DEF QueuedAt
  <2> QED
    BY <2>3, <2>4 DEF Queued
<1>2. ASSUME IInv, PoolInv, NEW c \in Calls, PutId(c), NEW i \in Ids PROVE Step(i)
  <2>1. c \in Owners /\ id[c] \in Ids /\ freeId \in Seq(Ids) /\ NoRepetition(freeId)
    BY <1>2, ExclusiveParts
    DEF IInv, TypeInv, TypeOK, PhaseOK, Numbered, Owners, PutId, Goto
  <2>2. \A k \in 1..Len(freeId) : freeId[k] # id[c]
    BY <2>1, <1>2, ExclusiveParts DEF IInv
  <2>3. /\ Len(freeId) \in Nat /\ Len(freeId') = Len(freeId) + 1
        /\ freeId'[Len(freeId) + 1] = id[c]
        /\ \A k \in 1..Len(freeId) : freeId'[k] = freeId[k]
    BY <1>2, <2>1, <2>2, Enqueue DEF PutId
  <2>4. Len(freeId) + 1 > NumIds - Size
    BY <1>2, Counts, TSMAssumption
  <2>5. \A k \in QueuedAt(i)' : \/ k \in QueuedAt(i)
                                \/ k = Len(freeId) + 1 /\ i = id[c]
    <3> SUFFICES ASSUME NEW k \in 1..(Len(freeId) + 1), freeId'[k] = i, k # Len(freeId) + 1
                 PROVE  k \in QueuedAt(i)
      BY <2>3 DEF QueuedAt
    <3>1. k \in 1..Len(freeId)
      BY <2>3
    <3> QED
      BY <2>3, <3>1 DEF QueuedAt
  <2>6. QueuedAt(i) \subseteq QueuedAt(i)'
    BY <2>3 DEF QueuedAt
  <2>7. i = id[c] => ~Queued(i)
    BY <2>2 DEF Queued, QueuedAt
  <2> QED
    BY <2>4, <2>5, <2>6, <2>7 DEF Queued
<1>3. ASSUME NEW c \in Calls,
             \/ TakeSpace(c) \/ SpaceTimeout(c) \/ IdTimeout(c) \/ Register(c)
             \/ Lookup(c) \/ ReceiveData(c) \/ ReceiveTimeout(c)
             \/ PutClose(c) \/ PutSpace(c) \/ PutDelete(c)
      PROVE  freeId' = freeId
  BY <1>3 DEF TakeSpace, SpaceTimeout, IdTimeout, Register, Lookup, ReceiveData,
              ReceiveTimeout, PutClose, PutSpace, PutDelete
<1>4. ASSUME NEW i \in Ids, NEW r \in Replies, Send(i, r) PROVE freeId' = freeId
  BY <1>4 DEF Send
<1>5. UNCHANGED vars => freeId' = freeId
  BY DEF vars
<1>6. IInv /\ PoolInv /\ [Next]_vars => [\A i \in Ids : Step(i)]_freeId
  BY <1>1, <1>2, <1>3, <1>4, <1>5, NextCases
<1> QED
  BY <1>6, PoolInductive, PTL DEF Spec, ReuseDistance

(* A reply accepted stays in its channel, whatever other replies come and  *)
(* whichever calls time out, until the Receive of its own call takes it.   *)
THEOREM RepliesStay == Spec => UnreadReplyKept
<1> DEFINE Kept(c) == chan[c] # <<>> =>
             \/ chan'[c] = chan[c]
             \/ chan'[c] = <<>> /\ pc[c] = "receiving" /\ got'[c].body = chan[c]
<1>1. ASSUME IInv, NEW d \in Calls, ReceiveData(d), NEW c \in Calls PROVE Kept(c)
  <2>1. /\ pc[d] = "receiving"
        /\ got' = [got EXCEPT ![d] = [kind |-> "reply", body |-> chan[d]]]
        /\ chan' = [chan EXCEPT ![d] = <<>>]
    BY <1>1, OwnObject DEF ReceiveData, Goto
  <2> QED
    BY <1>1, <2>1 DEF IInv, TypeInv, TypeOK
<1>2. ASSUME IInv, NEW i \in Ids, NEW r \in Replies, Send(i, r), NEW c \in Calls PROVE Kept(c)
  BY <1>2 DEF Send, IInv, TypeInv, TypeOK
<1>3. ASSUME NEW d \in Calls,
             \/ TakeSpace(d) \/ SpaceTimeout(d) \/ TakeId(d) \/ IdTimeout(d) \/ Register(d)
             \/ Lookup(d) \/ ReceiveTimeout(d)
             \/ PutClose(d) \/ PutId(d) \/ PutSpace(d) \/ PutDelete(d)
      PROVE  chan' = chan
  BY <1>3 DEF objVars, TakeSpace, SpaceTimeout, TakeId, IdTimeout, Register, Lookup,
              ReceiveTimeout, PutClose, PutId, PutSpace, PutDelete
<1>4. IInv /\ [Next]_vars => \A c \in Calls : Kept(c)
  <2> SUFFICES ASSUME IInv, [Next]_vars, NEW c \in Calls PROVE Kept(c)
    OBVIOUS
  <2>1. UNCHANGED vars => chan' = chan
    BY DEF vars, objVars
  <2> QED
    BY <1>1, <1>2, <1>3, <2>1, NextCases
<1>5. IInv /\ [Next]_vars => [\A c \in Calls : Kept(c)]_vars
  BY <1>4
<1> QED
  BY <1>5, Inductive, PTL DEF Spec, UnreadReplyKept

----------------------------------------------------------------------------
(* TSM implements Transactions.                                            *)

LEMMA AbsInit == Init => Abs!Init
<1> SUFFICES ASSUME Init PROVE Abs!Init
  OBVIOUS
<1> USE TSMAssumption DEF Init
<1>1. [c \in Calls |-> [src |-> peer[c], svc |-> svc[c]]] \in [Calls -> Abs!Requests]
  BY DEF Abs!Requests
<1>2. [i \in Ids |-> IF states[i] # NoCall /\ ~closed[states[i]] THEN states[i] ELSE NoCall]
        = [i \in Abs!Ids |-> NoCall]
  BY DEF Ids, Abs!Ids
<1>3. [c \in Calls |-> IF closed[c] THEN <<>> ELSE chan[c]] = [c \in Calls |-> <<>>]
  OBVIOUS
<1>4. got = [c \in Calls |-> Abs!Outcome("none", <<>>)]
  BY DEF Without, Abs!Outcome
<1> QED
  BY <1>1, <1>2, <1>3, <1>4 DEF Abs!Init

(* The mapped variables of the abstract specification, under short names.  *)
AbsAsked == [c \in Calls |-> [src |-> peer[c], svc |-> svc[c]]]
AbsOwner == [i \in Ids |->
               IF states[i] # NoCall /\ ~closed[states[i]] THEN states[i] ELSE NoCall]
AbsInbox == [c \in Calls |-> IF closed[c] THEN <<>> ELSE chan[c]]

LEMMA AbsNext ==
  ASSUME NEW c \in Calls, NEW i \in Ids
  PROVE  /\ Abs!Reserve(c, i) => Abs!Next
         /\ Abs!Read(c, i) => Abs!Next
         /\ Abs!Expire(c, i) => Abs!Next
         /\ Abs!Release(c, i) => Abs!Next
         /\ \A r \in Replies : Abs!Deliver(c, i, r) => Abs!Next
BY DEF Abs!Next, Abs!Ids, Abs!Replies, Ids, Replies

(* An open call owns its id in the abstract specification too.             *)
LEMMA AbsOwns ==
  ASSUME IInv, NEW c \in Calls, pc[c] \in {"registered", "receiving"}
  PROVE  /\ id[c] \in Ids /\ states[id[c]] = c /\ c # NoCall /\ ~closed[c]
         /\ AbsOwner[id[c]] = c
         /\ AbsInbox[c] = chan[c]
         /\ \A i \in Ids : states[i] = c => i = id[c]
<1>1. id[c] \in Ids /\ c \in Mapped
  BY DEF IInv, TypeInv, PhaseOK, Numbered, Mapped
<1>2. states[id[c]] = c /\ c # NoCall /\ \A i \in Ids : states[i] = c => i = id[c]
  BY <1>1, TSMAssumption DEF IInv, StatesFollowOwners
<1>3. ~closed[c]
  BY DEF IInv, ClosedOK, InPut
<1> QED
  BY <1>1, <1>2, <1>3 DEF AbsOwner, AbsInbox

(* Every step of the manager is a step of the abstract one or none.        *)
LEMMA AbsStep == IInv /\ [Next]_vars => [Abs!Next]_(Abs!vars)
<1> SUFFICES ASSUME IInv, [Next]_vars PROVE Abs!Next \/ UNCHANGED Abs!vars
  OBVIOUS
<1> USE TSMAssumption
<1>0. /\ IInv
      /\ states \in [Ids -> Calls \cup {NoCall}] /\ closed \in [Calls -> BOOLEAN]
      /\ chan \in [Calls -> Contents] /\ got \in [Calls -> Outcomes]
      /\ pc \in [Calls -> Phases]
  BY DEF IInv, TypeInv, TypeOK
<1>1. ASSUME AbsAsked' = AbsAsked, AbsOwner' = AbsOwner, AbsInbox' = AbsInbox, got' = got
      PROVE  UNCHANGED Abs!vars
  BY <1>1 DEF Abs!vars, AbsAsked, AbsOwner, AbsInbox
<1>2. ASSUME UNCHANGED <<peer, svc, states, closed, chan, got>> PROVE UNCHANGED Abs!vars
  BY <1>1, <1>2 DEF AbsAsked, AbsOwner, AbsInbox
<1>3. ASSUME NEW c \in Calls, \/ TakeSpace(c) \/ SpaceTimeout(c) \/ TakeId(c)
                               \/ IdTimeout(c) \/ PutId(c) \/ PutSpace(c) \/ Lookup(c)
      PROVE  UNCHANGED Abs!vars
  BY <1>2, <1>3, OwnObject DEF TakeSpace, SpaceTimeout, TakeId, IdTimeout, PutId, PutSpace,
                               objVars
<1>4. ASSUME NEW c \in Calls, NEW i \in Ids, i = id[c], Register(c) PROVE Abs!Reserve(c, i)
  <2>1. /\ pc[c] = "register" /\ mutex = NoCall /\ states' = [states EXCEPT ![id[c]] = c]
        /\ UNCHANGED <<peer, svc, got, chan, closed>>
    BY <1>4 DEF Register, Goto, objVars
  <2>2. id[c] \in Ids /\ c \in Owners /\ c \notin Mapped /\ ~closed[c] /\ c # NoCall
    BY <1>0, <2>1 DEF IInv, TypeInv, PhaseOK, Numbered, Owners, Mapped, ClosedOK, InPut
  <2>3. states[id[c]] = NoCall
    <3> SUFFICES ASSUME states[id[c]] # NoCall PROVE FALSE
      OBVIOUS
    <3>1. states[id[c]] \in Mapped /\ id[states[id[c]]] = id[c]
      BY <1>0, <2>2 DEF IInv, StatesFollowOwners
    <3>2. states[id[c]] \in Owners
      BY <1>0, <2>1, <3>1 DEF IInv, MutexOK, InPut, Mapped, Owners
    <3> QED
      BY <1>0, <2>2, <3>1, <3>2 DEF IInv, IdExclusive
  <2>4. \A j \in Ids : states[j] # c
    BY <1>0, <2>2 DEF IInv, StatesFollowOwners
  <2>5. AbsOwner[id[c]] = NoCall /\ \A j \in Ids : AbsOwner[j] # c
    BY <1>0, <2>2, <2>3, <2>4 DEF AbsOwner
  <2>6. AbsOwner' = [AbsOwner EXCEPT ![id[c]] = c]
    BY <1>0, <2>1, <2>2 DEF AbsOwner
  <2>7. AbsAsked' = AbsAsked /\ AbsInbox' = AbsInbox /\ got' = got
    BY <2>1 DEF AbsAsked, AbsInbox
  <2> QED
    BY <1>4, <2>2, <2>5, <2>6, <2>7 DEF Abs!Reserve, Abs!Ids, Ids, AbsAsked, AbsOwner, AbsInbox
<1>5. ASSUME NEW i \in Ids, NEW r \in Replies, Send(i, r)
      PROVE  Abs!Deliver(states[i], i, r) /\ states[i] \in Calls
  <2> DEFINE c == states[i]
  <2>1. /\ c \in Calls /\ mutex = NoCall /\ chan[c] = <<>> /\ Matches(c, r)
        /\ chan' = [chan EXCEPT ![c] = <<r>>]
        /\ UNCHANGED <<peer, svc, got, states, closed>>
    BY <1>0, <1>5 DEF Send, callVars
  <2>2. ~closed[c]
    BY <1>0, <1>5, <2>1 DEF Send, IInv, StatesFollowOwners, Mapped, ClosedOK, MutexOK
  <2>3. AbsOwner[i] = c /\ AbsInbox[c] = <<>>
    BY <1>0, <2>1, <2>2 DEF AbsOwner, AbsInbox
  <2>4. AbsInbox' = [AbsInbox EXCEPT ![c] = <<r>>]
    BY <1>0, <2>1, <2>2 DEF AbsInbox
  <2>5. AbsAsked' = AbsAsked /\ AbsOwner' = AbsOwner
    BY <2>1 DEF AbsAsked, AbsOwner
  <2>6. r.src = AbsAsked[c].src /\ r.svc \in {NoService, AbsAsked[c].svc}
    BY <2>1 DEF AbsAsked, Matches
  <2> QED
    BY <2>1, <2>3, <2>4, <2>5, <2>6 DEF Abs!Deliver, AbsAsked, AbsOwner, AbsInbox
<1>6. ASSUME NEW c \in Calls, NEW i \in Ids, i = id[c], ReceiveData(c) PROVE Abs!Read(c, i)
  <2>1. /\ pc[c] = "receiving" /\ chan[c] # <<>>
        /\ got' = [got EXCEPT ![c] = [kind |-> "reply", body |-> chan[c]]]
        /\ chan' = [chan EXCEPT ![c] = <<>>]
        /\ UNCHANGED <<peer, svc, states, closed>>
    BY <1>0, <1>6, OwnObject DEF ReceiveData, Goto
  <2>2. /\ id[c] \in Ids /\ AbsOwner[id[c]] = c /\ AbsInbox[c] = chan[c] /\ ~closed[c]
    BY <1>0, <2>1, AbsOwns
  <2>3. AbsInbox' = [AbsInbox EXCEPT ![c] = <<>>]
    BY <1>0, <2>1, <2>2 DEF AbsInbox
  <2>4. AbsAsked' = AbsAsked /\ AbsOwner' = AbsOwner
    BY <2>1 DEF AbsAsked, AbsOwner
  <2> QED
    BY <1>6, <2>1, <2>2, <2>3, <2>4 DEF Abs!Read, Abs!Outcome, AbsAsked, AbsOwner, AbsInbox
<1>7. ASSUME NEW c \in Calls, NEW i \in Ids, i = id[c], ReceiveTimeout(c) PROVE Abs!Expire(c, i)
  <2>1. /\ pc[c] = "receiving" /\ got' = [got EXCEPT ![c] = Without("timeout")]
        /\ UNCHANGED <<peer, svc, states, closed, chan>>
    BY <1>7 DEF ReceiveTimeout, Goto, objVars
  <2>2. id[c] \in Ids /\ AbsOwner[id[c]] = c
    BY <1>0, <2>1, AbsOwns
  <2>3. AbsAsked' = AbsAsked /\ AbsOwner' = AbsOwner /\ AbsInbox' = AbsInbox
    BY <2>1 DEF AbsAsked, AbsOwner, AbsInbox
  <2> QED
    BY <1>7, <2>1, <2>2, <2>3 DEF Abs!Expire, Abs!Outcome, Without, AbsAsked, AbsOwner, AbsInbox
<1>8. ASSUME NEW c \in Calls, NEW i \in Ids, i = id[c], PutClose(c) PROVE Abs!Release(c, i)
  <2>1. /\ pc[c] = "registered" /\ closed' = [closed EXCEPT ![c] = TRUE]
        /\ UNCHANGED <<peer, svc, states, chan, got>>
    BY <1>0, <1>8, OwnObject DEF Goto
  <2>2. /\ id[c] \in Ids /\ AbsOwner[id[c]] = c /\ states[id[c]] = c
        /\ \A j \in Ids : states[j] = c => j = id[c]
    BY <1>0, <2>1, AbsOwns
  <2>3. AbsOwner' = [AbsOwner EXCEPT ![id[c]] = NoCall]
    BY <1>0, <2>1, <2>2 DEF AbsOwner
  <2>4. AbsInbox' = [AbsInbox EXCEPT ![c] = <<>>]
    BY <1>0, <2>1 DEF AbsInbox
  <2>5. AbsAsked' = AbsAsked /\ got' = got
    BY <2>1 DEF AbsAsked
  <2> QED
    BY <1>8, <2>2, <2>3, <2>4, <2>5 DEF Abs!Release, AbsAsked, AbsOwner, AbsInbox
<1>9. ASSUME NEW c \in Calls, PutDelete(c) PROVE UNCHANGED Abs!vars
  <2>1. /\ pc[c] = "putDelete" /\ states' = [states EXCEPT ![id[c]] = NoCall]
        /\ UNCHANGED <<peer, svc, closed, chan, got>>
    BY <1>9 DEF PutDelete, Goto, objVars
  <2>2. c \in Mapped /\ closed[c]
    BY <1>0, <2>1 DEF IInv, Mapped, ClosedOK, InPut
  <2>3. states[id[c]] = c
    BY <1>0, <2>2 DEF IInv, StatesFollowOwners
  <2>4. AbsOwner' = AbsOwner
    BY <1>0, <2>1, <2>2, <2>3 DEF AbsOwner
  <2> QED
    BY <1>1, <2>1, <2>4 DEF AbsAsked, AbsInbox
<1>10. UNCHANGED vars => UNCHANGED Abs!vars
  BY <1>2 DEF vars, callVars, objVars
<1>11. ASSUME NEW c \in Calls,
              \/ TakeSpace(c) \/ SpaceTimeout(c) \/ TakeId(c) \/ IdTimeout(c) \/ Register(c)
              \/ Lookup(c) \/ ReceiveData(c) \/ ReceiveTimeout(c)
              \/ PutClose(c) \/ PutId(c) \/ PutSpace(c) \/ PutDelete(c)
       PROVE  Abs!Next \/ UNCHANGED Abs!vars
  <2>1. CASE Register(c)
    <3>1. PICK i \in Ids : i = id[c]
      BY <2>1 DEF Register, Goto, IInv, TypeInv, PhaseOK, Numbered
    <3> QED
      BY <1>4, <2>1, <3>1, AbsNext
  <2>2. CASE ReceiveData(c)
    <3>1. PICK i \in Ids : i = id[c]
      BY <2>2 DEF ReceiveData, Goto, IInv, TypeInv, PhaseOK, Numbered
    <3> QED
      BY <1>6, <2>2, <3>1, AbsNext
  <2>3. CASE ReceiveTimeout(c)
    <3>1. PICK i \in Ids : i = id[c]
      BY <2>3 DEF ReceiveTimeout, Goto, IInv, TypeInv, PhaseOK, Numbered
    <3> QED
      BY <1>7, <2>3, <3>1, AbsNext
  <2>4. CASE PutClose(c)
    <3>1. PICK i \in Ids : i = id[c]
      BY <2>4 DEF PutClose, Goto, IInv, TypeInv, PhaseOK, Numbered
    <3> QED
      BY <1>8, <2>4, <3>1, AbsNext
  <2> QED
    BY <1>3, <1>9, <1>11, <2>1, <2>2, <2>3, <2>4
<1>12. ASSUME NEW i \in Ids, NEW r \in Replies, Send(i, r) PROVE Abs!Next
  BY <1>5, <1>12, AbsNext
<1> QED
  BY <1>10, <1>11, <1>12, NextCases

(* The manager keeps every promise of Transactions.                        *)
THEOREM Refinement == Spec => ImplementsTransactions
BY AbsInit, AbsStep, Inductive, PTL DEF Spec, ImplementsTransactions, Abs!Spec
=============================================================================
