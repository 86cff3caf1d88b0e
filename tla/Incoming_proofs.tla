------------------------- MODULE Incoming_proofs -------------------------
(***************************************************************************)
(* Theorems about what comes in: the receive path, for any number of       *)
(* loops, packets and buffers, and the subscriptions that its handlers     *)
(* publish to, for any number of subscribers, messages and ids, any ranges *)
(* and any timeouts.                                                       *)
(***************************************************************************)
EXTENDS Receiver, UTSM, FiniteSetTheorems, SequenceTheorems, TLAPS

(***************************************************************************)
(* THE RECEIVE PATH                                                        *)
(***************************************************************************)

----------------------------------------------------------------------------
(* Type correctness                                                        *)

LEMMA ReceiveTypeInit == ReceiveInit => ReceiveTypeOK
<1> SUFFICES ASSUME ReceiveInit PROVE ReceiveTypeOK
  OBVIOUS
<1>1. payload \in [Packets -> [buf : Buffers \cup {NoBuffer}, value : Packets \cup {Nothing}]]
  BY DEF ReceiveInit, NoPayload
<1>2. pool \in [Buffers -> Nat] /\ content \in [Buffers -> Packets \cup {Nothing}]
  BY DEF ReceiveInit
<1> QED
  BY <1>1, <1>2 DEF ReceiveInit, ReceiveTypeOK, LoopPhases, HandlerPhases, ClosePhases, Results

LEMMA ReceiveTypeStep == ReceiveTypeOK /\ [ReceiveNext]_receiveVars => ReceiveTypeOK'
<1> SUFFICES ASSUME ReceiveTypeOK, [ReceiveNext]_receiveVars PROVE ReceiveTypeOK'
  OBVIOUS
<1> USE ReceiverAssumption
        DEF ReceiveTypeOK, LoopPhases, HandlerPhases, ClosePhases, Results, LoopGoto, PutBuffer,
            GiveUpBuffer, loopVars, poolVars, handlerVars, closeVars
<1>1. ASSUME NEW l \in Loops, Start(l) \/ EndAtTop(l) \/ ReadFails(l) \/ ReadClosed(l)
      PROVE ReceiveTypeOK'
  BY <1>1 DEF Start, EndAtTop, ReadFails, ReadClosed
<1>2. ASSUME NEW l \in Loops, NEW b \in Buffers, GetBuffer(l, b) PROVE ReceiveTypeOK'
  <2>1. pool' \in [Buffers -> Nat] /\ allocated' \subseteq Buffers
    BY <1>2 DEF GetBuffer
  <2> QED
    BY <1>2, <2>1 DEF GetBuffer
<1>3. ASSUME NEW l \in Loops, NEW p \in Packets, ReadPacket(l, p) PROVE ReceiveTypeOK'
  BY <1>3 DEF ReadPacket
<1>4. ASSUME NEW l \in Loops, EndClosed(l) \/ EndOfFile(l) \/ ReadError(l) PROVE ReceiveTypeOK'
  <2>1. lbuf[l] \in Buffers
    BY <1>4 DEF EndClosed, EndOfFile, ReadError
  <2>2. pool' \in [Buffers -> Nat]
    BY <1>4, <2>1 DEF EndClosed, EndOfFile, ReadError
  <2>3. /\ lpc' = [lpc EXCEPT ![l] = "returned"] \/ lpc' = [lpc EXCEPT ![l] = "top"]
        /\ lbuf' = [lbuf EXCEPT ![l] = NoBuffer]
        /\ got' = [got EXCEPT ![l] = "none"]
        /\ UNCHANGED <<allocated, content, hpc, hbuf, payload, closed, open, cpc>>
    BY <1>4 DEF EndClosed, EndOfFile, ReadError
  <2> QED
    BY <2>2, <2>3
<1>5. ASSUME NEW l \in Loops, StartHandler(l) PROVE ReceiveTypeOK'
  BY <1>5 DEF StartHandler
<1>6. ASSUME NEW p \in Packets, Decode(p) PROVE ReceiveTypeOK'
  BY <1>6 DEF Decode
<1>7. ASSUME NEW p \in Packets, DeliverPayload(p) PROVE ReceiveTypeOK'
  BY <1>7 DEF DeliverPayload
<1>8. ASSUME NEW p \in Packets, HandlerEnds(p) PROVE ReceiveTypeOK'
  BY <1>8 DEF HandlerEnds
<1>9. ASSUME CallClose \/ CloseLogs \/ Closing \/ LinkClosedByOwner PROVE ReceiveTypeOK'
  BY <1>9 DEF CallClose, CloseLogs, Closing, SetClosed, CloseLink, LinkClosedByOwner
<1>10. ASSUME UNCHANGED receiveVars PROVE ReceiveTypeOK'
  BY <1>10 DEF receiveVars
<1> QED
  BY <1>1, <1>2, <1>3, <1>4, <1>5, <1>6, <1>7, <1>8, <1>9, <1>10
  DEF ReceiveNext, Run, Handle, ReceiveFinished

(* A loop has a buffer while it reads, a handler until it ends.            *)
THEOREM ReceiveTypes == ReceiveSpec => []ReceiveTypeOK
BY ReceiveTypeInit, ReceiveTypeStep, PTL DEF ReceiveSpec

----------------------------------------------------------------------------
(* The invariant                                                           *)

(* A buffer that is with a loop or a handler is with nobody else and not   *)
(* in the pool; one that was never made is nowhere.                        *)
Exclusive ==
  /\ \A l, k \in Loops : lbuf[l] # NoBuffer /\ lbuf[l] = lbuf[k] => l = k
  /\ \A p, q \in Packets : hbuf[p] # NoBuffer /\ hbuf[p] = hbuf[q] => p = q
  /\ \A l \in Loops, p \in Packets : lbuf[l] # NoBuffer => lbuf[l] # hbuf[p]
  /\ \A l \in Loops : lbuf[l] # NoBuffer => pool[lbuf[l]] = 0 /\ lbuf[l] \in allocated
  /\ \A p \in Packets : hbuf[p] # NoBuffer => pool[hbuf[p]] = 0 /\ hbuf[p] \in allocated
  /\ \A b \in Buffers : pool[b] <= 1 /\ (pool[b] = 1 => b \in allocated)

(* A packet that a loop has read is in the loop's buffer, is not foreign,  *)
(* and no other loop and no handler has it.                                *)
GotOK ==
  /\ \A l \in Loops : got[l] \in Packets =>
       /\ lpc[l] = "check"
       /\ hpc[got[l]] = "read"
       /\ content[lbuf[l]] = got[l]
       /\ got[l] \notin Foreign
  /\ \A l, k \in Loops : got[l] \in Packets /\ got[l] = got[k] => l = k

(* What was handed on is a copy, of the packet it was handed on for.       *)
Copies ==
  \A p \in Packets : /\ payload[p].buf = NoBuffer
                     /\ payload[p].value \in {Nothing, p}

(* A buffer that was made is somewhere.                                    *)
NotLost ==
  \A b \in allocated : \/ pool[b] = 1
                      \/ \E l \in Loops : lbuf[l] = b
                      \/ \E p \in Packets : hbuf[p] = b

ReceiveInv == ReceiveTypeOK /\ Exclusive /\ NotLost /\ GotOK /\ HandlersKeepTheirPacket /\ Copies

LEMMA IInvInit == ReceiveInit => ReceiveInv
BY ReceiveTypeInit, ReceiverAssumption
DEF ReceiveInit, ReceiveInv, Exclusive, NotLost, GotOK, HandlersKeepTheirPacket, Copies, NoPayload

LEMMA ExclusiveStep == ReceiveInv /\ [ReceiveNext]_receiveVars => Exclusive'
<1> SUFFICES ASSUME ReceiveInv, [ReceiveNext]_receiveVars PROVE Exclusive'
  OBVIOUS
<1> USE ReceiverAssumption
<1>0. ReceiveTypeOK /\ Exclusive /\ GotOK
  BY DEF ReceiveInv
<1>1. ASSUME UNCHANGED <<lbuf, hbuf, pool, allocated>> PROVE Exclusive'
  BY <1>0, <1>1 DEF Exclusive
<1>2. ASSUME NEW l \in Loops, NEW b \in Buffers, GetBuffer(l, b) PROVE Exclusive'
  <2>1. /\ lbuf' = [lbuf EXCEPT ![l] = b]
        /\ UNCHANGED hbuf
    BY <1>2 DEF GetBuffer, handlerVars
  <2>2. b \in allocated => pool[b] > 0
    <3>1. CASE pool[b] > 0
      BY <3>1
    <3>2. CASE allocated # Buffers /\ b = CHOOSE new \in Buffers \ allocated : TRUE
      <4>1. \E new \in Buffers : new \notin allocated
        BY <1>0, <3>2 DEF ReceiveTypeOK
      <4> QED
        BY <4>1, <3>2
    <3> QED
      BY <1>2, <3>1, <3>2 DEF GetBuffer
  <2>3. \A k \in Loops : lbuf[k] # b
    BY <1>0, <2>2 DEF Exclusive, ReceiveTypeOK
  <2>4. \A p \in Packets : hbuf[p] # b
    BY <1>0, <2>2 DEF Exclusive, ReceiveTypeOK
  <2>5. CASE pool[b] > 0 /\ pool' = [pool EXCEPT ![b] = @ - 1] /\ UNCHANGED allocated
    <3>1. pool[b] = 1 /\ b \in allocated
      BY <1>0, <2>5 DEF Exclusive, ReceiveTypeOK
    <3>2. pool'[b] = 0 /\ \A d \in Buffers \ {b} : pool'[d] = pool[d]
      BY <1>0, <2>5, <3>1 DEF ReceiveTypeOK
    <3> QED
      BY <1>0, <2>1, <2>3, <2>4, <2>5, <3>1, <3>2 DEF Exclusive, ReceiveTypeOK
  <2>6. CASE b \notin allocated /\ allocated' = allocated \cup {b} /\ UNCHANGED pool
    <3>1. pool[b] = 0
      BY <1>0, <2>6 DEF Exclusive, ReceiveTypeOK
    <3> QED
      BY <1>0, <2>1, <2>3, <2>4, <2>6, <3>1 DEF Exclusive, ReceiveTypeOK
  <2>7. ASSUME allocated # Buffers, b = CHOOSE new \in Buffers \ allocated : TRUE
        PROVE b \notin allocated
    BY <1>0, <2>7 DEF ReceiveTypeOK
  <2> QED
    BY <1>2, <2>5, <2>6, <2>7 DEF GetBuffer
<1>3. ASSUME NEW l \in Loops, EndClosed(l) \/ EndOfFile(l) \/ ReadError(l) PROVE Exclusive'
  <2>1. /\ lbuf' = [lbuf EXCEPT ![l] = NoBuffer]
        /\ pool' = [pool EXCEPT ![lbuf[l]] = @ + 1]
        /\ UNCHANGED <<hbuf, allocated>>
        /\ lbuf[l] \in Buffers
    BY <1>0, <1>3 DEF EndClosed, EndOfFile, ReadError, LoopGoto, GiveUpBuffer, PutBuffer, handlerVars, ReceiveTypeOK
  <2>2. /\ pool[lbuf[l]] = 0 /\ lbuf[l] \in allocated
        /\ pool'[lbuf[l]] = 1 /\ \A d \in Buffers \ {lbuf[l]} : pool'[d] = pool[d]
    BY <1>0, <2>1 DEF Exclusive, ReceiveTypeOK
  <2> QED
    BY <1>0, <2>1, <2>2 DEF Exclusive, ReceiveTypeOK
<1>4. ASSUME NEW l \in Loops, StartHandler(l) PROVE Exclusive'
  <2>1. /\ lbuf' = [lbuf EXCEPT ![l] = NoBuffer]
        /\ hbuf' = [hbuf EXCEPT ![got[l]] = lbuf[l]]
        /\ UNCHANGED <<pool, allocated>>
        /\ lbuf[l] \in Buffers /\ got[l] \in Packets
    BY <1>0, <1>4 DEF StartHandler, LoopGoto, poolVars, ReceiveTypeOK
  <2> QED
    BY <1>0, <2>1 DEF Exclusive, ReceiveTypeOK
<1>5. ASSUME NEW p \in Packets, HandlerEnds(p) PROVE Exclusive'
  <2>1. /\ hbuf' = [hbuf EXCEPT ![p] = NoBuffer]
        /\ pool' = [pool EXCEPT ![hbuf[p]] = @ + 1]
        /\ UNCHANGED <<lbuf, allocated>>
        /\ hbuf[p] \in Buffers
    BY <1>0, <1>5 DEF HandlerEnds, PutBuffer, loopVars, ReceiveTypeOK
  <2>2. /\ pool[hbuf[p]] = 0 /\ hbuf[p] \in allocated
        /\ pool'[hbuf[p]] = 1 /\ \A d \in Buffers \ {hbuf[p]} : pool'[d] = pool[d]
    BY <1>0, <2>1 DEF Exclusive, ReceiveTypeOK
  <2> QED
    BY <1>0, <2>1, <2>2 DEF Exclusive, ReceiveTypeOK
<1>6. ASSUME NEW l \in Loops,
             \/ Start(l) \/ EndAtTop(l) \/ ReadFails(l) \/ ReadClosed(l)
             \/ \E p \in Packets : ReadPacket(l, p)
      PROVE Exclusive'
  BY <1>1, <1>6
  DEF Start, EndAtTop, ReadFails, ReadClosed, ReadPacket, poolVars, handlerVars
<1>7. ASSUME \/ \E p \in Packets : Decode(p) \/ DeliverPayload(p)
             \/ CallClose \/ CloseLogs \/ Closing \/ LinkClosedByOwner \/ UNCHANGED receiveVars
      PROVE Exclusive'
  BY <1>1, <1>7
  DEF Decode, DeliverPayload, CallClose, CloseLogs, Closing, SetClosed, CloseLink,
      LinkClosedByOwner, receiveVars, loopVars,
      poolVars, handlerVars
<1> QED
  BY <1>2, <1>3, <1>4, <1>5, <1>6, <1>7 DEF ReceiveNext, Run, Handle, ReceiveFinished

LEMMA NotLostStep == ReceiveInv /\ [ReceiveNext]_receiveVars => NotLost'
<1> SUFFICES ASSUME ReceiveInv, [ReceiveNext]_receiveVars PROVE NotLost'
  OBVIOUS
<1> USE ReceiverAssumption
<1>0. ReceiveTypeOK /\ Exclusive /\ NotLost /\ GotOK
  BY DEF ReceiveInv
<1>1. ASSUME UNCHANGED <<lbuf, hbuf, pool, allocated>> PROVE NotLost'
  BY <1>0, <1>1 DEF NotLost
<1>2. ASSUME NEW l \in Loops, NEW b \in Buffers, GetBuffer(l, b) PROVE NotLost'
  <2>1. /\ lbuf[l] = NoBuffer /\ lbuf' = [lbuf EXCEPT ![l] = b]
        /\ \A d \in Buffers \ {b} : pool'[d] = pool[d] /\ (d \in allocated' <=> d \in allocated)
        /\ UNCHANGED hbuf
    BY <1>0, <1>2 DEF GetBuffer, LoopGoto, handlerVars, ReceiveTypeOK
  <2>2. ASSUME NEW d \in allocated', d # b
        PROVE \/ pool'[d] = 1
              \/ \E k \in Loops : lbuf'[k] = d
              \/ \E p \in Packets : hbuf'[p] = d
    <3>1. d \in Buffers /\ d \in allocated /\ pool'[d] = pool[d]
      BY <1>0, <1>2, <2>1, <2>2 DEF GetBuffer, ReceiveTypeOK
    <3>2. \A k \in Loops : lbuf[k] = d => lbuf'[k] = d
      BY <1>0, <2>1, <3>1 DEF ReceiveTypeOK
    <3> QED
      BY <1>0, <2>1, <3>1, <3>2 DEF NotLost
  <2>3. lbuf'[l] = b
    BY <1>0, <2>1 DEF ReceiveTypeOK
  <2> QED
    BY <2>2, <2>3 DEF NotLost
<1>3. ASSUME NEW l \in Loops, EndClosed(l) \/ EndOfFile(l) \/ ReadError(l) PROVE NotLost'
  <2>1. /\ lbuf' = [lbuf EXCEPT ![l] = NoBuffer]
        /\ pool' = [pool EXCEPT ![lbuf[l]] = @ + 1]
        /\ UNCHANGED <<hbuf, allocated>>
        /\ lbuf[l] \in Buffers
    BY <1>0, <1>3 DEF EndClosed, EndOfFile, ReadError, LoopGoto, GiveUpBuffer, PutBuffer, handlerVars, ReceiveTypeOK
  <2>2. pool'[lbuf[l]] = 1 /\ \A d \in Buffers \ {lbuf[l]} : pool'[d] = pool[d]
    BY <1>0, <2>1 DEF Exclusive, ReceiveTypeOK
  <2>3. \A k \in Loops : lbuf[k] # lbuf[l] => lbuf'[k] = lbuf[k]
    BY <1>0, <2>1 DEF ReceiveTypeOK
  <2> QED
    BY <1>0, <2>1, <2>2, <2>3 DEF NotLost, ReceiveTypeOK
<1>4. ASSUME NEW l \in Loops, StartHandler(l) PROVE NotLost'
  <2>1. /\ lbuf' = [lbuf EXCEPT ![l] = NoBuffer]
        /\ hbuf' = [hbuf EXCEPT ![got[l]] = lbuf[l]]
        /\ UNCHANGED <<pool, allocated>>
        /\ got[l] \in Packets /\ hbuf[got[l]] = NoBuffer
    BY <1>0, <1>4 DEF StartHandler, LoopGoto, poolVars, GotOK, ReceiveTypeOK
  <2>2. hbuf'[got[l]] = lbuf[l] /\ \A p \in Packets \ {got[l]} : hbuf'[p] = hbuf[p]
    BY <1>0, <2>1 DEF ReceiveTypeOK
  <2>3. \A k \in Loops : lbuf[k] # lbuf[l] => lbuf'[k] = lbuf[k]
    BY <1>0, <2>1 DEF ReceiveTypeOK
  <2> QED
    BY <1>0, <2>1, <2>2, <2>3 DEF NotLost, ReceiveTypeOK
<1>5. ASSUME NEW p \in Packets, HandlerEnds(p) PROVE NotLost'
  <2>1. /\ hbuf' = [hbuf EXCEPT ![p] = NoBuffer]
        /\ pool' = [pool EXCEPT ![hbuf[p]] = @ + 1]
        /\ UNCHANGED <<lbuf, allocated>>
        /\ hbuf[p] \in Buffers
    BY <1>0, <1>5 DEF HandlerEnds, PutBuffer, loopVars, ReceiveTypeOK
  <2>2. pool'[hbuf[p]] = 1 /\ \A d \in Buffers \ {hbuf[p]} : pool'[d] = pool[d]
    BY <1>0, <2>1 DEF Exclusive, ReceiveTypeOK
  <2>3. \A q \in Packets : hbuf[q] # hbuf[p] => hbuf'[q] = hbuf[q]
    BY <1>0, <2>1 DEF ReceiveTypeOK
  <2> QED
    BY <1>0, <2>1, <2>2, <2>3 DEF NotLost, ReceiveTypeOK
<1>6. ASSUME NEW l \in Loops,
             \/ Start(l) \/ EndAtTop(l) \/ ReadFails(l) \/ ReadClosed(l)
             \/ \E p \in Packets : ReadPacket(l, p)
      PROVE NotLost'
  BY <1>1, <1>6
  DEF Start, EndAtTop, ReadFails, ReadClosed, ReadPacket, poolVars, handlerVars
<1>7. ASSUME \/ \E p \in Packets : Decode(p) \/ DeliverPayload(p)
             \/ CallClose \/ CloseLogs \/ Closing \/ LinkClosedByOwner \/ UNCHANGED receiveVars
      PROVE NotLost'
  BY <1>1, <1>7
  DEF Decode, DeliverPayload, CallClose, CloseLogs, Closing, SetClosed, CloseLink,
      LinkClosedByOwner, receiveVars, loopVars, poolVars, handlerVars
<1> QED
  BY <1>2, <1>3, <1>4, <1>5, <1>6, <1>7 DEF ReceiveNext, Run, Handle, ReceiveFinished

LEMMA GotStep == ReceiveInv /\ [ReceiveNext]_receiveVars => GotOK'
<1> SUFFICES ASSUME ReceiveInv, [ReceiveNext]_receiveVars PROVE GotOK'
  OBVIOUS
<1> USE ReceiverAssumption
<1>0. ReceiveTypeOK /\ Exclusive /\ GotOK
  BY DEF ReceiveInv
<1>1. ASSUME NEW l \in Loops, Start(l) \/ EndAtTop(l) PROVE GotOK'
  BY <1>0, <1>1 DEF Start, EndAtTop, LoopGoto, poolVars, handlerVars, GotOK, ReceiveTypeOK
<1>2. ASSUME NEW l \in Loops, NEW b \in Buffers, GetBuffer(l, b) PROVE GotOK'
  BY <1>0, <1>2 DEF GetBuffer, LoopGoto, handlerVars, GotOK, ReceiveTypeOK
<1>3. ASSUME NEW l \in Loops, NEW p \in Packets, ReadPacket(l, p) PROVE GotOK'
  <2>1. /\ lpc' = [lpc EXCEPT ![l] = "check"]
        /\ hpc[p] = "net" /\ hpc' = [hpc EXCEPT ![p] = "read"]
        /\ content' = [content EXCEPT ![lbuf[l]] = p]
        /\ got' = [got EXCEPT ![l] = IF p \in Foreign THEN "error" ELSE p]
        /\ UNCHANGED lbuf
        /\ lpc[l] = "receive" /\ lbuf[l] \in Buffers
    BY <1>0, <1>3 DEF ReadPacket, LoopGoto, ReceiveTypeOK
  <2>2. \A k \in Loops : got[k] # p
    BY <1>0, <2>1 DEF GotOK
  <2>3. got'[l] \in Packets => got'[l] = p /\ p \notin Foreign
    BY <1>0, <2>1 DEF ReceiveTypeOK
  <2>4. \A k \in Loops \ {l} : got'[k] = got[k] /\ lpc'[k] = lpc[k]
    BY <1>0, <2>1 DEF ReceiveTypeOK
  <2>5. \A k \in Loops \ {l} : got[k] \in Packets => lbuf[k] # lbuf[l] /\ lbuf[k] \in Buffers
    BY <1>0, <2>1 DEF GotOK, Exclusive, ReceiveTypeOK
  <2>6. \A k \in Loops \ {l} : got[k] \in Packets =>
          content'[lbuf[k]] = got[k] /\ hpc'[got[k]] = "read" /\ lpc[k] = "check" /\ got[k] \notin Foreign
    BY <1>0, <2>1, <2>2, <2>5 DEF GotOK, ReceiveTypeOK
  <2>7. content'[lbuf[l]] = p /\ hpc'[p] = "read" /\ lpc'[l] = "check"
    BY <1>0, <2>1 DEF ReceiveTypeOK
  <2> QED
    BY <1>0, <2>1, <2>2, <2>3, <2>4, <2>6, <2>7 DEF GotOK
<1>4. ASSUME NEW l \in Loops, ReadFails(l) \/ ReadClosed(l) PROVE GotOK'
  BY <1>0, <1>4 DEF ReadFails, ReadClosed, LoopGoto, poolVars, handlerVars, GotOK, ReceiveTypeOK
<1>5. ASSUME NEW l \in Loops, EndClosed(l) \/ EndOfFile(l) \/ ReadError(l) PROVE GotOK'
  <2>1. /\ lpc' = [lpc EXCEPT ![l] = "returned"] \/ lpc' = [lpc EXCEPT ![l] = "top"]
        /\ lbuf' = [lbuf EXCEPT ![l] = NoBuffer]
        /\ got' = [got EXCEPT ![l] = "none"]
        /\ UNCHANGED <<content, hpc>>
    BY <1>5 DEF EndClosed, EndOfFile, ReadError, LoopGoto, GiveUpBuffer, handlerVars
  <2> QED
    BY <1>0, <2>1 DEF GotOK, ReceiveTypeOK
<1>6. ASSUME NEW l \in Loops, StartHandler(l) PROVE GotOK'
  <2>1. /\ lpc' = [lpc EXCEPT ![l] = "top"]
        /\ lbuf' = [lbuf EXCEPT ![l] = NoBuffer]
        /\ got' = [got EXCEPT ![l] = "none"]
        /\ got[l] \in Packets /\ hpc' = [hpc EXCEPT ![got[l]] = "decode"]
        /\ UNCHANGED content
    BY <1>6 DEF StartHandler, LoopGoto, poolVars
  <2> QED
    BY <1>0, <2>1 DEF GotOK, ReceiveTypeOK
<1>7. ASSUME NEW p \in Packets, Decode(p) \/ DeliverPayload(p) \/ HandlerEnds(p) PROVE GotOK'
  <2>1. /\ hpc[p] # "read"
        /\ \A q \in Packets \ {p} : hpc'[q] = hpc[q]
        /\ UNCHANGED <<lpc, lbuf, got, content>>
    BY <1>0, <1>7 DEF Decode, DeliverPayload, HandlerEnds, loopVars, poolVars, ReceiveTypeOK
  <2> QED
    BY <1>0, <2>1 DEF GotOK
<1>8. ASSUME CallClose \/ CloseLogs \/ Closing \/ LinkClosedByOwner \/ UNCHANGED receiveVars PROVE GotOK'
  BY <1>0, <1>8
  DEF CallClose, CloseLogs, Closing, SetClosed, CloseLink,
      LinkClosedByOwner, receiveVars, loopVars, poolVars,
      handlerVars, GotOK
<1> QED
  BY <1>1, <1>2, <1>3, <1>4, <1>5, <1>6, <1>7, <1>8 DEF ReceiveNext, Run, Handle, ReceiveFinished

LEMMA HandlersStep == ReceiveInv /\ [ReceiveNext]_receiveVars => HandlersKeepTheirPacket'
<1> SUFFICES ASSUME ReceiveInv, [ReceiveNext]_receiveVars PROVE HandlersKeepTheirPacket'
  OBVIOUS
<1> USE ReceiverAssumption
<1>0. ReceiveTypeOK /\ Exclusive /\ GotOK /\ HandlersKeepTheirPacket
  BY DEF ReceiveInv
<1>1. ASSUME UNCHANGED <<hpc, hbuf, content>> PROVE HandlersKeepTheirPacket'
  BY <1>0, <1>1 DEF HandlersKeepTheirPacket
<1>2. ASSUME NEW l \in Loops, NEW p \in Packets, ReadPacket(l, p)
      PROVE HandlersKeepTheirPacket'
  <2>1. /\ hpc' = [hpc EXCEPT ![p] = "read"]
        /\ content' = [content EXCEPT ![lbuf[l]] = p]
        /\ UNCHANGED hbuf
        /\ lbuf[l] \in Buffers
    BY <1>0, <1>2 DEF ReadPacket, LoopGoto, ReceiveTypeOK
  <2>2. \A q \in Packets : lbuf[l] # hbuf[q]
    BY <1>0, <2>1 DEF Exclusive
  <2> QED
    BY <1>0, <2>1, <2>2 DEF HandlersKeepTheirPacket, ReceiveTypeOK
<1>3. ASSUME NEW l \in Loops, StartHandler(l) PROVE HandlersKeepTheirPacket'
  <2>1. /\ got[l] \in Packets
        /\ hpc' = [hpc EXCEPT ![got[l]] = "decode"]
        /\ hbuf' = [hbuf EXCEPT ![got[l]] = lbuf[l]]
        /\ UNCHANGED content
    BY <1>3 DEF StartHandler, poolVars
  <2>2. content[lbuf[l]] = got[l] /\ got[l] \notin Foreign
    BY <1>0, <2>1 DEF GotOK
  <2> QED
    BY <1>0, <2>1, <2>2 DEF HandlersKeepTheirPacket, ReceiveTypeOK
<1>4. ASSUME NEW p \in Packets, Decode(p) \/ DeliverPayload(p) PROVE HandlersKeepTheirPacket'
  BY <1>0, <1>4 DEF Decode, DeliverPayload, poolVars, HandlersKeepTheirPacket, ReceiveTypeOK
<1>5. ASSUME NEW p \in Packets, HandlerEnds(p) PROVE HandlersKeepTheirPacket'
  BY <1>0, <1>5 DEF HandlerEnds, HandlersKeepTheirPacket, ReceiveTypeOK
<1>6. ASSUME NEW l \in Loops,
             \/ Start(l) \/ EndAtTop(l) \/ ReadFails(l) \/ ReadClosed(l)
             \/ EndClosed(l) \/ EndOfFile(l) \/ ReadError(l)
             \/ \E b \in Buffers : GetBuffer(l, b)
      PROVE HandlersKeepTheirPacket'
  BY <1>1, <1>6
  DEF Start, EndAtTop, ReadFails, ReadClosed, EndClosed, EndOfFile, ReadError, GetBuffer,
      poolVars, handlerVars
<1>7. ASSUME CallClose \/ CloseLogs \/ Closing \/ LinkClosedByOwner \/ UNCHANGED receiveVars
      PROVE HandlersKeepTheirPacket'
  BY <1>1, <1>7
  DEF CallClose, CloseLogs, Closing, SetClosed, CloseLink,
      LinkClosedByOwner, receiveVars, poolVars, handlerVars
<1> QED
  BY <1>2, <1>3, <1>4, <1>5, <1>6, <1>7 DEF ReceiveNext, Run, Handle, ReceiveFinished

LEMMA CopiesStep == ReceiveInv /\ [ReceiveNext]_receiveVars => Copies'
<1> SUFFICES ASSUME ReceiveInv, [ReceiveNext]_receiveVars PROVE Copies'
  OBVIOUS
<1>0. ReceiveTypeOK /\ HandlersKeepTheirPacket /\ Copies
  BY DEF ReceiveInv
<1>1. ASSUME NEW p \in Packets, DeliverPayload(p) PROVE Copies'
  <2>1. /\ payload' = [payload EXCEPT ![p] = [buf |-> NoBuffer, value |-> content[hbuf[p]]]]
        /\ content[hbuf[p]] = p
    BY <1>0, <1>1 DEF DeliverPayload, HandlersKeepTheirPacket
  <2> QED
    BY <1>0, <2>1 DEF Copies, ReceiveTypeOK
<1>2. ASSUME UNCHANGED payload PROVE Copies'
  BY <1>0, <1>2 DEF Copies
<1> QED
  BY <1>1, <1>2
  DEF ReceiveNext, Run, Handle, Closing, ReceiveFinished, Start, EndAtTop, GetBuffer, ReadPacket, ReadFails,
      ReadClosed, EndClosed, EndOfFile, ReadError, StartHandler, Decode, HandlerEnds, CallClose,
      CloseLogs, SetClosed, CloseLink, LinkClosedByOwner, receiveVars, handlerVars

LEMMA Inductive == ReceiveSpec => []ReceiveInv
<1>1. ReceiveInv /\ [ReceiveNext]_receiveVars => ReceiveInv'
  <2> SUFFICES ASSUME ReceiveInv, [ReceiveNext]_receiveVars PROVE ReceiveInv'
    OBVIOUS
  <2>1. ReceiveTypeOK'
    BY ReceiveTypeStep DEF ReceiveInv
  <2> QED
    BY <2>1, ExclusiveStep, NotLostStep, GotStep, HandlersStep, CopiesStep DEF ReceiveInv
<1> QED
  BY <1>1, IInvInit, PTL DEF ReceiveSpec

----------------------------------------------------------------------------
(* The theorems                                                            *)

(* How many of a set have a value of a function: none, or the only one.    *)
LEMMA CountNone ==
  ASSUME NEW S, NEW f, NEW b, \A x \in S : f[x] # b
  PROVE  Cardinality({x \in S : f[x] = b}) = 0
<1>1. {x \in S : f[x] = b} = {}
  OBVIOUS
<1> QED
  BY <1>1, FS_EmptySet

LEMMA CountOne ==
  ASSUME NEW S, NEW f, NEW b, NEW y \in S, f[y] = b, \A x \in S : f[x] = b => x = y
  PROVE  Cardinality({x \in S : f[x] = b}) = 1
<1>1. {x \in S : f[x] = b} = {y}
  OBVIOUS
<1> QED
  BY <1>1, FS_Singleton

(* Every buffer ever made is once in the pool, or with one loop, or with   *)
(* one handler: ClientRun and handleMsg lose none and give none to two.    *)
THEOREM BuffersKept == ReceiveSpec => []BuffersAccounted
<1>1. ReceiveInv => BuffersAccounted
  <2> SUFFICES ASSUME ReceiveInv, NEW b \in Buffers
               PROVE pool[b] + Cardinality({l \in Loops : lbuf[l] = b})
                             + Cardinality({p \in Packets : hbuf[p] = b})
                     = IF b \in allocated THEN 1 ELSE 0
    BY DEF BuffersAccounted
  <2>0. Exclusive /\ NotLost /\ pool[b] \in Nat /\ b # NoBuffer
    BY ReceiverAssumption DEF ReceiveInv, ReceiveTypeOK
  <2>1. CASE \E l \in Loops : lbuf[l] = b
    <3>1. PICK l \in Loops : lbuf[l] = b
      BY <2>1
    <3>2. pool[b] = 0 /\ b \in allocated
      BY <2>0, <3>1 DEF Exclusive
    <3>3. Cardinality({k \in Loops : lbuf[k] = b}) = 1
      BY <2>0, <3>1, CountOne DEF Exclusive
    <3>4. Cardinality({p \in Packets : hbuf[p] = b}) = 0
      BY <2>0, <3>1, CountNone DEF Exclusive
    <3> QED
      BY <3>2, <3>3, <3>4
  <2>2. CASE \E p \in Packets : hbuf[p] = b
    <3>1. PICK p \in Packets : hbuf[p] = b
      BY <2>2
    <3>2. pool[b] = 0 /\ b \in allocated
      BY <2>0, <3>1 DEF Exclusive
    <3>3. Cardinality({l \in Loops : lbuf[l] = b}) = 0
      BY <2>0, <3>1, CountNone DEF Exclusive
    <3>4. Cardinality({q \in Packets : hbuf[q] = b}) = 1
      BY <2>0, <3>1, CountOne DEF Exclusive
    <3> QED
      BY <3>2, <3>3, <3>4
  <2>3. CASE (\A l \in Loops : lbuf[l] # b) /\ \A p \in Packets : hbuf[p] # b
    <3>1. pool[b] = IF b \in allocated THEN 1 ELSE 0
      BY <2>0, <2>3 DEF Exclusive, NotLost
    <3>2. Cardinality({l \in Loops : lbuf[l] = b}) = 0
      BY <2>3, CountNone
    <3>3. Cardinality({p \in Packets : hbuf[p] = b}) = 0
      BY <2>3, CountNone
    <3> QED
      BY <3>1, <3>2, <3>3
  <2> QED
    BY <2>1, <2>2, <2>3
<1> QED
  BY <1>1, Inductive, PTL

(* No loop reads into the buffer a handler works on, and no packet of      *)
(* another socket is handled.                                              *)
THEOREM PacketsKept == ReceiveSpec => []HandlersKeepTheirPacket
<1>1. ReceiveInv => HandlersKeepTheirPacket
  BY DEF ReceiveInv
<1> QED
  BY <1>1, Inductive, PTL

(* What was handed on for a packet stays that packet's.                    *)
THEOREM PayloadsKept == ReceiveSpec => []PayloadsOutliveBuffers
<1>1. ReceiveInv => PayloadsOutliveBuffers
  <2> SUFFICES ASSUME ReceiveInv, NEW p \in Packets, payload[p] # NoPayload PROVE Seen(p) = p
    BY DEF PayloadsOutliveBuffers
  <2>1. payload[p] \in [buf : Buffers \cup {NoBuffer}, value : Packets \cup {Nothing}]
    BY DEF ReceiveInv, ReceiveTypeOK
  <2>2. payload[p].buf = NoBuffer /\ payload[p].value \in {Nothing, p}
    BY DEF ReceiveInv, Copies
  <2>3. payload[p] = [buf |-> NoBuffer, value |-> payload[p].value]
    BY <2>1, <2>2
  <2> QED
    BY <2>2, <2>3 DEF Seen, NoPayload
<1> QED
  BY <1>1, Inductive, PTL

(***************************************************************************)
(* SUBSCRIPTIONS                                                           *)
(***************************************************************************)

----------------------------------------------------------------------------
(* Type correctness                                                        *)

LEMMA TypeInit == Init => TypeOK
BY UTSMAssumption DEF Init, TypeOK, SubPhases, MsgPhases

(* A registration can be counted.                                          *)
LEMMA RankType ==
  Cardinality({t \in Subs : spc[t] # "new"}) + 1 \in Nat
<1>1. IsFiniteSet({t \in Subs : spc[t] # "new"})
  BY UTSMAssumption, FS_Subset
<1> QED
  BY <1>1, FS_CardinalityType

(* Timers stay between nothing and their timeout.                          *)
LEMMA TimeTypes ==
  /\ \A n \in Nat, k \in Nat : Left(n, k) \in 0..n
  /\ Idle \in Nat
  /\ \A n \in 0..Idle : Older(n) \in 0..Idle
BY UTSMAssumption DEF Left, Older

LEMMA TypeStep == TypeOK /\ [Next]_vars => TypeOK'
<1> SUFFICES ASSUME TypeOK, [Next]_vars PROVE TypeOK'
  OBVIOUS
<1> USE UTSMAssumption DEF TypeOK, callVars, subVars, msgVars, SubPhases, MsgPhases, Goto
<1>1. ASSUME NEW s \in Subs, Register(s) PROVE TypeOK'
  <2> DEFINE place == Cardinality({t \in Subs : spc[t] # "new"}) + 1
  <2>1. place \in Nat /\ 0 \in 0..Idle /\ Overall \in 0..Overall
    BY RankType, TimeTypes
  <2>2. rank' = [rank EXCEPT ![s] = place]
    BY <1>1 DEF Register
  <2>3. rank' \in [Subs -> Nat]
    BY <2>1, <2>2
  <2>4. /\ active' = active \cup {s}
        /\ age' = [age EXCEPT ![s] = 0]
        /\ UNCHANGED <<range, msgId, sent, data, done, store, idleLeft, mpc, dst, reached>>
    BY <1>1 DEF Register
  <2>5. \/ /\ spc' = [spc EXCEPT ![s] = "loop"]
           /\ overallLeft' = [overallLeft EXCEPT ![s] = Overall]
        \/ /\ spc' = [spc EXCEPT ![s] = "before"]
           /\ UNCHANGED overallLeft
    BY <1>1 DEF Register
  <2>6. active' = {t \in Subs : spc'[t] \notin {"new", "returned"}}
    BY <2>4, <2>5
  <2>7. spc' \in [Subs -> SubPhases]
    BY <2>5
  <2>8. overallLeft' \in [Subs -> 0..Overall]
    <3>1. CASE overallLeft' = [overallLeft EXCEPT ![s] = Overall]
      BY <2>1, <3>1
    <3>2. CASE UNCHANGED overallLeft
      BY <3>2
    <3> QED
      BY <2>5, <3>1, <3>2
  <2> QED
    BY <2>1, <2>3, <2>4, <2>6, <2>7, <2>8
<1>2. ASSUME NEW s \in Subs, BeforeSend(s) \/ ParallelSend(s) PROVE TypeOK'
  <2>1. CASE BeforeSend(s)
    BY <2>1 DEF BeforeSend
  <2>2. CASE ParallelSend(s)
    BY <2>2 DEF ParallelSend
  <2> QED
    BY <1>2, <2>1, <2>2
<1>3. ASSUME NEW s \in Subs, BeforeReturn(s) PROVE TypeOK'
  BY <1>3 DEF BeforeReturn
<1>4. ASSUME NEW s \in Subs, BeforeFail(s) \/ SelectDone(s) PROVE TypeOK'
  <2>1. 0 \in 0..Idle /\ 0 \in 0..Overall
    BY TimeTypes
  <2>2. CASE BeforeFail(s)
    BY <2>1, <2>2 DEF BeforeFail, StopTimers
  <2>3. CASE SelectDone(s)
    BY <2>1, <2>3 DEF SelectDone, StopTimers
  <2> QED
    BY <1>4, <2>2, <2>3
<1>5. ASSUME NEW s \in Subs, LoopTop(s) PROVE TypeOK'
  <2>1. Left(Idle, age[s]) \in 0..Idle
    <3>1. age[s] \in Nat /\ Idle \in Nat
      BY TimeTypes
    <3>2. \A n \in Nat, k \in Nat : Left(n, k) \in 0..n
      BY TimeTypes
    <3> HIDE DEF TypeOK
    <3> QED
      BY <3>1, <3>2
  <2> QED
    BY <1>5, <2>1 DEF LoopTop
<1>6. ASSUME NEW s \in Subs, SelectData(s) PROVE TypeOK'
  <2>1. Head(data[s]) \in Msgs
    BY <1>6 DEF SelectData
  <2>2. Append(store[s], Head(data[s])) \in Seq(Msgs)
    BY <2>1
  <2>3. store' = [store EXCEPT ![s] = Append(store[s], Head(data[s]))]
    BY <1>6 DEF SelectData
  <2>4. store' \in [Subs -> Seq(Msgs)]
    BY <2>2, <2>3
  <2>5. /\ spc' = [spc EXCEPT ![s] = "loop"] /\ spc[s] = "select"
        /\ data' = [data EXCEPT ![s] = <<>>]
        /\ idleLeft' = [idleLeft EXCEPT ![s] = 0]
        /\ UNCHANGED <<callVars, active, rank, sent, done, overallLeft, age, msgVars>>
    BY <1>6 DEF SelectData
  <2>6. spc' \in [Subs -> SubPhases] /\ data' \in [Subs -> {<<>>} \cup {<<m>> : m \in Msgs}]
    BY <2>5
  <2>7. 0 \in 0..Idle
    BY TimeTypes
  <2>8. idleLeft' \in [Subs -> 0..Idle]
    BY <2>5, <2>7
  <2>9. active' = {t \in Subs : spc'[t] \notin {"new", "returned"}}
    BY <2>5
  <2> QED
    BY <2>4, <2>5, <2>6, <2>8, <2>9
<1>7. ASSUME NEW s \in Subs, CloseDone(s) \/ Remove(s) PROVE TypeOK'
  BY <1>7 DEF CloseDone, Remove
<1>8. ASSUME NEW m \in Msgs, Snapshot(m) PROVE TypeOK'
  <2>1. 0 \in 0..Idle
    BY TimeTypes
  <2> QED
    BY <1>8, <2>1 DEF Snapshot
<1>9. ASSUME NEW m \in Msgs, NEW s \in Subs, Deliver(m, s) \/ SkipDone(m, s) PROVE TypeOK'
  <2>1. CASE Deliver(m, s)
    BY <2>1 DEF Deliver
  <2>2. CASE SkipDone(m, s)
    BY <2>2 DEF SkipDone
  <2> QED
    BY <1>9, <2>1, <2>2
<1>10. ASSUME NEW m \in Msgs, PublishEnd(m) PROVE TypeOK'
  BY <1>10 DEF PublishEnd
<1>11. CASE Tick
  <2>1. \A n \in 0..Idle : Left(n, 1) \in 0..Idle
    BY DEF Left
  <2>2. \A n \in 0..Overall : Left(n, 1) \in 0..Overall
    BY DEF Left
  <2> QED
    BY <1>11, <2>1, <2>2, TimeTypes DEF Tick
<1>12. CASE UNCHANGED vars
  BY <1>12 DEF vars
<1> QED
  BY <1>1, <1>2, <1>3, <1>4, <1>5, <1>6, <1>7, <1>8, <1>9, <1>10, <1>11, <1>12
  DEF Next, Collecting, Publishing, Finished

(* The type invariant of UTSM holds for every value of its constants.      *)
THEOREM TypeCorrect == Spec => []TypeOK
BY TypeInit, TypeStep, PTL DEF Spec

----------------------------------------------------------------------------
(* The inductive invariant                                                 *)

(* A Publish that has not run found nobody; one that runs has only those   *)
(* before it that it found, and all of them subscribe to the id.           *)
FoundOK ==
  /\ \A m \in Msgs : dst[m] \subseteq reached[m]
  /\ \A m \in Msgs : mpc[m] = "idle" => reached[m] = {}
  /\ \A m \in Msgs : \A s \in reached[m] : InRange(m, s)

(* The request of a Collect leaves after its registration.                 *)
SentOK == \A s \in Subs \ Parallel : sent[s] => spc[s] # "new"

(* The timer of an iteration does not end before the deadline it was set   *)
(* to, unless a message was noted since that is not collected yet.         *)
DeadlineOK ==
  \A s \in Subs : spc[s] = "select" =>
    \/ age[s] + idleLeft[s] >= Idle
    \/ \E m \in Msgs : s \in reached[m] /\ m \notin Elements(store[s])

IInv == TypeOK /\ FoundOK /\ SentOK /\ DeadlineOK /\ DeliveredOnce /\ KeptOrDone

(* A concatenation starts with its first part.                             *)
LEMMA ConcatPrefix ==
  ASSUME NEW S, NEW p \in Seq(S), NEW q \in Seq(S)
  PROVE  /\ p \o q \in Seq(S)
         /\ Len(p \o q) = Len(p) + Len(q)
         /\ \A k \in 1..Len(p) : k \in 1..Len(p \o q) /\ (p \o q)[k] = p[k]
<1>1. /\ p \o q \in Seq(S)
      /\ Len(p \o q) = Len(p) + Len(q)
      /\ \A k \in 1..Len(p) + Len(q) : (p \o q)[k] = IF k <= Len(p) THEN p[k] ELSE q[k - Len(p)]
  BY ConcatProperties
<1>2. Len(p) \in Nat /\ Len(q) \in Nat
  BY LenProperties
<1>3. ASSUME NEW k \in 1..Len(p) PROVE k \in 1..Len(p \o q) /\ (p \o q)[k] = p[k]
  <2>1. k \in 1..Len(p) + Len(q) /\ k <= Len(p)
    BY <1>2
  <2> QED
    BY <1>1, <2>1
<1> QED
  BY <1>1, <1>3

(* What a subscriber received, message by message.                         *)
LEMMA ReceivedSeq ==
  ASSUME TypeOK, NEW s \in Subs
  PROVE  /\ store[s] \in Seq(Msgs)
         /\ data[s] \in Seq(Msgs)
         /\ Received(s) \in Seq(Msgs)
         /\ Len(Received(s)) = Len(store[s]) + Len(data[s])
         /\ \A k \in 1..Len(store[s]) : k \in 1..Len(Received(s)) /\ Received(s)[k] = store[s][k]
         /\ Elements(store[s]) \subseteq Elements(Received(s))
<1>1. store[s] \in Seq(Msgs) /\ data[s] \in {<<>>} \cup {<<m>> : m \in Msgs}
  BY DEF TypeOK
<1>2. data[s] \in Seq(Msgs)
  <2>1. CASE data[s] = <<>>
    BY <2>1
  <2>2. CASE \E m \in Msgs : data[s] = <<m>>
    BY <2>2
  <2> QED
    BY <1>1, <2>1, <2>2
<1>3. /\ Received(s) \in Seq(Msgs)
      /\ Len(Received(s)) = Len(store[s]) + Len(data[s])
      /\ \A k \in 1..Len(store[s]) : k \in 1..Len(Received(s)) /\ Received(s)[k] = store[s][k]
  BY <1>1, <1>2, ConcatPrefix DEF Received
<1>4. Elements(store[s]) \subseteq Elements(Received(s))
  BY <1>3 DEF Elements
<1> QED
  BY <1>1, <1>2, <1>3, <1>4

LEMMA InvInit == Init => IInv
<1> SUFFICES ASSUME Init PROVE IInv
  OBVIOUS
<1>1. TypeOK
  BY TypeInit
<1>2. FoundOK /\ SentOK /\ DeadlineOK /\ KeptOrDone
  BY DEF Init, FoundOK, SentOK, DeadlineOK, KeptOrDone
<1>3. DeliveredOnce
  <2>1. \A s \in Subs : Received(s) = <<>>
    BY DEF Init, Received
  <2> QED
    BY <2>1 DEF DeliveredOnce, Elements
<1> QED
  BY <1>1, <1>2, <1>3 DEF IInv

(* Publish changes what it found once, when it runs.                       *)
LEMMA FoundStep == IInv /\ [Next]_vars => FoundOK'
<1> SUFFICES ASSUME IInv, [Next]_vars PROVE FoundOK'
  OBVIOUS
<1> USE DEF IInv, TypeOK, FoundOK, InRange, callVars, subVars, msgVars
<1>1. ASSUME NEW m \in Msgs, Snapshot(m) PROVE FoundOK'
  BY <1>1 DEF Snapshot
<1>2. ASSUME NEW m \in Msgs, NEW s \in Subs, Deliver(m, s) \/ SkipDone(m, s) PROVE FoundOK'
  <2>1. /\ dst' = [dst EXCEPT ![m] = @ \ {s}]
        /\ UNCHANGED <<range, msgId, mpc, reached>>
    BY <1>2 DEF Deliver, SkipDone
  <2> QED
    BY <2>1
<1>3. ASSUME NEW m \in Msgs, PublishEnd(m) PROVE FoundOK'
  BY <1>3 DEF PublishEnd
<1>4. ASSUME UNCHANGED <<callVars, msgVars>> PROVE FoundOK'
  BY <1>4
<1> QED
  BY <1>1, <1>2, <1>3, <1>4
  DEF Next, Collecting, Publishing, Finished, Register, BeforeSend, ParallelSend, BeforeReturn,
      BeforeFail, LoopTop, SelectData, SelectDone, CloseDone, Remove, Tick, vars

(* A call moves on and never back to its start.                            *)
LEMMA SentStep == IInv /\ [Next]_vars => SentOK'
<1> SUFFICES ASSUME IInv, [Next]_vars PROVE SentOK'
  OBVIOUS
<1> USE DEF IInv, TypeOK, SentOK, Goto, callVars, subVars, msgVars
<1>1. ASSUME NEW s \in Subs, Register(s) PROVE SentOK'
  <2>1. /\ spc' \in {[spc EXCEPT ![s] = "loop"], [spc EXCEPT ![s] = "before"]}
        /\ UNCHANGED sent
    BY <1>1 DEF Register
  <2> QED
    BY <2>1
<1>2. ASSUME NEW s \in Subs, BeforeSend(s) PROVE SentOK'
  BY <1>2 DEF BeforeSend
<1>3. ASSUME NEW s \in Subs, ParallelSend(s) PROVE SentOK'
  BY <1>3 DEF ParallelSend
<1>4. ASSUME NEW s \in Subs,
             BeforeReturn(s) \/ BeforeFail(s) \/ LoopTop(s) \/ SelectData(s) \/ SelectDone(s)
               \/ CloseDone(s) \/ Remove(s)
      PROVE  SentOK'
  <2>1. /\ \/ spc' = [spc EXCEPT ![s] = "loop"]
           \/ spc' = [spc EXCEPT ![s] = "select"]
           \/ spc' = [spc EXCEPT ![s] = "closing"]
           \/ spc' = [spc EXCEPT ![s] = "removing"]
           \/ spc' = [spc EXCEPT ![s] = "returned"]
        /\ UNCHANGED sent
    BY <1>4 DEF BeforeReturn, BeforeFail, LoopTop, SelectData, SelectDone, CloseDone, Remove
  <2> QED
    BY <2>1
<1>5. ASSUME UNCHANGED <<spc, sent>> PROVE SentOK'
  BY <1>5
<1> QED
  BY <1>1, <1>2, <1>3, <1>4, <1>5
  DEF Next, Collecting, Publishing, Finished, Snapshot, Deliver, SkipDone, PublishEnd, Tick, vars
(* Time, and what comes in, keep the deadline; a new iteration sets it.     *)
LEMMA DeadlineStep == IInv /\ [Next]_vars => DeadlineOK'
<1> SUFFICES ASSUME IInv, [Next]_vars PROVE DeadlineOK'
  OBVIOUS
<1> USE UTSMAssumption DEF IInv, TypeOK, DeadlineOK, Goto, callVars, subVars, msgVars
<1>1. ASSUME NEW m \in Msgs, Snapshot(m) PROVE DeadlineOK'
  <2> DEFINE found == {s \in active : InRange(m, s)}
  <2>1. /\ mpc[m] = "idle"
        /\ reached' = [reached EXCEPT ![m] = found]
        /\ age' = [s \in Subs |-> IF s \in found THEN 0 ELSE age[s]]
        /\ UNCHANGED <<spc, store, idleLeft>>
    BY <1>1 DEF Snapshot
  <2>2. \A s \in Subs : m \notin Elements(store[s])
    <3>1. SUFFICES ASSUME NEW s \in Subs, m \in Elements(store[s]) PROVE FALSE
      OBVIOUS
    <3>2. m \in Elements(Received(s))
      BY <3>1, ReceivedSeq
    <3>3. s \in reached[m]
      BY <3>2 DEF DeliveredOnce
    <3> QED
      BY <2>1, <3>3 DEF FoundOK
  <2> SUFFICES ASSUME NEW s \in Subs, spc[s] = "select"
               PROVE  \/ age'[s] + idleLeft[s] >= Idle
                      \/ \E n \in Msgs : s \in reached'[n] /\ n \notin Elements(store[s])
    BY <2>1
  <2>3. CASE s \in found
    BY <2>1, <2>2, <2>3
  <2>4. CASE s \notin found
    <3>1. age'[s] = age[s]
      BY <2>1, <2>4
    <3>2. \A n \in Msgs : s \in reached[n] => s \in reached'[n]
      BY <2>1 DEF FoundOK
    <3> QED
      BY <3>1, <3>2
  <2> QED
    BY <2>3, <2>4
<1>2. ASSUME NEW s \in Subs, LoopTop(s) PROVE DeadlineOK'
  <2>1. \A a \in 0..Idle : a + Left(Idle, a) >= Idle
    <3>1. Idle \in Nat
      BY TimeTypes
    <3>2. \A a \in Nat : a + Left(Idle, a) >= Idle
      BY DEF Left
    <3> QED
      BY <3>1, <3>2
  <2>2. /\ spc' = [spc EXCEPT ![s] = "select"]
        /\ idleLeft' = [idleLeft EXCEPT ![s] = Left(Idle, age[s])]
        /\ UNCHANGED <<age, reached, store>>
    BY <1>2 DEF LoopTop
  <2>3. idleLeft'[s] = Left(Idle, age[s]) /\ age'[s] = age[s]
    BY <2>2
  <2>4. \A t \in Subs \ {s} : spc'[t] = spc[t] /\ idleLeft'[t] = idleLeft[t]
    BY <2>2
  <2> QED
    BY <2>1, <2>2, <2>3, <2>4
<1>3. CASE Tick
  <2>1. /\ \A s \in Subs : spc[s] = "select" => age'[s] = Older(age[s])
        /\ \A s \in Subs : idleLeft'[s] = Left(idleLeft[s], 1)
        /\ UNCHANGED <<spc, reached, store>>
    BY <1>3 DEF Tick, Timing
  <2>2. \A a \in 0..Idle, i \in 0..Idle : a + i >= Idle => Older(a) + Left(i, 1) >= Idle
    BY TimeTypes DEF Older, Left
  <2> SUFFICES ASSUME NEW s \in Subs, spc[s] = "select", age[s] + idleLeft[s] >= Idle
               PROVE  age'[s] + idleLeft'[s] >= Idle
    BY <2>1
  <2> QED
    BY <2>1, <2>2
<1>4. ASSUME NEW s \in Subs,
             \/ Register(s) \/ BeforeSend(s) \/ BeforeReturn(s) \/ BeforeFail(s)
             \/ SelectData(s) \/ SelectDone(s) \/ CloseDone(s) \/ Remove(s)
      PROVE  DeadlineOK'
  <2>1. /\ spc'[s] # "select"
        /\ \A t \in Subs \ {s} : spc'[t] = spc[t] /\ age'[t] = age[t]
                                /\ idleLeft'[t] = idleLeft[t] /\ store'[t] = store[t]
        /\ UNCHANGED reached
    <3>1. CASE Register(s)
      BY <3>1 DEF Register
    <3>2. CASE BeforeSend(s) \/ BeforeReturn(s)
      BY <3>2 DEF BeforeSend, BeforeReturn
    <3>3. CASE SelectData(s)
      BY <3>3 DEF SelectData
    <3>4. CASE CloseDone(s) \/ Remove(s)
      BY <3>4 DEF CloseDone, Remove
    <3>5. CASE BeforeFail(s)
      BY <3>5 DEF BeforeFail, StopTimers
    <3>6. CASE SelectDone(s)
      BY <3>6 DEF SelectDone, StopTimers
    <3> QED
      BY <1>4, <3>1, <3>2, <3>3, <3>4, <3>5, <3>6
  <2> QED
    BY <2>1
<1>5. ASSUME UNCHANGED <<spc, age, idleLeft, reached, store>> PROVE DeadlineOK'
  BY <1>5
<1> QED
  BY <1>1, <1>2, <1>3, <1>4, <1>5
  DEF Next, Collecting, Publishing, Finished, ParallelSend, Deliver, SkipDone, PublishEnd, vars
LEMMA ReceivedMsgs ==
  ASSUME TypeOK
  PROVE  \A s \in Subs : Elements(Received(s)) \subseteq Msgs
<1> SUFFICES ASSUME NEW s \in Subs PROVE Elements(Received(s)) \subseteq Msgs
  OBVIOUS
<1>1. Received(s) \in Seq(Msgs)
  BY ReceivedSeq
<1>2. \A k \in 1..Len(Received(s)) : Received(s)[k] \in Msgs
  BY <1>1, ElementOfSeq
<1> QED
  BY <1>2 DEF Elements

(* A receive moves the message from the channel to the list, a delivery    *)
(* adds one; what a subscriber received stays in place otherwise.          *)
LEMMA ReceivedMoves ==
  ASSUME TypeOK, NEW s \in Subs, SelectData(s)
  PROVE  \A t \in Subs : Received(t)' = Received(t)
<1>1. PICK m \in Msgs : data[s] = <<m>>
  BY DEF TypeOK, SelectData
<1>2. store'[s] = Append(store[s], m) /\ data'[s] = <<>>
  BY <1>1 DEF TypeOK, SelectData
<1>3. store[s] \in Seq(Msgs)
  BY DEF TypeOK
<1>4. Append(store[s], m) \o <<>> = store[s] \o <<m>>
  <2>1. Append(store[s], m) \in Seq(Msgs)
    BY <1>3
  <2>2. Append(store[s], m) \o <<>> = Append(store[s], m)
    BY <2>1, ConcatEmptySeq
  <2>3. Append(store[s], m) = store[s] \o <<m>>
    BY <1>3, AppendIsConcat
  <2> QED
    BY <2>2, <2>3
<1>5. \A t \in Subs \ {s} : store'[t] = store[t] /\ data'[t] = data[t]
  BY DEF TypeOK, SelectData
<1> QED
  BY <1>1, <1>2, <1>4, <1>5 DEF Received

LEMMA ReceivedGrows ==
  ASSUME TypeOK, NEW m \in Msgs, NEW s \in Subs, Deliver(m, s)
  PROVE  /\ Received(s)' = Append(Received(s), m)
         /\ \A t \in Subs \ {s} : Received(t)' = Received(t)
<1>1. data[s] = <<>> /\ data' = [data EXCEPT ![s] = <<m>>] /\ UNCHANGED store
  BY DEF Deliver
<1>2. store[s] \in Seq(Msgs) /\ data'[s] = <<m>>
  BY <1>1 DEF TypeOK
<1>3. store[s] \o <<>> = store[s] /\ store[s] \o <<m>> = Append(store[s], m)
  BY <1>2, ConcatEmptySeq, AppendIsConcat
<1>4. \A t \in Subs \ {s} : store'[t] = store[t] /\ data'[t] = data[t]
  BY <1>1 DEF TypeOK
<1> QED
  BY <1>1, <1>2, <1>3, <1>4 DEF Received

(* What an appended sequence holds.                                        *)
LEMMA AppendedOnce ==
  ASSUME NEW S, NEW q \in Seq(S), NEW x \in S
  PROVE  /\ Elements(Append(q, x)) = Elements(q) \cup {x}
         /\ x \notin Elements(q) /\ (\A j, k \in 1..Len(q) : q[j] = q[k] => j = k) =>
              \A j, k \in 1..Len(Append(q, x)) : Append(q, x)[j] = Append(q, x)[k] => j = k
<1>1. /\ Len(Append(q, x)) = Len(q) + 1
      /\ \A k \in 1..Len(q) : Append(q, x)[k] = q[k]
      /\ Append(q, x)[Len(q) + 1] = x
      /\ Len(q) \in Nat
  BY AppendProperties, LenProperties
<1>2. 1..Len(q) + 1 = 1..Len(q) \cup {Len(q) + 1}
  BY <1>1
<1>3. Elements(Append(q, x)) = Elements(q) \cup {x}
  BY <1>1, <1>2 DEF Elements
<1>4. ASSUME x \notin Elements(q), \A j, k \in 1..Len(q) : q[j] = q[k] => j = k,
             NEW j \in 1..Len(q) + 1, NEW k \in 1..Len(q) + 1,
             Append(q, x)[j] = Append(q, x)[k]
      PROVE  j = k
  <2>1. \A i \in 1..Len(q) : q[i] # x
    BY <1>4 DEF Elements
  <2> QED
    BY <1>1, <1>2, <1>4, <2>1
<1> QED
  BY <1>1, <1>3, <1>4
(* A message is still before its Publish when it is delivered, so it was   *)
(* not delivered to this subscriber before.                                *)
LEMMA OnceStep == IInv /\ [Next]_vars => DeliveredOnce'
<1> SUFFICES ASSUME IInv, [Next]_vars PROVE DeliveredOnce'
  OBVIOUS
<1>0. TypeOK /\ FoundOK /\ DeliveredOnce
  BY DEF IInv
<1> USE DEF DeliveredOnce, InRange, callVars, subVars, msgVars
<1>1. ASSUME NEW m \in Msgs, NEW s \in Subs, Deliver(m, s) PROVE DeliveredOnce'
  <2> DEFINE q == Received(s)
  <2>1. /\ Received(s)' = Append(q, m)
        /\ \A t \in Subs \ {s} : Received(t)' = Received(t)
    BY <1>0, <1>1, ReceivedGrows
  <2>2. /\ s \in dst[m] /\ UNCHANGED <<range, msgId, reached>>
        /\ dst' = [dst EXCEPT ![m] = @ \ {s}]
    BY <1>1 DEF Deliver, Turn
  <2>3. q \in Seq(Msgs)
    BY <1>0, ReceivedSeq
  <2>4. m \notin Elements(q)
    BY <1>0, <2>2
  <2>5. /\ Elements(Append(q, m)) = Elements(q) \cup {m}
        /\ \A j, k \in 1..Len(Append(q, m)) : Append(q, m)[j] = Append(q, m)[k] => j = k
    BY <1>0, <2>3, <2>4, AppendedOnce
  <2>6. /\ \A n \in Msgs : dst'[n] \subseteq dst[n]
        /\ s \notin dst'[m] /\ s \in reached[m]
        /\ range[s].start <= msgId[m] /\ msgId[m] <= range[s].end
    BY <1>0, <2>2 DEF TypeOK, FoundOK
  <2>7. \A t \in Subs : \A n \in Elements(Received(t)) : n \in Msgs
    BY <1>0, ReceivedMsgs
  <2>8. \A n \in Elements(q) : n \in Msgs
    BY <2>7
  <2>9. Elements(Received(s))' = Elements(q) \cup {m}
    BY <2>1, <2>5 DEF Elements
  <2>10. \A t \in Subs \ {s} : Elements(Received(t))' = Elements(Received(t))
    BY <2>1 DEF Elements
  <2>11. \A j, k \in 1..Len(Received(s)') : Received(s)'[j] = Received(s)'[k] => j = k
    BY <2>1, <2>5
  <2>12. \A n \in Elements(Received(s))' :
           s \in reached'[n] \ dst'[n] /\ range'[s].start <= msgId'[n] /\ msgId'[n] <= range'[s].end
    BY <1>0, <2>2, <2>6, <2>8, <2>9
  <2>13. ASSUME NEW t \in Subs \ {s}
         PROVE  \A n \in Elements(Received(t))' :
           t \in reached'[n] \ dst'[n] /\ range'[t].start <= msgId'[n] /\ msgId'[n] <= range'[t].end
    BY <1>0, <2>2, <2>6, <2>7, <2>10
  <2>14. ASSUME NEW t \in Subs \ {s}
         PROVE  \A j, k \in 1..Len(Received(t)') : Received(t)'[j] = Received(t)'[k] => j = k
    BY <1>0, <2>1
  <2>15. \A t \in Subs :
           \A j, k \in 1..Len(Received(t)') : Received(t)'[j] = Received(t)'[k] => j = k
    BY <2>11, <2>14
  <2>16. \A t \in Subs : \A n \in Elements(Received(t))' :
           t \in reached'[n] \ dst'[n] /\ range'[t].start <= msgId'[n] /\ msgId'[n] <= range'[t].end
    BY <2>12, <2>13
  <2> QED
    BY <2>15, <2>16
<1>2. ASSUME \A t \in Subs : Received(t)' = Received(t),
             \A t \in Subs : \A n \in Elements(Received(t)) :
               t \in reached[n] \ dst[n] => t \in reached'[n] \ dst'[n],
             UNCHANGED callVars
      PROVE  DeliveredOnce'
  <2>1. \A t \in Subs : Elements(Received(t))' = Elements(Received(t))
    BY <1>2 DEF Elements
  <2> QED
    BY <1>0, <1>2, <2>1
<1>3. ASSUME NEW s \in Subs, SelectData(s) PROVE DeliveredOnce'
  <2>1. UNCHANGED <<callVars, msgVars>>
    BY <1>3 DEF SelectData
  <2> QED
    BY <1>0, <1>2, <1>3, <2>1, ReceivedMoves
<1>4. ASSUME NEW m \in Msgs, Snapshot(m) PROVE DeliveredOnce'
  <2>1. /\ \A n \in Msgs \ {m} : reached'[n] = reached[n] /\ dst'[n] = dst[n]
        /\ mpc[m] = "idle" /\ UNCHANGED <<callVars, store, data>>
    BY <1>0, <1>4 DEF Snapshot, TypeOK
  <2>2. \A t \in Subs : \A n \in Elements(Received(t)) : n \in Msgs \ {m}
    BY <1>0, <2>1, ReceivedMsgs DEF FoundOK
  <2>3. \A t \in Subs : Received(t)' = Received(t)
    BY <2>1 DEF Received
  <2> QED
    BY <1>2, <2>1, <2>2, <2>3
<1>5. ASSUME NEW m \in Msgs, NEW s \in Subs, SkipDone(m, s) PROVE DeliveredOnce'
  <2>1. /\ dst' = [dst EXCEPT ![m] = @ \ {s}]
        /\ UNCHANGED <<callVars, reached, store, data>>
    BY <1>5 DEF SkipDone
  <2>2. \A t \in Subs : \A n \in Elements(Received(t)) : n \in Msgs
    BY <1>0, ReceivedMsgs
  <2>3. \A n \in Msgs : dst'[n] \subseteq dst[n]
    BY <1>0, <2>1 DEF TypeOK
  <2>4. \A t \in Subs : Received(t)' = Received(t)
    BY <2>1 DEF Received
  <2> QED
    BY <1>2, <2>1, <2>2, <2>3, <2>4
<1>6. ASSUME UNCHANGED <<callVars, store, data, dst, reached>> PROVE DeliveredOnce'
  <2>1. \A t \in Subs : Received(t)' = Received(t)
    BY <1>6 DEF Received
  <2> QED
    BY <1>2, <1>6, <2>1
<1> QED
  BY <1>1, <1>3, <1>4, <1>5, <1>6
  DEF Next, Collecting, Publishing, Finished, Register, BeforeSend, ParallelSend, BeforeReturn,
      BeforeFail, LoopTop, SelectDone, CloseDone, Remove, PublishEnd, Tick, vars

(* A message leaves dst only into the channel or past a done subscriber.   *)
LEMMA KeptStep == IInv /\ [Next]_vars => KeptOrDone'
<1> SUFFICES ASSUME IInv, [Next]_vars PROVE KeptOrDone'
  OBVIOUS
<1>0. TypeOK /\ FoundOK /\ KeptOrDone
  BY DEF IInv
<1> USE DEF KeptOrDone, callVars, subVars, msgVars
<1>1. ASSUME NEW m \in Msgs, NEW s \in Subs, Deliver(m, s) PROVE KeptOrDone'
  <2>1. /\ Received(s)' = Append(Received(s), m)
        /\ \A t \in Subs \ {s} : Received(t)' = Received(t)
    BY <1>0, <1>1, ReceivedGrows
  <2>2. Received(s) \in Seq(Msgs)
    BY <1>0, ReceivedSeq
  <2>3. Elements(Received(s))' = Elements(Received(s)) \cup {m}
    BY <2>1, <2>2, AppendedOnce DEF Elements
  <2>4. \A t \in Subs \ {s} : Elements(Received(t))' = Elements(Received(t))
    BY <2>1 DEF Elements
  <2>5. dst' = [dst EXCEPT ![m] = @ \ {s}] /\ UNCHANGED <<reached, done>>
    BY <1>1 DEF Deliver
  <2>6. \A n \in Msgs \ {m} : dst'[n] = dst[n]
    BY <1>0, <2>5 DEF TypeOK
  <2>7. dst'[m] = dst[m] \ {s}
    BY <1>0, <2>5 DEF TypeOK
  <2>8. \A n \in Msgs : reached[n] \subseteq Subs
    BY <1>0 DEF TypeOK
  <2> QED
    BY <1>0, <2>3, <2>4, <2>5, <2>6, <2>7, <2>8
<1>2. ASSUME \A t \in Subs : Received(t)' = Received(t),
             \A t \in Subs : done[t] => done'[t],
             \A n \in Msgs : \A t \in reached'[n] \ dst'[n] :
               t \in reached[n] \ dst[n] \/ done[t]
      PROVE  KeptOrDone'
  <2>1. \A t \in Subs : Elements(Received(t))' = Elements(Received(t))
    BY <1>2 DEF Elements
  <2>2. \A n \in Msgs : reached'[n] \subseteq Subs
    BY TypeStep, <1>0 DEF TypeOK
  <2> QED
    BY <1>0, <1>2, <2>1, <2>2
<1>3. ASSUME NEW s \in Subs, SelectData(s) PROVE KeptOrDone'
  <2>1. UNCHANGED <<done, dst, reached>>
    BY <1>3 DEF SelectData
  <2> QED
    BY <1>0, <1>2, <1>3, <2>1, ReceivedMoves
<1>4. ASSUME NEW m \in Msgs, Snapshot(m) PROVE KeptOrDone'
  <2>1. /\ \A n \in Msgs \ {m} : reached'[n] = reached[n] /\ dst'[n] = dst[n]
        /\ reached'[m] = dst'[m] /\ UNCHANGED <<done, store, data>>
    BY <1>0, <1>4 DEF Snapshot, TypeOK
  <2>2. \A t \in Subs : Received(t)' = Received(t)
    BY <2>1 DEF Received
  <2> QED
    BY <1>2, <2>1, <2>2
<1>5. ASSUME NEW m \in Msgs, NEW s \in Subs, SkipDone(m, s) PROVE KeptOrDone'
  <2>1. /\ dst' = [dst EXCEPT ![m] = @ \ {s}] /\ done[s]
        /\ UNCHANGED <<reached, done, store, data>>
    BY <1>5 DEF SkipDone
  <2>2. \A n \in Msgs : \A t \in reached'[n] \ dst'[n] : t \in reached[n] \ dst[n] \/ done[t]
    BY <1>0, <2>1 DEF TypeOK
  <2>3. \A t \in Subs : Received(t)' = Received(t)
    BY <2>1 DEF Received
  <2> QED
    BY <1>2, <2>1, <2>2, <2>3
<1>6. ASSUME NEW s \in Subs, CloseDone(s) PROVE KeptOrDone'
  <2>1. done' = [done EXCEPT ![s] = TRUE] /\ UNCHANGED <<store, data, dst, reached>>
    BY <1>6 DEF CloseDone
  <2>2. \A t \in Subs : done[t] => done'[t]
    BY <1>0, <2>1 DEF TypeOK
  <2>3. \A t \in Subs : Received(t)' = Received(t)
    BY <2>1 DEF Received
  <2> QED
    BY <1>2, <2>1, <2>2, <2>3
<1>7. ASSUME UNCHANGED <<store, data, done, dst, reached>> PROVE KeptOrDone'
  <2>1. \A t \in Subs : Received(t)' = Received(t)
    BY <1>7 DEF Received
  <2> QED
    BY <1>2, <1>7, <2>1
<1> QED
  BY <1>1, <1>3, <1>4, <1>5, <1>6, <1>7
  DEF Next, Collecting, Publishing, Finished, Register, BeforeSend, ParallelSend, BeforeReturn,
      BeforeFail, LoopTop, SelectDone, Remove, PublishEnd, Tick, vars

LEMMA Invariance == Spec => []IInv
<1>1. IInv /\ [Next]_vars => IInv'
  <2> SUFFICES ASSUME IInv, [Next]_vars PROVE IInv'
    OBVIOUS
  <2>1. TypeOK'
    BY TypeStep DEF IInv
  <2> QED
    BY <2>1, FoundStep, SentStep, DeadlineStep, OnceStep, KeptStep DEF IInv
<1> QED
  BY <1>1, InvInit, PTL DEF Spec

(* A Collect is done only when it has left its loop for good.              *)
DoneOK == \A s \in Subs : done[s] => spc[s] \in {"removing", "returned"}

LEMMA DoneStep == TypeOK /\ DoneOK /\ [Next]_vars => DoneOK'
<1> SUFFICES ASSUME TypeOK, DoneOK, [Next]_vars PROVE DoneOK'
  OBVIOUS
<1> USE DEF TypeOK, DoneOK, Goto, callVars, subVars, msgVars
<1>1. ASSUME NEW s \in Subs, CloseDone(s) PROVE DoneOK'
  BY <1>1 DEF CloseDone
<1>2. ASSUME NEW s \in Subs, Remove(s) PROVE DoneOK'
  BY <1>2 DEF Remove
<1>3. ASSUME NEW s \in Subs, spc[s] \notin {"removing", "returned"}, UNCHANGED done,
             spc' = spc \/ \E to : spc' = [spc EXCEPT ![s] = to]
      PROVE  DoneOK'
  BY <1>3
<1>4. ASSUME NEW s \in Subs,
             \/ Register(s) \/ BeforeSend(s) \/ BeforeReturn(s) \/ BeforeFail(s)
             \/ LoopTop(s) \/ SelectData(s) \/ SelectDone(s)
      PROVE  DoneOK'
  <2>1. /\ spc[s] \notin {"removing", "returned"} /\ UNCHANGED done
        /\ \E to : spc' = [spc EXCEPT ![s] = to]
    BY <1>4 DEF Register, BeforeSend, BeforeReturn, BeforeFail, LoopTop, SelectData, SelectDone
  <2> QED
    BY <2>1, <1>3
<1>5. ASSUME UNCHANGED <<spc, done>> PROVE DoneOK'
  BY <1>5
<1> QED
  BY <1>1, <1>2, <1>4, <1>5
  DEF Next, Collecting, Publishing, Finished, ParallelSend, Snapshot, Deliver, SkipDone,
      PublishEnd, Tick, vars

----------------------------------------------------------------------------
(* The theorems                                                            *)

(* A subscriber gets a message at most once, and only one published to it. *)
THEOREM MessagesOnce == Spec => []DeliveredOnce
<1>1. IInv => DeliveredOnce
  BY DEF IInv
<1> QED
  BY <1>1, Invariance, PTL

(* Publish passes over no subscriber that still waits.                     *)
THEOREM MessagesKept == Spec => []KeptOrDone
<1>1. IInv => KeptOrDone
  BY DEF IInv
<1> QED
  BY <1>1, Invariance, PTL

(* What comes in after the request of a Collect left finds its subscriber. *)
THEOREM RepliesFound == Spec => RepliesFindSubscriber
<1>1. IInv /\ [Next]_vars =>
        [\A m \in Msgs, s \in Subs \ Parallel :
           Snapshot(m) /\ sent[s] /\ InRange(m, s) =>
             s \in reached'[m] \/ spc[s] = "returned"]_vars
  <2> SUFFICES ASSUME IInv, NEW m \in Msgs, NEW s \in Subs \ Parallel,
                      Snapshot(m), sent[s], InRange(m, s), spc[s] # "returned"
               PROVE  s \in reached'[m]
    OBVIOUS
  <2>1. s \in active
    BY DEF IInv, TypeOK, SentOK
  <2> QED
    BY <2>1 DEF Snapshot, IInv, TypeOK
<1> QED
  BY <1>1, Invariance, PTL DEF Spec, RepliesFindSubscriber

(* Each message collected puts the end of a Collect off: it ends early only *)
(* after a timeout without any, or when the last ones noted are on their   *)
(* way to it.                                                              *)
THEOREM EndPutOff == Spec => CollectedPutsEndOff
<1>1. IInv /\ DoneOK /\ [Next]_vars =>
        [\A s \in Subs : SelectDone(s) /\ overallLeft[s] > 0 =>
           age[s] >= Idle \/ (\E m \in Msgs : s \in dst[m]) \/ data[s] # <<>>]_vars
  <2> SUFFICES ASSUME IInv, DoneOK, NEW s \in Subs, SelectDone(s), overallLeft[s] > 0, data[s] = <<>>
               PROVE  age[s] >= Idle \/ \E m \in Msgs : s \in dst[m]
    OBVIOUS
  <2>1. spc[s] = "select" /\ idleLeft[s] = 0
    BY UTSMAssumption DEF SelectDone, Goto, Expired, IInv, TypeOK
  <2>2. age[s] \in Nat
    BY TimeTypes DEF IInv, TypeOK
  <2>3. CASE age[s] >= Idle
    BY <2>3
  <2>4. CASE \E m \in Msgs : s \in reached[m] /\ m \notin Elements(store[s])
    <3>1. PICK m \in Msgs : s \in reached[m] /\ m \notin Elements(store[s])
      BY <2>4
    <3>2. Received(s) = store[s]
      BY DEF Received, IInv, TypeOK
    <3>3. ~done[s]
      BY <2>1 DEF DoneOK
    <3> QED
      BY <3>1, <3>2, <3>3 DEF IInv, KeptOrDone
  <2> QED
    BY <2>1, <2>2, <2>3, <2>4 DEF IInv, DeadlineOK
<1>2. Init => DoneOK
  BY DEF Init, DoneOK
<1>3. IInv => TypeOK
  BY DEF IInv
<1> QED
  BY <1>1, <1>2, <1>3, DoneStep, Invariance, PTL DEF Spec, CollectedPutsEndOff
==========================================================================
