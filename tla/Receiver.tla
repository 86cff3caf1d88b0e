------------------------------ MODULE Receiver -------------------------------
(***************************************************************************)
(* The receiving side of the client (device.go): the read loops of         *)
(* ClientRun, the pool of their buffers, the goroutine handleMsg runs on   *)
(* for each packet, and closing.                                           *)
(*                                                                         *)
(* A loop takes a buffer from the pool and reads a packet into it, and     *)
(* leaves both to a goroutine that decodes the packet, hands on what it    *)
(* says and puts the buffer back.  network.Whois starts a further loop on  *)
(* the same client each time, so there may be several.  What a packet says *)
(* and whom it is handed to is left to TSM and UTSM.                       *)
(***************************************************************************)
EXTENDS Integers, FiniteSets

CONSTANTS
  Loops,      (* the calls of ClientRun                                    *)
  Packets,    (* the packets that come in                                  *)
  Foreign,    (* those for another socket, which pcap sees too             *)
  Nothing,    (* no packet                                                 *)
  Buffers,    (* the buffers the pool may allocate                         *)
  NoBuffer    (* none of them                                              *)

ASSUME ReceiverAssumption ==
  /\ IsFiniteSet(Buffers) /\ IsFiniteSet(Loops) /\ IsFiniteSet(Packets)
  /\ Foreign \subseteq Packets
  /\ Packets \cap {"none", "error", "eof", Nothing} = {}
  /\ NoBuffer \notin Buffers
  /\ Cardinality(Buffers) >= Cardinality(Loops) + Cardinality(Packets)

VARIABLES
  \* the loops
  lpc,        (* the next step of a loop                                   *)
  lbuf,       (* the buffer it has                                         *)
  got,        (* what its Receive returned                                 *)
  \* the pool
  pool,       (* how often a buffer is in it                               *)
  allocated,  (* the buffers made so far                                   *)
  content,    (* the packet last read into a buffer                        *)
  \* the handlers
  hpc,        (* where a packet is, or the next step of its handler        *)
  hbuf,       (* the buffer its handler has                                *)
  payload,    (* what was handed on for it: a slice of a buffer, or a copy *)
  \* closing
  closed,     (* client.closed                                             *)
  open,       (* the data link is open                                     *)
  cpc         (* the next step of Close                                    *)

loopVars == <<lpc, lbuf, got>>
poolVars == <<pool, allocated, content>>
handlerVars == <<hpc, hbuf, payload>>
closeVars == <<closed, open, cpc>>
receiveVars == <<loopVars, poolVars, handlerVars, closeVars>>

----------------------------------------------------------------------------
LoopPhases == {"new", "top", "receive", "check", "returned"}
HandlerPhases == {"net", "read", "decode", "deliver", "put", "done"}
ClosePhases == {"none", "flag", "link", "returned"}
Results == {"none", "error", "eof"} \cup Packets

NoPayload == [buf |-> NoBuffer, value |-> Nothing]

ReceiveInit ==
  /\ lpc = [l \in Loops |-> "new"]
  /\ lbuf = [l \in Loops |-> NoBuffer]
  /\ got = [l \in Loops |-> "none"]
  /\ pool = [b \in Buffers |-> 0]
  /\ allocated = {}
  /\ content = [b \in Buffers |-> Nothing]
  /\ hpc = [p \in Packets |-> "net"]
  /\ hbuf = [p \in Packets |-> NoBuffer]
  /\ payload = [p \in Packets |-> NoPayload]
  /\ closed = FALSE
  /\ open = TRUE
  /\ cpc = "none"

LoopGoto(l, from, to) ==
  /\ lpc[l] = from
  /\ lpc' = [lpc EXCEPT ![l] = to]

PutBuffer(b) == pool' = [pool EXCEPT ![b] = @ + 1]

(* A loop puts the buffer it has back.                                     *)
GiveUpBuffer(l) ==
  /\ PutBuffer(lbuf[l])
  /\ lbuf' = [lbuf EXCEPT ![l] = NoBuffer]

----------------------------------------------------------------------------
(* Faulty variants of the definitions below, each a plausible slip in the  *)
(* code; a run with one in place of the definition must fail.              *)

\* The loop puts the buffer back when it has started the handler.
StartHandlerPuts(l) ==
  /\ LoopGoto(l, "check", "top")
  /\ ~closed
  /\ got[l] \in Packets
  /\ hpc' = [hpc EXCEPT ![got[l]] = "decode"]
  /\ hbuf' = [hbuf EXCEPT ![got[l]] = lbuf[l]]
  /\ GiveUpBuffer(l)
  /\ got' = [got EXCEPT ![l] = "none"]
  /\ UNCHANGED <<allocated, content, payload, closeVars>>

\* The loop that ends on the closed flag drops its buffer.
EndClosedDrops(l) ==
  /\ LoopGoto(l, "check", "returned")
  /\ closed
  /\ lbuf' = [lbuf EXCEPT ![l] = NoBuffer]
  /\ got' = [got EXCEPT ![l] = "none"]
  /\ UNCHANGED <<poolVars, handlerVars, closeVars>>

\* The payload is handed on as a slice of the buffer.
DeliverSlice(p) ==
  /\ hpc[p] = "deliver"
  /\ hpc' = [hpc EXCEPT ![p] = "put"]
  /\ payload' = [payload EXCEPT ![p] = [buf |-> hbuf[p], value |-> Nothing]]
  /\ UNCHANGED <<hbuf, loopVars, poolVars, closeVars>>

\* Close forgets the data link.
CloseLinkForgets ==
  /\ cpc = "link"
  /\ cpc' = "returned"
  /\ UNCHANGED <<closed, open, loopVars, poolVars, handlerVars>>

----------------------------------------------------------------------------
(* ClientRun                                                               *)

Start(l) ==
  /\ LoopGoto(l, "new", "top")
  /\ UNCHANGED <<lbuf, got, poolVars, handlerVars, closeVars>>

EndAtTop(l) ==
  /\ LoopGoto(l, "top", "returned")
  /\ closed
  /\ UNCHANGED <<lbuf, got, poolVars, handlerVars, closeVars>>

(* A buffer from the pool or, which the pool may always do, a new one;     *)
(* which of the buffers never used before that is makes no difference.     *)
GetBuffer(l, b) ==
  /\ LoopGoto(l, "top", "receive")
  /\ ~closed
  /\ \/ /\ pool[b] > 0
        /\ pool' = [pool EXCEPT ![b] = @ - 1]
        /\ UNCHANGED allocated
     \/ /\ allocated # Buffers
        /\ b = CHOOSE new \in Buffers \ allocated : TRUE
        /\ allocated' = allocated \cup {b}
        /\ UNCHANGED pool
  /\ lbuf' = [lbuf EXCEPT ![l] = b]
  /\ UNCHANGED <<got, content, handlerVars, closeVars>>

(* A packet for another socket has been copied into the buffer before the  *)
(* pcap link turns it down with an error.  The UDP link sees none of them. *)
ReadPacket(l, p) ==
  /\ LoopGoto(l, "receive", "check")
  /\ open
  /\ hpc[p] = "net"
  /\ hpc' = [hpc EXCEPT ![p] = "read"]
  /\ content' = [content EXCEPT ![lbuf[l]] = p]
  /\ got' = [got EXCEPT ![l] = IF p \in Foreign THEN "error" ELSE p]
  /\ UNCHANGED <<lbuf, pool, allocated, hbuf, payload, closeVars>>

(* Any other error of a link that is open; a further read may follow at    *)
(* once.                                                                   *)
ReadFails(l) ==
  /\ LoopGoto(l, "receive", "check")
  /\ open
  /\ got' = [got EXCEPT ![l] = "error"]
  /\ UNCHANGED <<lbuf, poolVars, handlerVars, closeVars>>

ReadClosed(l) ==
  /\ LoopGoto(l, "receive", "check")
  /\ ~open
  /\ got' = [got EXCEPT ![l] = "eof"]
  /\ UNCHANGED <<lbuf, poolVars, handlerVars, closeVars>>

(* After a read: the client was closed, the link was closed, the read      *)
(* failed, or there is a packet.                                           *)
EndClosed(l) ==
  /\ LoopGoto(l, "check", "returned")
  /\ closed
  /\ GiveUpBuffer(l)
  /\ got' = [got EXCEPT ![l] = "none"]
  /\ UNCHANGED <<allocated, content, handlerVars, closeVars>>

EndOfFile(l) ==
  /\ LoopGoto(l, "check", "returned")
  /\ ~closed
  /\ got[l] = "eof"
  /\ GiveUpBuffer(l)
  /\ got' = [got EXCEPT ![l] = "none"]
  /\ UNCHANGED <<allocated, content, handlerVars, closeVars>>

ReadError(l) ==
  /\ LoopGoto(l, "check", "top")
  /\ ~closed
  /\ got[l] = "error"
  /\ GiveUpBuffer(l)
  /\ got' = [got EXCEPT ![l] = "none"]
  /\ UNCHANGED <<allocated, content, handlerVars, closeVars>>

StartHandler(l) ==
  /\ LoopGoto(l, "check", "top")
  /\ ~closed
  /\ got[l] \in Packets
  /\ hpc' = [hpc EXCEPT ![got[l]] = "decode"]
  /\ hbuf' = [hbuf EXCEPT ![got[l]] = lbuf[l]]
  /\ lbuf' = [lbuf EXCEPT ![l] = NoBuffer]
  /\ got' = [got EXCEPT ![l] = "none"]
  /\ UNCHANGED <<poolVars, payload, closeVars>>

----------------------------------------------------------------------------
(* handleMsg and the deferred Put of its goroutine                         *)

(* The packet says something somebody may wait for, or it does not: it     *)
(* does not decode, is of a kind not looked at, or the decoder panics,     *)
(* which handleMsg recovers from.                                          *)
Decode(p) ==
  /\ hpc[p] = "decode"
  /\ \E next \in {"deliver", "put"} : hpc' = [hpc EXCEPT ![p] = next]
  /\ UNCHANGED <<hbuf, payload, loopVars, poolVars, closeVars>>

(* deliver or Publish, with a copy of the bytes or with values decoded     *)
(* from them.                                                              *)
DeliverPayload(p) ==
  /\ hpc[p] = "deliver"
  /\ hpc' = [hpc EXCEPT ![p] = "put"]
  /\ payload' = [payload EXCEPT ![p] = [buf |-> NoBuffer, value |-> content[hbuf[p]]]]
  /\ UNCHANGED <<hbuf, loopVars, poolVars, closeVars>>

HandlerEnds(p) ==
  /\ hpc[p] = "put"
  /\ hpc' = [hpc EXCEPT ![p] = "done"]
  /\ PutBuffer(hbuf[p])
  /\ hbuf' = [hbuf EXCEPT ![p] = NoBuffer]
  /\ UNCHANGED <<payload, loopVars, allocated, content, closeVars>>

----------------------------------------------------------------------------
(* Close, and ClientClose, which is Close unless it was asked to close the *)
(* log output too and that output can be closed (as the default one can).  *)

CallClose ==
  /\ cpc = "none"
  /\ cpc' = "flag"
  /\ UNCHANGED <<closed, open, loopVars, poolVars, handlerVars>>

CloseLogs ==
  /\ cpc = "none"
  /\ cpc' = "returned"
  /\ UNCHANGED <<closed, open, loopVars, poolVars, handlerVars>>

SetClosed ==
  /\ cpc = "flag"
  /\ cpc' = "link"
  /\ closed' = TRUE
  /\ UNCHANGED <<open, loopVars, poolVars, handlerVars>>

CloseLink ==
  /\ cpc = "link"
  /\ cpc' = "returned"
  /\ open' = FALSE
  /\ UNCHANGED <<closed, loopVars, poolVars, handlerVars>>

(* A link that the caller of NewClient brought along may be closed by that *)
(* caller, with nothing said to the client.                                *)
LinkClosedByOwner ==
  /\ open
  /\ open' = FALSE
  /\ UNCHANGED <<closed, cpc, loopVars, poolVars, handlerVars>>

----------------------------------------------------------------------------
(* What a loop does of its own; packets and read errors come from outside. *)
Run(l) ==
  \/ EndAtTop(l) \/ ReadClosed(l) \/ EndClosed(l) \/ EndOfFile(l) \/ ReadError(l)
  \/ StartHandler(l)
  \/ \E b \in Buffers : GetBuffer(l, b)

Handle(p) == Decode(p) \/ DeliverPayload(p) \/ HandlerEnds(p)

Closing == SetClosed \/ CloseLink

ReceiveFinished ==
  /\ cpc = "returned"
  /\ \A l \in Loops : lpc[l] \in {"new", "receive", "returned"}
  /\ \A p \in Packets : hpc[p] \notin {"decode", "deliver", "put"}
  /\ UNCHANGED receiveVars

ReceiveNext ==
  \/ \E l \in Loops : Start(l) \/ Run(l) \/ ReadFails(l)
  \/ \E l \in Loops, p \in Packets : ReadPacket(l, p)
  \/ \E p \in Packets : Handle(p)
  \/ CallClose \/ CloseLogs \/ Closing \/ LinkClosedByOwner
  \/ ReceiveFinished

ReceiveSpec == ReceiveInit /\ [][ReceiveNext]_receiveVars

(* The goroutines run; nothing is assumed of packets, errors or callers.   *)
FairReceiveSpec ==
  /\ ReceiveSpec
  /\ \A l \in Loops : WF_receiveVars(Run(l))
  /\ \A p \in Packets : WF_receiveVars(Handle(p))
  /\ WF_receiveVars(Closing)

----------------------------------------------------------------------------
(* Properties                                                              *)

(* A loop has a buffer while it reads and looks at what it read, a handler *)
(* has one until it ends.                                                  *)
ReceiveTypeOK ==
  /\ lpc \in [Loops -> LoopPhases] /\ hpc \in [Packets -> HandlerPhases]
  /\ cpc \in ClosePhases /\ closed \in BOOLEAN /\ open \in BOOLEAN
  /\ lbuf \in [Loops -> Buffers \cup {NoBuffer}] /\ hbuf \in [Packets -> Buffers \cup {NoBuffer}]
  /\ \A l \in Loops : lbuf[l] = NoBuffer <=> lpc[l] \notin {"receive", "check"}
  /\ \A p \in Packets : hbuf[p] = NoBuffer <=> hpc[p] \notin {"decode", "deliver", "put"}
  /\ got \in [Loops -> Results]
  /\ pool \in [Buffers -> Nat] /\ allocated \subseteq Buffers
  /\ content \in [Buffers -> Packets \cup {Nothing}]
  /\ payload \in [Packets -> [buf : Buffers \cup {NoBuffer}, value : Packets \cup {Nothing}]]

(* Every buffer ever made is in one place: once in the pool, or with one   *)
(* loop, or with one handler.  None is lost on any way out of a loop or a  *)
(* handler, and none can be had by two at a time.                          *)
BuffersAccounted ==
  \A b \in Buffers :
    pool[b] + Cardinality({l \in Loops : lbuf[l] = b})
            + Cardinality({p \in Packets : hbuf[p] = b})
      = IF b \in allocated THEN 1 ELSE 0

(* While a handler works on its packet no loop reads another one into its  *)
(* buffer, and no packet meant for another socket is ever worked on.       *)
HandlersKeepTheirPacket ==
  \A p \in Packets : hpc[p] \in {"decode", "deliver"} =>
    content[hbuf[p]] = p /\ p \notin Foreign

(* What the waiter of a reply finds in its hands, whenever it looks.       *)
Seen(p) == IF payload[p].buf = NoBuffer THEN payload[p].value ELSE content[payload[p].buf]

(* What was handed on for a packet stays that packet's, even after its     *)
(* buffer went back to the pool and took another packet.                   *)
PayloadsOutliveBuffers == \A p \in Packets : payload[p] # NoPayload => Seen(p) = p

(* Once Close has set its flag, or the link was closed without it, every   *)
(* loop that runs, the ones that block in a read included, comes to its    *)
(* end.                                                                    *)
LoopsEnd == \A l \in Loops : closed \/ ~open ~> lpc[l] \in {"new", "returned"}
=============================================================================
