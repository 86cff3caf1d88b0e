------------------------------- MODULE Requests ------------------------------
(***************************************************************************)
(* The confirmed requests of the client: ReadProperty, WriteProperty,      *)
(* ReadMultiProperty and WriteMultiProperty (readprop.go, writeprop.go,    *)
(* readmulti.go, writemulti.go).                                           *)
(*                                                                         *)
(* Each call reserves an invoke id, sends, waits for a reply, tries again  *)
(* as its loop says, and gives the id back.  Between the calls and the     *)
(* devices is a network that loses, delays, duplicates and reorders: a     *)
(* message stays on the wire, and is handed over never, once or often.     *)
(*                                                                         *)
(* The manager is the one of Transactions, which TSM implements; what      *)
(* matters here beyond it is that free ids are handed out in the order     *)
(* they came back.  A message is on the wire until Lifetime ids were taken *)
(* after the call that caused it gave its own back; a network as late as   *)
(* that is all the properties may have to assume.                          *)
(*                                                                         *)
(* A reply is decoded by the caller, after it was received.  That is a     *)
(* step of its own, for the decoder of a multiple read does not end on     *)
(* every reply (DecoderGetsOn and WholeRepliesDecoded of Codec).           *)
(***************************************************************************)
EXTENDS Integers, Sequences, FiniteSets

CONSTANTS
  Calls,      (* the confirmed requests                                    *)
  NoCall,     (* not one of them                                           *)
  Devices,    (* the devices asked                                         *)
  Kinds,      (* the methods called: some of AllKinds                      *)
  Lists,      (* the lists of objects and properties to read, or read      *)
  NoService,  (* the nil service of Reject and Abort                       *)
  NumIds,     (* the invoke ids (254)                                      *)
  Size,       (* the requests in flight the manager allows (20)            *)
  Lifetime,   (* how many requests a message may be late                   *)
  MaxRuns     (* how often devices run the request of one call             *)

AllKinds == {"read", "write", "readMulti", "writeMulti"}

ASSUME RequestsAssumption ==
  /\ NoCall \notin Calls
  /\ Kinds \subseteq AllKinds
  /\ NoService \notin AllKinds
  /\ NumIds \in Nat \ {0}
  /\ Size \in 1..NumIds
  /\ Lifetime \in Nat
  /\ MaxRuns \in Nat \ {0}

VARIABLES
  \* the calls
  pc,         (* the next step of a call                                   *)
  wanted,     (* the list a multiple read asks for, <<>> for the others    *)
  id,         (* its invoke id, 0 before and after                         *)
  attempt,    (* the requests it sent or failed to send                    *)
  result,     (* what it returned                                          *)
  answer,     (* the reply the result was taken from                       *)
  \* the manager
  asked, owner, inbox, outcome,
  freeId,     (* the free ids, in the order they are handed out            *)
  \* the network and the devices
  requests,   (* the requests on the wire                                  *)
  replies,    (* the replies on the wire                                   *)
  runs,       (* how often a device ran the request of a call              *)
  late        (* the ids taken since a call gave its own back              *)

callVars == <<pc, wanted, id, attempt, result, answer>>
managerVars == <<asked, owner, inbox, outcome, freeId>>
netVars == <<requests, replies, runs, late>>
vars == <<callVars, managerVars, netVars>>

M == INSTANCE Transactions WITH Peers <- Devices, Services <- Kinds

----------------------------------------------------------------------------
kind == [c \in Calls |-> asked[c].svc]

Phases == {"start", "ready", "send", "wait", "decode", "put", "done"}
Results == {"none", "ok", "error"}

(* retryCount, the literal 2 of WriteProperty, and maxReattempt.           *)
Attempts(c) == IF kind[c] = "read" THEN 1 ELSE 2

(* How a device can answer: "abort" is a Reject or an Abort, "garbled" an  *)
(* acknowledgement whose values do not decode, "endless" one that the      *)
(* decoder of a multiple read never comes to the end of.                   *)
Answers(k) ==
  {"ack", "error", "abort"} \cup (IF k \in {"read", "readMulti"} THEN {"garbled"} ELSE {})
    \cup (IF k = "readMulti" THEN {"endless"} ELSE {})

(* What an acknowledgement can list: any objects and properties.           *)
Listings(k, what) == IF k = "readMulti" /\ what = "ack" THEN Lists ELSE {<<>>}

InFlight == {c \in Calls : id[c] # 0}

(* A message that is still on the wire.                                    *)
Alive(c) == late[c] < Lifetime

(* The caller decodes a reply its decoder never comes to the end of.       *)
Hangs(c) == pc[c] = "decode" /\ answer[c][1].what = "endless"

----------------------------------------------------------------------------
(* What a multiple read compares: the objects, in order, and of each that  *)
(* only properties are listed that were asked for, some at least.  "all"   *)
(* (and required) and "optional" ask for properties not named, "optional"  *)
(* perhaps for none; device 4194303 is whatever device answers.  Neither   *)
(* values nor who asked are part of it.                                    *)
MaxInstance == 4194303

matchObjectID(o, p) ==
  \/ o = p
  \/ o = <<"device", MaxInstance>> /\ p[1] = "device" /\ p[2] < MaxInstance

matchReadMultipleReply(want, lists) ==
  /\ Len(lists) = Len(want)
  /\ \A i \in 1..Len(want) :
       /\ matchObjectID(want[i].obj, lists[i].obj)
       /\ lists[i].props # {} \/ "optional" \in want[i].props
       /\ lists[i].props \subseteq want[i].props \/ want[i].props \cap {"all", "optional"} # {}

----------------------------------------------------------------------------
Init ==
  /\ pc = [c \in Calls |-> "start"]
  /\ wanted \in [Calls -> Lists \cup {<<>>}]
  /\ id = [c \in Calls |-> 0]
  /\ attempt = [c \in Calls |-> 0]
  /\ result = [c \in Calls |-> "none"]
  /\ answer = [c \in Calls |-> <<>>]
  /\ M!Init
  /\ \A c \in Calls : wanted[c] \in Listings(kind[c], "ack")
  /\ freeId = [i \in 1..NumIds |-> i]
  /\ requests = {}
  /\ replies = {}
  /\ runs = [c \in Calls |-> 0]
  /\ late = [c \in Calls |-> 0]

----------------------------------------------------------------------------
(* Faulty variants of the definitions below, each a plausible slip in the  *)
(* code; a run with one in place of the definition must fail.              *)

\* Every error leads to another try, whatever the request.
VerdictRetries(c, r) ==
  CASE r.what \in {"error", "abort", "garbled"} -> "again"
    [] kind[c] = "readMulti" /\ ~matchReadMultipleReply(wanted[c], r.lists) -> "return"
    [] OTHER -> "accept"

\* The early returns come before the defer of Put.
RefuseKeepsId(c) ==
  /\ pc[c] = "ready"
  /\ pc' = [pc EXCEPT ![c] = "done"]
  /\ result' = [result EXCEPT ![c] = "error"]
  /\ UNCHANGED <<wanted, id, attempt, answer, managerVars, netVars>>

\* A timeout is waited out again and again.
TimeoutWaitsOn(c) ==
  /\ pc[c] = "wait"
  /\ M!Expire(c, id[c])
  /\ UNCHANGED <<callVars, freeId, netVars>>

\* The id that came back last is handed out first.
PutInFront(c) ==
  /\ pc[c] = "put"
  /\ M!Release(c, id[c])
  /\ freeId' = <<id[c]>> \o freeId
  /\ id' = [id EXCEPT ![c] = 0]
  /\ pc' = [pc EXCEPT ![c] = "done"]
  /\ UNCHANGED <<wanted, attempt, result, answer, netVars>>

----------------------------------------------------------------------------
(* The verdict on a reply: the value to return, an error to return, or     *)
(* another try.  The single requests return the peer's error, the multiple *)
(* ones try again after it, except when an acknowledgement lists other     *)
(* objects; ReadProperty does not look at what object it got.              *)
Verdict(c, r) ==
  CASE r.what \in {"error", "abort"} /\ kind[c] \in {"read", "write"} -> "return"
    [] r.what \in {"error", "abort"} /\ kind[c] \notin {"read", "write"} -> "again"
    [] r.what = "garbled" /\ kind[c] # "write" -> "again"
    [] kind[c] = "readMulti" /\ r.what = "ack" /\ ~matchReadMultipleReply(wanted[c], r.lists) -> "return"
    [] OTHER -> "accept"

(* The end of the nth iteration, with an error.                            *)
TryAgain(c, n) ==
  IF n < Attempts(c)
    THEN /\ pc' = [pc EXCEPT ![c] = "send"]
         /\ UNCHANGED result
    ELSE /\ pc' = [pc EXCEPT ![c] = "put"]
         /\ result' = [result EXCEPT ![c] = "error"]

Return(c, res) ==
  /\ pc' = [pc EXCEPT ![c] = "put"]
  /\ result' = [result EXCEPT ![c] = res]

----------------------------------------------------------------------------
(* tsm.ID, for as long as the context of the call lasts.                   *)
TakeId(c) ==
  /\ pc[c] = "start"
  /\ Cardinality(InFlight) < Size
  /\ freeId # <<>>
  /\ M!Reserve(c, Head(freeId))
  /\ freeId' = Tail(freeId)
  /\ id' = [id EXCEPT ![c] = Head(freeId)]
  /\ pc' = [pc EXCEPT ![c] = "ready"]
  /\ late' = [d \in Calls |-> IF pc[d] = "done" /\ Alive(d) THEN late[d] + 1 ELSE late[d]]
  /\ UNCHANGED <<wanted, attempt, result, answer, requests, replies, runs>>

NoId(c) ==
  /\ pc[c] = "start"
  /\ pc' = [pc EXCEPT ![c] = "done"]
  /\ result' = [result EXCEPT ![c] = "error"]
  /\ UNCHANGED <<wanted, id, attempt, answer, managerVars, netVars>>

(* The request is encoded, or one of the checks before the loop fails:     *)
(* CheckADPU, the encoder, the size of the packet.                         *)
Encode(c) ==
  /\ pc[c] = "ready"
  /\ pc' = [pc EXCEPT ![c] = "send"]
  /\ UNCHANGED <<wanted, id, attempt, result, answer, managerVars, netVars>>

Refuse(c) ==
  /\ pc[c] = "ready"
  /\ Return(c, "error")
  /\ UNCHANGED <<wanted, id, attempt, answer, managerVars, netVars>>

Send(c) ==
  /\ pc[c] = "send"
  /\ attempt' = [attempt EXCEPT ![c] = @ + 1]
  /\ requests' = requests \cup {[by |-> c, id |-> id[c]]}
  /\ pc' = [pc EXCEPT ![c] = "wait"]
  /\ UNCHANGED <<wanted, id, result, answer, managerVars, replies, runs, late>>

SendFails(c) ==
  /\ pc[c] = "send"
  /\ attempt' = [attempt EXCEPT ![c] = @ + 1]
  /\ TryAgain(c, attempt[c] + 1)
  /\ UNCHANGED <<wanted, id, answer, managerVars, netVars>>

(* tsm.Receive returned a reply.                                           *)
Receive(c) ==
  /\ pc[c] = "wait"
  /\ M!Read(c, id[c])
  /\ answer' = [answer EXCEPT ![c] = inbox[c]]
  /\ pc' = [pc EXCEPT ![c] = "decode"]
  /\ UNCHANGED <<wanted, id, attempt, result, freeId, netVars>>

(* The reply is decoded and compared.                                      *)
Decode(c) ==
  /\ pc[c] = "decode"
  /\ ~Hangs(c)
  /\ LET verdict == Verdict(c, answer[c][1])
     IN \/ verdict = "accept" /\ Return(c, "ok")
        \/ verdict = "return" /\ Return(c, "error")
        \/ verdict = "again" /\ TryAgain(c, attempt[c])
  /\ UNCHANGED <<wanted, id, attempt, answer, managerVars, netVars>>

(* tsm.Receive timed out.                                                  *)
Timeout(c) ==
  /\ pc[c] = "wait"
  /\ M!Expire(c, id[c])
  /\ TryAgain(c, attempt[c])
  /\ UNCHANGED <<wanted, id, attempt, answer, freeId, netVars>>

(* The deferred tsm.Put.                                                   *)
Put(c) ==
  /\ pc[c] = "put"
  /\ M!Release(c, id[c])
  /\ freeId' = Append(freeId, id[c])
  /\ id' = [id EXCEPT ![c] = 0]
  /\ pc' = [pc EXCEPT ![c] = "done"]
  /\ UNCHANGED <<wanted, attempt, result, answer, netVars>>

----------------------------------------------------------------------------
(* The devices and the network                                             *)

(* A device gets a request, perhaps again, and answers it.                 *)
Answer(m, what) ==
  /\ Alive(m.by)
  /\ runs[m.by] < MaxRuns
  /\ what \in Answers(kind[m.by])
  /\ runs' = [runs EXCEPT ![m.by] = @ + 1]
  /\ \E lists \in Listings(kind[m.by], what) :
       replies' = replies \cup {[by |-> m.by, id |-> m.id, what |-> what, lists |-> lists]}
  /\ UNCHANGED <<callVars, managerVars, requests, late>>

(* A reply comes in and handleMsg delivers it to the request its id is     *)
(* reserved for, if peer and service fit and no other reply is unread.     *)
Deliver(p) ==
  LET r == [src |-> asked[p.by].src, by |-> p.by, what |-> p.what, lists |-> p.lists,
            svc |-> IF p.what = "abort" THEN NoService ELSE kind[p.by]]
  IN /\ Alive(p.by)
     /\ owner[p.id] # NoCall
     /\ M!Deliver(owner[p.id], p.id, r)
     /\ UNCHANGED <<callVars, freeId, netVars>>

----------------------------------------------------------------------------
Step(c) ==
  \/ TakeId(c) \/ NoId(c) \/ Encode(c) \/ Refuse(c)
  \/ Send(c) \/ SendFails(c) \/ Receive(c) \/ Decode(c) \/ Timeout(c) \/ Put(c)

Network ==
  \/ \E m \in requests : \E what \in Answers(kind[m.by]) : Answer(m, what)
  \/ \E p \in replies : Deliver(p)

Finished ==
  /\ \A c \in Calls : pc[c] = "done" \/ Hangs(c)
  /\ UNCHANGED vars

Next == (\E c \in Calls : Step(c)) \/ Network \/ Finished

Spec == Init /\ [][Next]_vars

(* Every call runs on its caller's goroutine, and every wait of it ends    *)
(* with a timeout.  Nothing is assumed of the network or the devices, nor  *)
(* that every reply is decoded: Decode is not enabled on an endless one.   *)
FairSpec == Spec /\ \A c \in Calls : WF_vars(Step(c))

----------------------------------------------------------------------------
(* Properties                                                              *)

Ids == 1..NumIds

Whats == {"ack", "error", "abort", "garbled", "endless"}

(* A reply as the manager hands it over, and what a mailbox of one holds.  *)
Got == [src : Devices, by : Calls, what : Whats, lists : Lists \cup {<<>>},
        svc : Kinds \cup {NoService}]
Mail == {<<>>} \cup {<<r>> : r \in Got}

(* The types of the variables; a call has an id while it is under way.     *)
TypeOK ==
  /\ pc \in [Calls -> Phases] /\ result \in [Calls -> Results]
  /\ wanted \in [Calls -> Lists \cup {<<>>}]
  /\ id \in [Calls -> 0..NumIds] /\ attempt \in [Calls -> Nat]
  /\ \A c \in Calls : id[c] = 0 <=> pc[c] \in {"start", "done"}
  /\ asked \in [Calls -> [src : Devices, svc : Kinds]]
  /\ owner \in [Ids -> Calls \cup {NoCall}]
  /\ inbox \in [Calls -> Mail] /\ answer \in [Calls -> Mail]
  /\ freeId \in Seq(Ids)
  /\ requests \subseteq [by : Calls, id : Ids]
  /\ replies \subseteq [by : Calls, id : Ids, what : Whats, lists : Lists \cup {<<>>}]
  /\ runs \in [Calls -> Nat] /\ late \in [Calls -> Nat]

(* Every way out of a request, with a value, an error, a timeout or before *)
(* anything was sent, gives its id back exactly once: each id is always    *)
(* either free, in one place of the queue, or with a request under way.    *)
IdsReturned ==
  /\ Len(freeId) + Cardinality({c \in Calls : pc[c] \notin {"start", "done"}}) = NumIds
  /\ \A i \in Ids : (\E k \in 1..Len(freeId) : freeId[k] = i) <=> owner[i] = NoCall

(* A request that succeeds was answered by a device that ran this very     *)
(* request, not by a late reply to an earlier one under the same id, when  *)
(* no reply is later than the queue of free ids is long: an id that comes  *)
(* back queues up behind all free ones, and at most Size are away.         *)
AnswersOwnRequest ==
  Lifetime <= NumIds - Size + 1 =>
    \A c \in Calls : result[c] = "ok" => answer[c][1].by = c /\ runs[c] > 0

(* Even over a network so late that a request takes the reply to another,  *)
(* a request that succeeds returns what the device it asked answered, not  *)
(* another device with the same objects, in an acknowledgement of the same *)
(* service; and a multiple read returns only what it asked for.  Whether   *)
(* the values are those of its own request or of an earlier one for the    *)
(* same objects is not told here but by AnswersOwnRequest, for the reply   *)
(* does not show it.                                                       *)
AnswerFits ==
  \A c \in Calls : result[c] = "ok" =>
    LET r == answer[c][1]
    IN /\ r.what = "ack" /\ r.src = asked[c].src /\ kind[r.by] = kind[c]
       /\ kind[c] = "readMulti" => matchReadMultipleReply(wanted[c], r.lists)

(* A request goes out again only after silence or a failure to send it, or *)
(* for the multiple requests after a reply that reported an error: a write *)
(* that was answered, well or badly, is not repeated.                      *)
AnsweredNotResent ==
  [][\A c \in Calls : Send(c) /\ answer[c] # <<>> =>
       /\ kind[c] \in {"readMulti", "writeMulti"}
       /\ answer[c][1].what \in {"error", "abort", "garbled"}]_vars

(* Every request returns, whatever the network loses or the devices do,    *)
(* but for a multiple read that got a reply its decoder never comes to the *)
(* end of; and that one, which keeps its id and its place among the Size   *)
(* requests for good, keeps no other from returning.                       *)
EveryRequestReturns == \A c \in Calls : <>(pc[c] = "done" \/ Hangs(c))
=============================================================================
