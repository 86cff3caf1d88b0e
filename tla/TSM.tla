--------------------------------- MODULE TSM ---------------------------------
(***************************************************************************)
(* The transaction state manager of the client (tsm/transactions.go).      *)
(*                                                                         *)
(* Every confirmed request the client sends is one call of this module:    *)
(* it reserves an invoke id with ID, sends the request, receives the reply *)
(* (again after a retry), and gives the id back with Put.  Replies come in *)
(* on the goroutines of ClientRun, which hand them over with Send.  The    *)
(* module keeps the interleaving the Go code allows: ID takes a token and  *)
(* an id from two buffered channels before it takes the mutex, Receive     *)
(* lets the mutex go before it waits, and Put works on the two channels    *)
(* and on the map while it holds the mutex.                                *)
(*                                                                         *)
(* A state object of the code lives exactly as long as the call that made  *)
(* it, so the call names the object: chan[c] and closed[c] are the data    *)
(* channel that Register creates for c.                                    *)
(***************************************************************************)
EXTENDS Integers, Sequences, FiniteSets

CONSTANTS
  Calls,        (* the confirmed requests made through the client          *)
  NoCall,       (* not a call: an absent map entry, a free mutex           *)
  Peers,        (* the addresses requests are sent to                      *)
  Services,     (* the confirmed services asked for                        *)
  NoService,    (* the nil service of Reject and Abort                     *)
  NumIds,       (* the ids New puts in free.id (254 in the code)           *)
  IdCap,        (* the capacity of free.id (255, MaxTransaction)           *)
  Size,         (* the argument of New: requests in flight (20)            *)
  MaxReceives   (* how often a call waits for a reply, retries included    *)

ASSUME TSMAssumption ==
  /\ NumIds \in Nat \ {0}
  /\ IdCap \in Nat
  /\ IdCap >= NumIds
  /\ Size \in Nat \ {0}
  /\ MaxReceives \in Nat \ {0}
  /\ NoCall \notin Calls
  /\ NoService \notin Services

VARIABLES
  \* each call
  pc,           (* the next step of the call                               *)
  peer,         (* source: the address the request is sent to              *)
  svc,          (* service: the confirmed service asked for                *)
  id,           (* the invoke id it reserved, 0 when it has none           *)
  ref,          (* the state object its Receive found                      *)
  tries,        (* the Receives it began                                   *)
  got,          (* what its last Receive returned                          *)
  \* the manager
  mutex,        (* the call that holds TSM.mutex across steps              *)
  states,       (* TSM.states: the state object registered under an id     *)
  freeId,       (* TSM.free.id, a buffered channel                         *)
  freeSpace,    (* the number of tokens in TSM.free.space                  *)
  \* the state objects
  chan,         (* the content of state.data, a channel of capacity 1      *)
  closed        (* state.data was closed                                   *)

callVars == <<pc, peer, svc, id, ref, tries, got>>
objVars == <<chan, closed>>
vars == <<callVars, mutex, states, freeId, freeSpace, objVars>>

----------------------------------------------------------------------------
Ids == 1..NumIds
Replies == [src : Peers, svc : Services \cup {NoService}]
Contents == {<<>>} \cup {<<r>> : r \in Replies}
Outcomes == [kind : {"none", "reply", "timeout", "notReceiving"}, body : Contents]
Without(kind) == [kind |-> kind, body |-> <<>>]

Phases == {"space", "id", "register", "registered", "receiving",
           "putId", "putSpace", "putDelete", "failed", "done"}

Goto(c, from, to) ==
  /\ pc[c] = from
  /\ pc' = [pc EXCEPT ![c] = to]

(* addressMatches and the service check: nil fits every service.           *)
Matches(c, r) ==
  /\ peer[c] = r.src
  /\ r.svc \in {NoService, svc[c]}

----------------------------------------------------------------------------
(* Faulty variants of the definitions below, each a plausible slip in the  *)
(* code; a run with one in place of the definition must fail.              *)

InitialIdsFromZero == [i \in 1..NumIds |-> i - 1]

TakeSpaceLeavesToken(c) ==
  /\ Goto(c, "space", "id")
  /\ freeSpace > 0
  /\ UNCHANGED <<peer, svc, id, ref, tries, got, mutex, states, freeId, freeSpace,
                 objVars>>

IdTimeoutKeepsSpace(c) ==
  /\ Goto(c, "id", "failed")
  /\ UNCHANGED <<peer, svc, id, ref, tries, got, mutex, states, freeId, freeSpace,
                 objVars>>

RegisterWithoutLock(c) ==
  /\ Goto(c, "register", "registered")
  /\ states' = [states EXCEPT ![id[c]] = c]
  /\ UNCHANGED <<peer, svc, id, ref, tries, got, mutex, freeId, freeSpace, objVars>>

SendOverwrites(i, r) ==
  /\ mutex = NoCall
  /\ states[i] # NoCall
  /\ Matches(states[i], r)
  /\ chan' = [chan EXCEPT ![states[i]] = <<r>>]
  /\ UNCHANGED <<callVars, mutex, states, freeId, freeSpace, closed>>

PutCloseUnlocked(c) ==
  /\ Goto(c, "registered", "putId")
  /\ mutex = NoCall
  /\ closed' = [closed EXCEPT ![states[id[c]]] = TRUE]
  /\ UNCHANGED <<peer, svc, id, ref, tries, got, mutex, states, freeId, freeSpace, chan>>

PutIdInFront(c) ==
  /\ Goto(c, "putId", "putSpace")
  /\ freeId' = <<id[c]>> \o freeId
  /\ UNCHANGED <<peer, svc, id, ref, tries, got, mutex, states, freeSpace, objVars>>

----------------------------------------------------------------------------
InitialIds == [i \in 1..NumIds |-> i]

Init ==
  /\ pc = [c \in Calls |-> "space"]
  /\ peer \in [Calls -> Peers]
  /\ svc \in [Calls -> Services]
  /\ id = [c \in Calls |-> 0]
  /\ ref = [c \in Calls |-> NoCall]
  /\ tries = [c \in Calls |-> 0]
  /\ got = [c \in Calls |-> Without("none")]
  /\ mutex = NoCall
  /\ states = [i \in Ids |-> NoCall]
  /\ freeId = InitialIds
  /\ freeSpace = Size
  /\ chan = [c \in Calls |-> <<>>]
  /\ closed = [c \in Calls |-> FALSE]

----------------------------------------------------------------------------
(* ID: take a token, then an id, each or the context; then register.       *)

TakeSpace(c) ==
  /\ Goto(c, "space", "id")
  /\ freeSpace > 0
  /\ freeSpace' = freeSpace - 1
  /\ UNCHANGED <<peer, svc, id, ref, tries, got, mutex, states, freeId, objVars>>

SpaceTimeout(c) ==
  /\ Goto(c, "space", "failed")
  /\ UNCHANGED <<peer, svc, id, ref, tries, got, mutex, states, freeId, freeSpace,
                 objVars>>

TakeId(c) ==
  /\ Goto(c, "id", "register")
  /\ freeId # <<>>
  /\ id' = [id EXCEPT ![c] = Head(freeId)]
  /\ freeId' = Tail(freeId)
  /\ UNCHANGED <<peer, svc, ref, tries, got, mutex, states, freeSpace, objVars>>

IdTimeout(c) ==
  /\ Goto(c, "id", "failed")
  /\ freeSpace < Size
  /\ freeSpace' = freeSpace + 1
  /\ UNCHANGED <<peer, svc, id, ref, tries, got, mutex, states, freeId, objVars>>

Register(c) ==
  /\ Goto(c, "register", "registered")
  /\ mutex = NoCall
  /\ states' = [states EXCEPT ![id[c]] = c]
  /\ UNCHANGED <<peer, svc, id, ref, tries, got, mutex, freeId, freeSpace, objVars>>

----------------------------------------------------------------------------
(* Send: a reply from src with invoke id i.  The whole of it runs under    *)
(* the mutex, so it is one step.  A reply it refuses changes nothing.      *)

Send(i, r) ==
  /\ mutex = NoCall
  /\ states[i] # NoCall
  /\ Matches(states[i], r)
  /\ chan[states[i]] = <<>>
  /\ chan' = [chan EXCEPT ![states[i]] = <<r>>]
  /\ UNCHANGED <<callVars, mutex, states, freeId, freeSpace, closed>>

----------------------------------------------------------------------------
(* Receive: look the id up under the mutex, then wait without it.          *)

Lookup(c) ==
  /\ pc[c] = "registered"
  /\ tries[c] < MaxReceives
  /\ mutex = NoCall
  /\ tries' = [tries EXCEPT ![c] = @ + 1]
  /\ ref' = [ref EXCEPT ![c] = states[id[c]]]
  /\ IF states[id[c]] = NoCall
       THEN /\ got' = [got EXCEPT ![c] = Without("notReceiving")]
            /\ UNCHANGED pc
       ELSE /\ pc' = [pc EXCEPT ![c] = "receiving"]
            /\ UNCHANGED got
  /\ UNCHANGED <<peer, svc, id, mutex, states, freeId, freeSpace, objVars>>

\* A closed channel still yields its buffered value, and only then the zero value.
ReceiveData(c) ==
  /\ Goto(c, "receiving", "registered")
  /\ chan[ref[c]] # <<>> \/ closed[ref[c]]
  /\ got' = [got EXCEPT ![c] =
               [kind |-> IF chan[ref[c]] # <<>> THEN "reply" ELSE "notReceiving",
                body |-> chan[ref[c]]]]
  /\ chan' = [chan EXCEPT ![ref[c]] = <<>>]
  /\ ref' = [ref EXCEPT ![c] = NoCall]
  /\ UNCHANGED <<peer, svc, id, tries, mutex, states, freeId, freeSpace, closed>>

\* The select takes either branch when both are ready, so a reply does not disable it.
ReceiveTimeout(c) ==
  /\ Goto(c, "receiving", "registered")
  /\ got' = [got EXCEPT ![c] = Without("timeout")]
  /\ ref' = [ref EXCEPT ![c] = NoCall]
  /\ UNCHANGED <<peer, svc, id, tries, mutex, states, freeId, freeSpace, objVars>>

----------------------------------------------------------------------------
(* Put: everything under the mutex, with two channel sends that would      *)
(* block if the channel were full.                                         *)

PutClose(c) ==
  /\ pc[c] = "registered"
  /\ mutex = NoCall
  /\ IF states[id[c]] = NoCall
       THEN /\ pc' = [pc EXCEPT ![c] = "done"]
            /\ UNCHANGED <<mutex, closed>>
       ELSE /\ pc' = [pc EXCEPT ![c] = "putId"]
            /\ mutex' = c
            /\ closed' = [closed EXCEPT ![states[id[c]]] = TRUE]
  /\ UNCHANGED <<peer, svc, id, ref, tries, got, states, freeId, freeSpace, chan>>

PutId(c) ==
  /\ Goto(c, "putId", "putSpace")
  /\ Len(freeId) < IdCap
  /\ freeId' = Append(freeId, id[c])
  /\ UNCHANGED <<peer, svc, id, ref, tries, got, mutex, states, freeSpace, objVars>>

PutSpace(c) ==
  /\ Goto(c, "putSpace", "putDelete")
  /\ freeSpace < Size
  /\ freeSpace' = freeSpace + 1
  /\ UNCHANGED <<peer, svc, id, ref, tries, got, mutex, states, freeId, objVars>>

PutDelete(c) ==
  /\ Goto(c, "putDelete", "done")
  /\ states' = [states EXCEPT ![id[c]] = NoCall]
  /\ mutex' = NoCall
  /\ id' = [id EXCEPT ![c] = 0]
  /\ tries' = [tries EXCEPT ![c] = 0]
  /\ UNCHANGED <<peer, svc, ref, got, freeId, freeSpace, objVars>>

Acquire(c) == \/ TakeSpace(c) \/ SpaceTimeout(c) \/ TakeId(c)
              \/ IdTimeout(c) \/ Register(c)
Receive(c) == Lookup(c) \/ ReceiveData(c) \/ ReceiveTimeout(c)
Put(c) == PutClose(c) \/ PutId(c) \/ PutSpace(c) \/ PutDelete(c)

Returned(c) == pc[c] \in {"failed", "done"}

(* Nothing is left to do once every call has returned.                     *)
Finished ==
  /\ \A c \in Calls : Returned(c)
  /\ UNCHANGED vars

Next ==
  \/ \E c \in Calls : Acquire(c) \/ Receive(c) \/ Put(c)
  \/ \E i \in Ids, r \in Replies : Send(i, r)
  \/ Finished

Spec == Init /\ [][Next]_vars

(* Every call is a goroutine: it takes a step it can take sooner or later, *)
(* and each of its waits ends with its context.  Weak fairness is enough   *)
(* for the mutex: finitely many Puts hold it across steps, and each ends.  *)
Fairness == \A c \in Calls : WF_vars(Acquire(c) \/ Receive(c) \/ Put(c))

FairSpec == Spec /\ Fairness

----------------------------------------------------------------------------
(* Properties                                                              *)

(* The calls that own an id: from the receive on free.id to Put's send.    *)
Owners == {c \in Calls : pc[c] \in {"register", "registered", "receiving", "putId"}}

(* The calls that hold a token of free.space.                              *)
Holders == Owners \cup {c \in Calls : pc[c] \in {"id", "putSpace"}}

(* The calls whose state object is in TSM.states.                          *)
Mapped == {c \in Calls : pc[c] \in {"registered", "receiving", "putId", "putSpace",
                                    "putDelete"}}

InPut(c) == pc[c] \in {"putId", "putSpace", "putDelete"}

QueuedAt(i) == {k \in 1..Len(freeId) : freeId[k] = i}
Queued(i) == QueuedAt(i) # {}

(* The state is of the shape the Go types allow: ids are 1..254 and never  *)
(* invalidID, channels stay within their capacities.                       *)
TypeOK ==
  /\ pc \in [Calls -> Phases]
  /\ peer \in [Calls -> Peers]
  /\ svc \in [Calls -> Services]
  /\ id \in [Calls -> Ids \cup {0}]
  /\ ref \in [Calls -> Calls \cup {NoCall}]
  /\ tries \in [Calls -> 0..MaxReceives]
  /\ got \in [Calls -> Outcomes]
  /\ mutex \in Calls \cup {NoCall}
  /\ states \in [Ids -> Calls \cup {NoCall}]
  /\ freeId \in Seq(Ids)
  /\ freeSpace \in 0..Size
  /\ chan \in [Calls -> Contents]
  /\ closed \in [Calls -> BOOLEAN]

(* An invoke id is in one place: queued in free.id once, or with one call. *)
(* Two requests in flight never share an id, whatever timeouts, late       *)
(* replies and Puts happen around them.                                    *)
IdExclusive ==
  /\ \A c, d \in Owners : id[c] = id[d] => c = d
  /\ \A c \in Owners : ~Queued(id[c])
  /\ \A j, k \in 1..Len(freeId) : freeId[j] = freeId[k] => j = k

(* Between its ID and its Put a request finds its own state object under   *)
(* its id, although Put lets the id go before it deletes the map entry.    *)
StatesFollowOwners ==
  /\ \A c \in Mapped : states[id[c]] = c
  /\ \A i \in Ids : states[i] # NoCall => states[i] \in Mapped /\ id[states[i]] = i

(* A Receive returns a reply of the peer and the service of its own        *)
(* request, or a timeout, and never errNotReceiving.                       *)
OwnReplies ==
  \A c \in Calls :
    /\ got[c].kind # "notReceiving"
    /\ got[c].kind = "reply" =>
         \E r \in Replies : /\ got[c].body = <<r>>
                            /\ r.src = peer[c]
                            /\ r.svc \in {svc[c], NoService}

(* Send never meets a closed channel (which would panic in Go): whenever   *)
(* the mutex is free, the objects in the map are open.                     *)
NoSendOnClosed ==
  mutex = NoCall => \A i \in Ids : states[i] # NoCall => ~closed[states[i]]

(* Tokens and ids are neither lost nor made: whichever select branch a     *)
(* call took, what is not in the channels is with a call.                  *)
PoolsConserved ==
  /\ freeSpace + Cardinality(Holders) = Size
  /\ Len(freeId) + Cardinality(Owners) = NumIds

(* No send on free.id or free.space blocks: neither the two that Put does  *)
(* under the mutex, which would stop every other call and every reply, nor *)
(* the one of a timed-out ID.                                              *)
PutNeverBlocks ==
  \A c \in Calls :
    /\ pc[c] = "putId" => Len(freeId) < IdCap
    /\ pc[c] \in {"id", "putSpace"} => freeSpace < Size

(* With a manager no larger than its ids, a call that has its token finds  *)
(* an id without waiting: Put returns the id before the token.             *)
IdAvailable == Size <= NumIds => \A c \in Calls : pc[c] = "id" => freeId # <<>>

(* An id given back queues behind at least NumIds - Size others and moves  *)
(* up by one for each id taken: that many requests come before it names    *)
(* another request, which is what keeps a late reply from being taken for  *)
(* the answer to a newer one.                                              *)
ReuseDistance ==
  [][\A i \in Ids :
       /\ ~Queued(i) /\ Queued(i)' => \A k \in QueuedAt(i)' : k > NumIds - Size
       /\ Queued(i) /\ ~Queued(i)' => 1 \in QueuedAt(i)
       /\ Queued(i) /\ Queued(i)' =>
            \A k \in QueuedAt(i)' : k \in QueuedAt(i) \/ k + 1 \in QueuedAt(i)]_freeId

(* A reply that was accepted is not replaced by a later one: it stays in   *)
(* the channel until the Receive of its own call takes it.                 *)
UnreadReplyKept ==
  [][\A c \in Calls : chan[c] # <<>> =>
       \/ chan'[c] = chan[c]
       \/ chan'[c] = <<>> /\ pc[c] = "receiving" /\ got'[c].body = chan[c]]_vars

(* Every call comes back, with an id it gave back or without one: nothing  *)
(* in the manager waits forever.                                           *)
EveryCallReturns == \A c \in Calls : <>Returned(c)

(* The manager implements Transactions.  Put gives the id back, as far as  *)
(* the others can tell, when it closes the channel.                        *)
Abs == INSTANCE Transactions WITH
  asked <- [c \in Calls |-> [src |-> peer[c], svc |-> svc[c]]],
  owner <- [i \in Ids |->
              IF states[i] # NoCall /\ ~closed[states[i]] THEN states[i] ELSE NoCall],
  inbox <- [c \in Calls |-> IF closed[c] THEN <<>> ELSE chan[c]],
  outcome <- got

(* TSM implements Transactions, under the mapping above.                   *)
ImplementsTransactions == Abs!Spec
=============================================================================
