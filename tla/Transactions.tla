---------------------------- MODULE Transactions -----------------------------
(***************************************************************************)
(* What the transaction state manager promises, without its channels, its  *)
(* mutex or the steps of Put: an invoke id belongs to at most one request, *)
(* an unread reply waits for the request that owns the id, the reply a     *)
(* request reads came from the peer it asked, for the service it asked,    *)
(* and a request that waits reads a reply or times out, nothing else.      *)
(***************************************************************************)
EXTENDS Integers, Sequences

CONSTANTS Calls, NoCall, Peers, Services, NoService, NumIds

VARIABLES
  asked,   (* the peer and the service of each request                     *)
  owner,   (* the request an invoke id belongs to                          *)
  inbox,   (* the unread reply of a request                                *)
  outcome  (* how the last wait of a request ended                         *)

vars == <<asked, owner, inbox, outcome>>

Ids == 1..NumIds
Requests == [src : Peers, svc : Services]
Replies == [src : Peers, svc : Services \cup {NoService}]

Outcome(kind, body) == [kind |-> kind, body |-> body]

Init ==
  /\ asked \in [Calls -> Requests]
  /\ owner = [i \in Ids |-> NoCall]
  /\ inbox = [c \in Calls |-> <<>>]
  /\ outcome = [c \in Calls |-> Outcome("none", <<>>)]

(* A free id becomes the id of a request that has none.                    *)
Reserve(c, i) ==
  /\ owner[i] = NoCall
  /\ \A j \in Ids : owner[j] # c
  /\ owner' = [owner EXCEPT ![i] = c]
  /\ UNCHANGED <<asked, inbox, outcome>>

\* A faulty variant of Deliver: the address a reply came from is not compared.
DeliverAnyPeer(c, i, r) ==
  /\ owner[i] = c
  /\ inbox[c] = <<>>
  /\ r.svc \in {NoService, asked[c].svc}
  /\ inbox' = [inbox EXCEPT ![c] = <<r>>]
  /\ UNCHANGED <<asked, owner, outcome>>

(* A reply waits for the owner of its id, which has no other unread reply. *)
(* Reject and Abort name no service and answer whatever was asked.         *)
Deliver(c, i, r) ==
  /\ owner[i] = c
  /\ inbox[c] = <<>>
  /\ r.src = asked[c].src
  /\ r.svc \in {NoService, asked[c].svc}
  /\ inbox' = [inbox EXCEPT ![c] = <<r>>]
  /\ UNCHANGED <<asked, owner, outcome>>

(* The owner of an id reads its own unread reply.                          *)
Read(c, i) ==
  /\ owner[i] = c
  /\ inbox[c] # <<>>
  /\ outcome' = [outcome EXCEPT ![c] = Outcome("reply", inbox[c])]
  /\ inbox' = [inbox EXCEPT ![c] = <<>>]
  /\ UNCHANGED <<asked, owner>>

(* The owner of an id stops waiting; an unread reply stays.                *)
Expire(c, i) ==
  /\ owner[i] = c
  /\ outcome' = [outcome EXCEPT ![c] = Outcome("timeout", <<>>)]
  /\ UNCHANGED <<asked, owner, inbox>>

(* A request gives its id back; an unread reply is dropped with it.        *)
Release(c, i) ==
  /\ owner[i] = c
  /\ owner' = [owner EXCEPT ![i] = NoCall]
  /\ inbox' = [inbox EXCEPT ![c] = <<>>]
  /\ UNCHANGED <<asked, outcome>>

Next ==
  \E c \in Calls, i \in Ids :
    \/ Reserve(c, i) \/ Read(c, i) \/ Expire(c, i) \/ Release(c, i)
    \/ \E r \in Replies : Deliver(c, i, r)

Spec == Init /\ [][Next]_vars
=============================================================================
