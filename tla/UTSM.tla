-------------------------------- MODULE UTSM ---------------------------------
(***************************************************************************)
(* Subscriptions to unconfirmed messages (utsm/utsm.go, subscriber.go).    *)
(*                                                                         *)
(* A request that many devices may answer registers a subscriber for a     *)
(* range of ids, sends, and collects what Publish hands it until nothing   *)
(* came for a while or its overall time is over.  Every message that comes *)
(* in is one Publish, on a goroutine of its own: under the manager's mutex *)
(* it notes the time at each subscriber of its id, then, without the       *)
(* mutex, it gives the message to these subscribers one after the other    *)
(* and blocks on each until it takes the message or is done.               *)
(*                                                                         *)
(* Time is what is left of the timers the code sets: Tick lets one unit    *)
(* pass for all of them.  Nothing is urgent: a goroutine may be late.      *)
(***************************************************************************)
EXTENDS Integers, Sequences, FiniteSets

CONSTANTS
  Subs,     (* the calls of Collect and Subscribe                          *)
  Parallel, (* those of Subscribe, with the send in a goroutine            *)
  Msgs,     (* the messages published, one Publish each                    *)
  Ids,      (* the device instances and network numbers of messages        *)
  Ranges,   (* the ranges [start, end] subscribed to                       *)
  Idle,     (* subTimeout: the time without a message that ends a Collect  *)
  Overall   (* subOverallTimeout: the time after which it ends anyway      *)

ASSUME UTSMAssumption ==
  /\ IsFiniteSet(Subs)
  /\ Parallel \subseteq Subs
  /\ Ids \subseteq Int
  /\ Ranges \subseteq [start : Int, end : Int]
  /\ Idle \in Nat \ {0}
  /\ Overall \in Nat \ {0}

VARIABLES
  \* what the calls were made with, fixed from the start
  range,        (* start and end of a subscriber                           *)
  msgId,        (* the id a message is published under                     *)
  \* the manager
  active,       (* Manager.subs, as a set                                  *)
  rank,         (* its order: when a subscriber was appended to it         *)
  \* the subscribers
  spc,          (* the next step of the call                               *)
  sent,         (* its request is on the wire                              *)
  data,         (* its data channel, of capacity 1                         *)
  done,         (* its done channel is closed                              *)
  store,        (* what it collected                                       *)
  idleLeft,     (* what is left of the timeout of this iteration           *)
  overallLeft,  (* what is left of the context of the call                 *)
  age,          (* the time since lastReceived                             *)
  \* the publishers
  mpc,          (* the next step of a Publish                              *)
  dst,          (* the subscribers it still has to give the message to     *)
  reached       (* the subscribers it found, kept for the properties       *)

callVars == <<range, msgId>>
subVars == <<spc, sent, data, done, store, idleLeft, overallLeft, age>>
msgVars == <<mpc, dst, reached>>
vars == <<callVars, active, rank, subVars, msgVars>>

----------------------------------------------------------------------------
SubPhases == {"new", "before", "sent", "loop", "select", "closing", "removing", "returned"}
MsgPhases == {"idle", "deliver", "published"}

InRange(m, s) == range[s].start <= msgId[m] /\ msgId[m] <= range[s].end

Elements(q) == {q[k] : k \in 1..Len(q)}

(* What is left of a limit after some time, never less than nothing.       *)
Left(limit, elapsed) == IF elapsed < limit THEN limit - elapsed ELSE 0

(* Ages count up to Idle: beyond it nothing is left of the deadline.       *)
Older(n) == IF n < Idle THEN n + 1 ELSE Idle

Init ==
  /\ range \in [Subs -> Ranges]
  /\ msgId \in [Msgs -> Ids]
  /\ active = {}
  /\ rank = [s \in Subs |-> 0]
  /\ spc = [s \in Subs |-> "new"]
  /\ sent = [s \in Subs |-> FALSE]
  /\ data = [s \in Subs |-> <<>>]
  /\ done = [s \in Subs |-> FALSE]
  /\ store = [s \in Subs |-> <<>>]
  /\ idleLeft = [s \in Subs |-> 0]
  /\ overallLeft = [s \in Subs |-> 0]
  /\ age = [s \in Subs |-> 0]
  /\ mpc = [m \in Msgs |-> "idle"]
  /\ dst = [m \in Msgs |-> {}]
  /\ reached = [m \in Msgs |-> {}]

Goto(s, from, to) ==
  /\ spc[s] = from
  /\ spc' = [spc EXCEPT ![s] = to]

(* The timers of a call that runs, while it still looks at them.           *)
Timing(s) == spc[s] \in {"before", "sent", "loop", "select"}

(* A timer nobody looks at any more reads 0.                               *)
StopTimers(s) ==
  /\ idleLeft' = [idleLeft EXCEPT ![s] = 0]
  /\ overallLeft' = [overallLeft EXCEPT ![s] = 0]
  /\ age' = [age EXCEPT ![s] = 0]

----------------------------------------------------------------------------
(* Faulty variants of the definitions below, each a plausible slip in the  *)
(* code; a run with one in place of the definition must fail.              *)

\* Every call sends in a goroutine of its own, as Subscribe's callers do.
SendInGoroutine(s) ==
  /\ ~sent[s]
  /\ sent' = [sent EXCEPT ![s] = TRUE]
  /\ UNCHANGED <<callVars, active, rank, spc, data, done, store, idleLeft, overallLeft,
                 age, msgVars>>

\* The error path returns before the deferred function is installed.
BeforeFailLeaves(s) ==
  /\ spc[s] \in {"before", "sent"}
  /\ spc' = [spc EXCEPT ![s] = "returned"]
  /\ StopTimers(s)
  /\ UNCHANGED <<callVars, active, rank, sent, data, done, store, msgVars>>

\* The timer is made once, before the loop.
SelectDataKeepsTimer(s) ==
  /\ Goto(s, "select", "select")
  /\ data[s] # <<>>
  /\ store' = [store EXCEPT ![s] = Append(@, Head(data[s]))]
  /\ data' = [data EXCEPT ![s] = <<>>]
  /\ UNCHANGED <<callVars, active, rank, sent, done, idleLeft, overallLeft, age, msgVars>>

\* The message goes to a subscriber again when its Publish goes on.
DeliverAgain(m, s) ==
  /\ mpc[m] = "deliver"
  /\ s \in dst[m]
  /\ data[s] = <<>>
  /\ data' = [data EXCEPT ![s] = <<m>>]
  /\ UNCHANGED <<callVars, active, rank, spc, sent, done, store, idleLeft, overallLeft,
                 age, msgVars>>

\* Publish never waits: a subscriber whose channel is full misses the message.
SkipFull(m, s) ==
  /\ mpc[m] = "deliver"
  /\ s \in dst[m]
  /\ done[s] \/ data[s] # <<>>
  /\ dst' = [dst EXCEPT ![m] = @ \ {s}]
  /\ UNCHANGED <<callVars, active, rank, subVars, mpc, reached>>

----------------------------------------------------------------------------
(* Both timers of the select: the iteration's and the one it descends from. *)
Expired(s) == idleLeft[s] = 0 \/ overallLeft[s] = 0

----------------------------------------------------------------------------
(* Collect and Subscribe                                                   *)

(* newSubscriber: append under the mutex, lastReceived = now.  Subscribe   *)
(* has no beforeWait and goes straight to the loop.                        *)
Register(s) ==
  /\ spc[s] = "new"
  /\ active' = active \cup {s}
  /\ rank' = [rank EXCEPT ![s] = Cardinality({t \in Subs : spc[t] # "new"}) + 1]
  /\ age' = [age EXCEPT ![s] = 0]
  /\ IF s \in Parallel
       THEN /\ spc' = [spc EXCEPT ![s] = "loop"]
            /\ overallLeft' = [overallLeft EXCEPT ![s] = Overall]
       ELSE /\ spc' = [spc EXCEPT ![s] = "before"]
            /\ UNCHANGED overallLeft
  /\ UNCHANGED <<callVars, sent, data, done, store, idleLeft, msgVars>>

(* beforeWait of WhoIs: the request leaves.                                *)
BeforeSend(s) ==
  /\ Goto(s, "before", "sent")
  /\ sent' = [sent EXCEPT ![s] = TRUE]
  /\ UNCHANGED <<callVars, active, rank, data, done, store, idleLeft, overallLeft, age,
                 msgVars>>

(* The send of WhoIsRouterToNetwork and WhatIsNetworkNumber, in a          *)
(* goroutine started before Subscribe is called.                           *)
ParallelSend(s) ==
  /\ s \in Parallel
  /\ ~sent[s]
  /\ sent' = [sent EXCEPT ![s] = TRUE]
  /\ UNCHANGED <<callVars, active, rank, spc, data, done, store, idleLeft, overallLeft,
                 age, msgVars>>

(* beforeWait returned nil: the context of the call starts only now.       *)
BeforeReturn(s) ==
  /\ Goto(s, "sent", "loop")
  /\ overallLeft' = [overallLeft EXCEPT ![s] = Overall]
  /\ UNCHANGED <<callVars, active, rank, sent, data, done, store, idleLeft, age, msgVars>>

(* beforeWait returned an error, before or after the request left.         *)
BeforeFail(s) ==
  /\ spc[s] \in {"before", "sent"}
  /\ spc' = [spc EXCEPT ![s] = "closing"]
  /\ StopTimers(s)
  /\ UNCHANGED <<callVars, active, rank, sent, data, done, store, msgVars>>

(* The top of the loop: the deadline is Idle after lastReceived.           *)
LoopTop(s) ==
  /\ Goto(s, "loop", "select")
  /\ idleLeft' = [idleLeft EXCEPT ![s] = Left(Idle, age[s])]
  /\ UNCHANGED <<callVars, active, rank, sent, data, done, store, overallLeft, age,
                 msgVars>>

(* Both branches of the select may be ready; either is taken then.         *)
SelectData(s) ==
  /\ Goto(s, "select", "loop")
  /\ data[s] # <<>>
  /\ store' = [store EXCEPT ![s] = Append(@, Head(data[s]))]
  /\ data' = [data EXCEPT ![s] = <<>>]
  /\ idleLeft' = [idleLeft EXCEPT ![s] = 0]
  /\ UNCHANGED <<callVars, active, rank, sent, done, overallLeft, age, msgVars>>

SelectDone(s) ==
  /\ Goto(s, "select", "closing")
  /\ Expired(s)
  /\ StopTimers(s)
  /\ UNCHANGED <<callVars, active, rank, sent, data, done, store, msgVars>>

(* The deferred function: close(done), then removeSubscriber.              *)
CloseDone(s) ==
  /\ Goto(s, "closing", "removing")
  /\ done' = [done EXCEPT ![s] = TRUE]
  /\ UNCHANGED <<callVars, active, rank, sent, data, store, idleLeft, overallLeft, age,
                 msgVars>>

Remove(s) ==
  /\ Goto(s, "removing", "returned")
  /\ active' = active \ {s}
  /\ UNCHANGED <<callVars, rank, sent, data, done, store, idleLeft, overallLeft, age,
                 msgVars>>

----------------------------------------------------------------------------
(* Publish                                                                 *)

(* Under the mutex: the subscribers of the id, each marked as of now.      *)
Snapshot(m) ==
  LET found == {s \in active : InRange(m, s)}
  IN /\ mpc[m] = "idle"
     /\ mpc' = [mpc EXCEPT ![m] = "deliver"]
     /\ dst' = [dst EXCEPT ![m] = found]
     /\ reached' = [reached EXCEPT ![m] = found]
     /\ age' = [s \in Subs |-> IF s \in found THEN 0 ELSE age[s]]
     /\ UNCHANGED <<callVars, active, rank, spc, sent, data, done, store, idleLeft,
                    overallLeft>>

(* The subscriber whose turn it is: dst is in the order of Manager.subs.   *)
Turn(m, s) == s \in dst[m] /\ \A t \in dst[m] : rank[s] <= rank[t]

Deliver(m, s) ==
  /\ mpc[m] = "deliver"
  /\ Turn(m, s)
  /\ data[s] = <<>>
  /\ data' = [data EXCEPT ![s] = <<m>>]
  /\ dst' = [dst EXCEPT ![m] = @ \ {s}]
  /\ UNCHANGED <<callVars, active, rank, spc, sent, done, store, idleLeft, overallLeft,
                 age, mpc, reached>>

SkipDone(m, s) ==
  /\ mpc[m] = "deliver"
  /\ Turn(m, s)
  /\ done[s]
  /\ dst' = [dst EXCEPT ![m] = @ \ {s}]
  /\ UNCHANGED <<callVars, active, rank, subVars, mpc, reached>>

PublishEnd(m) ==
  /\ mpc[m] = "deliver"
  /\ dst[m] = {}
  /\ mpc' = [mpc EXCEPT ![m] = "published"]
  /\ UNCHANGED <<callVars, active, rank, subVars, dst, reached>>

----------------------------------------------------------------------------
(* Time passes for the timers that run.                                    *)
Tick ==
  /\ \E s \in Subs : Timing(s)
  /\ age' = [s \in Subs |-> IF Timing(s) THEN Older(age[s]) ELSE age[s]]
  /\ idleLeft' = [s \in Subs |-> Left(idleLeft[s], 1)]
  /\ overallLeft' = [s \in Subs |-> Left(overallLeft[s], 1)]
  /\ UNCHANGED <<callVars, active, rank, spc, sent, data, done, store, mpc, dst, reached>>

Collecting(s) ==
  \/ Register(s) \/ BeforeSend(s) \/ BeforeReturn(s) \/ BeforeFail(s)
  \/ LoopTop(s) \/ SelectData(s) \/ SelectDone(s) \/ CloseDone(s) \/ Remove(s)

Publishing(m) ==
  \/ Snapshot(m) \/ PublishEnd(m)
  \/ \E s \in Subs : Deliver(m, s) \/ SkipDone(m, s)

Finished ==
  /\ \A s \in Subs : spc[s] = "returned"
  /\ \A m \in Msgs : mpc[m] # "deliver"
  /\ UNCHANGED vars

Next ==
  \/ \E s \in Subs : Collecting(s) \/ ParallelSend(s)
  \/ \E m \in Msgs : Publishing(m)
  \/ Tick
  \/ Finished

Spec == Init /\ [][Next]_vars

(* The goroutines run, beforeWait returns and time passes.  No message     *)
(* need ever come in.                                                      *)
Fairness ==
  /\ \A s \in Subs : WF_vars(Collecting(s))
  /\ \A m \in Msgs : WF_vars(Publishing(m) /\ mpc[m] = "deliver")
  /\ WF_vars(Tick)

FairSpec == Spec /\ Fairness

----------------------------------------------------------------------------
(* Properties                                                              *)

(* What a subscriber collected or has waiting in its channel.              *)
Received(s) == store[s] \o data[s]

(* The channel holds at most one message, and the lists only live calls.   *)
TypeOK ==
  /\ range \in [Subs -> Ranges]
  /\ msgId \in [Msgs -> Ids]
  /\ active = {s \in Subs : spc[s] \notin {"new", "returned"}}
  /\ rank \in [Subs -> Nat]
  /\ spc \in [Subs -> SubPhases] /\ mpc \in [Msgs -> MsgPhases]
  /\ sent \in [Subs -> BOOLEAN] /\ done \in [Subs -> BOOLEAN]
  /\ data \in [Subs -> {<<>>} \cup {<<m>> : m \in Msgs}]
  /\ store \in [Subs -> Seq(Msgs)]
  /\ idleLeft \in [Subs -> 0..Idle] /\ overallLeft \in [Subs -> 0..Overall]
  /\ age \in [Subs -> 0..Idle]
  /\ dst \in [Msgs -> SUBSET Subs] /\ reached \in [Msgs -> SUBSET Subs]

(* A subscriber gets a message at most once, and only one that was         *)
(* published while it was subscribed to the id.                            *)
DeliveredOnce ==
  \A s \in Subs :
    /\ \A j, k \in 1..Len(Received(s)) : Received(s)[j] = Received(s)[k] => j = k
    /\ \A m \in Elements(Received(s)) : s \in reached[m] \ dst[m] /\ InRange(m, s)

(* A message that comes in after the request of a Collect left, so every   *)
(* reply to it however fast, finds the subscriber, unless its call is over *)
(* already: the subscriber is registered before the request leaves.        *)
RepliesFindSubscriber ==
  [][\A m \in Msgs, s \in Subs \ Parallel :
       Snapshot(m) /\ sent[s] /\ InRange(m, s) => s \in reached'[m] \/ spc[s] = "returned"]_vars

(* A message passes over a subscriber it found only when that subscriber   *)
(* is done: a busy one is waited for.                                      *)
KeptOrDone ==
  \A m \in Msgs : \A s \in reached[m] \ dst[m] : m \in Elements(Received(s)) \/ done[s]

(* A Collect ends before its overall time is over only when no message was *)
(* noted for it for the whole timeout: each one puts the end off.  The one *)
(* exception is a message on its way to it, that its Publish has yet to    *)
(* give it, perhaps because another subscriber keeps that waiting, or that *)
(* lies unread in its channel: the deadline of a wait that has begun stays *)
(* where it is, and the message is lost to the call.                       *)
CollectedPutsEndOff ==
  [][\A s \in Subs : SelectDone(s) /\ overallLeft[s] > 0 =>
       age[s] >= Idle \/ (\E m \in Msgs : s \in dst[m]) \/ data[s] # <<>>]_vars

(* Every call of Collect and Subscribe comes back, and every Publish comes *)
(* to its end: subscribers that are slow, that fail in beforeWait or that  *)
(* leave never hold a goroutine of the client for ever, and no message     *)
(* holds up a Collect.  As calls and messages are finitely many, that is   *)
(* to say that again and again nobody is under way (utsm.go, subscriber.go). *)
EveryoneReturns ==
  []<>(/\ \A s \in Subs : spc[s] = "returned"
       /\ \A m \in Msgs : mpc[m] # "deliver")
=============================================================================
