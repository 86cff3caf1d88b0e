-------------------------------- MODULE Scan --------------------------------
(***************************************************************************)
(* The discover command (cmd/cmd/discover.go): the command asks for the    *)
(* devices round by round and hands what it found to workers, each reads   *)
(* the objects of its devices and hands them to a goroutine that merges    *)
(* them, and the merged list is saved.                                     *)
(*                                                                         *)
(* WhoIs and Objects, modelled in Discovery and ObjectList, are a step     *)
(* each: what they return, or that they fail, is all that counts here.     *)
(* The command reads the list while the merger may still add to it, with   *)
(* nothing between them.  A list is two words here, an array and a length, *)
(* which the command reads one by one in either order.                     *)
(***************************************************************************)
EXTENDS Integers, Sequences, FiniteSets, FiniteSetsExt, SequencesExt

CONSTANTS
  Devices,      (* the devices of the network                              *)
  NoDevice,     (* not one of them                                         *)
  Instance,     (* the instance number of each; two may have the same      *)
  Workers,      (* as many as the option concurrency says                  *)
  ScanSize,     (* the option size                                         *)
  MaxInstance,  (* the largest instance number                             *)
  Grows         (* the lengths at which append takes a larger array        *)

Concurrency == Cardinality(Workers)

ASSUME ScanAssumption ==
  /\ IsFiniteSet(Devices) /\ NoDevice \notin Devices
  /\ IsFiniteSet(Workers) /\ Workers # {}
  /\ ScanSize \in Nat \ {0}
  /\ MaxInstance \in Nat
  /\ Instance \in [Devices -> 0..MaxInstance]
  /\ Grows \subseteq Nat /\ 0 \in Grows

VARIABLES
  main,     (* the next step of the command                                *)
  round,    (* i of the loop over the ranges                               *)
  found,    (* what the WhoIs of the round returned                        *)
  scan,     (* the channels                                                *)
  merge,
  closed,   (* those that were closed                                      *)
  pc,       (* the next step of each worker                                *)
  devs,     (* the devices it has still to read                            *)
  held,     (* the device it has read                                      *)
  taken,    (* the device the merger has taken                             *)
  results,  (* the merged list                                             *)
  repeats,  (* the instances in it                                         *)
  array,    (* the array of the list, as the command read it               *)
  length,   (* its length, as the command read it                          *)
  fetched   (* every device whose objects were read                        *)

mainVars == <<main, round, found>>
workerVars == <<pc, devs, held>>
listVars == <<taken, results, repeats>>
readVars == <<array, length>>
vars == <<mainVars, scan, merge, closed, workerVars, listVars, readVars, fetched>>

Rounds == MaxInstance \div ScanSize
Unread == -1

(* Of WhoIs, which asks the whole network when High is 0.                  *)
InRange(d, low, high) == high = 0 \/ Instance[d] \in low..high

(* The array a list of a length is in, named by the length it grew at.     *)
Array(n) == Max({g \in Grows : g < n} \cup {0})

(* An array of that name has room for a list of the length.                *)
HasRoom(a, n) == \A g \in Grows : a < g => n <= g

-----------------------------------------------------------------------------
Init ==
  /\ main = "whois" /\ round = 0 /\ found = <<>>
  /\ scan = <<>> /\ merge = <<>> /\ closed = {}
  /\ pc = [w \in Workers |-> "range"]
  /\ devs = [w \in Workers |-> <<>>]
  /\ held = [w \in Workers |-> NoDevice]
  /\ taken = NoDevice /\ results = <<>> /\ repeats = {}
  /\ array = Unread /\ length = Unread
  /\ fetched = {}

MainGoto(from, to) == main = from /\ main' = to
Goto(w, from, to) == pc[w] = from /\ pc' = [pc EXCEPT ![w] = to]

(* Faulty variants, each a plausible slip in the code; a run with one in   *)
(* place of the definition of its name must fail.                          *)

\* The first device that cannot be read ends the goroutine, without Done.
ObjectsFailsReturns(w) ==
  /\ devs[w] # <<>>
  /\ Goto(w, "devices", "gone")
  /\ devs' = [devs EXCEPT ![w] = Tail(@)]
  /\ UNCHANGED <<mainVars, scan, merge, closed, held, listVars, readVars, fetched>>

\* The list is saved as soon as the last range was handed out.
WaitNot ==
  /\ MainGoto("wait", "read")
  /\ closed' = closed \cup {"merge"}
  /\ UNCHANGED <<round, found, scan, merge, workerVars, listVars, readVars, fetched>>

\* The repeated device is told by the address it was found under.
RepeatedAddress(d) == d \in ToSet(results)

-----------------------------------------------------------------------------
(* The command.                                                            *)

(* Low and High are both the start of the range.  A device may not answer, *)
(* but WhoIs lists no instance twice.                                      *)
WhoIs ==
  /\ round < Rounds
  /\ MainGoto("whois", "send")
  /\ \E answered \in SUBSET {d \in Devices : InRange(d, round * ScanSize, round * ScanSize)} :
       /\ \A d, e \in answered : Instance[d] = Instance[e] => d = e
       /\ found' \in SetToSeqs(answered)
  /\ UNCHANGED <<round, scan, merge, closed, workerVars, listVars, readVars, fetched>>

WhoIsFails ==
  /\ main = "whois" /\ round < Rounds
  /\ round' = round + 1
  /\ UNCHANGED <<main, found, scan, merge, closed, workerVars, listVars, readVars, fetched>>

SendRange ==
  /\ Len(scan) < Concurrency
  /\ MainGoto("send", "whois")
  /\ scan' = Append(scan, found)
  /\ round' = round + 1
  /\ found' = <<>>
  /\ UNCHANGED <<merge, closed, workerVars, listVars, readVars, fetched>>

CloseScan ==
  /\ round = Rounds
  /\ MainGoto("whois", "wait")
  /\ closed' = closed \cup {"scan"}
  /\ UNCHANGED <<round, found, scan, merge, workerVars, listVars, readVars, fetched>>

(* wg.Wait and close(merge); nothing waits for the merger.                 *)
Wait ==
  /\ \A w \in Workers : pc[w] = "done"
  /\ MainGoto("wait", "read")
  /\ closed' = closed \cup {"merge"}
  /\ UNCHANGED <<round, found, scan, merge, workerVars, listVars, readVars, fetched>>

ReadArray ==
  /\ main = "read" /\ array = Unread
  /\ array' = Array(Len(results))
  /\ UNCHANGED <<mainVars, scan, merge, closed, workerVars, listVars, length, fetched>>

ReadLength ==
  /\ main = "read" /\ length = Unread
  /\ length' = Len(results)
  /\ UNCHANGED <<mainVars, scan, merge, closed, workerVars, listVars, array, fetched>>

(* What is saved is in array and length from here on.                      *)
Save ==
  /\ array # Unread /\ length # Unread
  /\ MainGoto("read", "saved")
  /\ UNCHANGED <<round, found, scan, merge, closed, workerVars, listVars, readVars, fetched>>

-----------------------------------------------------------------------------
(* A worker.                                                               *)

TakeRange(w) ==
  /\ scan # <<>>
  /\ Goto(w, "range", "devices")
  /\ devs' = [devs EXCEPT ![w] = Head(scan)]
  /\ scan' = Tail(scan)
  /\ UNCHANGED <<mainVars, merge, closed, held, listVars, readVars, fetched>>

WorkerEnds(w) ==
  /\ scan = <<>> /\ "scan" \in closed
  /\ Goto(w, "range", "done")
  /\ UNCHANGED <<mainVars, scan, merge, closed, devs, held, listVars, readVars, fetched>>

NextRange(w) ==
  /\ devs[w] = <<>>
  /\ Goto(w, "devices", "range")
  /\ UNCHANGED <<mainVars, scan, merge, closed, devs, held, listVars, readVars, fetched>>

Objects(w) ==
  /\ devs[w] # <<>>
  /\ Goto(w, "devices", "merge")
  /\ held' = [held EXCEPT ![w] = Head(devs[w])]
  /\ devs' = [devs EXCEPT ![w] = Tail(@)]
  /\ fetched' = fetched \cup {Head(devs[w])}
  /\ UNCHANGED <<mainVars, scan, merge, closed, listVars, readVars>>

ObjectsFails(w) ==
  /\ pc[w] = "devices" /\ devs[w] # <<>>
  /\ devs' = [devs EXCEPT ![w] = Tail(@)]
  /\ UNCHANGED <<mainVars, scan, merge, closed, pc, held, listVars, readVars, fetched>>

HandOver(w) ==
  /\ Len(merge) < Concurrency
  /\ Goto(w, "merge", "devices")
  /\ merge' = Append(merge, held[w])
  /\ held' = [held EXCEPT ![w] = NoDevice]
  /\ UNCHANGED <<mainVars, scan, closed, devs, listVars, readVars, fetched>>

-----------------------------------------------------------------------------
(* The goroutine that merges.                                              *)

Take ==
  /\ merge # <<>> /\ taken = NoDevice
  /\ taken' = Head(merge)
  /\ merge' = Tail(merge)
  /\ UNCHANGED <<mainVars, scan, closed, workerVars, results, repeats, readVars, fetched>>

Repeated(d) == Instance[d] \in repeats

Merge ==
  /\ taken # NoDevice
  /\ IF Repeated(taken) THEN UNCHANGED <<results, repeats>>
     ELSE /\ results' = Append(results, taken)
          /\ repeats' = repeats \cup {Instance[taken]}
  /\ taken' = NoDevice
  /\ UNCHANGED <<mainVars, scan, merge, closed, workerVars, readVars, fetched>>

Command ==
  \/ WhoIs \/ WhoIsFails \/ SendRange \/ CloseScan \/ Wait
  \/ ReadArray \/ ReadLength \/ Save

Work(w) ==
  \/ TakeRange(w) \/ WorkerEnds(w) \/ NextRange(w)
  \/ Objects(w) \/ ObjectsFails(w) \/ HandOver(w)

Merger == Take \/ Merge

Next == Command \/ Merger \/ \E w \in Workers : Work(w)

Spec == Init /\ [][Next]_vars

(* The scheduler runs each goroutine that can go on; WhoIs and Objects     *)
(* return.                                                                 *)
FairSpec ==
  /\ Spec
  /\ WF_vars(Command) /\ WF_vars(Merger)
  /\ \A w \in Workers : WF_vars(Work(w))

-----------------------------------------------------------------------------
(* Properties.                                                             *)

(* The types of the variables; an array is only a name.                    *)
TypeOK ==
  /\ main \in {"whois", "send", "wait", "read", "saved"}
  /\ round \in Nat
  /\ found \in Seq(Devices) /\ scan \in Seq(Seq(Devices)) /\ merge \in Seq(Devices)
  /\ closed \subseteq {"scan", "merge"}
  /\ pc \in [Workers -> {"range", "devices", "merge", "done"}]
  /\ devs \in [Workers -> Seq(Devices)]
  /\ held \in [Workers -> Devices \cup {NoDevice}]
  /\ \A w \in Workers : pc[w] = "merge" <=> held[w] # NoDevice
  /\ taken \in Devices \cup {NoDevice}
  /\ results \in Seq(Devices)
  /\ repeats \subseteq 0..MaxInstance
  /\ length \in Nat \cup {Unread}
  /\ fetched \subseteq Devices

(* The merged list has no instance twice, and every device whose objects   *)
(* were read is on its way into it or has its instance there: the channels *)
(* and the goroutines lose none (discover, the workers and the merger).    *)
OnTheirWay == {held[w] : w \in Workers} \cup ToSet(merge) \cup {taken}

MergedOnce ==
  /\ \A i, j \in DOMAIN results : Instance[results[i]] = Instance[results[j]] => i = j
  /\ \A d \in fetched \ OnTheirWay : \E i \in DOMAIN results : Instance[results[i]] = Instance[d]

(* What is saved misses at most what the merger had before it when the     *)
(* last worker was done, a full channel and the device it had taken,       *)
(* though nothing waits for it, if both words are of one array.            *)
SavedButForBacklog ==
  main = "saved" /\ HasRoom(array, length) =>
    LET missing == {d \in fetched :
                      \A i \in 1..length : Instance[results[i]] # Instance[d]}
    IN Cardinality(missing) <= Concurrency + 1

(* discover ends, whatever WhoIs and Objects return, for every device that *)
(* fails and with all channels full.  That these two return is assumed:    *)
(* what is said of ObjectsReturns holds of the whole command.              *)
DiscoverReturns == <>(main = "saved")
=============================================================================
