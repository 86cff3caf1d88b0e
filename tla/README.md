# TLA+ models of the BACnet/IP client

This directory holds TLA+ models of the `bacNetIP` library, the TLC
configurations that check them on small instances, and TLAPS proofs of their
main properties for every instance. Each definition names the code it stands for
in `PROJECT.json` under `map`; names follow the source where TLA+ allows it.

To check a module or a proof:

    tlc -workers 2 -config MCTSM_safety.cfg MCTSM.tla
    tlapm TSM_proofs.tla

## The system

A client (`device.go`) owns one data link, one transaction manager (`tsm`), one
manager for unconfirmed messages (`utsm`) and a pool of read buffers.

| part | state | operations | talks to |
|---|---|---|---|
| `tsm.TSM` | the mutex, the map of states, the channels `free.id` and `free.space`, one reply channel per request | `ID`, `Send`, `Receive`, `Put` | called by the confirmed requests and by `handleMsg` |
| `utsm.Manager` | the mutex, the list of subscribers; per subscriber a channel, `done`, `lastReceived` | `Publish`, `Collect`, `Subscribe` | called by the discovery requests and by `handleMsg` |
| confirmed requests (`readprop.go`, `writeprop.go`, `readmulti.go`, `writemulti.go`) | id, attempt, result | one call each | `tsm`, `Send` of the client, the devices |
| discovery (`whois.go`, `whoisrouter.go`, `whatnetwork.go`, `iam.go`) | what was collected | `WhoIs`, `WhoIsRouterToNetwork`, `WhatIsNetworkNumber`, `IAm` | `utsm`, `Send` |
| receive path (`device.go`) | the loops, the buffers, `closed` | `ClientRun`, `handleMsg`, `Close`, `ClientClose` | data link, `tsm.Send`, `utsm.Publish` |
| object list (`objectlist.go`) | the objects found and named | `Objects` | `ReadProperty`, `ReadMultiProperty` |
| data links (`datalink/`) | a socket, a pcap handle | `Send`, `Receive`, `Close` | the network |
| encoding (`encoding/`) | a buffer and a sticky error | encoders and decoders of tags, BVLC, NPDU, APDU, services | all of the above |
| network layer (`network/`) | a store of networks, device handles | discovery, lists of points, point reads and writes | the client |
| `cmd/` | the channels and the merged list of `discover` | the commands | the client |
| `btypes/`, `helpers/` | none of their own | addresses, priority arrays, conversions, tables of names | |

Every packet is handled on a goroutine of its own, every request runs on its
caller's, and they meet in the two managers. What is hard, and what the models
are aimed at (`hazards` in `PROJECT.json` lists each with its line):

- *Interleaving.* A reply meets a request that times out and puts its id back; a
  message meets a subscriber that leaves; a loop reads into a buffer a handler
  uses.
- *Late, lost and duplicated messages.* Invoke ids are one byte and are reused;
  UDP delays and repeats.
- *Blocking under a mutex.* `Put` sends to two channels, `Publish` to one per
  subscriber.
- *Timeouts.* A Collect ends on the earlier of two timers, one of which other
  goroutines move.
- *Partial failure.* A request fails between taking an id and sending; some
  names of a device cannot be read; a datagram is cut short and the decoder goes on.
- *Addresses.* A device is seen through a router or a BBMD, and is listed, told
  apart and asked again by what was made of the packet.
- *Widths.* Lengths, tags and values are written and read by rules of their own
  for each size, and a list is read until a closing tag comes.

## The modules

| module | what it models | checked by | proofs |
|---|---|---|---|
| `Transactions` | what the transaction manager promises: the abstract specification | as a property of `tsm_safety` | |
| `TSM` | `tsm/transactions.go`, step by step | `tsm_safety`, `tsm_live` | `TSM_proofs` |
| `UTSM` | `utsm/`, with the sends of `WhoIs` and the router requests | `utsm` | `Incoming_proofs` |
| `Requests` | the confirmed requests over `Transactions`, with devices and a network | `requests_safety`, `requests_late` | `Requests_proofs` |
| `Receiver` | `ClientRun`, the buffer pool, the handlers, closing | `receiver` | `Incoming_proofs` |
| `ObjectList` | `Objects` against a device that changes | `objectlist_read` | `Scan_proofs` |
| `Tags`, `Packets` | the encoders and decoders as operators, octet by octet | through `Codec` | |
| `Codec` | what is encoded, cut on its way, decoded and matched with a request | `codec`, `codec_nested` | `Codec_proofs`, `Replies_proofs` |
| `Discovery` | `WhoIs`, the queries of routers, `handleMsg`, addresses, the discoveries of `network/` | `discovery` | `Discovery_proofs` |
| `Points` | the points of `network/`: writes, releases, reads, lists | `points` | `Points_proofs` |
| `Scan` | the `discover` command with its workers and its merger | `scan` | `Scan_proofs` |

`Requests` composes the calls with `Transactions`, which `TSM` implements. `Points`
rests on what `Requests` shows of a request, `ObjectList` too; `Discovery` on what
`UTSM` shows of a subscription; `Scan` takes `WhoIs` and `Objects` as a step each (what
`Objects` gives is proved beside it, which is why the names of `ObjectList` are its own;
those of `Receiver` are because its proofs stand beside those of `UTSM`).

The `MC` modules extend these with the values of the runs. In
each module a section "Faulty variants" holds slips the code could contain; each
property is broken by one of them, which shows that it depends on the code.

**TSM.** The variable `pc` of a call is where the goroutine that made it is in
`ID`, `Receive` or `Put`. `freeId` and `freeSpace` are the two channels of
`TSM.free`, `states` is the map, `chan` and `closed` are the reply channels,
`mutex` is who holds the mutex. An action is what happens between two points at
which another goroutine can interfere: `TakeSpace`, `TakeId` and the two timeouts
are the branches of the selects of `ID`, `Register` the critical section; `Send`
is one step because it runs under the mutex and never blocks; `Put` holds the
mutex over four steps, two of which could block. A Receive looks its object up
under the mutex and waits without it, so it keeps a reference (`ref`). Addresses
are model values: `addressMatches` is equality of peers here.

**UTSM.** `spc` follows `collect`, `mpc` a `Publish`. `Snapshot` is the critical
section of `Publish`; `Deliver` and `SkipDone` are the two branches of its select,
for the subscribers in the order of the list (`rank`). Time is what is left of
each timer: `Tick` lets a unit pass for all. A goroutine may be late by any
amount, so a timer that ran out need not be noticed at once. The context of a
Collect starts only when `beforeWait` has returned, as in the code. Subscribers
in `Parallel` are those of `WhoIsRouterToNetwork` and `WhatIsNetworkNumber`, whose
send runs in a goroutine.

**Requests.** The calls use the manager through `Transactions` (that TSM
implements it is checked and proved), and the queue of free ids. A reply is received
in one step (`Receive`) and decoded and compared in another (`Decode`), both on the
caller's goroutine, since the decoder of multiple reads does not end on every reply
(`readmulti.go:112`, and `codec_nested` below): a call with an `"endless"` answer stays
there (`Hangs`), with its id. The verdicts on a reply differ: the single requests return
a peer's error, the multiple ones try again; `ReadMultiProperty` compares what it asked
for (`wanted`) with what is listed, object by object and property by property
(`matchReadMultipleReply`), and returns an error when they differ; `ReadProperty` does not
look. None of them can see which request a reply was made for. Requests and replies stay
on the wire and are delivered never, once or often, until `Lifetime` further requests
were started after their own ended. Peers that answer, how, and how late are the external
part.

**Receiver.** `lpc` follows a loop of `ClientRun`, `hpc` a packet from the network
to the end of its handler. A buffer's `content` is the packet last read into it; a
payload is either a copy or a slice of a buffer, and what a waiter sees of it
(`Seen`) is looked up when it looks. `Decode` stands for the whole of
`handleMsg` up to the hand-over, with its recover. A link passed to `NewClient` in
`ClientBuilder.DataLink` may be closed by its owner, the client not knowing
(`LinkClosedByOwner`).

**ObjectList.** Each read of the length, of a range of indices and of a chunk of
names is one step; between two of them the device may change. A range is taken
from a reply as `extractObjectIDsForRange` does, whatever order and indices the
reply has.

**Tags, Packets, Codec.** An octet is a number and a `uint32` a word of four, so that
widths are kept where TLC's integers would end. A decoder is the octets left and the
sticky error of `decoder.go`: `Decode` gives zeros for what is not there, as
`binary.Read` leaves them, and every operator says which error its function returns
and which it drops. `ReadHeader` and `ReadHead` are the parts of the NPDU and APDU decoders
up to what follows the header, `AfterHeader` and `AfterHead` the rest. `AppValues`, `AppHeaders` and their like say what each
encoder is given in this library; the constants of a run are chosen from them
(`CodecAssumption`). `Codec` sends one item, cuts the end off (`CutShort`) and decodes
it. Most decoders are one step; that of `ReadPropertyMultiple` replies is a step for
each round of its loops (`place` is the loop, `r` its variables), because they do not
all end. A reply that was read is matched with a request as `matchReadMultipleReply`
does. A reply is either the library's own (`"reply"`, the objects given to its encoder) or
a device's (`"device"`): the latter hold what this library's encoder never writes, time
stamps, errors of single properties, empty lists, bit strings, dates, and are given with the
octets they are on the wire, since no code here writes them.

**Discovery.** Where a device is (its or a router's mac, its network and address there,
a BBMD) decides how its packets come in. `Source` is the address `handleMsg` makes of
them, `Published` what goes to the subscribers, `Completes` what `deliver` gives to a
request: a Reject or an Abort carries no service and completes whatever waits for its
address and id, so that one to another program on the shared port (`own` is `FALSE`) ends
ours too. `CompletedByAsked` says that who answered is who was asked, and names the
replies that need not be to this request: a Reject, a server's Abort and a reply of the
same service. `WhoIs` sends to whom its options reach (`Hear`), subscribes to `Low..High`
and goes through what it collected value by value (`NextValue`), listing what is not
listed (`Lists`). `NetworkDetails` and `DeviceDetails` are what
`NetworkDiscover` and `DeviceDiscover` do with the list, over addresses rebuilt by
`btypes.NewDevice`. The queries run a goroutine that shares `err` with the call. `first`
and `announced` only record what came in, the former the first I-Am of each instance, the
latter the packets for each query. The assumptions say that places are distinct and well
formed, and that a packet not sent by one of these devices on request (`Background`,
`QueryAnswers`) is one a device or router would send (`Genuine`).

**Points.** A caller makes one call: `Send` and the answers of `Run` are the confirmed
request, which is lost or run late. The device keeps a priority array of sixteen slots for
each point, and a value is what is at the lowest number in use. `BuildFloat32` is what the
client makes of the array: each index goes to a named field by the switch (`Index`,
`Float32`), each value through `ToFloat32`, which rounds an integer above 2^24 to one that a
float32 holds; a report reads the fields by name, beside the array of the device.
`GetDevicePoints` reads the list whole or, when that fails, its length and one index
after the other, and then asks for the details of one object a step (`PointDetails`),
while the list changes.

**Scan.** `main` follows the command, `pc` a worker; `scan` and `merge` are the two
channels. The list is a pair of words, the array and the length, which the command
reads one by one while the merger may still append.

## The runs

| run | instance | shows |
|---|---|---|
| `tsm_safety` | 3 calls, 2 peers, 1 service, 2 ids, 2 tokens | no two requests share an id or a reply; nothing blocks under the mutex; no send on a closed channel; pools conserved; an accepted reply is kept; TSM implements Transactions |
| `tsm_live` | 3 calls, 2 ids, 1 token | every call returns; ids are reused last |
| `utsm` | 2 subscribers, one of them sending in a goroutine, 2 messages with an id, 2 ranges, an idle time of 2 and an overall time of 3 | messages reach each subscriber of theirs once, none is dropped but for a subscriber that is done; a reply finds the subscriber; a message puts the end off; every Collect returns, every Publish ends |
| `requests_safety` | 3 calls of any of 4 methods, 1 device, 2 ids, 1 in flight, messages 2 requests late | a call returns the answer to its own request; answered requests are not repeated; ids come back on every path |
| `requests_late` | 2 calls, single or multiple reads, 2 devices, 1 id, messages 2 requests late | where replies to other requests do come in, what is returned was still answered by the device asked, for the same service, and a multiple read returns only what it asked for; every request returns, but for one whose reply is never decoded to its end |
| `receiver` | 2 loops, 2 packets, 4 buffers | each buffer is in one place; handlers and waiters see their own packet; Close, or the link's owner closing it, ends the loops |
| `objectlist_read` | lists of up to 3 objects, ranges of 1 to 3, 2 changes | the list is complete unless what is read shifted; the call returns |
| `codec` | values at the edges of each width, headers, heads of requests, Who-Is, I-Am, reads, writes, replies, each whole and with 1 to 40 octets cut off | what is decoded was encoded: values, dates, headers, requests and announcements (`PacketsReadBack`), and what replies hold (`RepliesReadBack`); a cut packet is refused or gives a part of it, a cut reply is not taken for the whole (`CutNeverMisread`); both hold of the replies of devices (`DevicesReadBack`); each round of the reply decoder gets on |
| `codec_nested` | a reply with a list inside a value | the decoder does not end (below) |
| `discovery` | a device on the subnet, one on a multi-drop bus and one on IP behind a router, one behind a BBMD; 3 packets come in; 5 kinds of range, with `ArrayAll` in one bound and in both | who is listed, once and where; which networks; that what was found can be asked, and answers itself |
| `points` | 2 callers, 20 calls, a device with a binary, a multi-state and an analogue point, 16 priorities, 2 changes | writes do what was asked or return an error; priority arrays and values are reported true; lists of points are those of the device |
| `scan` | 4 devices, two of one instance, 2 workers, 5 ranges over channels of 2 | each device read is merged once; the file lacks no more than the backlog; the command ends, also when it had to wait for the workers |

**Bounds.** Three requests are needed for an id to be given back, taken again and
met by a reply to its first owner while a third waits; two ids and two tokens let
both pools run empty. `IdCap` is one more than `NumIds`, as 255 is than 254;
`MaxReceives` = 2 lets a request time out and try again. Two subscribers and two
messages make a Publish wait for a full channel while another passes and a
subscriber leaves. `Idle` = 2 and `Overall` = 3 keep the order of the code's 2 and 10
seconds, so that a message can come while both timers run and put the end off before the
overall time is up. In `requests_safety` `Lifetime` is the largest the property
allows (`NumIds - Size + 1`), in `requests_late` it is beyond. `MaxRuns` bounds how often
devices run a call's request; replies are duplicated by the network without
bound. In `Receiver` read errors are not bounded. In `ObjectList` range sizes of
one, two and three divide the lists and do not; `MaxChanges` = 2 allows an
insertion and a removal.

`Codec` takes values on both sides of each change of length (a tag number of 14, a length
of 4 and of 253, 1 to 4 octets); 40 octets cut off leave nothing of most packets, and of
the long ones a part of their head. `LongLength` stands for every length a tag may
announce that no datagram has; `MaxArray` ends lists of values that grow without end. In
`Discovery` instances and networks overlap, so that packets for others are seen;
`MaxReceived` = 3 lets a device answer twice and another between. The constraint `Apart`
of the run leaves out queries that run beside requests to devices found: they share no
state. In `Points` a call with priority 17 is out of range; the multi-state point has
a value at each of the sixteen priorities, on both sides of 2^24, so that each branch of
the switch and the rounding matter. In `Scan` five ranges are one more than the channel of
two and the two workers hold, so that the command blocks in `SendRange`; `Grows` puts an
append into a larger array at lengths 1 and 2, as Go does.

**Fairness.** The liveness runs assume weak fairness of the goroutines of the library,
each as one process (Go's scheduler runs every goroutine that can run), of the passing of
time, and of `beforeWait` returning (a UDP write). Nothing is assumed of the network, of
devices, of the callers' starting or closing anything, or of messages coming in. In `TSM`
a select with a timeout is always able to take it, which is what contexts provide. In
`Receiver` a handler's `DeliverPayload` is fair: `tsm.Send` never blocks, and that each
`Publish` ends is a part of `EveryoneReturns`. In `Requests` nothing makes `Decode` end on
an endless reply: such a call is the exception of `EveryRequestReturns`. `ObjectList`
assumes that each request it makes returns, and `Scan`, where the command, each worker
and the merger are goroutines of their own and fair, that `WhoIs` and `Objects` do: their
liveness is that of their own loops, and a device that keeps the decoder of a multiple read
busy (`codec_nested`) keeps `Objects` and its worker busy too. In `codec_nested` the
decoder is fair: it is one loop that nothing stops.

## What the code does not keep

By a run:

| run | statement | what the code does |
|---|---|---|
| `codec_nested` | `encoding/context_tag.go:83` lists the tags of `PROP_ACTIVE_COV_SUBSCRIPTIONS`, whose values are lists between tags | a closing tag other than 4 inside a value is put back (`readmultipleack.go:166`) and read again, forever |

Met while modelling, without a run:

- `utsm/subscriber.go:47` "Deadline is x seconds after the last packet we received": the
  deadline is computed once per wait, and a packet noted during the wait, whose Publish
  has not handed it over yet, does not move it.
- `utsm/utsm.go:41` describes `DefaultSubscriberTimeout` as the time without packages;
  it sets the overall timeout, which ends a Collect in full flow.
- `network/base.go:43` logs "close bacnet network" and calls `ClientClose(true)`, which
  closes the log output and leaves the link open (`device.go:392`).
- `objectlist.go:171` "contains all the name and description fields for all objects":
  names that cannot be read are skipped, descriptions are not read.
- `cmd/cmd/discover.go:25` promises every device on the network in the file: it is
  saved without waiting for the merger, the bound `High` is the start of the range, and
  the last range ends at the quotient of `MaxInstance` and the size.
- An I-Am-Router-To-Network with a single network is refused, of more than two only two
  are read (`npdu.go:119`); a message type of 128 is written with a vendor and read
  without.
- A signed value whose short unsigned form has its top bit set is read as another number
  (`appdata.go:109`); the year 255, unspecified, is read as 2245; a float64 is tagged
  with the length of a float32.
- A time of one to three octets is taken apart without a look at its length, and
  `encoding/date.go:86-89` panics. No packet of the runs has one.
- A whole `ReadPropertyMultiple` reply cut right behind the tag of a property is taken
  without this property; a value list or a time stamp that is cut appends nulls without
  end.
- `WhoIs` with `ArrayAll` in both fields, as `whois.go:16` advises, subscribes to nothing
  (`DevicesListed` names the case);
  a Who-Is to the own subnet goes out as Original-Unicast.
- A device with an address of several octets behind a router is listed but cannot be
  asked again through `NewDevice`, which keeps one octet. `DeviceDiscover` appends the
  same pointer for each device found and reads their names from its own device.
- The query of routers loses a send error when `Subscribe` overwrites `err` first, and an
  answer that comes before the subscription.
- `PointReadPriority` of an analogue point panics when a priority is set, and a write of
  a value that is no `uint32` to a binary one; an object list of a single object is
  read as empty; `deviceObjectsBuilder` panics when an index cannot be read. Priorities of
  a `uint32` above 2^24 are rounded (`priority.go:19`).

The properties of `codec`, `discovery`, `points` and `scan` state what holds beside these:
each exception is spelled out in the property, at the case it is about.

## What is proved

The proofs are for every value of the constants that satisfies the module's named
assumption, and for any number of calls, subscribers and messages.

**TSM_proofs** proves every safety and action property of the two runs and that TSM
implements Transactions (`Refinement`). `UnreadReplyKept` needs that the object a Receive
reads from is that of its call, `ReuseDistance` that the queue gives ids in order. No
property is inductive alone. The invariant `IInv` joins the types with: a call holds the mutex exactly
while it is in `Put` (`MutexOK`); an object is closed exactly from then on
(`ClosedOK`); who receives has a reference to its own object (`RefOK`); what is in
a channel passed the comparison of peer and service (`ChanOK`); ids are exclusive
and the map follows the owners. The heart is that `Put` gives the id back before
it deletes the map entry: a new owner of the id cannot register in between because
it needs the mutex, so `StatesFollowOwners` needs `MutexOK`, and the exclusion of
ids needs the queue to hold an id at most once. `PoolInv` counts tokens and ids
over the finite sets of their holders and rests on `IInv`; `PutNeverBlocks` and
`IdAvailable` follow from it by arithmetic. For the refinement, the id is given
back, in the abstract, when `Put` closes the channel; one lemma (`AbsStep`) maps each
step to a step of `Transactions` or to none.

**Incoming_proofs** follows what comes in, from the buffers to the subscribers. Of
`Receiver` it proves the types, that every buffer made is in one place
(`BuffersAccounted`), that handlers keep their packet and that payloads outlive buffers.
The invariant says in two parts what the first says by counting: no buffer is with two
loops or handlers at a time or with one and in the pool (`Exclusive`), and none is
nowhere (`NotLost`); a count of one is then read off the set of holders.

Of `UTSM` it proves the safety and the action properties of the run `utsm`. `IInv`
adds to them: a subscriber found by a Publish, and not yet served, has registered
(`FoundOK`); a Collect sends only when it has (`SentOK`); the deadline that runs is
the one of the last time noted, or later by messages noted since and not yet
collected (`DeadlineOK`). From the last `CollectedPutsEndOff` follows: a message that was
noted and is not collected is still on its way to the subscriber or in its channel, since by
`KeptOrDone` only a subscriber that is done is passed over, and one in its select is not
(`DoneOK`).

**Requests_proofs** proves every safety property of the two runs. `IdInv` relates ids,
owners and the queue, and counts: the queue's length and the calls under way add up to
`NumIds`. `VerdictInv` says what a call may have been answered at each of its steps.
`AnswersOwnRequest` needs `OwnInv`: a message that may still come in is under the id of
its call while that goes on, and afterwards under an id that is in the queue at a place
`k` with `k + late >= NumIds - Size + 1` (`Apart`). An id that comes back goes behind at
least `NumIds - Size` others, which `IdInv` counts; each id taken moves it one place on
and makes its call one later, so that the sum does not fall; it cannot be taken before
the call is `Lifetime` late, if that is no more than `NumIds - Size + 1` (235 with the
254 ids and 20 requests of the code). `AnswerFits` needs no bound
on lateness: `FitInv` says that what is in a mailbox, or was read from it, has the peer and
the service of the call, which is what the manager compares, and `VerdictInv` that a
success passed the comparison of `Decode`.

**Scan_proofs** proves `ListComplete` of `ObjectList` beside the properties of `Scan`.
`Orders` and `AcceptedItems` show that a reply that `extractObjectIDsForRange` accepts has
the item of every index of the range, whatever its order and labels: its length or its
indices leave no other choice. `ListInv` says what has been found after each range. Of
`Scan` it proves the types, `MergedOnce` and `SavedButForBacklog`; that invariant follows
a device from the worker that read it through the channel and the merger into the list,
and says that after the last worker only these two can hold one.

**Discovery_proofs** proves every property of `discovery`, for any devices, places, options
and traffic that the assumptions allow. What they rest on is `Located`: the address made of
a reply leads to its sender and nowhere else; with it `CompletedByAsked` needs only that the
replies under way are genuine. For `DevicesListed` the invariant `WhoIsInv` splits the call
at its loop: each instance heard in range waits in the subscription or is listed
(`NoneMissed`); of what waits, the first of an instance that is not listed is the first
heard (`WaitingOK`), so that the loop, which keeps the first, lists that one; what is listed
is an entry of it, with details of its own or none (`ListOK`). `FoundReachable` follows from
`ListOK`, since an entry keeps what `NewDevice` needs while a station has one octet.
`NetworksListed` rests on `QueryInv`: what a query takes is what was published of the
packets that answer it.

**Points_proofs** proves every property of `points`. `WritesAsAsked` follows from
`WriteInv`: an acknowledgement on its way means that the write was done. `ReportsTrue` is
inductive with it, and rests on `HighestIsPresent`: the first value that is not null is that
of the lowest number in use, which exists because the order of numbers is well founded; on
`FieldOf`, that the switch sends each index to the field read for it; and on `Nearest`, which
bounds by how much a rounded value may differ, for the 32 bit numbers that the priorities
hold (`ArrayInv`).
`PointsListed` needs `Progress`: while the list is as it was when the call began, what has
been read is a part of it, whole at the end of either way to read it, and the points so far
are those of the objects gone through (`PointsOf`: an order-preserving map onto them).

**Codec_proofs** proves `PacketsReadBack`, that is `ValuesReadBack`, `HeadersReadBack` and
`MessagesReadBack`, for every value, date, header, request and announcement of the sets in
`CodecAssumption`: strings of any length below `LongLength`, any `uint32`, addresses of any length, any
number of networks. The lemmas go from the single byte up to packets and all have one
form: a decoder that has the bytes of an item in front of any others returns the item and
leaves the others. In this form the lemmas of a packet's parts compose in the order in
which they are read. `Extended` and `Header`, whose length depends on the item, are split
into their cases; numbers are recomposed from their octets by division. The invariant
`PeerInv` is then short: unless it was cut, what is on the wire is the encoding of the
item (`WireKnown`), what was returned is what must be read of it (`ReadKnown`), and the
decoder in rounds has a reply only (`ReplyOnly`). The exceptions the properties spell out
are just the hypotheses that the lemmas cannot do without.

It also proves the half of `CutNeverMisread` that is about packets (`CutPacketsTruthful`,
theorem `CutsNoticed`). There the bytes end somewhere inside an item, so the lemmas about
decoders compare two: one in front of what arrived and one in front of all that was sent.
The first follows the second, having read the same and left the same but for the end,
until it misses a byte (`Follows`); from then on its error is set and stays. An item that is
read without an error was therefore all there, and since its last byte was not, it is
refused. The list of an answer has no end of its own: `ValueList` reads what is there, and
gives its value or nothing, since a decoder leaves no more than it had, and nothing once it
has missed a byte (`Kept`, `Spent`).

**Replies_proofs** proves the rest of `CutNeverMisread` and all of `RepliesReadBack`, that is
for replies and requests of any number of objects, properties and values. What is decoded
by recursion or by rounds needs an induction, which is made in one of two ways:

- The rounds of the reply decoder are steps of the specification, so that the induction
  is the one over behaviours. `ReplyInv` says at each loop how far the decoder is: for some
  `tail`, what is left to read is what is left of the reply's encoding in front of `tail`, cut
  or not, and what has been read are the objects, properties and values before it
  (`ReadState`); or the bytes have ended within what is being read and the decoder can only
  refuse. `StampRound` cannot be reached, since the library writes no time stamp.
- The tags of a request (`Tagged`) and the list of an answer (`ValueList`) are read by
  recursive functions. Their defining equation is enough: were there a place in the
  list from which they go wrong, there would be a last one, because the order of natural
  numbers is well founded (`Least`), and one step from there leads to a place from which they
  do not.

`RequestInv` says that a request of any values but doubles is well nested. The
two exceptions of the properties are met in the proofs: a double, tagged as long as a float,
leaves four octets that are read as tags; and a cut right behind the tag of a property leaves
the loop over properties with the bytes, so that `CutReply` can only promise the last
object's properties up to there.

The last part of the module is about the end of the decoder's loops. `RoundsGetOn` says for
any octets of any device, whole or cut (of which `CodecAssumption` demands only that they
are octets), that a round leaves `Rank` lower, unless the decoder lingers (`Lingers`): it is
in a list of values or in a time stamp behind an error, or at a closing tag in a list that
is not its own. Its invariant `ReadingInv` says what the variables can be in each loop
(`ReaderIn`), of which the hard part is that an error leaves no octets behind (`Spent`), but
for the one that a list of values puts back. What a decoder leaves falls by four at least
with an octet or with an error (`FallsByFour`), which is more than the loops are deep, so
that a round may well go from one loop into another. For the library's own replies `ReplyInv`
excludes the second way and reduces the first to a reply that was cut
(`RepliesGetOn`, which is `DecoderGetsOn` for them): one that arrives whole is read to its end.

Only model-checked:

- the liveness properties (`EveryCallReturns`, `EveryoneReturns`, `EveryRequestReturns`,
  `LoopsEnd`, `ObjectsReturns`, `DiscoverReturns`), which are out of the prover's reach;
- `DevicesReadBack`, and `DecoderGetsOn` for the replies of devices: these are octets given
  with the run, of which nothing is known but what they are. Of arbitrary octets
  `DecoderGetsOn` is not even true (a value that ends within a whole reply is appended without
  end); what is true of them is `RoundsGetOn`.

## Not modelled, and the plan

1. The store of networks and handles (`network.New`, `NewDevice`, `store.go`): a map
   around a cache of its own; that handles of networks and devices share its keys is
   best shown by a test.
2. The sockets and pcap of the data links, which are I/O; `mstp.go` is commented out.
3. The tables of units, services and property names, the JSON and map methods of
   `btypes`, the commands that parse arguments, call the client once and print.
4. Next: a refinement of `UTSM` to an abstract subscription, on which `Discovery` rests;
   several `WhoIs` at a time.
