----------------------------- MODULE ObjectList ------------------------------
(***************************************************************************)
(* Objects(device): the object list of a device and the names of its       *)
(* objects (objectlist.go).                                                *)
(*                                                                         *)
(* The list is longer than a packet, so the client reads its length, then  *)
(* the indices 1..length in ranges that fit, then the names in chunks of   *)
(* objects.  Each of these reads is a request of its own, and between two  *)
(* of them the device may get another object or lose one.                  *)
(*                                                                         *)
(* A device answers with what its list holds at that moment, but it may    *)
(* leave items out, give them in another order, leave out the indices, or  *)
(* not answer at all.                                                      *)
(***************************************************************************)
EXTENDS Integers, Sequences, FiniteSets, SequencesExt

CONSTANTS
  DeviceObjects, (* the objects the device may have                        *)
  NoObject,     (* what it answers for an index it does not have           *)
  Proprietary,  (* those of a type above maxStandardBacnetType             *)
  Lists,        (* the lists the device may start with                     *)
  MaxApdus,     (* the sizes of packet the device may take                 *)
  ItemSize,     (* readPropRequestSize: what an index takes of a packet    *)
  Chunk,        (* incrSize: the objects in one read of names              *)
  MaxChanges    (* the bound on the changes of the device                  *)

ASSUME ObjectListAssumption ==
  /\ NoObject \notin DeviceObjects
  /\ Proprietary \subseteq DeviceObjects
  /\ \A s \in Lists : s \in Seq(DeviceObjects)
  /\ MaxApdus \subseteq Nat
  /\ ItemSize \in Nat \ {0}
  /\ Chunk \in Nat \ {0}
  /\ MaxChanges \in Nat

VARIABLES
  \* the device
  maxApdu,    (* the size of packet it takes                               *)
  list,       (* its object list                                           *)
  changes,    (* how often that changed                                    *)
  \* the call
  step,       (* its next step                                             *)
  listLen,    (* l, the length the device gave                             *)
  next,       (* the first index of the next range                         *)
  objs,       (* the objects of the device that is returned                *)
  todo,       (* those whose names are still to be read                    *)
  named,      (* those whose name was read                                 *)
  \* kept for the properties
  listed,     (* the list when its length was read                         *)
  shifted     (* an index up to length has changed its object since        *)

deviceVars == <<maxApdu, list, changes>>
objectsVars == <<deviceVars, step, listLen, next, objs, todo, named, listed, shifted>>

----------------------------------------------------------------------------
Phases == {"length", "range", "names", "ok", "failed"}

Least(a, b) == IF a < b THEN a ELSE b

Item(k) == IF k <= Len(list) THEN list[k] ELSE NoObject

(* The answers to a read of some indices: all or some of the items, in any *)
(* order, or in order and without their indices (which read as 0).         *)
Answer(ks, labelled) ==
  [j \in 1..Len(ks) |-> [index |-> IF labelled THEN ks[j] ELSE 0, object |-> Item(ks[j])]]

Replies(indices) ==
  LET orders == UNION {SetToSeqs(some) : some \in SUBSET indices}
  IN {Answer(ks, TRUE) : ks \in orders}
     \cup {Answer(ks, FALSE) : ks \in {o \in orders : \A i \in 2..Len(o) : o[i - 1] < o[i]}}

----------------------------------------------------------------------------
(* Faulty variants of the definitions below, each a plausible slip in the  *)
(* code; a run with one in place of the definition must fail.              *)

\* What a device answers without indices is not counted.
AcceptsUncounted(indices, reply) ==
  /\ \A j \in 1..Len(reply) : reply[j].object # NoObject
  /\ LET indexed == {j \in 1..Len(reply) : reply[j].index \in indices}
     IN indexed # {} => {reply[j].index : j \in indexed} = indices

\* Objects whose names were not answered are asked for again.
ReadNamesAgain ==
  /\ step = "names"
  /\ \E some \in SUBSET todo :
       /\ some # {}
       /\ Cardinality(some) = Least(Chunk, Cardinality(todo))
       /\ \E answered \in SUBSET ((some \ Proprietary) \cap Range(list)) :
            /\ named' = named \cup answered
            /\ todo' = todo \ answered
  /\ UNCHANGED <<deviceVars, step, listLen, next, objs, listed, shifted>>

----------------------------------------------------------------------------
RangeSize == IF maxApdu \div ItemSize < 1 THEN 1 ELSE maxApdu \div ItemSize

(* The indices of the range that starts at next.                           *)
Indices == next..Least(next + RangeSize - 1, listLen)

(* extractObjectIDsForRange: objects only; when items have indices of the  *)
(* range, each index once; otherwise as many items as were asked for.      *)
Accepts(indices, reply) ==
  /\ \A j \in 1..Len(reply) : reply[j].object # NoObject
  /\ LET indexed == {j \in 1..Len(reply) : reply[j].index \in indices}
     IN IF indexed # {}
          THEN /\ {reply[j].index : j \in indexed} = indices
               /\ Cardinality(indexed) = Cardinality(indices)
          ELSE Len(reply) = Cardinality(indices)

ObjectsInit ==
  /\ maxApdu \in MaxApdus
  /\ list \in Lists
  /\ changes = 0
  /\ step = "length"
  /\ listLen = 0
  /\ next = 1
  /\ objs = {}
  /\ todo = {}
  /\ named = {}
  /\ listed = <<>>
  /\ shifted = FALSE

----------------------------------------------------------------------------
(* objectListLen                                                           *)
ObjectListLen ==
  /\ step = "length"
  /\ step' = "range"
  /\ listLen' = Len(list)
  /\ listed' = list
  /\ UNCHANGED <<deviceVars, next, objs, todo, named, shifted>>

(* One iteration of the loop of objectList, or the read after it, which is *)
(* of the last range when that is shorter.                                 *)
ReadRange ==
  /\ step = "range"
  /\ next <= listLen
  /\ \E reply \in Replies(Indices) :
       /\ Accepts(Indices, reply)
       /\ objs' = objs \cup {reply[j].object : j \in 1..Len(reply)}
  /\ next' = next + RangeSize
  /\ UNCHANGED <<deviceVars, step, listLen, todo, named, listed, shifted>>

(* The request failed, or its answer is not accepted: Objects fails.       *)
ReadFails ==
  /\ \/ step = "length"
     \/ step = "range" /\ next <= listLen
  /\ step' = "failed"
  /\ UNCHANGED <<deviceVars, listLen, next, objs, todo, named, listed, shifted>>

ListRead ==
  /\ step = "range"
  /\ next > listLen
  /\ step' = "names"
  /\ todo' = objs
  /\ UNCHANGED <<deviceVars, listLen, next, objs, named, listed, shifted>>

(* objectInformation for the next few objects, in the order of a map.      *)
(* Proprietary ones are not asked for.  Whether the request fails, or some *)
(* of the objects are gone or answered badly: what was answered is kept    *)
(* and the call goes on.                                                   *)
ReadNames ==
  /\ step = "names"
  /\ \E some \in SUBSET todo :
       /\ some # {}
       /\ Cardinality(some) = Least(Chunk, Cardinality(todo))
       /\ todo' = todo \ some
       /\ \E answered \in SUBSET ((some \ Proprietary) \cap Range(list)) :
            named' = named \cup answered
  /\ UNCHANGED <<deviceVars, step, listLen, next, objs, listed, shifted>>

NamesRead ==
  /\ step = "names"
  /\ todo = {}
  /\ step' = "ok"
  /\ UNCHANGED <<deviceVars, listLen, next, objs, todo, named, listed, shifted>>

----------------------------------------------------------------------------
(* The device gets an object, anywhere in its list, or loses one.          *)
Change ==
  /\ step \in {"range", "names"}
  /\ changes < MaxChanges
  /\ changes' = changes + 1
  /\ \/ \E k \in 1..Len(list) : list' = RemoveAt(list, k)
     \/ \E o \in DeviceObjects \ Range(list), k \in 1..(Len(list) + 1) : list' = InsertAt(list, k, o)
  /\ shifted' = (shifted \/ (step = "range" /\ \E k \in 1..listLen : Item(k)' # listed[k]))
  /\ UNCHANGED <<maxApdu, step, listLen, next, objs, todo, named, listed>>

Call == ObjectListLen \/ ReadRange \/ ReadFails \/ ListRead \/ ReadNames \/ NamesRead

Finished == step \in {"ok", "failed"} /\ UNCHANGED objectsVars

ObjectsNext == Call \/ Change \/ Finished

(* Every request of the call returns, and the call goes on.                *)
ObjectsSpec == ObjectsInit /\ [][ObjectsNext]_objectsVars /\ WF_objectsVars(Call)

----------------------------------------------------------------------------
(* Properties                                                              *)

(* When the ranges have been read, the objects are exactly those listed    *)
(* when the length was read, however the device splits, orders or labels   *)
(* its answers, and though it got objects at the end of its list or lost   *)
(* some of these meanwhile; only a shift of what is being read breaks it.  *)
ListComplete == step \in {"names", "ok"} /\ ~shifted => objs = Range(listed)

(* Objects returns, though objects are lost before their names are read,   *)
(* are answered badly again and again or are never asked for.  That each   *)
(* of its requests returns is assumed (each is one step here): a reply to  *)
(* a multiple read whose decoder never ends (EveryRequestReturns,          *)
(* WholeRepliesDecoded) keeps Objects for ever as well.                    *)
ObjectsReturns == <>(step \in {"ok", "failed"})
=============================================================================
