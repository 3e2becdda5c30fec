----------------------------- MODULE StateStore -----------------------------
(***************************************************************************)
(* The persistent state of the SMS bridge (state/store.go).  Every         *)
(* operation holds Store.mu across its changes and saveLocked, so each is  *)
(* one step; `saved' says whether saveLocked, which replaces the file by   *)
(* an atomic rename, succeeded.                                            *)
(***************************************************************************)
EXTENDS Naturals, Sequences, Functions, FiniteSets

CONSTANTS
    Handles,       \* message handles
    Items,         \* outbound items, each with an identifier of its own
    MaxSeen,       \* maximumSeenHandles
    MaxOutbound    \* maximumOutbound

ASSUME BoundsAssumption == MaxSeen \in Nat \ {0} /\ MaxOutbound \in Nat \ {0}

VARIABLES
    data,      \* Store.data
    lookup,    \* Store.seen, the handles of data as a set
    disk       \* the state file

storeVars == <<data, lookup, disk>>

DiskState == [initialized : BOOLEAN, seen : Seq(Handles), outbound : Seq(Items)]

(* Open on a host without a state file, with or without legacy files that *)
(* make the imported state an initialized one.                             *)
StoreInit ==
    /\ disk \in [initialized : BOOLEAN, seen : {<<>>}, outbound : {<<>>}]
    /\ data = disk
    /\ lookup = {}

(* Open on an existing file: load and rebuildSeen.                         *)
Open ==
    /\ data' = disk
    /\ lookup' = Range(disk.seen)
    /\ UNCHANGED disk

HasSeen(handle) == handle \in lookup

(* saveLocked writes what the operation put into data.                     *)
Saved(next) == data' = next /\ disk' = next

(* SetInitialized leaves its change in memory when the save fails.         *)
SetInitialized(saved) ==
    /\ data' = [data EXCEPT !.initialized = TRUE]
    /\ disk' = IF saved THEN data' ELSE disk
    /\ UNCHANGED lookup

(* Mutant: one handle more than needed is evicted.                         *)
EvictsOneMore(list) == IF Len(list) >= MaxSeen THEN Len(list) - MaxSeen + 1 ELSE 0

(* MarkSeenMany appends the handles it does not know and evicts the oldest *)
(* ones beyond the limit; a failed save restores the list and the set.     *)
Extra(list) == IF Len(list) > MaxSeen THEN Len(list) - MaxSeen ELSE 0

(* Where in the argument the loop meets a handle it does not know yet; it  *)
(* appends these handles in their order.                                   *)
News(handles) ==
    {k \in 1..Len(handles) :
        ~HasSeen(handles[k]) /\ \A j \in 1..(k - 1) : handles[j] # handles[k]}

Order(k, S) == Cardinality({j \in S : j <= k})

Unknown(handles) ==
    [n \in 1..Cardinality(News(handles)) |->
        handles[CHOOSE k \in News(handles) : Order(k, News(handles)) = n]]

MarkSeenMany(handles, saved) ==
    LET list == data.seen \o Unknown(handles)
        evicted == SubSeq(list, 1, Extra(list))
        kept == SubSeq(list, Extra(list) + 1, Len(list))
    IN  \/ /\ Unknown(handles) = <<>> /\ saved
           /\ UNCHANGED storeVars
        \/ /\ Unknown(handles) # <<>> /\ saved
           /\ Saved([data EXCEPT !.seen = kept])
           /\ lookup' = (lookup \cup Range(list)) \ Range(evicted)
        \/ /\ Unknown(handles) # <<>> /\ ~saved
           /\ UNCHANGED storeVars

MarkSeen(handle, saved) == MarkSeenMany(<<handle>>, saved)

(* AddOutbound refuses an item when the queue is full; a failed save takes *)
(* it back out of the queue.                                               *)
OutboundFull == Len(data.outbound) >= MaxOutbound

(* Mutant: an item whose save failed stays in the queue.                   *)
AddWithoutRollback(item, saved) ==
    /\ data' = [data EXCEPT !.outbound = Append(@, item)]
    /\ disk' = IF saved THEN data' ELSE disk
    /\ UNCHANGED lookup

AddOutbound(item, saved) ==
    \/ /\ item \in Range(data.outbound) /\ saved
       /\ UNCHANGED storeVars
    \/ /\ item \notin Range(data.outbound) /\ saved
       /\ Saved([data EXCEPT !.outbound = Append(@, item)])
       /\ UNCHANGED lookup
    \/ /\ ~saved
       /\ UNCHANGED storeVars

(* Mutant: the removal is not persisted.                                   *)
TakeInMemory(saved) ==
    /\ data' = [data EXCEPT !.outbound = Tail(@)]
    /\ UNCHANGED <<lookup, disk>>

(* TakeOutbound persists the removal before it returns the item.           *)
TakeOutbound(saved) ==
    \/ /\ saved
       /\ Saved([data EXCEPT !.outbound = Tail(@)])
       /\ UNCHANGED lookup
    \/ /\ ~saved
       /\ UNCHANGED storeVars
=============================================================================
