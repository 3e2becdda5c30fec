------------------------- MODULE SmsDeliveryProofs -------------------------
(***************************************************************************)
(* Proofs about the outbox and the inbox of the SMS bridge, for any set of *)
(* texts and messages, any number of crashes and any sizes of the store,   *)
(* the listing and the event queue.                                        *)
(***************************************************************************)
EXTENDS SmsDelivery, FiniteSetTheorems, TLAPS

Outbox == data.outbound

Known == {"added", "accepted", "unanswered"}

Types ==
    /\ DOMAIN data = {"initialized", "seen", "outbound"}
    /\ DOMAIN disk = {"initialized", "seen", "outbound"}
    /\ DOMAIN loop = {"at", "from", "handle", "item", "todo", "left"}
    /\ loop.from \in {"select", "poll"}
    /\ Outbox \in Seq(Items)
    /\ handler \in [Items -> Known \cup {"idle", "refused"}]
    /\ texted \in [Items -> Nat]
    /\ taken \subseteq Items

(* The queue in memory is the queue in the file; an item is in it once, or *)
(* has been taken, and only if its handler put it there.                   *)
QueueInv ==
    /\ disk.outbound = Outbox
    /\ \A m, n \in 1..Len(Outbox) : Outbox[m] = Outbox[n] => m = n
    /\ \A n \in 1..Len(Outbox) : Outbox[n] \notin taken /\ handler[Outbox[n]] \in Known
    /\ \A i \in taken : handler[i] \in Known

(* A text is attempted after it was taken, and the one in hand has not     *)
(* been attempted.                                                         *)
SendInv ==
    /\ \A i \in Items : texted[i] # 0 => i \in taken /\ texted[i] = 1
    /\ loop.at = "send" => loop.item \in taken /\ texted[loop.item] = 0

(* An answer was given after the item was in the queue.                    *)
AnswerInv ==
    \A i \in Items : handler[i] \in {"added", "accepted"} =>
        i \in taken \/ \E n \in 1..Len(Outbox) : Outbox[n] = i

IInv == Types /\ QueueInv /\ SendInv /\ AnswerInv

(* A step that has nothing to do with the outbox.                          *)
Elsewhere ==
    /\ DOMAIN data' = DOMAIN data /\ DOMAIN disk' = DOMAIN disk /\ DOMAIN loop' = DOMAIN loop
    /\ data'.outbound = data.outbound /\ disk'.outbound = disk.outbound
    /\ UNCHANGED <<handler, texted, taken>>
    /\ loop'.at # "send" /\ loop'.from \in {"select", "poll"}

----------------------------------------------------------------------------
(* Such a step keeps the invariant.                                        *)
LEMMA ElsewhereStep == IInv /\ Elsewhere => IInv'
BY DEF IInv, Types, QueueInv, SendInv, AnswerInv, Outbox, Elsewhere

(* MarkSeenMany leaves the queue alone, whether or not its save succeeds.  *)
LEMMA MarkingIsElsewhere ==
    ASSUME Types, NEW handles, NEW saved, MarkSeenMany(handles, saved)
    PROVE  /\ DOMAIN data' = DOMAIN data /\ DOMAIN disk' = DOMAIN disk
           /\ data'.outbound = data.outbound
           /\ disk'.outbound = disk.outbound \/ disk'.outbound = data.outbound
BY DEF MarkSeenMany, Saved, storeVars, Types

(* The steps of mapLoop on inbound messages, and those of the phone, have  *)
(* nothing to do with the outbox.                                          *)
LEMMA InboundIsElsewhere ==
    ASSUME Types, QueueInv, NEW saved \in BOOLEAN,
           \/ Baseline(saved) \/ Initialize(saved)
           \/ ConsumeUndelivered(saved) \/ Consume(saved)
    PROVE  Elsewhere
<1>1. UNCHANGED <<handler, texted, taken>>
  BY DEF Baseline, Initialize, ConsumeUndelivered, Consume, histories
<1>. DEFINE QueueKept == /\ DOMAIN data' = DOMAIN data /\ DOMAIN disk' = DOMAIN disk
                         /\ data'.outbound = data.outbound /\ disk'.outbound = disk.outbound
<1>2. QueueKept
  <2>1. CASE Initialize(saved)
    BY <2>1 DEF Initialize, SetInitialized, Types, QueueInv, Outbox
  <2>2. ASSUME NEW handles, MarkSeenMany(handles, saved)
        PROVE  QueueKept
    BY <2>2, MarkingIsElsewhere DEF QueueInv, Outbox
  <2>3. \/ Initialize(saved)
        \/ MarkSeenMany(loop.todo, saved) \/ MarkSeenMany(<<loop.handle>>, saved)
    BY DEF Baseline, ConsumeUndelivered, Consume, MarkSeen
  <2>. HIDE DEF QueueKept
  <2>. QED
    BY <2>1, <2>2, <2>3
<1>3. DOMAIN loop' = DOMAIN loop /\ loop'.at # "send" /\ loop'.from \in {"select", "poll"}
  <2>1. \/ loop' = [loop EXCEPT !.at = "initialize", !.todo = <<>>]
        \/ loop' = [loop EXCEPT !.at = "drain"]
        \/ loop' = [loop EXCEPT !.at = "deliver", !.left = Recipients]
        \/ loop' = [loop EXCEPT !.at = loop.from, !.handle = None]
        \/ loop' = [Down EXCEPT !.at = "select"]
        \/ loop' = Down
    BY DEF Baseline, Initialize, ConsumeUndelivered, Consume, LoopTo, Return, ReturnSaveError,
           EndSession
  <2>2. /\ DOMAIN loop = {"at", "from", "handle", "item", "todo", "left"}
        /\ loop.from \in {"select", "poll"}
    BY DEF Types
  <2>3. CASE loop' = [loop EXCEPT !.at = "initialize", !.todo = <<>>]
    BY <2>2, <2>3
  <2>4. CASE loop' = [loop EXCEPT !.at = "drain"]
    BY <2>2, <2>4
  <2>5. CASE loop' = [loop EXCEPT !.at = "deliver", !.left = Recipients]
    BY <2>2, <2>5
  <2>6. CASE loop' = [loop EXCEPT !.at = loop.from, !.handle = None]
    BY <2>2, <2>6
  <2>7. CASE loop' = Down \/ loop' = [Down EXCEPT !.at = "select"]
    BY <2>2, <2>7 DEF Down
  <2>. QED
    BY <2>1, <2>3, <2>4, <2>5, <2>6, <2>7
<1>. QED
  BY <1>1, <1>2, <1>3 DEF Elsewhere

(* So do the steps of mapLoop that save nothing, except SendSMS.           *)
LEMMA MovingIsElsewhere ==
    ASSUME Types,
           \/ Connect \/ Bootstrap \/ DrainDone \/ SelectWake \/ SelectPoll \/ SelectFails
           \/ SelectEvent \/ PollNext \/ DeferMedia \/ Deliver
    PROVE  Elsewhere
<1>1. UNCHANGED <<data, disk, handler, texted, taken>>
  BY DEF Connect, Bootstrap, DrainDone, SelectWake, SelectPoll, SelectFails, SelectEvent,
         PollNext, DeferMedia, Deliver, storeVars, histories
<1>. DEFINE LoopMoved == /\ DOMAIN loop' = DOMAIN loop /\ loop'.at # "send"
                         /\ loop'.from \in {"select", "poll"}
<1>. SUFFICES LoopMoved
  BY <1>1 DEF Elsewhere
<1>2. /\ DOMAIN loop = {"at", "from", "handle", "item", "todo", "left"}
      /\ loop.from \in {"select", "poll"}
  BY DEF Types
<1>3. CASE loop' = Down \/ loop' = [Down EXCEPT !.at = "select"]
  BY <1>2, <1>3 DEF Down
<1>4. ASSUME NEW at, at # "send", loop' = [loop EXCEPT !.at = at]
      PROVE  LoopMoved
  BY <1>2, <1>4
<1>5. ASSUME NEW at, at # "send", NEW todo, loop' = [loop EXCEPT !.at = at, !.todo = todo]
      PROVE  LoopMoved
  BY SMTT(60), <1>2, <1>5
<1>6. CASE Bootstrap
  <2>1. \/ loop' = [loop EXCEPT !.at = "drain"]
        \/ loop' = [loop EXCEPT !.at = "baseline", !.todo = Listing]
        \/ loop' = Down
    BY SMTT(60), <1>6 DEF Bootstrap, LoopTo, EndSession
  <2>. QED
    BY Zenon, <2>1, <1>3, <1>4, <1>5
<1>7. CASE SelectPoll
  <2>1. loop' = [loop EXCEPT !.at = "poll", !.todo = Listing]
    BY <1>7 DEF SelectPoll
  <2>. QED
    BY Zenon, <2>1, <1>5
<1>8. CASE SelectEvent
  <2>1. \/ loop' = loop /\ loop.at = "select"
        \/ loop' = [loop EXCEPT !.at = "fetch", !.from = "select", !.handle = Head(events)]
    BY <1>8 DEF SelectEvent
  <2>2. CASE loop' = [loop EXCEPT !.at = "fetch", !.from = "select", !.handle = Head(events)]
    BY <1>2, <2>2
  <2>. QED
    BY <1>2, <2>1, <2>2
<1>9. CASE PollNext
  <2>. DEFINE rest == [loop EXCEPT !.todo = SubSeq(@, 1, Len(@) - 1)]
  <2>1. \/ loop' = [Down EXCEPT !.at = "select"]
        \/ loop' = rest /\ loop.at = "poll"
        \/ loop' = [rest EXCEPT !.at = "fetch", !.from = "poll",
                                !.handle = loop.todo[Len(loop.todo)]]
    BY <1>9 DEF PollNext
  <2>2. DOMAIN rest = DOMAIN loop /\ rest.from = loop.from /\ rest.at = loop.at
    BY <1>2
  <2>. HIDE DEF rest
  <2>3. CASE loop' = [rest EXCEPT !.at = "fetch", !.from = "poll",
                                !.handle = loop.todo[Len(loop.todo)]]
    BY <1>2, <2>2, <2>3
  <2>. QED
    BY <1>2, <1>3, <2>1, <2>2, <2>3
<1>10. CASE DeferMedia \/ Deliver
  <2>1. \/ loop' = [loop EXCEPT !.at = loop.from, !.handle = None]
        \/ loop' = [loop EXCEPT !.left = @ - 1] /\ loop.at = "deliver"
    BY <1>10 DEF DeferMedia, Deliver, Return
  <2>2. CASE loop' = [loop EXCEPT !.at = loop.from, !.handle = None]
    BY <1>2, <2>2
  <2>3. CASE loop' = [loop EXCEPT !.left = @ - 1] /\ loop.at = "deliver"
    BY <1>2, <2>3
  <2>. QED
    BY Zenon, <2>1, <2>2, <2>3
<1>11. CASE Connect \/ DrainDone \/ SelectWake \/ SelectFails
  <2>1. \/ loop' = [loop EXCEPT !.at = "boot"] \/ loop' = [loop EXCEPT !.at = "select"]
        \/ loop' = [loop EXCEPT !.at = "drain"] \/ loop' = Down
    BY <1>11 DEF Connect, DrainDone, SelectWake, SelectFails, LoopTo, EndSession
  <2>. QED
    BY <2>1, <1>3, <1>4
<1>. QED
  BY Zenon, <1>6, <1>7, <1>8, <1>9, <1>10, <1>11

(* SendSMS: the text in hand is attempted for the first time.              *)
LEMMA SendStep == IInv /\ SendSMS => IInv'
<1>. SUFFICES ASSUME IInv, SendSMS
              PROVE  IInv'
  OBVIOUS
<1>1. /\ UNCHANGED <<data, disk, handler, taken>>
      /\ loop.item \in taken /\ loop.item \in Items /\ texted[loop.item] = 0
      /\ texted' = [texted EXCEPT ![loop.item] = @ + 1]
  BY DEF SendSMS, storeVars, IInv, SendInv, Types
<1>2. /\ texted' \in [Items -> Nat] /\ texted'[loop.item] = 1
      /\ \A i \in Items : i # loop.item => texted'[i] = texted[i]
  BY <1>1 DEF IInv, Types
<1>3. DOMAIN loop' = DOMAIN loop /\ loop'.at # "send" /\ loop'.from \in {"select", "poll"}
  <2>1. \/ loop' = [loop EXCEPT !.at = "drain", !.item = None]
        \/ loop' = Down
    BY DEF SendSMS, EndSession
  <2>2. /\ DOMAIN loop = {"at", "from", "handle", "item", "todo", "left"}
        /\ loop.from \in {"select", "poll"}
    BY DEF IInv, Types
  <2>3. CASE loop' = [loop EXCEPT !.at = "drain", !.item = None]
    BY <2>2, <2>3
  <2>4. CASE loop' = Down
    BY <2>2, <2>4 DEF Down
  <2>. QED
    BY <2>1, <2>3, <2>4
<1>4. SendInv'
  BY <1>1, <1>2, <1>3 DEF IInv, SendInv
<1>. QED
  BY <1>1, <1>2, <1>3, <1>4 DEF IInv, Types, QueueInv, AnswerInv, Outbox

(* DrainTakes: the first item leaves the queue, in memory and in the file, *)
(* before it is attempted.                                                 *)
LEMMA TakeStep == \A saved \in BOOLEAN : IInv /\ DrainTakes(saved) => IInv'
<1>. SUFFICES ASSUME NEW saved \in BOOLEAN, IInv, DrainTakes(saved)
              PROVE  IInv'
  OBVIOUS
<1>1. UNCHANGED <<handler, texted>>
  BY DEF DrainTakes
<1>2. CASE ~saved
  <2>1. UNCHANGED <<data, disk, taken>> /\ loop' = Down
    BY <1>2 DEF DrainTakes, TakeOutbound, storeVars, EndSession
  <2>2. Elsewhere
    BY <1>1, <2>1 DEF Elsewhere, Down, IInv, Types
  <2>. QED
    BY <2>2, ElsewhereStep
<1>3. CASE saved
  <2>. DEFINE item == Head(Outbox)
  <2>1. /\ Outbox # <<>>
        /\ data' = [data EXCEPT !.outbound = Tail(Outbox)] /\ disk' = data'
        /\ loop' = [loop EXCEPT !.at = "send", !.item = item]
        /\ taken' = taken \cup {item}
    BY SMTT(60), <1>3 DEF DrainTakes, TakeOutbound, Saved, Outbox
  <2>2. /\ DOMAIN data' = DOMAIN data /\ DOMAIN disk' = DOMAIN data
        /\ Outbox' = Tail(Outbox) /\ disk'.outbound = Outbox'
    BY <2>1 DEF IInv, Types, Outbox
  <2>3. /\ DOMAIN loop' = DOMAIN loop /\ loop'.from = loop.from
        /\ loop'.at = "send" /\ loop'.item = item
    BY <2>1 DEF IInv, Types
  <2>4. Outbox \in Seq(Items) /\ Len(Outbox) \in Nat \ {0} /\ item = Outbox[1] /\ item \in Items
    BY <2>1 DEF IInv, Types
  <2>. HIDE DEF item
  <2>5. /\ Outbox' \in Seq(Items) /\ Len(Outbox') = Len(Outbox) - 1
        /\ \A n \in 1..Len(Outbox') : n + 1 \in 1..Len(Outbox) /\ Outbox'[n] = Outbox[n + 1]
    BY <2>2, <2>4
  <2>6. item \notin taken /\ handler[item] \in Known
    BY <2>4 DEF IInv, QueueInv
  <2>7. texted[item] = 0
    BY <2>4, <2>6 DEF IInv, SendInv
  <2>8. Types'
    BY <1>1, <2>1, <2>2, <2>3, <2>4, <2>5 DEF IInv, Types
  <2>9. QueueInv'
    <3>1. ASSUME NEW m \in 1..Len(Outbox'), NEW n \in 1..Len(Outbox'), Outbox'[m] = Outbox'[n]
          PROVE  m = n
      <4>1. Outbox[m + 1] = Outbox[n + 1] => m + 1 = n + 1
        BY <2>5 DEF IInv, QueueInv
      <4>. QED
        BY <2>5, <3>1, <4>1
    <3>2. ASSUME NEW n \in 1..Len(Outbox')
          PROVE  Outbox'[n] \notin taken' /\ handler'[Outbox'[n]] \in Known
      <4>1. n + 1 \in 1..Len(Outbox) /\ 1 \in 1..Len(Outbox) /\ n + 1 # 1
        BY <2>4, <2>5
      <4>2. Outbox[n + 1] # item
        BY <2>4, <4>1 DEF IInv, QueueInv
      <4>. QED
        BY Zenon, <1>1, <2>1, <2>5, <4>1, <4>2 DEF IInv, QueueInv
    <3>. QED
      BY <1>1, <2>1, <2>2, <2>6, <3>1, <3>2 DEF IInv, QueueInv
  <2>10. SendInv'
    BY <1>1, <2>1, <2>3, <2>7 DEF IInv, SendInv
  <2>11. AnswerInv'
    <3>. SUFFICES ASSUME NEW i \in Items, handler[i] \in {"added", "accepted"},
                         i \notin taken, i # item
                  PROVE  \E n \in 1..Len(Outbox') : Outbox'[n] = i
      BY <1>1, <2>1 DEF AnswerInv
    <3>1. PICK n \in 1..Len(Outbox) : Outbox[n] = i
      BY DEF IInv, AnswerInv
    <3>2. n # 1
      BY <2>4, <3>1
    <3>3. n - 1 \in 1..Len(Outbox') /\ Outbox'[n - 1] = i
      BY <2>4, <2>5, <3>1, <3>2
    <3>. QED
      BY <3>3
  <2>. QED
    BY <2>8, <2>9, <2>10, <2>11 DEF IInv
<1>. QED
  BY <1>2, <1>3

(* Enqueue: the item is in the queue and in the file, or in neither.       *)
LEMMA EnqueueStep ==
    \A item \in Items, saved \in BOOLEAN : IInv /\ Enqueue(item, saved) => IInv'
<1>. SUFFICES ASSUME NEW item \in Items, NEW saved \in BOOLEAN, IInv, Enqueue(item, saved)
              PROVE  IInv'
  OBVIOUS
<1>1. /\ handler[item] = "idle" /\ UNCHANGED <<loop, texted, taken>>
      /\ handler' = [handler EXCEPT ![item] = IF saved THEN "added" ELSE "refused"]
  BY DEF Enqueue, histories
<1>2. /\ handler' \in [Items -> Known \cup {"idle", "refused"}]
      /\ handler'[item] = IF saved THEN "added" ELSE "refused"
      /\ \A i \in Items : i # item => handler'[i] = handler[i]
  BY <1>1 DEF IInv, Types, Known
<1>3. /\ item \notin taken
      /\ \A n \in 1..Len(Outbox) : Outbox[n] # item /\ Outbox[n] \in Items
  <2>1. "idle" \notin Known
    BY DEF Known
  <2>2. \A n \in 1..Len(Outbox) : Outbox[n] \in Items
    BY DEF IInv, Types
  <2>. QED
    BY <1>1, <2>1, <2>2 DEF IInv, QueueInv
<1>4. CASE ~saved
  <2>1. UNCHANGED <<data, disk>>
    BY <1>4 DEF Enqueue, AddOutbound, storeVars
  <2>2. Outbox' = Outbox
    BY <2>1 DEF Outbox
  <2>3. Types' /\ SendInv'
    BY SMTT(60), <1>1, <1>2, <2>1, <2>2 DEF IInv, Types, SendInv
  <2>4. QueueInv'
    BY <1>1, <1>2, <1>3, <2>1, <2>2 DEF IInv, Types, QueueInv
  <2>5. AnswerInv'
    BY SMTT(60), <1>1, <1>2, <1>4, <2>2 DEF IInv, AnswerInv
  <2>. QED
    BY <2>3, <2>4, <2>5 DEF IInv
<1>5. CASE saved
  <2>0. ~(item \in Range(Outbox))
    BY <1>3 DEF Range, IInv, Types
  <2>1. data' = [data EXCEPT !.outbound = Append(Outbox, item)] /\ disk' = data'
    BY SMTT(60), <1>5, <2>0 DEF Enqueue, AddOutbound, Saved, Outbox
  <2>2. /\ DOMAIN data' = DOMAIN data /\ DOMAIN disk' = DOMAIN data
        /\ Outbox' = Append(Outbox, item) /\ disk'.outbound = Outbox'
    BY <2>1 DEF IInv, Types, Outbox
  <2>3. Outbox \in Seq(Items) /\ Len(Outbox) \in Nat
    BY DEF IInv, Types
  <2>4. /\ Outbox' \in Seq(Items) /\ Len(Outbox') = Len(Outbox) + 1
        /\ Outbox'[Len(Outbox) + 1] = item
        /\ \A n \in 1..Len(Outbox) : Outbox'[n] = Outbox[n]
        /\ \A n \in 1..Len(Outbox') : n \in 1..Len(Outbox) \/ n = Len(Outbox) + 1
    BY <2>2, <2>3
  <2>5. Types' /\ SendInv'
    BY Zenon, <1>1, <1>2, <2>2, <2>4 DEF IInv, Types, SendInv
  <2>6. QueueInv'
    <3>1. ASSUME NEW m \in 1..Len(Outbox'), NEW n \in 1..Len(Outbox'), Outbox'[m] = Outbox'[n]
          PROVE  m = n
      <4>1. CASE m \in 1..Len(Outbox) /\ n \in 1..Len(Outbox)
        BY <2>4, <3>1, <4>1 DEF IInv, QueueInv
      <4>. QED
        BY <1>3, <2>4, <3>1, <4>1
    <3>2. ASSUME NEW n \in 1..Len(Outbox')
          PROVE  Outbox'[n] \notin taken' /\ handler'[Outbox'[n]] \in Known
      <4>1. CASE n \in 1..Len(Outbox)
        BY ZenonT(60), <1>1, <1>2, <1>3, <2>4, <4>1 DEF IInv, QueueInv
      <4>2. CASE n = Len(Outbox) + 1
        BY Zenon, <1>1, <1>2, <1>3, <1>5, <2>4, <4>2 DEF Known
      <4>. QED
        BY Zenon, <2>4, <4>1, <4>2
    <3>3. \A i \in taken' : handler'[i] \in Known
      BY <1>1, <1>2, <1>3 DEF IInv, QueueInv, Types
    <3>. QED
      BY Zenon, <2>2, <3>1, <3>2, <3>3 DEF QueueInv
  <2>7. AnswerInv'
    <3>. SUFFICES ASSUME NEW i \in Items, handler'[i] \in {"added", "accepted"}, i \notin taken
                  PROVE  \E n \in 1..Len(Outbox') : Outbox'[n] = i
      BY <1>1 DEF AnswerInv
    <3>1. CASE i = item
      BY <2>3, <2>4, <3>1
    <3>2. CASE i # item
      <4>1. PICK n \in 1..Len(Outbox) : Outbox[n] = i
        BY <1>2, <3>2 DEF IInv, AnswerInv
      <4>. QED
        BY <2>3, <2>4, <4>1
    <3>. QED
      BY <3>1, <3>2
  <2>. QED
    BY <2>5, <2>6, <2>7 DEF IInv
<1>. QED
  BY <1>4, <1>5

(* The handler answers after its wake-up.                                  *)
LEMMA WakeStep == \A item \in Items : IInv /\ Wake(item) => IInv'
<1>. SUFFICES ASSUME NEW item \in Items, IInv, Wake(item)
              PROVE  IInv'
  OBVIOUS
<1>1. /\ handler[item] = "added" /\ UNCHANGED <<data, disk, loop, texted, taken>>
      /\ handler' = [handler EXCEPT ![item] = "accepted"]
  BY DEF Wake, storeVars, histories
<1>2. /\ handler' \in [Items -> Known \cup {"idle", "refused"}]
      /\ handler'[item] = "accepted"
      /\ \A i \in Items : i # item => handler'[i] = handler[i]
  BY <1>1 DEF IInv, Types, Known
<1>3. Outbox' = Outbox /\ \A n \in 1..Len(Outbox) : Outbox[n] \in Items
  BY <1>1 DEF Outbox, IInv, Types
<1>4. Types' /\ SendInv'
  BY Zenon, <1>1, <1>2, <1>3 DEF IInv, Types, SendInv
<1>5. QueueInv'
  <2>1. \A i \in Items : handler[i] \in Known => handler'[i] \in Known
    BY Zenon, <1>2 DEF Known
  <2>2. taken \subseteq Items
    BY Zenon DEF IInv, Types
  <2>. QED
    BY ZenonT(60), <1>1, <1>3, <2>1, <2>2 DEF IInv, QueueInv
<1>6. AnswerInv'
  BY <1>1, <1>2, <1>3 DEF IInv, AnswerInv
<1>. QED
  BY <1>4, <1>5, <1>6 DEF IInv

(* A crash: memory is what the file holds, and handlers that were about to *)
(* answer do not.                                                          *)
LEMMA CrashStep == IInv /\ Crash => IInv'
<1>. SUFFICES ASSUME IInv, Crash
              PROVE  IInv'
  OBVIOUS
<1>1. /\ data' = disk /\ disk' = disk /\ loop' = Down /\ UNCHANGED <<texted, taken>>
      /\ handler' = [i \in Items |-> IF handler[i] = "added" THEN "unanswered" ELSE handler[i]]
  BY SMTT(60) DEF Crash, Open, histories
<1>2. Outbox' = Outbox /\ disk'.outbound = Outbox'
  BY <1>1 DEF IInv, QueueInv, Outbox
<1>3. /\ handler' \in [Items -> Known \cup {"idle", "refused"}]
      /\ \A i \in Items : /\ handler[i] \in Known => handler'[i] \in Known
                          /\ handler'[i] \in {"added", "accepted"} => handler[i] = "accepted"
  BY <1>1 DEF IInv, Types, Known
<1>4. DOMAIN loop' = DOMAIN loop /\ loop'.at # "send" /\ loop'.from \in {"select", "poll"}
  BY <1>1 DEF Down, IInv, Types
<1>5. Types'
  BY Zenon, <1>1, <1>2, <1>3, <1>4 DEF IInv, Types
<1>6. QueueInv'
  <2>1. \A n \in 1..Len(Outbox) : Outbox[n] \in Items
    BY DEF IInv, Types
  <2>. QED
    BY <1>1, <1>2, <1>3, <2>1 DEF IInv, Types, QueueInv
<1>7. SendInv' /\ AnswerInv'
  BY <1>1, <1>2, <1>3, <1>4 DEF IInv, SendInv, AnswerInv
<1>. QED
  BY <1>5, <1>6, <1>7 DEF IInv

----------------------------------------------------------------------------
(* The invariant holds in every state.                                     *)
LEMMA Invariant == Spec => []IInv
<1>1. Init => IInv
  <2>. SUFFICES ASSUME Init
                PROVE  IInv
    OBVIOUS
  <2>1. /\ data = disk /\ DOMAIN data = {"initialized", "seen", "outbound"}
        /\ data.outbound = <<>>
    BY DEF Init, StoreInit
  <2>2. DOMAIN loop = {"at", "from", "handle", "item", "todo", "left"}
        /\ loop.from = "select" /\ loop.at = "down"
    BY DEF Init, Down
  <2>3. /\ handler = [i \in Items |-> "idle"] /\ texted = [i \in Items |-> 0] /\ taken = {}
    BY DEF Init
  <2>. QED
    BY <2>1, <2>2, <2>3 DEF IInv, Types, QueueInv, SendInv, AnswerInv, Outbox, Known
<1>2. IInv /\ [Next]_vars => IInv'
  <2>. SUFFICES ASSUME IInv, [Next]_vars
                PROVE  IInv'
    OBVIOUS
  <2>1. CASE MapLoop
    <3>1. ASSUME NEW saved \in BOOLEAN, SaveStep(saved)
          PROVE  IInv'
      BY <3>1, TakeStep, InboundIsElsewhere, ElsewhereStep DEF SaveStep, IInv
    <3>. QED
      BY Zenon, <2>1, <3>1, SendStep, MovingIsElsewhere, ElsewhereStep DEF MapLoop, IInv
  <2>2. CASE \E i \in Items : Wake(i) \/ \E saved \in BOOLEAN : Enqueue(i, saved)
    BY <2>2, WakeStep, EnqueueStep
  <2>3. CASE Crash
    BY Zenon, <2>3, CrashStep
  <2>4. CASE UNCHANGED <<data, disk, loop, handler, texted, taken>>
    BY <2>4 DEF IInv, Types, QueueInv, SendInv, AnswerInv, Outbox
  <2>5. CASE MessageArrives \/ (\E h \in Handles : MessageDeleted(h) \/ Notify(h))
             \/ (\E h \in Media : BackoffOver(h)) \/ UNCHANGED vars
    BY Zenon, <2>4, <2>5
       DEF MessageArrives, MessageDeleted, Notify, BackoffOver, vars, storeVars, histories
  <2>. QED
    BY <2>1, <2>2, <2>3, <2>5 DEF Next
<1>. QED
  BY <1>1, <1>2, PTL DEF Spec

(* No text is sent twice, over failed saves, ended sessions and crashes:   *)
(* TakeOutbound removes an item from the file before SendSMS attempts it,  *)
(* and an item never comes back into the queue.                            *)
THEOREM TextsGoOutAtMostOnce == Spec => []OutboundAtMostOnce
<1>1. IInv => OutboundAtMostOnce
  BY SMTT(60) DEF IInv, Types, SendInv, OutboundAtMostOnce
<1>. QED
  BY <1>1, Invariant, PTL

(* What the HTTP handler answers is true: an accepted text is in the file  *)
(* or has been taken, a refused one never was in the queue, because        *)
(* AddOutbound rolls back when its save fails.                             *)
THEOREM AnswersStayTrue == Spec => []OutboxAnswersAreTrue
<1>1. IInv => OutboxAnswersAreTrue
  <2>. SUFFICES ASSUME IInv, NEW i \in Items
                PROVE  /\ handler[i] = "accepted" => i \in Range(disk.outbound) \cup taken
                       /\ handler[i] = "refused" =>
                             i \notin Range(disk.outbound) \cup Range(data.outbound) \cup taken
    BY DEF OutboxAnswersAreTrue
  <2>1. disk.outbound = Outbox /\ data.outbound = Outbox /\ Outbox \in Seq(Items)
    BY DEF IInv, Types, QueueInv, Outbox
  <2>2. i \in Range(Outbox) <=> \E n \in 1..Len(Outbox) : Outbox[n] = i
    BY <2>1 DEF Range
  <2>. QED
    BY <2>1, <2>2 DEF IInv, QueueInv, AnswerInv, Known
<1>. QED
  BY <1>1, Invariant, PTL

----------------------------------------------------------------------------
(* The inbox.                                                              *)

(* Only messages that have arrived are listed, reported and handled.       *)
ArrivedInv ==
    /\ arrived \in Nat /\ 1..arrived \subseteq Handles
    /\ inbox \in Seq(1..arrived) /\ events \in Seq(1..arrived) /\ loop.todo \in Seq(1..arrived)
    /\ loop.at \in {"fetch", "deliver"} => loop.handle \in 1..arrived

(* The seen list has no handle twice; memory, lookup and file agree on it, *)
(* and the baseline is in it.                                              *)
SeenInv ==
    /\ data.seen \in Seq(1..arrived) /\ disk.seen = data.seen
    /\ \A m, n \in 1..Len(data.seen) : data.seen[m] = data.seen[n] => m = n
    /\ lookup = {data.seen[n] : n \in 1..Len(data.seen)}
    /\ baseline \subseteq lookup

Started == {"drain", "send", "select", "poll", "fetch", "deliver"}

(* The loop goes past bootstrap only when memory is initialized, and the   *)
(* first message it hands on was saved together with that flag.            *)
StartInv ==
    /\ data.initialized \in BOOLEAN /\ disk.initialized \in BOOLEAN
    /\ disk.initialized => data.initialized
    /\ loop.at \in Started => data.initialized
    /\ loop.at \in {"baseline", "initialize"} => ~data.initialized
    /\ loop.at = "deliver" => disk.initialized
    /\ \A h \in Handles, r \in 1..Recipients : attempts[h][r] # 0 => disk.initialized

(* What was handed on is in the seen list and is not of the baseline; the  *)
(* message in hand is not in the list until it is consumed, and has not    *)
(* been handed to the recipients that are left.                            *)
DeliverInv ==
    /\ attempts \in [Handles -> [1..Recipients -> 0..1]]
    /\ \A h \in Handles, r \in 1..Recipients : attempts[h][r] # 0 => h \in lookup \ baseline
    /\ loop.at = "fetch" => loop.handle \notin lookup
    /\ loop.at = "deliver" =>
          /\ loop.handle \in lookup \ baseline /\ loop.left \in 0..Recipients
          /\ \A r \in 1..loop.left : attempts[loop.handle][r] = 0

Delivery == SeenInv /\ StartInv /\ DeliverInv

(* As long as the store never had to forget a handle.                      *)
InboxInv == ArrivedInv /\ (arrived <= MaxSeen => Delivery)

----------------------------------------------------------------------------
(* Order numbers the members of a finite set of naturals from 1, without   *)
(* a gap.                                                                  *)
LEMMA OrderCounts ==
    ASSUME NEW S \in SUBSET Nat, IsFiniteSet(S)
    PROVE  /\ Cardinality(S) \in Nat
           /\ \A i \in S : Order(i, S) \in 1..Cardinality(S)
           /\ \A i, j \in S : i < j => Order(i, S) < Order(j, S)
           /\ \A n \in 1..Cardinality(S) : \E i \in S : Order(i, S) = n
<1>. DEFINE Below(i) == {k \in S : k <= i}
<1>0. Cardinality(S) \in Nat
  BY FS_CardinalityType
<1>1. ASSUME NEW i \in S
      PROVE  Order(i, S) \in 1..Cardinality(S)
  <2>1. Below(i) \subseteq S /\ i \in Below(i)
    OBVIOUS
  <2>2. IsFiniteSet(Below(i)) /\ Cardinality(Below(i)) <= Cardinality(S)
    BY <2>1, FS_Subset
  <2>3. Cardinality(Below(i)) # 0
    BY <2>1, <2>2, FS_EmptySet
  <2>. QED
    BY <1>0, <2>2, <2>3, FS_CardinalityType DEF Order
<1>2. ASSUME NEW i \in S, NEW j \in S, i < j
      PROVE  Order(i, S) < Order(j, S)
  <2>1. Below(i) \subseteq Below(j) /\ j \in Below(j) /\ j \notin Below(i)
    <3>1. j \in Below(j) /\ j \notin Below(i)
      BY <1>2
    <3>2. ASSUME NEW k \in Below(i)
          PROVE  k \in Below(j)
      BY <1>2
    <3>. QED
      BY Zenon, <3>1, <3>2
  <2>2. IsFiniteSet(Below(j))
    BY FS_Subset
  <2>3. /\ IsFiniteSet(Below(i))
        /\ Cardinality(Below(i)) <= Cardinality(Below(j))
        /\ Cardinality(Below(i)) = Cardinality(Below(j)) => Below(i) = Below(j)
    BY <2>1, <2>2, FS_Subset
  <2>. QED
    BY <2>1, <2>2, <2>3, FS_CardinalityType DEF Order
<1>3. ASSUME NEW n \in 1..Cardinality(S)
      PROVE  \E i \in S : Order(i, S) = n
  <2>. DEFINE T == 1..Cardinality(S)
              f == [i \in S |-> Order(i, S)]
  <2>1. f \in [S -> T]
    BY <1>1
  <2>2. \A i, j \in S : f[i] = f[j] => i = j
    <3>. SUFFICES ASSUME NEW i \in S, NEW j \in S, Order(i, S) = Order(j, S), i # j
                  PROVE  FALSE
      OBVIOUS
    <3>1. Order(i, S) \in Nat /\ Order(j, S) \in Nat
      BY <1>0, <1>1
    <3>2. i < j \/ j < i
      OBVIOUS
    <3>. QED
      BY <1>2, <3>1, <3>2
  <2>3. f \in Injection(S, T)
    BY <2>1, <2>2 DEF Injection, IsInjective
  <2>4. IsFiniteSet(T) /\ Cardinality(T) = Cardinality(S)
    BY <1>0, FS_Interval
  <2>. HIDE DEF f, T
  <2>5. f \in Surjection(S, T)
    BY <2>3, <2>4, FS_Injection
  <2>6. \A t \in T : \E i \in S : f[i] = t
    BY Zenon, <2>5 DEF Surjection
  <2>. QED
    BY <2>6 DEF f, T
<1>. QED
  BY <1>0, <1>1, <1>2, <1>3

(* The handles that MarkSeenMany appends are those of its argument that    *)
(* are not in the lookup, each of them once.                               *)
LEMMA UnknownHandles ==
    ASSUME NEW S, NEW handles \in Seq(S)
    PROVE  LET new == Unknown(handles) IN
           /\ new \in Seq(S)
           /\ \A m, n \in 1..Len(new) : new[m] = new[n] => m = n
           /\ \A n \in 1..Len(new) : /\ new[n] \notin lookup
                                     /\ \E k \in 1..Len(handles) : new[n] = handles[k]
           /\ \A k \in 1..Len(handles) : \/ handles[k] \in lookup
                                         \/ \E n \in 1..Len(new) : new[n] = handles[k]
<1>. DEFINE new == Unknown(handles)
            N == News(handles)
            at(n) == CHOOSE k \in N : Order(k, N) = n
<1>1. Len(handles) \in Nat /\ \A k \in 1..Len(handles) : handles[k] \in S
  OBVIOUS
<1>2. ASSUME NEW K \in SUBSET (1..Len(handles))
      PROVE  K \in SUBSET Nat /\ IsFiniteSet(K)
  <2>1. IsFiniteSet(1..Len(handles))
    BY <1>1, FS_Interval
  <2>2. IsFiniteSet(K)
    BY Zenon, <2>1, FS_Subset
  <2>. QED
    BY <2>2
<1>3. N \in SUBSET (1..Len(handles)) /\ N \in SUBSET Nat /\ IsFiniteSet(N)
  BY <1>1, <1>2 DEF News
<1>4. \A k \in N : /\ handles[k] \notin lookup
                   /\ \A j \in 1..(k - 1) : handles[j] # handles[k]
  BY DEF News, HasSeen
<1>5. new = [n \in 1..Cardinality(N) |-> handles[at(n)]]
  BY DEF Unknown
<1>6. Cardinality(N) \in Nat
  BY <1>3, OrderCounts
<1>7. \A n \in 1..Cardinality(N) : at(n) \in N /\ Order(at(n), N) = n
  BY <1>3, OrderCounts
<1>. HIDE DEF new, N, at
<1>8. /\ new \in Seq(S) /\ Len(new) = Cardinality(N)
      /\ \A n \in 1..Cardinality(N) : new[n] = handles[at(n)]
  <2>. DEFINE c == Cardinality(N)
  <2>1. \A n \in 1..c : handles[at(n)] \in S
    BY Zenon, <1>1, <1>3, <1>7
  <2>2. c \in Nat /\ new \in [1..c -> S] /\ \A n \in 1..c : new[n] = handles[at(n)]
    BY Zenon, <1>5, <1>6, <2>1
  <2>. HIDE DEF c
  <2>3. new \in Seq(S) /\ Len(new) = c
    BY <2>2
  <2>. QED
    BY <2>2, <2>3 DEF c
<1>9. ASSUME NEW m \in 1..Len(new), NEW n \in 1..Len(new), new[m] = new[n]
      PROVE  m = n
  <2>1. /\ at(m) \in N /\ at(n) \in N /\ handles[at(m)] = handles[at(n)]
        /\ Order(at(m), N) = m /\ Order(at(n), N) = n
    BY Zenon, <1>7, <1>8, <1>9
  <2>2. ASSUME NEW j \in N, NEW k \in N, handles[j] = handles[k]
        PROVE  ~(j < k)
    BY <1>3, <1>4, <2>2
  <2>3. at(m) \in Nat /\ at(n) \in Nat
    BY Zenon, <1>3, <2>1
  <2>4. at(m) = at(n)
    <3>1. ~(at(m) < at(n)) /\ ~(at(n) < at(m))
      BY <2>1, <2>2
    <3>. QED
      BY <2>3, <3>1
  <2>. QED
    BY Zenon, <2>1, <2>4
<1>10. ASSUME NEW n \in 1..Len(new)
       PROVE  new[n] \notin lookup /\ \E k \in 1..Len(handles) : new[n] = handles[k]
  BY Zenon, <1>3, <1>4, <1>7, <1>8
<1>11. ASSUME NEW k \in 1..Len(handles), handles[k] \notin lookup
       PROVE  \E n \in 1..Len(new) : new[n] = handles[k]
  <2>. DEFINE K == {j \in 1..Len(handles) : handles[j] = handles[k]}
  <2>1. K \in SUBSET (1..Len(handles)) /\ K \in SUBSET Nat /\ IsFiniteSet(K) /\ k \in K
    BY <1>2
  <2>2. 1 \in 1..Cardinality(K)
    <3>1. Cardinality(K) \in Nat /\ Cardinality(K) # 0
      BY <2>1, OrderCounts, FS_EmptySet
    <3>. QED
      BY <3>1
  <2>3. PICK j \in K : Order(j, K) = 1
    BY Zenon, <2>1, <2>2, OrderCounts
  <2>4. \A i \in K : ~(i < j)
    <3>. SUFFICES ASSUME NEW i \in K, i < j
                  PROVE  FALSE
      OBVIOUS
    <3>1. Cardinality(K) \in Nat /\ Order(i, K) \in 1..Cardinality(K)
      BY Zenon, <2>1, OrderCounts
    <3>2. Order(i, K) < Order(j, K)
      BY Zenon, <2>1, OrderCounts
    <3>. QED
      BY <2>3, <3>1, <3>2
  <2>5. j \in 1..Len(handles) /\ handles[j] = handles[k]
    OBVIOUS
  <2>6. \A i \in 1..(j - 1) : handles[i] # handles[j]
    <3>. SUFFICES ASSUME NEW i \in 1..(j - 1), handles[i] = handles[j]
                  PROVE  FALSE
      OBVIOUS
    <3>1. i \in 1..Len(handles) /\ i < j
      BY <1>1, <2>5
    <3>2. i \in K
      BY Zenon, <2>5, <3>1
    <3>. QED
      BY Zenon, <2>4, <3>1, <3>2
  <2>7. j \in N
    BY Zenon, <1>11, <2>5, <2>6 DEF N, News, HasSeen
  <2>8. Order(j, N) \in 1..Cardinality(N)
    BY Zenon, <1>3, <2>7, OrderCounts
  <2>. DEFINE n == Order(j, N)
  <2>9. at(n) = j
    <3>1. at(n) \in N /\ Order(at(n), N) = Order(j, N)
      BY <1>7, <2>8
    <3>2. Order(j, N) \in Nat /\ at(n) \in Nat /\ j \in Nat
      <4>1. \A k1 \in N : k1 \in Nat
        BY <1>3
      <4>2. Order(j, N) \in Nat
        BY <1>6, <2>8
      <4>. QED
        BY Zenon, <2>7, <3>1, <4>1, <4>2
    <3>3. ~(at(n) < j) /\ ~(j < at(n))
      <4>1. \A a, b \in N : a < b => Order(a, N) < Order(b, N)
        BY <1>3, OrderCounts
      <4>. QED
        BY <2>7, <3>1, <3>2, <4>1
    <3>. QED
      BY <3>2, <3>3
  <2>. QED
    BY Zenon, <1>8, <2>5, <2>8, <2>9
<1>. QED
  BY <1>8, <1>9, <1>10, <1>11 DEF new

(* A sequence of different handles that have arrived is no longer than     *)
(* their number.                                                           *)
LEMMA DifferentHandles ==
    ASSUME NEW a \in Nat, NEW list \in Seq(1..a),
           \A m, n \in 1..Len(list) : list[m] = list[n] => m = n
    PROVE  Len(list) <= a
<1>1. Len(list) \in Nat /\ list \in [1..Len(list) -> 1..a]
  OBVIOUS
<1>2. list \in Injection(1..Len(list), 1..a)
  BY Zenon, <1>1 DEF Injection, IsInjective
<1>3. IsFiniteSet(1..a) /\ Cardinality(1..a) = a
  BY FS_Interval
<1>4. Cardinality(1..Len(list)) = Len(list)
  <2>1. \A c \in Nat : Cardinality(1..c) = c
    BY FS_Interval
  <2>. QED
    BY <1>1, <2>1
<1>5. Cardinality(1..Len(list)) <= Cardinality(1..a)
  BY <1>2, <1>3, FS_Injection
<1>. QED
  BY <1>3, <1>4, <1>5

(* A successful MarkSeenMany adds its argument to the seen list, in memory *)
(* and in the file, and forgets nothing while there is room.  It saves the *)
(* initialized flag with it, unless there is nothing to save.              *)
LEMMA HandlesMarked ==
    ASSUME Types, SeenInv, arrived \in Nat, arrived <= MaxSeen,
           NEW handles \in Seq(1..arrived), MarkSeenMany(handles, TRUE)
    PROVE  /\ data'.seen \in Seq(1..arrived) /\ disk'.seen = data'.seen
           /\ \A m, n \in 1..Len(data'.seen) : data'.seen[m] = data'.seen[n] => m = n
           /\ lookup' = {data'.seen[n] : n \in 1..Len(data'.seen)}
           /\ lookup' = lookup \cup {handles[k] : k \in 1..Len(handles)}
           /\ data'.initialized = data.initialized
           /\ \/ disk'.initialized = data.initialized
              \/ disk' = disk /\ lookup' = lookup
<1>. DEFINE new == Unknown(handles)
            seen == data.seen
            list == seen \o new
<1>1. /\ new \in Seq(1..arrived)
      /\ \A m, n \in 1..Len(new) : new[m] = new[n] => m = n
      /\ \A n \in 1..Len(new) : new[n] \notin lookup
      /\ \A n \in 1..Len(new) : \E k \in 1..Len(handles) : new[n] = handles[k]
      /\ \A k \in 1..Len(handles) : \/ handles[k] \in lookup
                                    \/ \E n \in 1..Len(new) : new[n] = handles[k]
  BY ZenonT(60), UnknownHandles
<1>2. /\ seen \in Seq(1..arrived) /\ disk.seen = seen
      /\ \A m, n \in 1..Len(seen) : seen[m] = seen[n] => m = n
      /\ lookup = {seen[n] : n \in 1..Len(seen)}
  BY Zenon DEF SeenInv
<1>3. \/ new = <<>> /\ UNCHANGED <<data, lookup, disk>>
      \/ /\ data' = [data EXCEPT !.seen = SubSeq(list, Extra(list) + 1, Len(list))]
         /\ disk' = data'
         /\ lookup' = (lookup \cup Range(list)) \ Range(SubSeq(list, 1, Extra(list)))
  BY Zenon DEF MarkSeenMany, Saved, storeVars
<1>. HIDE DEF new
<1>4. CASE new = <<>> /\ UNCHANGED <<data, lookup, disk>>
  <2>1. \A k \in 1..Len(handles) : handles[k] \in lookup
    BY <1>1, <1>4
  <2>2. lookup = lookup \cup {handles[k] : k \in 1..Len(handles)}
    BY <2>1
  <2>. QED
    BY Zenon, <1>2, <1>4, <2>2
<1>5. CASE /\ data' = [data EXCEPT !.seen = SubSeq(list, Extra(list) + 1, Len(list))]
           /\ disk' = data'
           /\ lookup' = (lookup \cup Range(list)) \ Range(SubSeq(list, 1, Extra(list)))
  <2>. DEFINE p == Len(seen)
              q == Len(new)
  <2>1. p \in Nat /\ q \in Nat
    BY <1>1, <1>2
  <2>2. /\ list \in Seq(1..arrived) /\ Len(list) = p + q
        /\ \A n \in 1..p : list[n] = seen[n]
        /\ \A n \in 1..q : list[p + n] = new[n]
    BY SMTT(60), <1>1, <1>2
  <2>. HIDE DEF list, seen, p, q
  <2>3. \A n \in 1..Len(list) : n \in 1..p \/ \E m \in 1..q : n = p + m
    <3>. SUFFICES ASSUME NEW n \in 1..Len(list), n \notin 1..p
                  PROVE  \E m \in 1..q : n = p + m
      BY Zenon
    <3>1. n - p \in 1..q /\ n = p + (n - p)
      BY SMTT(60), <2>1, <2>2
    <3>. QED
      BY Zenon, <3>1
  <2>4. \A n \in 1..p : seen[n] \in lookup
    BY Zenon, <1>2 DEF p
  <2>5. \A n \in 1..q : new[n] \notin lookup
    BY Zenon, <1>1 DEF q
  <2>6. ASSUME NEW m \in 1..Len(list), NEW n \in 1..Len(list), list[m] = list[n]
        PROVE  m = n
    <3>1. CASE m \in 1..p /\ n \in 1..p
      BY <1>2, <2>2, <2>6, <3>1 DEF p
    <3>2. CASE (\E k \in 1..q : m = p + k) /\ (\E k \in 1..q : n = p + k)
      <4>1. PICK i \in 1..q, j \in 1..q : m = p + i /\ n = p + j
        BY Zenon, <3>2
      <4>2. new[i] = new[j]
        BY <2>2, <2>6, <4>1
      <4>. QED
        BY ZenonT(60), <1>1, <4>1, <4>2 DEF q
    <3>. QED
      <4>1. ASSUME NEW i \in 1..p, NEW j \in 1..q
            PROVE  list[i] # list[p + j]
        BY Zenon, <2>2, <2>4, <2>5
      <4>. QED
        BY ZenonT(60), <2>3, <2>6, <3>1, <3>2, <4>1
  <2>7. Len(list) <= arrived
    BY Zenon, <2>2, <2>6, DifferentHandles
  <2>8. Extra(list) = 0
    BY <2>1, <2>2, <2>7, BoundsAssumption DEF Extra
  <2>9. SubSeq(list, 1, Len(list)) = list /\ SubSeq(list, 1, 0) = <<>>
    BY <2>2
  <2>10. /\ data'.seen = list /\ disk'.seen = list
         /\ data'.initialized = data.initialized /\ disk'.initialized = data.initialized
    BY <1>5, <2>8, <2>9 DEF Types
  <2>11. Range(list) = {list[n] : n \in 1..Len(list)}
    <3>1. DOMAIN list = 1..Len(list)
      BY <2>2
    <3>. QED
      BY <3>1 DEF Range
  <2>12. Range(<<>>) = {}
    BY DEF Range
  <2>13. lookup' = lookup \cup {list[n] : n \in 1..Len(list)}
    BY Zenon, <1>5, <2>8, <2>9, <2>11, <2>12
  <2>14. lookup \subseteq {list[n] : n \in 1..Len(list)}
    <3>. SUFFICES ASSUME NEW h \in lookup
                  PROVE  \E n \in 1..Len(list) : h = list[n]
      OBVIOUS
    <3>1. PICK n \in 1..p : h = seen[n]
      BY <1>2 DEF p
    <3>2. n \in 1..Len(list)
      BY <2>1, <2>2
    <3>3. h = list[n]
      BY Zenon, <2>2, <3>1
    <3>. QED
      BY ZenonT(60), <3>2, <3>3
  <2>15. lookup' = {list[n] : n \in 1..Len(list)}
    BY Zenon, <2>13, <2>14
  <2>16. \A h \in lookup' : h \in lookup \/ \E k \in 1..Len(handles) : h = handles[k]
    <3>. SUFFICES ASSUME NEW n \in 1..Len(list)
                  PROVE  list[n] \in lookup \/ \E k \in 1..Len(handles) : list[n] = handles[k]
      BY ZenonT(60), <2>15
    <3>. QED
      <4>1. CASE n \in 1..p
        BY ZenonT(60), <2>2, <2>4, <4>1
      <4>2. ASSUME NEW m \in 1..q, n = p + m
            PROVE  \E k \in 1..Len(handles) : list[n] = handles[k]
        <5>1. PICK k \in 1..Len(handles) : new[m] = handles[k]
          BY <1>1 DEF q
        <5>2. list[n] = handles[k]
          BY ZenonT(60), <2>2, <4>2, <5>1
        <5>. QED
          BY Zenon, <5>2
      <4>. QED
        BY ZenonT(60), <2>3, <4>1, <4>2
  <2>17. \A k \in 1..Len(handles) : handles[k] \in lookup'
    <3>. SUFFICES ASSUME NEW k \in 1..Len(handles), handles[k] \notin lookup
                  PROVE  \E n \in 1..Len(list) : handles[k] = list[n]
      BY Zenon, <2>13
    <3>1. PICK n \in 1..q : new[n] = handles[k]
      BY <1>1 DEF q
    <3>2. p + n \in 1..Len(list) /\ list[p + n] = handles[k]
      BY <2>1, <2>2, <3>1
    <3>. QED
      BY <3>2
  <2>18. lookup' = lookup \cup {handles[k] : k \in 1..Len(handles)}
    BY ZenonT(60), <2>13, <2>16, <2>17
  <2>. QED
    <3>1. \A m, n \in 1..Len(list) : list[m] = list[n] => m = n
      BY <2>6
    <3>2. data'.seen \in Seq(1..arrived) /\ disk'.seen = data'.seen
      BY <2>2, <2>10
    <3>3. /\ \A m, n \in 1..Len(data'.seen) : data'.seen[m] = data'.seen[n] => m = n
          /\ lookup' = {data'.seen[n] : n \in 1..Len(data'.seen)}
      BY <2>10, <2>15, <3>1
    <3>. QED
      BY Zenon, <2>10, <2>18, <3>2, <3>3
<1>. QED
  BY Zenon, <1>3, <1>4, <1>5

(* A step that leaves the seen list alone; a save it makes writes what was *)
(* in memory.                                                              *)
SeenKept ==
    /\ data'.seen = data.seen /\ disk'.seen \in {disk.seen, data.seen}
    /\ data'.initialized = data.initialized
    /\ disk'.initialized \in {disk.initialized, data.initialized}
    /\ UNCHANGED <<arrived, lookup, baseline, attempts>>

InputsKept ==
    /\ inbox' \in Seq(1..arrived) /\ events' \in Seq(1..arrived)
    /\ loop'.todo \in Seq(1..arrived)

(* Where such a step may take the loop.                                    *)
Moved ==
    \/ loop' = loop
    \/ loop'.at \in {"down", "boot"}
    \/ /\ loop'.at \in {"drain", "send", "select", "poll"}
       /\ loop.at \in Started \/ data.initialized
    \/ loop'.at = "baseline" /\ ~data.initialized
    \/ loop'.at = "fetch" /\ loop.at \in Started /\ loop'.handle \in (1..arrived) \ lookup

(* Such a step keeps the invariant of the inbox.                           *)
LEMMA KeptStep == InboxInv /\ SeenKept /\ InputsKept /\ Moved => InboxInv'
<1>. SUFFICES ASSUME InboxInv, SeenKept, InputsKept, Moved
              PROVE  InboxInv'
  BY Zenon
<1>1. ArrivedInv'
  BY DEF InboxInv, ArrivedInv, SeenKept, InputsKept, Moved
<1>2. ASSUME arrived' <= MaxSeen
      PROVE  Delivery'
  <2>1. SeenInv /\ StartInv /\ DeliverInv
    BY Zenon, <1>2 DEF InboxInv, SeenKept, Delivery
  <2>2. SeenInv'
    BY <2>1 DEF SeenInv, SeenKept
  <2>3. StartInv'
    <3>1. /\ data'.initialized = data.initialized /\ data.initialized \in BOOLEAN
          /\ disk'.initialized \in BOOLEAN
          /\ disk.initialized => disk'.initialized
          /\ disk'.initialized => data'.initialized
      BY Zenon, <2>1 DEF StartInv, SeenKept
    <3>2. /\ loop'.at \in Started => data.initialized
          /\ loop'.at \in {"baseline", "initialize"} => ~data.initialized
          /\ loop'.at = "deliver" => disk.initialized
      BY Zenon, <2>1 DEF StartInv, Moved, Started
    <3>3. \A h \in Handles, r \in 1..Recipients : attempts'[h][r] # 0 => disk'.initialized
      BY <2>1, <3>1 DEF StartInv, SeenKept
    <3>. QED
      BY ZenonT(60), <3>1, <3>2, <3>3 DEF StartInv
  <2>4. DeliverInv'
    <3>1. UNCHANGED <<lookup, baseline, attempts>>
      BY DEF SeenKept
    <3>2. CASE loop' = loop
      BY ZenonT(60), <2>1, <3>1, <3>2 DEF DeliverInv
    <3>3. CASE loop'.at # "deliver" /\ (loop'.at = "fetch" => loop'.handle \notin lookup)
      BY <2>1, <3>1, <3>3 DEF DeliverInv
    <3>. QED
      BY ZenonT(60), <3>2, <3>3 DEF Moved
  <2>. QED
    BY ZenonT(60), <2>2, <2>3, <2>4 DEF Delivery
<1>. QED
  BY <1>1, <1>2 DEF InboxInv

(* The parts of a sequence that the loop and the phone go on with are made *)
(* of its elements.                                                        *)
LEMMA SequenceParts ==
    ASSUME NEW S, NEW s \in Seq(S)
    PROVE  /\ <<>> \in Seq(S)
           /\ \A n \in 0..Len(s) : SubSeq(s, 1, n) \in Seq(S)
           /\ s # <<>> => /\ Head(s) \in S /\ Tail(s) \in Seq(S)
                          /\ s[Len(s)] \in S /\ SubSeq(s, 1, Len(s) - 1) \in Seq(S)
           /\ \A k \in 1..Len(s) : SubSeq(s, 1, k - 1) \o SubSeq(s, k + 1, Len(s)) \in Seq(S)
           /\ Range(s) \subseteq S
<1>1. <<>> \in Seq(S)
  OBVIOUS
<1>2. \A n \in 0..Len(s) : SubSeq(s, 1, n) \in Seq(S)
  OBVIOUS
<1>3. s # <<>> => /\ Head(s) \in S /\ Tail(s) \in Seq(S)
                 /\ s[Len(s)] \in S /\ Len(s) - 1 \in 0..Len(s)
  OBVIOUS
<1>4. ASSUME NEW k \in 1..Len(s)
      PROVE  SubSeq(s, 1, k - 1) \o SubSeq(s, k + 1, Len(s)) \in Seq(S)
  <2>1. SubSeq(s, 1, k - 1) \in Seq(S)
    BY <1>2
  <2>2. SubSeq(s, k + 1, Len(s)) \in Seq(S)
    OBVIOUS
  <2>. QED
    BY <2>1, <2>2
<1>5. Range(s) \subseteq S
  <2>1. DOMAIN s = 1..Len(s) /\ \A n \in 1..Len(s) : s[n] \in S
    OBVIOUS
  <2>. QED
    BY <2>1 DEF Range
<1>. QED
  BY ZenonT(60), <1>1, <1>2, <1>3, <1>4, <1>5

(* What a listing returns has arrived.                                     *)
LEMMA ListingArrived == ArrivedInv => Listing \in Seq(1..arrived)
<1>. SUFFICES ASSUME ArrivedInv
              PROVE  Listing \in Seq(1..arrived)
  OBVIOUS
<1>. DEFINE n == IF Len(inbox) < PollMaxCount THEN Len(inbox) ELSE PollMaxCount
<1>1. inbox \in Seq(1..arrived) /\ Len(inbox) \in Nat
  BY DEF ArrivedInv
<1>2. n \in 0..Len(inbox)
  BY <1>1, MessagesAssumption
<1>. HIDE DEF n
<1>3. SubSeq(inbox, 1, n) \in Seq(1..arrived)
  BY Zenon, <1>1, <1>2, SequenceParts
<1>. QED
  BY <1>3 DEF Listing, n

(* The steps of mapLoop that save nothing and hand nothing on.             *)
LEMMA MovingKeepsInbox ==
    ASSUME Types, InboxInv,
           \/ Connect \/ Bootstrap \/ DrainDone \/ SendSMS \/ SelectWake \/ SelectPoll
           \/ SelectFails \/ SelectEvent \/ PollNext \/ DeferMedia \/ (Deliver /\ loop.left = 0)
    PROVE  InboxInv'
<1>1. /\ DOMAIN loop = {"at", "from", "handle", "item", "todo", "left"}
      /\ loop.from \in {"select", "poll"}
  BY Zenon DEF Types
<1>2. SeenKept
  BY DEF Connect, Bootstrap, DrainDone, SendSMS, SelectWake, SelectPoll, SelectFails,
         SelectEvent, PollNext, DeferMedia, Deliver, storeVars, phoneVars, histories, SeenKept
<1>3. /\ inbox \in Seq(1..arrived) /\ events \in Seq(1..arrived)
      /\ loop.todo \in Seq(1..arrived) /\ <<>> \in Seq(1..arrived)
  BY DEF InboxInv, ArrivedInv
<1>4. inbox' = inbox
  BY DEF Connect, Bootstrap, DrainDone, SendSMS, SelectWake, SelectPoll, SelectFails,
         SelectEvent, PollNext, DeferMedia, Deliver, phoneVars
<1>. DEFINE Fine == loop'.todo \in Seq(1..arrived) /\ Moved
<1>5. ASSUME events' = events, Fine
      PROVE  InboxInv'
  BY ZenonT(60), <1>2, <1>3, <1>4, <1>5, KeptStep DEF InputsKept
<1>6. ASSUME loop' = Down \/ (loop' = [Down EXCEPT !.at = "select"] /\ loop.at \in Started)
      PROVE  Fine
  <2>1. /\ Down.todo = <<>> /\ Down.at = "down"
        /\ [Down EXCEPT !.at = "select"].todo = <<>> /\ [Down EXCEPT !.at = "select"].at = "select"
    BY DEF Down
  <2>2. loop'.todo = <<>> /\ (loop'.at = "down" \/ (loop'.at = "select" /\ loop.at \in Started))
    BY Zenon, <1>6, <2>1
  <2>. QED
    BY <1>3, <2>2 DEF Moved
<1>7. ASSUME NEW at \in {"boot", "drain", "select", "poll"}, loop' = [loop EXCEPT !.at = at],
             at = "boot" \/ loop.at \in Started \/ data.initialized
      PROVE  Fine
  BY Zenon, <1>1, <1>3, <1>7 DEF Moved
<1>8. CASE Connect \/ DrainDone \/ SelectWake \/ SelectFails
  <2>1. \/ loop' = [loop EXCEPT !.at = "boot"]
        \/ loop' = [loop EXCEPT !.at = "select"] /\ loop.at \in Started
        \/ loop' = [loop EXCEPT !.at = "drain"] /\ loop.at \in Started
        \/ loop' = Down
    BY <1>8 DEF Connect, DrainDone, SelectWake, SelectFails, LoopTo, EndSession, Started
  <2>2. Fine
    BY Zenon, <2>1, <1>6, <1>7
  <2>3. events' = events
    BY <1>8 DEF Connect, DrainDone, SelectWake, SelectFails
  <2>. QED
    BY ZenonT(60), <1>5, <2>2, <2>3
<1>9. CASE Bootstrap \/ SelectPoll
  <2>1. Listing \in Seq(1..arrived)
    BY ListingArrived DEF InboxInv
  <2>2. \/ loop' = [loop EXCEPT !.at = "drain"] /\ data.initialized
        \/ loop' = [loop EXCEPT !.at = "baseline", !.todo = Listing] /\ ~data.initialized
        \/ loop' = Down
        \/ loop' = [loop EXCEPT !.at = "poll", !.todo = Listing] /\ loop.at \in Started
    BY <1>9 DEF Bootstrap, SelectPoll, LoopTo, EndSession, Started
  <2>3. ASSUME NEW at, loop' = [loop EXCEPT !.at = at, !.todo = Listing],
               \/ at = "baseline" /\ ~data.initialized
               \/ at = "poll" /\ loop.at \in Started
        PROVE  Fine
    BY ZenonT(60), <1>1, <2>1, <2>3 DEF Moved
  <2>4. Fine
    BY Zenon, <1>6, <1>7, <2>2, <2>3
  <2>5. events' = events
    BY <1>9 DEF Bootstrap, SelectPoll
  <2>. QED
    BY <1>5, <2>4, <2>5
<1>10. CASE SendSMS
  <2>1. \/ loop' = [loop EXCEPT !.at = "drain", !.item = None] /\ loop.at \in Started
        \/ loop' = Down
    BY <1>10 DEF SendSMS, EndSession, Started
  <2>2. ASSUME loop' = [loop EXCEPT !.at = "drain", !.item = None], loop.at \in Started
        PROVE  Fine
    BY ZenonT(60), <1>1, <1>3, <2>2 DEF Moved
  <2>3. events' = events
    BY <1>10 DEF SendSMS
  <2>. QED
    BY Zenon, <1>5, <1>6, <2>1, <2>2, <2>3
<1>11. CASE SelectEvent
  <2>1. /\ loop.at = "select" /\ events # <<>> /\ events' = Tail(events)
        /\ \/ loop' = loop
           \/ /\ Head(events) \notin lookup
              /\ loop' = [loop EXCEPT !.at = "fetch", !.from = "select", !.handle = Head(events)]
    BY <1>11 DEF SelectEvent, Skipped, HasSeen
  <2>2. Head(events) \in 1..arrived /\ Tail(events) \in Seq(1..arrived)
    BY Zenon, <1>3, <2>1, SequenceParts
  <2>3. Fine
    BY ZenonT(60), <1>1, <1>3, <2>1, <2>2 DEF Moved, Started
  <2>. QED
    BY ZenonT(60), <1>2, <1>3, <1>4, <2>1, <2>2, <2>3, KeptStep DEF InputsKept
<1>12. CASE PollNext
  <2>. DEFINE h == loop.todo[Len(loop.todo)]
              less == SubSeq(loop.todo, 1, Len(loop.todo) - 1)
  <2>1. /\ loop.at = "poll" /\ events' = events
        /\ \/ loop' = [Down EXCEPT !.at = "select"]
           \/ loop.todo # <<>> /\ loop' = [loop EXCEPT !.todo = less]
           \/ /\ loop.todo # <<>> /\ h \notin lookup
              /\ loop' = [[loop EXCEPT !.todo = less] EXCEPT
                              !.at = "fetch", !.from = "poll", !.handle = h]
    BY <1>12 DEF PollNext, Skipped, HasSeen
  <2>2. loop.todo # <<>> => h \in 1..arrived /\ less \in Seq(1..arrived)
    BY Zenon, <1>3, SequenceParts
  <2>. HIDE DEF h, less
  <2>3. CASE loop' = [Down EXCEPT !.at = "select"]
    BY <1>5, <1>6, <2>1, <2>3 DEF Started
  <2>4. CASE loop.todo # <<>> /\ loop' = [loop EXCEPT !.todo = less]
    <3>1. Fine
      BY ZenonT(60), <1>1, <2>1, <2>2, <2>4 DEF Moved, Started
    <3>. QED
      BY <1>5, <2>1, <3>1
  <2>5. CASE /\ loop.todo # <<>> /\ h \notin lookup
             /\ loop' = [[loop EXCEPT !.todo = less] EXCEPT
                             !.at = "fetch", !.from = "poll", !.handle = h]
    <3>1. loop'.at = "fetch" /\ loop'.handle = h /\ loop'.todo = less
      BY <1>1, <2>5
    <3>2. Fine
      BY ZenonT(60), <2>1, <2>2, <2>5, <3>1 DEF Moved, Started
    <3>. QED
      BY <1>5, <2>1, <3>2
  <2>. QED
    BY <2>1, <2>3, <2>4, <2>5
<1>13. CASE DeferMedia \/ (Deliver /\ loop.left = 0)
  <2>1. /\ loop' = [loop EXCEPT !.at = loop.from, !.handle = None] /\ events' = events
        /\ loop.at \in Started
    BY <1>13 DEF DeferMedia, Deliver, Return, Started
  <2>2. Fine
    BY ZenonT(60), <1>1, <1>3, <2>1 DEF Moved
  <2>. QED
    BY ZenonT(60), <1>5, <2>1, <2>2
<1>. QED
  BY ZenonT(60), <1>8, <1>9, <1>10, <1>11, <1>12, <1>13

(* So do the deletions and reports of the phone, the ends of back-offs,    *)
(* and the steps on outbound texts.                                        *)
LEMMA OthersKeepInbox ==
    ASSUME Types, InboxInv,
           \/ \E h \in Handles : MessageDeleted(h) \/ Notify(h)
           \/ \E h \in Media : BackoffOver(h)
           \/ \E i \in Items : Wake(i) \/ \E saved \in BOOLEAN : Enqueue(i, saved)
           \/ \E saved \in BOOLEAN : DrainTakes(saved)
           \/ UNCHANGED vars
    PROVE  InboxInv'
<1>1. /\ DOMAIN loop = {"at", "from", "handle", "item", "todo", "left"}
      /\ DOMAIN data = {"initialized", "seen", "outbound"}
  BY DEF Types
<1>2. /\ inbox \in Seq(1..arrived) /\ events \in Seq(1..arrived)
      /\ loop.todo \in Seq(1..arrived) /\ <<>> \in Seq(1..arrived)
  BY DEF InboxInv, ArrivedInv
<1>3. ASSUME NEW queue, \/ UNCHANGED <<data, disk>>
                        \/ data' = [data EXCEPT !.outbound = queue] /\ disk' = data',
             UNCHANGED <<arrived, lookup, baseline, attempts>>
      PROVE  SeenKept
  BY <1>1, <1>3 DEF SeenKept
<1>4. CASE \E h \in Handles : MessageDeleted(h) \/ Notify(h)
  <2>1. PICK h \in Handles : MessageDeleted(h) \/ Notify(h)
    BY SMTT(60), <1>4
  <2>2. UNCHANGED <<data, disk, loop, arrived, lookup, baseline, attempts>>
    BY Zenon, <2>1 DEF MessageDeleted, Notify, storeVars, phoneVars, histories
  <2>3. inbox' \in Seq(1..arrived) /\ events' \in Seq(1..arrived)
    <3>1. CASE MessageDeleted(h)
      <4>1. PICK k \in 1..Len(inbox) :
               inbox' = SubSeq(inbox, 1, k - 1) \o SubSeq(inbox, k + 1, Len(inbox))
        BY Zenon, <3>1 DEF MessageDeleted
      <4>2. \A j \in 1..Len(inbox) :
               SubSeq(inbox, 1, j - 1) \o SubSeq(inbox, j + 1, Len(inbox)) \in Seq(1..arrived)
        BY Zenon, <1>2, SequenceParts
      <4>3. events' = events
        BY <3>1 DEF MessageDeleted
      <4>. QED
        BY ZenonT(60), <1>2, <4>1, <4>2, <4>3
    <3>2. CASE Notify(h)
      <4>1. inbox' = inbox /\ events' = Append(events, h) /\ h \in Range(inbox)
        BY <3>2 DEF Notify, phoneVars
      <4>2. h \in 1..arrived
        BY Zenon, <1>2, <4>1, SequenceParts
      <4>. QED
        BY <1>2, <4>1, <4>2
    <3>. QED
      BY <2>1, <3>1, <3>2
  <2>. QED
    BY ZenonT(60), <1>2, <1>3, <2>2, <2>3, KeptStep DEF InputsKept, Moved
<1>5. CASE \/ \E h \in Media : BackoffOver(h)
           \/ \E i \in Items : Wake(i) \/ \E saved \in BOOLEAN : Enqueue(i, saved)
           \/ UNCHANGED vars
  <2>1. UNCHANGED <<loop, inbox, events, arrived, lookup, baseline, attempts>>
    BY Zenon, <1>5 DEF BackoffOver, Wake, Enqueue, AddOutbound, vars, storeVars, phoneVars, histories
  <2>2. \/ UNCHANGED <<data, disk>>
        \/ \E queue : data' = [data EXCEPT !.outbound = queue] /\ disk' = data'
    BY Zenon, <1>5 DEF BackoffOver, Wake, Enqueue, AddOutbound, Saved, vars, storeVars
  <2>3. SeenKept
    BY <1>3, <2>1, <2>2
  <2>. QED
    BY ZenonT(60), <1>2, <2>1, <2>3, KeptStep DEF InputsKept, Moved
<1>6. CASE \E saved \in BOOLEAN : DrainTakes(saved)
  <2>1. PICK saved \in BOOLEAN : DrainTakes(saved)
    BY <1>6
  <2>2. loop.at = "drain" /\ UNCHANGED <<inbox, events, arrived, lookup, baseline, attempts>>
    BY Zenon, <2>1 DEF DrainTakes, TakeOutbound, storeVars, phoneVars
  <2>3. \/ UNCHANGED <<data, disk>>
        \/ \E queue : data' = [data EXCEPT !.outbound = queue] /\ disk' = data'
    BY Zenon, <2>1 DEF DrainTakes, TakeOutbound, Saved, storeVars
  <2>4. SeenKept
    BY ZenonT(60), <1>3, <2>2, <2>3
  <2>5. \/ loop' = [loop EXCEPT !.at = "send", !.item = Head(data.outbound)]
        \/ loop' = Down
    BY <2>1 DEF DrainTakes, EndSession
  <2>6. loop'.todo \in Seq(1..arrived) /\ loop'.at \in {"send", "down"}
    <3>1. CASE loop' = [loop EXCEPT !.at = "send", !.item = Head(data.outbound)]
      BY ZenonT(60), <1>1, <1>2, <3>1
    <3>2. CASE loop' = Down
      BY <1>2, <3>2 DEF Down
    <3>. QED
      BY <2>5, <3>1, <3>2
  <2>. QED
    BY ZenonT(60), <1>2, <2>2, <2>4, <2>6, KeptStep DEF InputsKept, Moved, Started
<1>. QED
  BY ZenonT(60), <1>4, <1>5, <1>6

(* A message that arrives has a handle of its own, and is not handled yet. *)
LEMMA ArrivalKeepsInbox ==
    ASSUME InboxInv, MessageArrives
    PROVE  InboxInv'
<1>1. /\ arrived + 1 \in Handles /\ arrived' = arrived + 1 /\ inbox' = <<arrived + 1>> \o inbox
      /\ UNCHANGED <<data, disk, lookup, events, loop, baseline, attempts>>
  BY DEF MessageArrives, storeVars, histories
<1>2. /\ arrived \in Nat /\ 1..arrived \subseteq Handles
      /\ inbox \in Seq(1..arrived) /\ events \in Seq(1..arrived) /\ loop.todo \in Seq(1..arrived)
      /\ loop.at \in {"fetch", "deliver"} => loop.handle \in 1..arrived
  BY DEF InboxInv, ArrivedInv
<1>. DEFINE A == 1..arrived
            B == 1..arrived'
<1>3. A \subseteq B /\ arrived + 1 \in B
  BY <1>1, <1>2
<1>4. \A h \in B : h \in A \/ h = arrived + 1
  BY <1>1, <1>2
<1>. HIDE DEF A, B
<1>5. ASSUME NEW s \in Seq(A)
      PROVE  s \in Seq(B)
  BY <1>3
<1>6. <<arrived + 1>> \o inbox \in Seq(B)
  <2>1. inbox \in Seq(B) /\ <<arrived + 1>> \in Seq(B)
    BY <1>2, <1>3, <1>5 DEF A
  <2>. QED
    BY <2>1
<1>7. ArrivedInv'
  <2>1. B \subseteq Handles /\ arrived' \in Nat
    <3>1. \A h \in B : h \in Handles
      BY Zenon, <1>1, <1>2, <1>4 DEF A
    <3>2. arrived' \in Nat
      BY <1>1, <1>2
    <3>. QED
      BY <3>1, <3>2
  <2>2. events' \in Seq(B) /\ loop'.todo \in Seq(B) /\ inbox' \in Seq(B)
    BY ZenonT(60), <1>1, <1>2, <1>5, <1>6 DEF A
  <2>3. loop'.at \in {"fetch", "deliver"} => loop'.handle \in B
    BY ZenonT(60), <1>1, <1>2, <1>3 DEF A
  <2>. QED
    BY <2>1, <2>2, <2>3 DEF ArrivedInv, B
<1>8. ASSUME arrived' <= MaxSeen
      PROVE  Delivery'
  <2>1. SeenInv /\ StartInv /\ DeliverInv
    BY <1>1, <1>2, <1>8, BoundsAssumption DEF InboxInv, Delivery
  <2>2. data.seen \in Seq(B)
    BY Zenon, <1>5, <2>1 DEF SeenInv, A
  <2>3. SeenInv'
    BY ZenonT(60), <1>1, <2>1, <2>2 DEF SeenInv, B
  <2>4. StartInv' /\ DeliverInv'
    BY <1>1, <2>1 DEF StartInv, DeliverInv
  <2>. QED
    BY ZenonT(60), <2>3, <2>4 DEF Delivery
<1>. QED
  BY ZenonT(60), <1>7, <1>8 DEF InboxInv

(* SetInitialized comes before anything was handed on.                     *)
LEMMA InitializeKeepsInbox ==
    ASSUME Types, InboxInv, NEW saved \in BOOLEAN, Initialize(saved)
    PROVE  InboxInv'
<1>1. /\ DOMAIN loop = {"at", "from", "handle", "item", "todo", "left"}
      /\ DOMAIN data = {"initialized", "seen", "outbound"}
  BY DEF Types
<1>2. /\ loop.at = "initialize" /\ data' = [data EXCEPT !.initialized = TRUE]
      /\ disk' = (IF saved THEN data' ELSE disk)
      /\ UNCHANGED <<lookup, inbox, arrived, events, baseline, attempts>>
  BY DEF Initialize, SetInitialized, phoneVars, histories
<1>3. data'.seen = data.seen /\ data'.initialized = TRUE
  BY <1>1, <1>2
<1>4. /\ inbox \in Seq(1..arrived) /\ events \in Seq(1..arrived)
      /\ loop.todo \in Seq(1..arrived) /\ <<>> \in Seq(1..arrived)
  BY DEF InboxInv, ArrivedInv
<1>5. loop'.todo \in Seq(1..arrived) /\ loop'.at \in {"drain", "down"}
  <2>1. CASE loop' = [loop EXCEPT !.at = "drain"]
    BY ZenonT(60), <1>1, <1>4, <2>1
  <2>2. CASE loop' = Down
    BY <1>4, <2>2 DEF Down
  <2>. QED
    BY <2>1, <2>2 DEF Initialize, LoopTo, EndSession
<1>6. ArrivedInv'
  BY <1>2, <1>4, <1>5 DEF InboxInv, ArrivedInv
<1>7. ASSUME arrived' <= MaxSeen
      PROVE  Delivery'
  <2>1. SeenInv /\ StartInv /\ DeliverInv
    BY <1>2, <1>7 DEF InboxInv, Delivery
  <2>2. disk'.seen = data.seen
    BY <1>2, <1>3, <2>1 DEF SeenInv
  <2>3. SeenInv'
    BY <1>2, <1>3, <2>1, <2>2 DEF SeenInv
  <2>4. disk'.initialized \in BOOLEAN /\ (disk.initialized => disk'.initialized)
    BY Zenon, <1>2, <1>3, <2>1 DEF StartInv
  <2>5. StartInv'
    BY Zenon, <1>2, <1>3, <1>5, <2>1, <2>4 DEF StartInv
  <2>6. DeliverInv'
    BY <1>2, <1>5, <2>1 DEF DeliverInv
  <2>. QED
    BY <2>3, <2>5, <2>6 DEF Delivery
<1>. QED
  BY <1>6, <1>7 DEF InboxInv

(* Bootstrap takes what it lists as the baseline when nothing was handed   *)
(* on, and only after it was saved as seen.                                *)
LEMMA BaselineKeepsInbox ==
    ASSUME Types, InboxInv, NEW saved \in BOOLEAN, Baseline(saved)
    PROVE  InboxInv'
<1>1. DOMAIN loop = {"at", "from", "handle", "item", "todo", "left"}
  BY DEF Types
<1>2. /\ loop.at = "baseline" /\ MarkSeenMany(loop.todo, saved)
      /\ UNCHANGED <<inbox, arrived, events, attempts>>
  BY DEF Baseline, phoneVars
<1>3. /\ inbox \in Seq(1..arrived) /\ events \in Seq(1..arrived) /\ arrived \in Nat
      /\ loop.todo \in Seq(1..arrived) /\ <<>> \in Seq(1..arrived)
  BY DEF InboxInv, ArrivedInv
<1>4. CASE ~saved
  <2>1. UNCHANGED <<data, disk, lookup, baseline>> /\ loop' = Down
    BY ZenonT(60), <1>2, <1>4 DEF Baseline, MarkSeenMany, storeVars, EndSession
  <2>2. SeenKept /\ Moved
    BY Zenon, <1>2, <2>1 DEF SeenKept, Moved, Down
  <2>3. InputsKept
    BY <1>2, <1>3, <2>1 DEF InputsKept, Down
  <2>. QED
    BY Zenon, <2>2, <2>3, KeptStep
<1>5. CASE saved
  <2>1. /\ loop' = [loop EXCEPT !.at = "initialize", !.todo = <<>>]
        /\ baseline' = baseline \cup Range(loop.todo)
    BY <1>5 DEF Baseline
  <2>2. loop'.at = "initialize" /\ loop'.todo = <<>>
    BY <1>1, <2>1
  <2>3. ArrivedInv'
    BY Zenon, <1>2, <1>3, <2>2 DEF InboxInv, ArrivedInv
  <2>4. ASSUME arrived' <= MaxSeen
        PROVE  Delivery'
    <3>1. SeenInv /\ StartInv /\ DeliverInv /\ arrived <= MaxSeen
      BY <1>2, <2>4 DEF InboxInv, Delivery
    <3>2. MarkSeenMany(loop.todo, TRUE)
      BY Zenon, <1>2, <1>5
    <3>3. /\ data'.seen \in Seq(1..arrived) /\ disk'.seen = data'.seen
          /\ \A m, n \in 1..Len(data'.seen) : data'.seen[m] = data'.seen[n] => m = n
          /\ lookup' = {data'.seen[n] : n \in 1..Len(data'.seen)}
          /\ lookup' = lookup \cup {loop.todo[k] : k \in 1..Len(loop.todo)}
          /\ data'.initialized = data.initialized
          /\ \/ disk'.initialized = data.initialized
             \/ disk' = disk /\ lookup' = lookup
      BY Zenon, <1>3, <3>1, <3>2, HandlesMarked
    <3>4. Range(loop.todo) \subseteq lookup'
      <4>1. DOMAIN loop.todo = 1..Len(loop.todo)
        BY <1>3
      <4>. QED
        BY Zenon, <3>3, <4>1 DEF Range
    <3>5. SeenInv'
      BY Zenon, <1>2, <2>1, <3>1, <3>3, <3>4 DEF SeenInv
    <3>6. /\ data.initialized = FALSE /\ disk.initialized = FALSE
          /\ \A h \in Handles, r \in 1..Recipients : attempts[h][r] = 0
      BY Zenon, <1>2, <3>1 DEF StartInv
    <3>7. data'.initialized = FALSE /\ disk'.initialized = FALSE
      BY <3>3, <3>6
    <3>8. StartInv'
      BY Zenon, <1>2, <2>2, <3>6, <3>7 DEF StartInv, Started
    <3>9. DeliverInv'
      BY ZenonT(60), <1>2, <2>2, <3>1, <3>6 DEF DeliverInv
    <3>. QED
      BY <3>5, <3>8, <3>9 DEF Delivery
  <2>. QED
    BY <2>3, <2>4 DEF InboxInv
<1>. QED
  BY <1>4, <1>5

(* A message is marked as seen, in memory and in the file, before it is    *)
(* handed on or given up.                                                  *)
LEMMA ConsumeKeepsInbox ==
    ASSUME Types, InboxInv, NEW saved \in BOOLEAN, ConsumeUndelivered(saved) \/ Consume(saved)
    PROVE  InboxInv'
<1>1. /\ DOMAIN loop = {"at", "from", "handle", "item", "todo", "left"}
      /\ loop.from \in {"select", "poll"}
  BY DEF Types
<1>2. /\ loop.at = "fetch" /\ MarkSeenMany(<<loop.handle>>, saved)
      /\ UNCHANGED <<inbox, arrived, events, attempts, baseline>>
  BY DEF ConsumeUndelivered, Consume, MarkSeen, phoneVars, histories
<1>3. /\ inbox \in Seq(1..arrived) /\ events \in Seq(1..arrived) /\ arrived \in Nat
      /\ loop.todo \in Seq(1..arrived) /\ <<>> \in Seq(1..arrived)
      /\ loop.handle \in 1..arrived /\ 1..arrived \subseteq Handles
  BY <1>2 DEF InboxInv, ArrivedInv
<1>4. CASE ~saved
  <2>1. /\ UNCHANGED <<data, disk, lookup>>
        /\ loop' = Down \/ loop' = [Down EXCEPT !.at = "select"]
    BY <1>2, <1>4 DEF ConsumeUndelivered, Consume, MarkSeenMany, storeVars, ReturnSaveError,
                      EndSession
  <2>2. loop'.todo = <<>> /\ loop'.at \in {"down", "select"}
    BY <2>1 DEF Down
  <2>3. SeenKept /\ Moved
    BY Zenon, <1>2, <2>1, <2>2 DEF SeenKept, Moved, Started
  <2>4. InputsKept
    BY Zenon, <1>2, <1>3, <2>2 DEF InputsKept
  <2>. QED
    BY <2>3, <2>4, KeptStep
<1>5. CASE saved
  <2>1. \/ loop' = [loop EXCEPT !.at = "deliver", !.left = Recipients]
        \/ loop' = [loop EXCEPT !.at = loop.from, !.handle = None]
        \/ loop' = Down
    BY Zenon, <1>5 DEF ConsumeUndelivered, Consume, Return, EndSession
  <2>2. /\ loop'.todo \in Seq(1..arrived)
        /\ \/ loop'.at \in {"select", "poll", "down"}
           \/ loop'.at = "deliver" /\ loop'.left = Recipients /\ loop'.handle = loop.handle
    <3>1. CASE loop' = [loop EXCEPT !.at = "deliver", !.left = Recipients]
      BY <1>1, <1>3, <3>1
    <3>2. CASE loop' = [loop EXCEPT !.at = loop.from, !.handle = None]
      BY Zenon, <1>1, <1>3, <3>2
    <3>3. CASE loop' = Down
      BY Zenon, <1>3, <3>3 DEF Down
    <3>. QED
      BY <2>1, <3>1, <3>2, <3>3
  <2>3. ArrivedInv'
    BY Zenon, <1>2, <1>3, <2>2 DEF InboxInv, ArrivedInv
  <2>4. ASSUME arrived' <= MaxSeen
        PROVE  Delivery'
    <3>. DEFINE handles == <<loop.handle>>
    <3>1. SeenInv /\ StartInv /\ DeliverInv /\ arrived <= MaxSeen
      BY <1>2, <2>4 DEF InboxInv, Delivery
    <3>2. /\ MarkSeenMany(handles, TRUE) /\ handles \in Seq(1..arrived)
          /\ {handles[k] : k \in 1..Len(handles)} = {loop.handle}
      <4>1. MarkSeenMany(handles, TRUE)
        BY Zenon, <1>2, <1>5
      <4>2. ASSUME NEW S, NEW h \in S
            PROVE  /\ <<h>> \in Seq(S)
                   /\ {<<h>>[k] : k \in 1..Len(<<h>>)} = {h}
        <5>1. <<h>> \in Seq(S) /\ Len(<<h>>) = 1 /\ <<h>>[1] = h
          OBVIOUS
        <5>2. \A k \in 1..1 : k = 1
          BY SMTT(60)
        <5>. QED
          BY <5>1, <5>2
      <4>. QED
        BY Zenon, <1>3, <4>1, <4>2
    <3>. HIDE DEF handles
    <3>3. /\ data'.seen \in Seq(1..arrived) /\ disk'.seen = data'.seen
          /\ \A m, n \in 1..Len(data'.seen) : data'.seen[m] = data'.seen[n] => m = n
          /\ lookup' = {data'.seen[n] : n \in 1..Len(data'.seen)}
          /\ lookup' = lookup \cup {loop.handle}
          /\ data'.initialized = data.initialized
          /\ \/ disk'.initialized = data.initialized
             \/ disk' = disk /\ lookup' = lookup
      BY Zenon, <1>3, <3>1, <3>2, HandlesMarked
    <3>4. loop.handle \notin lookup /\ data.initialized = TRUE
      BY Zenon, <1>2, <3>1 DEF DeliverInv, StartInv, Started
    <3>5. disk'.initialized = TRUE /\ data'.initialized = TRUE
      BY <3>3, <3>4
    <3>6. SeenInv'
      BY Zenon, <1>2, <3>1, <3>3 DEF SeenInv
    <3>7. StartInv'
      BY Zenon, <2>2, <3>5 DEF StartInv
    <3>8. loop.handle \notin baseline /\ \A r \in 1..Recipients : attempts[loop.handle][r] = 0
      BY Zenon, <1>3, <3>1, <3>4 DEF SeenInv, DeliverInv
    <3>9. DeliverInv'
      <4>1. /\ attempts' \in [Handles -> [1..Recipients -> 0..1]]
            /\ \A h \in Handles, r \in 1..Recipients :
                  attempts'[h][r] # 0 => h \in lookup' \ baseline'
        BY ZenonT(60), <1>2, <3>1, <3>3 DEF DeliverInv
      <4>2. loop'.at # "fetch"
        BY Zenon, <2>2
      <4>3. ASSUME loop'.at = "deliver"
            PROVE  /\ loop'.handle \in lookup' \ baseline' /\ loop'.left \in 0..Recipients
                   /\ \A r \in 1..loop'.left : attempts'[loop'.handle][r] = 0
        <5>1. loop'.left = Recipients /\ loop'.handle = loop.handle
          BY <2>2, <4>3
        <5>2. Recipients \in 0..Recipients
          BY SMTT(60), MessagesAssumption
        <5>3. loop.handle \in lookup' \ baseline'
          BY Zenon, <1>2, <3>3, <3>8
        <5>. QED
          BY ZenonT(60), <1>2, <3>8, <5>1, <5>2, <5>3
      <4>. QED
        BY Zenon, <4>1, <4>2, <4>3 DEF DeliverInv
    <3>. QED
      BY ZenonT(60), <3>6, <3>7, <3>9 DEF Delivery
  <2>. QED
    BY <2>3, <2>4 DEF InboxInv
<1>. QED
  BY <1>4, <1>5

(* Each recipient in turn is handed the message.                           *)
LEMMA DeliverKeepsInbox ==
    ASSUME Types, InboxInv, Deliver
    PROVE  InboxInv'
<1>1. DOMAIN loop = {"at", "from", "handle", "item", "todo", "left"}
  BY DEF Types
<1>2. CASE loop.left = 0
  BY <1>2, MovingKeepsInbox
<1>3. CASE loop.left # 0
  <2>1. /\ loop.at = "deliver" /\ loop' = [loop EXCEPT !.left = @ - 1]
        /\ attempts' = [attempts EXCEPT ![loop.handle][loop.left] = @ + 1]
        /\ UNCHANGED <<data, disk, lookup, inbox, arrived, events, baseline>>
    BY <1>3 DEF Deliver, storeVars, phoneVars
  <2>2. /\ loop'.at = loop.at /\ loop'.handle = loop.handle /\ loop'.todo = loop.todo
        /\ loop'.left = loop.left - 1
    BY <1>1, <2>1
  <2>3. ArrivedInv'
    BY <2>1, <2>2 DEF InboxInv, ArrivedInv
  <2>4. ASSUME arrived' <= MaxSeen
        PROVE  Delivery'
    <3>. DEFINE h0 == loop.handle
                r0 == loop.left
    <3>1. SeenInv /\ StartInv /\ DeliverInv
      BY <2>1, <2>4 DEF InboxInv, Delivery
    <3>2. /\ h0 \in Handles /\ h0 \in lookup \ baseline /\ r0 \in 1..Recipients
          /\ \A r \in 1..r0 : attempts[h0][r] = 0
      BY <1>3, <2>1, <3>1, MessagesAssumption DEF DeliverInv, InboxInv, ArrivedInv
    <3>3. attempts \in [Handles -> [1..Recipients -> 0..1]]
      BY Zenon, <3>1 DEF DeliverInv
    <3>4. attempts[h0][r0] = 0
      BY <3>2, MessagesAssumption
    <3>5. attempts' = [attempts EXCEPT ![h0] = [attempts[h0] EXCEPT ![r0] = 1]]
      BY <2>1, <3>2, <3>3, <3>4
    <3>. HIDE DEF h0, r0
    <3>6. /\ attempts' \in [Handles -> [1..Recipients -> 0..1]]
          /\ \A h \in Handles : h # h0 => attempts'[h] = attempts[h]
          /\ \A r \in 1..Recipients : r # r0 => attempts'[h0][r] = attempts[h0][r]
      BY <3>2, <3>3, <3>5
    <3>7. SeenInv'
      BY <2>1, <3>1 DEF SeenInv
    <3>8. StartInv'
      <4>1. disk.initialized
        BY Zenon, <2>1, <3>1 DEF StartInv
      <4>. QED
        BY <2>1, <2>2, <3>1, <4>1 DEF StartInv
    <3>9. DeliverInv'
      <4>1. \A h \in Handles, r \in 1..Recipients : attempts'[h][r] # 0 => h \in lookup \ baseline
        BY ZenonT(60), <3>1, <3>2, <3>6 DEF DeliverInv
      <4>2. r0 - 1 \in 0..Recipients
        BY SMTT(60), <3>2, MessagesAssumption
      <4>3. \A r \in 1..(r0 - 1) : attempts'[h0][r] = 0
        BY SMTT(60), <3>2, <3>6, MessagesAssumption
      <4>. QED
        BY ZenonT(60), <2>1, <2>2, <3>2, <3>6, <4>1, <4>2, <4>3 DEF DeliverInv, h0, r0
    <3>. QED
      BY <3>7, <3>8, <3>9 DEF Delivery
  <2>. QED
    BY <2>3, <2>4 DEF InboxInv
<1>. QED
  BY <1>2, <1>3

(* After a crash the store knows what it knew.                             *)
LEMMA CrashKeepsInbox ==
    ASSUME InboxInv, Crash
    PROVE  InboxInv'
<1>1. /\ data' = disk /\ disk' = disk /\ lookup' = Range(disk.seen)
      /\ events' = <<>> /\ loop' = Down
      /\ UNCHANGED <<inbox, arrived, baseline, attempts>>
  BY Zenon DEF Crash, Open, phoneVars, histories
<1>2. loop'.at = "down" /\ loop'.todo = <<>>
  BY Zenon, <1>1 DEF Down
<1>3. ArrivedInv'
  <2>1. <<>> \in Seq(1..arrived)
    OBVIOUS
  <2>. QED
    BY <1>1, <1>2, <2>1 DEF InboxInv, ArrivedInv
<1>4. ASSUME arrived' <= MaxSeen
      PROVE  Delivery'
  <2>1. SeenInv /\ StartInv /\ DeliverInv
    BY ZenonT(60), <1>1, <1>4 DEF InboxInv, Delivery
  <2>2. lookup' = lookup
    <3>1. DOMAIN data.seen = 1..Len(data.seen) /\ disk.seen = data.seen
      BY SMTT(60), <2>1 DEF SeenInv
    <3>. QED
      BY ZenonT(60), <1>1, <2>1, <3>1 DEF SeenInv, Range
  <2>3. SeenInv'
    BY SMTT(60), <1>1, <2>1, <2>2 DEF SeenInv
  <2>4. StartInv'
    BY ZenonT(60), <1>1, <1>2, <2>1 DEF StartInv, Started
  <2>5. DeliverInv'
    BY ZenonT(60), <1>1, <1>2, <2>1, <2>2 DEF DeliverInv
  <2>. QED
    BY <2>3, <2>4, <2>5 DEF Delivery
<1>. QED
  BY <1>3, <1>4 DEF InboxInv

(* When the bridge first starts, it has handed on nothing.                 *)
LEMMA InboxInitially == Init => InboxInv
<1>. SUFFICES ASSUME Init
              PROVE  InboxInv
  OBVIOUS
<1>1. Cardinality(Handles) \in Nat
  BY MessagesAssumption, FS_CardinalityType
<1>2. Old \in Nat /\ 1..Old \subseteq Handles
  BY <1>1, MessagesAssumption
<1>3. inbox \in Seq(1..Old)
  <2>1. inbox = [k \in 1..Old |-> Old + 1 - k]
    BY DEF Init
  <2>2. \A k \in 1..Old : Old + 1 - k \in 1..Old
    BY <1>2
  <2>3. inbox \in [1..Old -> 1..Old]
    BY ZenonT(60), <2>1, <2>2
  <2>. QED
    BY <1>2, <2>3
<1>4. /\ arrived = Old /\ events = <<>> /\ lookup = {} /\ baseline = {}
      /\ attempts = [h \in Handles |-> [r \in 1..Recipients |-> 0]]
      /\ loop.at = "down" /\ loop.todo = <<>>
  BY DEF Init, StoreInit, Down
<1>5. /\ data = disk /\ data.seen = <<>> /\ data.initialized \in BOOLEAN
  BY DEF Init, StoreInit
<1>6. <<>> \in Seq(1..Old)
  OBVIOUS
<1>7. ArrivedInv
  BY ZenonT(60), <1>2, <1>3, <1>4, <1>6 DEF ArrivedInv
<1>8. SeenInv
  BY SMTT(60), <1>4, <1>5, <1>6 DEF SeenInv
<1>9. StartInv
  BY ZenonT(60), <1>4, <1>5 DEF StartInv, Started
<1>10. DeliverInv
  BY <1>4 DEF DeliverInv
<1>. QED
  BY ZenonT(60), <1>7, <1>8, <1>9, <1>10 DEF InboxInv, Delivery

(* The invariant of the inbox holds in every state.                        *)
LEMMA InboxInvariant == Spec => []InboxInv
<1>1. IInv /\ InboxInv /\ [Next]_vars => InboxInv'
  <2>. SUFFICES ASSUME Types, InboxInv, [Next]_vars
                PROVE  InboxInv'
    BY DEF IInv
  <2>1. CASE MapLoop
    <3>1. ASSUME NEW saved \in BOOLEAN, SaveStep(saved)
          PROVE  InboxInv'
      BY ZenonT(60), <3>1, BaselineKeepsInbox, InitializeKeepsInbox, OthersKeepInbox, ConsumeKeepsInbox
         DEF SaveStep
    <3>. QED
      BY ZenonT(60), <2>1, <3>1, MovingKeepsInbox, DeliverKeepsInbox DEF MapLoop
  <2>2. CASE MessageArrives
    BY <2>2, ArrivalKeepsInbox
  <2>3. CASE Crash
    BY <2>3, CrashKeepsInbox
  <2>. QED
    BY <2>1, <2>2, <2>3, OthersKeepInbox DEF Next
<1>. QED
  BY <1>1, Invariant, InboxInitially, PTL DEF Spec

(* As long as no more messages have arrived than the store remembers, no   *)
(* recipient is handed a message twice: over events, polls, failed saves,  *)
(* ended sessions and crashes, processEvent finds it among the seen ones,  *)
(* because it was saved there before the first attempt.                    *)
THEOREM MessagesGoOutAtMostOnce == Spec => [](arrived <= MaxSeen => InboundAtMostOnce)
<1>1. InboxInv => (arrived <= MaxSeen => InboundAtMostOnce)
  <2>. SUFFICES ASSUME DeliverInv, NEW h \in Handles, NEW r \in 1..Recipients
                PROVE  attempts[h][r] <= 1
    BY SMTT(60) DEF InboxInv, Delivery, InboundAtMostOnce
  <2>1. attempts[h][r] \in 0..1
    BY ZenonT(60) DEF DeliverInv
  <2>. QED
    BY <2>1
<1>. QED
  BY <1>1, InboxInvariant, PTL

(* Under the same condition, what bootstrap took for the baseline is not   *)
(* handed on: it was saved as seen before bootstrap went on, and while the *)
(* file was not initialized nothing had been handed on.                    *)
THEOREM BaselineStaysSilent == Spec => [](arrived <= MaxSeen => BaselineIsNotNews)
<1>1. InboxInv => (arrived <= MaxSeen => BaselineIsNotNews)
  <2>. SUFFICES ASSUME SeenInv, DeliverInv, 1..arrived \subseteq Handles,
                       NEW h \in baseline, NEW r \in 1..Recipients
                PROVE  attempts[h][r] = 0
    BY DEF InboxInv, ArrivedInv, Delivery, BaselineIsNotNews
  <2>1. h \in Handles
    <3>1. PICK n \in 1..Len(data.seen) : h = data.seen[n]
      BY Zenon DEF SeenInv
    <3>2. data.seen \in Seq(1..arrived)
      BY DEF SeenInv
    <3>3. data.seen[n] \in 1..arrived
      <4>1. ASSUME NEW S, NEW s \in Seq(S), NEW k \in 1..Len(s)
            PROVE  s[k] \in S
        OBVIOUS
      <4>. QED
        BY Zenon, <3>2, <4>1
    <3>. QED
      BY Zenon, <3>1, <3>3
  <2>. QED
    BY <2>1 DEF DeliverInv
<1>. QED
  BY <1>1, InboxInvariant, PTL

============================================================================
