---------------------------- MODULE SmsDelivery ----------------------------
(***************************************************************************)
(* Message delivery of the SMS bridge (bridge/service.go over the state    *)
(* store): mapLoop reads the phone's inbox through polls and through the   *)
(* events the MNS server queues, and hands every message to each recipient *)
(* over AMI; HTTP handlers enqueue outbound texts, which mapLoop sends.    *)
(* The process may crash between any two steps.                            *)
(***************************************************************************)
EXTENDS StateStore

CONSTANTS
    Old,           \* messages in the inbox before the bridge first starts
    Media,         \* messages with attachments for the media service
    Recipients,    \* number of configured recipients
    PollMaxCount,  \* messages a listing returns
    MaxEvents,     \* capacity of the events channel
    MaxCrashes     \* bound: crashes of the bridge

ASSUME MessagesAssumption ==
    /\ IsFiniteSet(Handles) /\ Handles = 1..Cardinality(Handles)
    /\ Old \in 0..Cardinality(Handles)
    /\ Media \subseteq Handles /\ Recipients \in Nat /\ PollMaxCount \in Nat

VARIABLES
    inbox,      \* the phone's inbox, newest first; handles are in order of arrival
    arrived,    \* messages that have arrived
    events,     \* Service.events
    wake,       \* Service.outboundWake holds a token
    loop,       \* where mapLoop is
    deferred,   \* handles whose mediaRetries entry is not due
    handler,    \* HTTP handler of each outbound item
    baseline,   \* history: handles that bootstrap went on from as the baseline
    taken,      \* history: items TakeOutbound returned
    attempts,   \* history: attempts to hand a message to a recipient
    texted,     \* history: attempts to send an item
    crashes

phoneVars == <<inbox, arrived>>
histories == <<baseline, taken, attempts, texted>>
vars == <<storeVars, phoneVars, events, wake, loop, deferred, handler, histories, crashes>>

None == 0
Down == [at |-> "down", from |-> "select", handle |-> None, item |-> None,
         todo |-> <<>>, left |-> 0]

LoopTo(at) == loop' = [loop EXCEPT !.at = at]

(* An error that ends the session: setMAP(false), Close, waitReconnect.    *)
EndSession == loop' = Down

Listing == SubSeq(inbox, 1, IF Len(inbox) < PollMaxCount THEN Len(inbox) ELSE PollMaxCount)

Init ==
    /\ StoreInit
    /\ inbox = [k \in 1..Old |-> Old + 1 - k] /\ arrived = Old
    /\ events = <<>> /\ wake = FALSE /\ loop = Down /\ deferred = {}
    /\ handler = [i \in Items |-> "idle"]
    /\ baseline = {} /\ taken = {}
    /\ attempts = [h \in Handles |-> [r \in 1..Recipients |-> 0]]
    /\ texted = [i \in Items |-> 0]
    /\ crashes = 0

----------------------------------------------------------------------------
(* The phone and its event reports, which may come late, twice or never.   *)
MessageArrives ==
    /\ arrived + 1 \in Handles
    /\ arrived' = arrived + 1
    /\ inbox' = <<arrived + 1>> \o inbox
    /\ UNCHANGED <<storeVars, events, wake, loop, deferred, handler, histories, crashes>>

MessageDeleted(handle) ==
    /\ \E k \in 1..Len(inbox) :
          /\ inbox[k] = handle
          /\ inbox' = SubSeq(inbox, 1, k - 1) \o SubSeq(inbox, k + 1, Len(inbox))
    /\ UNCHANGED <<storeVars, arrived, events, wake, loop, deferred, handler, histories, crashes>>

(* mns handle: an event for which the channel has no room is dropped.      *)
Notify(handle) ==
    /\ handle \in Range(inbox) /\ Len(events) < MaxEvents
    /\ events' = Append(events, handle)
    /\ UNCHANGED <<storeVars, phoneVars, wake, loop, deferred, handler, histories, crashes>>

----------------------------------------------------------------------------
(* enqueue, in an HTTP handler: AddOutbound, then a token into             *)
(* outboundWake unless one is there.                                       *)
Enqueue(item, saved) ==
    /\ handler[item] = "idle"
    /\ \/ /\ OutboundFull /\ ~saved
          /\ UNCHANGED storeVars
       \/ /\ ~OutboundFull /\ AddOutbound(item, saved)
    /\ handler' = [handler EXCEPT ![item] = IF saved THEN "added" ELSE "refused"]
    /\ UNCHANGED <<phoneVars, events, wake, loop, deferred, histories, crashes>>

(* Mutant: outboundWake without a buffer.                                  *)
WakeUnbuffered(item) ==
    /\ handler[item] = "added"
    /\ handler' = [handler EXCEPT ![item] = "accepted"]
    /\ wake' = (wake \/ loop.at = "select")
    /\ UNCHANGED <<storeVars, phoneVars, events, loop, deferred, histories, crashes>>

Wake(item) ==
    /\ handler[item] = "added"
    /\ handler' = [handler EXCEPT ![item] = "accepted"]
    /\ wake' = TRUE
    /\ UNCHANGED <<storeVars, phoneVars, events, loop, deferred, histories, crashes>>

----------------------------------------------------------------------------
(* mapLoop: connect and RegisterNotifications, then bootstrap, which       *)
(* marks what the inbox lists as seen before the first session.            *)
Connect ==
    /\ loop.at = "down"
    /\ LoopTo("boot")
    /\ UNCHANGED <<storeVars, phoneVars, events, wake, deferred, handler, histories, crashes>>

Bootstrap ==
    /\ loop.at = "boot"
    /\ \/ data.initialized /\ LoopTo("drain")
       \/ ~data.initialized /\ loop' = [loop EXCEPT !.at = "baseline", !.todo = Listing]
       \/ ~data.initialized /\ EndSession
    /\ UNCHANGED <<storeVars, phoneVars, events, wake, deferred, handler, histories, crashes>>

(* Mutant: the error of MarkSeenMany is ignored.                           *)
BaselineUnsaved(saved) ==
    /\ loop.at = "baseline"
    /\ MarkSeenMany(loop.todo, saved)
    /\ loop' = [loop EXCEPT !.at = "initialize", !.todo = <<>>]
    /\ baseline' = baseline \cup Range(loop.todo)
    /\ UNCHANGED <<phoneVars, events, wake, deferred, handler, taken, attempts, texted, crashes>>

Baseline(saved) ==
    /\ loop.at = "baseline"
    /\ MarkSeenMany(loop.todo, saved)
    /\ IF saved THEN /\ loop' = [loop EXCEPT !.at = "initialize", !.todo = <<>>]
                     /\ baseline' = baseline \cup Range(loop.todo)
                ELSE EndSession /\ UNCHANGED baseline
    /\ UNCHANGED <<phoneVars, events, wake, deferred, handler, taken, attempts, texted, crashes>>

Initialize(saved) ==
    /\ loop.at = "initialize"
    /\ SetInitialized(saved)
    /\ IF saved THEN LoopTo("drain") ELSE EndSession
    /\ UNCHANGED <<phoneVars, events, wake, deferred, handler, histories, crashes>>

(* drainOutbound: take an item, attempt it, until the queue is empty.      *)
DrainTakes(saved) ==
    /\ loop.at = "drain" /\ data.outbound # <<>>
    /\ TakeOutbound(saved)
    /\ IF saved THEN /\ loop' = [loop EXCEPT !.at = "send", !.item = Head(data.outbound)]
                     /\ taken' = taken \cup {Head(data.outbound)}
                ELSE EndSession /\ UNCHANGED taken
    /\ UNCHANGED <<phoneVars, events, wake, deferred, handler, baseline, attempts, texted, crashes>>

DrainDone ==
    /\ loop.at = "drain" /\ data.outbound = <<>>
    /\ LoopTo("select")
    /\ UNCHANGED <<storeVars, phoneVars, events, wake, deferred, handler, histories, crashes>>

SendSMS ==
    /\ loop.at = "send"
    /\ texted' = [texted EXCEPT ![loop.item] = @ + 1]
    /\ loop' = [loop EXCEPT !.at = "drain", !.item = None] \/ EndSession
    /\ UNCHANGED <<storeVars, phoneVars, events, wake, deferred, handler, baseline, taken, attempts, crashes>>

----------------------------------------------------------------------------
(* The select of runConnected.                                             *)
SelectWake ==
    /\ loop.at = "select" /\ wake
    /\ wake' = FALSE
    /\ LoopTo("drain")
    /\ UNCHANGED <<storeVars, phoneVars, events, deferred, handler, histories, crashes>>

SelectPoll ==
    /\ loop.at = "select"
    /\ loop' = [loop EXCEPT !.at = "poll", !.todo = Listing]
    /\ UNCHANGED <<storeVars, phoneVars, events, wake, deferred, handler, histories, crashes>>

(* A keepalive, a listing or an HTTP command meets a transport error.      *)
SelectFails ==
    /\ loop.at = "select"
    /\ EndSession
    /\ UNCHANGED <<storeVars, phoneVars, events, wake, deferred, handler, histories, crashes>>

(* processEvent skips a handle that is seen or whose retry is not due.     *)
Skipped(handle) == HasSeen(handle) \/ handle \in deferred

SelectEvent ==
    /\ loop.at = "select" /\ events # <<>>
    /\ events' = Tail(events)
    /\ loop' = IF Skipped(Head(events)) THEN loop
               ELSE [loop EXCEPT !.at = "fetch", !.from = "select", !.handle = Head(events)]
    /\ UNCHANGED <<storeVars, phoneVars, wake, deferred, handler, histories, crashes>>

(* Mutant: the poll stops before the newest message of the listing.        *)
PollStops ==
    /\ loop.at = "poll"
    /\ loop' = IF Len(loop.todo) <= 1 THEN [Down EXCEPT !.at = "select"]
               ELSE LET h == loop.todo[Len(loop.todo)]
                        rest == [loop EXCEPT !.todo = SubSeq(@, 1, Len(@) - 1)]
                    IN  IF Skipped(h) THEN rest
                        ELSE [rest EXCEPT !.at = "fetch", !.from = "poll", !.handle = h]
    /\ UNCHANGED <<storeVars, phoneVars, events, wake, deferred, handler, histories, crashes>>

(* poll goes through the listing from its oldest message.                  *)
PollNext ==
    /\ loop.at = "poll"
    /\ loop' = IF loop.todo = <<>> THEN [Down EXCEPT !.at = "select"]
               ELSE LET h == loop.todo[Len(loop.todo)]
                        rest == [loop EXCEPT !.todo = SubSeq(@, 1, Len(@) - 1)]
                    IN  IF Skipped(h) THEN rest
                        ELSE [rest EXCEPT !.at = "fetch", !.from = "poll", !.handle = h]
    /\ UNCHANGED <<storeVars, phoneVars, events, wake, deferred, handler, histories, crashes>>

(* processEvent returns; its error ends the session, except that poll only *)
(* logs one that is no transport error, such as a failed save.             *)
Return == loop' = [loop EXCEPT !.at = loop.from, !.handle = None]

ReturnSaveError ==
    IF loop.from = "poll" THEN loop' = [Down EXCEPT !.at = "select"] ELSE EndSession

(* The message cannot be fetched, parsed or delivered: it is consumed.  A  *)
(* transport error of the fetch also ends the session.                     *)
ConsumeUndelivered(saved) ==
    /\ loop.at = "fetch"
    /\ MarkSeen(loop.handle, saved)
    /\ IF saved THEN Return \/ EndSession ELSE ReturnSaveError
    /\ UNCHANGED <<phoneVars, events, wake, deferred, handler, histories, crashes>>

DeferMedia ==
    /\ loop.at = "fetch" /\ loop.handle \in Media
    /\ deferred' = deferred \cup {loop.handle}
    /\ Return
    /\ UNCHANGED <<storeVars, phoneVars, events, wake, handler, histories, crashes>>

BackoffOver(handle) ==
    /\ handle \in deferred
    /\ deferred' = deferred \ {handle}
    /\ UNCHANGED <<storeVars, phoneVars, events, wake, loop, handler, histories, crashes>>

(* A deliverable message is marked as seen first, then each recipient is   *)
(* sent its parts until one fails; a failure does not stop the others.     *)
Consume(saved) ==
    /\ loop.at = "fetch"
    /\ MarkSeen(loop.handle, saved)
    /\ IF saved THEN loop' = [loop EXCEPT !.at = "deliver", !.left = Recipients]
                ELSE ReturnSaveError
    /\ UNCHANGED <<phoneVars, events, wake, deferred, handler, histories, crashes>>

Deliver ==
    /\ loop.at = "deliver"
    /\ IF loop.left = 0
       THEN Return /\ UNCHANGED attempts
       ELSE /\ attempts' = [attempts EXCEPT ![loop.handle][loop.left] = @ + 1]
            /\ loop' = [loop EXCEPT !.left = @ - 1]
    /\ UNCHANGED <<storeVars, phoneVars, events, wake, deferred, handler, baseline, taken, texted, crashes>>

----------------------------------------------------------------------------
(* The process dies and is started again: only the file is left.           *)
Crash ==
    /\ crashes < MaxCrashes
    /\ crashes' = crashes + 1
    /\ Open
    /\ events' = <<>> /\ wake' = FALSE /\ loop' = Down /\ deferred' = {}
    /\ handler' = [i \in Items |-> IF handler[i] = "added" THEN "unanswered" ELSE handler[i]]
    /\ UNCHANGED <<phoneVars, histories>>

SaveStep(saved) ==
    \/ Baseline(saved) \/ Initialize(saved) \/ DrainTakes(saved)
    \/ ConsumeUndelivered(saved) \/ Consume(saved)

MapLoop ==
    \/ Connect \/ Bootstrap \/ DrainDone \/ SendSMS
    \/ SelectWake \/ SelectPoll \/ SelectFails \/ SelectEvent \/ PollNext \/ DeferMedia \/ Deliver
    \/ \E saved \in BOOLEAN : SaveStep(saved)

Next ==
    \/ MessageArrives \/ MapLoop \/ Crash
    \/ \E h \in Handles : MessageDeleted(h) \/ Notify(h)
    \/ \E h \in Media : BackoffOver(h)
    \/ \E i \in Items : Wake(i) \/ \E saved \in BOOLEAN : Enqueue(i, saved)

(* mapLoop keeps going and its select chooses among its ready cases at     *)
(* random; disk, link and media service do not fail for ever.              *)
Fairness ==
    /\ WF_vars(MapLoop)
    /\ SF_vars(SelectWake) /\ SF_vars(SelectPoll)
    /\ SF_vars(SaveStep(TRUE)) /\ SF_vars(Consume(TRUE))
    /\ SF_vars(loop.at = "boot" /\ Bootstrap /\ loop'.at # "down")
    /\ \A i \in Items : WF_vars(Wake(i))
    /\ \A h \in Media : WF_vars(BackoffOver(h))

Spec == Init /\ [][Next]_vars /\ Fairness

----------------------------------------------------------------------------
(* Every variable keeps its type, and the store and the channel keep to    *)
(* their bounds.                                                           *)
TypeOK ==
    /\ data \in DiskState /\ disk \in DiskState
    /\ Len(data.seen) <= MaxSeen /\ Len(data.outbound) <= MaxOutbound
    /\ lookup \subseteq Handles /\ deferred \subseteq Handles
    /\ inbox \in Seq(Handles) /\ events \in Seq(Handles) /\ Len(events) <= MaxEvents
    /\ wake \in BOOLEAN /\ baseline \subseteq Handles /\ taken \subseteq Items
    /\ loop.at \in {"down", "boot", "baseline", "initialize", "drain", "send", "select",
                    "poll", "fetch", "deliver"}
    /\ loop.from \in {"select", "poll"} /\ loop.todo \in Seq(Handles)
    /\ handler \in [Items -> {"idle", "added", "accepted", "refused", "unanswered"}]

(* No recipient is handed a message twice, whatever mixture of events,     *)
(* polls, failed saves and crashes the message meets: processEvent marks   *)
(* it as seen, durably, before the first attempt.                          *)
InboundAtMostOnce == \A h \in Handles, r \in 1..Recipients : attempts[h][r] <= 1

(* TakeOutbound: "The caller must attempt it at most once": no text is     *)
(* sent twice, over failed saves and crashes.                              *)
OutboundAtMostOnce == \A i \in Items : texted[i] <= 1

(* The answer of the HTTP handler is the truth: a text it accepted is in   *)
(* the file until mapLoop takes it, and one it refused is never sent, even *)
(* when the refusal came from a save that failed after the item had been   *)
(* put into the queue.                                                     *)
OutboxAnswersAreTrue ==
    \A i \in Items :
        /\ handler[i] = "accepted" => i \in Range(disk.outbound) \cup taken
        /\ handler[i] = "refused" => i \notin Range(disk.outbound) \cup Range(data.outbound) \cup taken

(* What bootstrap took for the baseline is never forwarded as if it were   *)
(* news, also when a failed save or a crash cuts bootstrap short, when it  *)
(* starts over, and when memory is initialized but the file is not.        *)
BaselineIsNotNews == \A h \in baseline, r \in 1..Recipients : attempts[h][r] = 0

(* A new message in the window of the poll is consumed in the end, whether *)
(* or not its event came through: it is marked as seen, or leaves the      *)
(* window.                                                                 *)
InboxIsConsumed ==
    \A h \in Handles \ 1..Old : h \in Range(Listing) ~> (HasSeen(h) \/ h \notin Range(Listing))

(* The queue in the file is emptied in the end: no wake-up of a handler is *)
(* lost, whatever mapLoop is doing and whether a session ends or the       *)
(* process dies between the save and the wake-up.                          *)
OutboxIsDrained == disk.outbound # <<>> ~> disk.outbound = <<>>
=============================================================================
