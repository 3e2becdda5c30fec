------------------------------ MODULE Handback ------------------------------
(***************************************************************************)
(* Handing a call that was answered on the handset back to the phone.      *)
(*                                                                         *)
(* Composes the parts of le-call-go that meet at the LE bearer: the event  *)
(* loop of the media broker, which owns the targeted advertisement         *)
(* (bluez/broker.go runBlueZOnce), the Snapshot callback of main.go, which *)
(* runs on the GTBS session goroutine, the goroutines it starts to drop    *)
(* the bearer, and bluetoothd, which sends both goroutines the bearer's    *)
(* changes on separate D-Bus connections.  A call is named by its token,   *)
(* which the call store keeps unique, and GTBS is reduced to which calls   *)
(* it has reported.                                                        *)
(***************************************************************************)
EXTENDS Integers, Sequences, FiniteSets

CONSTANTS
    Calls,         \* tokens of the calls of a behaviour, positive
    MaxFaults,     \* bound: losses of the link and restarts of bluetoothd
    MaxNews,       \* bound: signals waiting when the phone does something
    MaxDropping    \* bound: DropLEBearer goroutines at the same time

ASSUME CallsAssumption == Calls \subseteq Nat \ {0}

VARIABLES
    call,         \* token -> where the phone has that call
    link,         \* bluetoothd's Bearer.LE1 Connected
    advertised,   \* bluetoothd is broadcasting the targeted advertisement
    faults,
    events,       \* the broker's signal channel
    broker,       \* where runBlueZOnce is
    registered,   \* its local advertisementRegistered
    hold,         \* advertisementHold
    rearm,        \* the rearmRequest channel, of capacity one
    news,         \* the GTBS session's signal channel
    subscribed,   \* the session's StartNotify is in force at bluetoothd
    gtbs,         \* where the GTBS session goroutine is
    seen,         \* the calls as the store has them
    picked,       \* the token HandsetAnswered returned
    droppedForToken,
    dropping,     \* DropLEBearer goroutines not finished
    started       \* history: token -> how many of them were for it, up to 2

phoneVars == <<call, link, advertised, faults>>
brokerVars == <<events, broker, registered>>
gtbsVars == <<news, subscribed, gtbs, seen, picked, droppedForToken, started>>
sharedVars == <<hold, rearm, dropping>>
handbackVars == <<phoneVars, brokerVars, gtbsVars, sharedVars>>

----------------------------------------------------------------------------
(* The phone.  Only a ringing call can be answered, here or on the handset.*)

Ringing == "ringing"
Here == "here"           \* accepted through this side, which claimed it
Handset == "handset"     \* answered on the phone itself
Present == {Ringing, Here, Handset}

Moves == {<<"future", Ringing>>, <<Ringing, Here>>, <<Ringing, Handset>>}
         \cup {<<from, "over">> : from \in Present}

SessionUp == gtbs # "down"

(* A Call State notification, if the session can hear it.                  *)
CallMoves(c) ==
    /\ \E m \in Moves : /\ call[c] = m[1]
                        /\ m[2] = Here => SessionUp
                        /\ call' = [call EXCEPT ![c] = m[2]]
    /\ IF SessionUp /\ subscribed /\ link
       THEN /\ Len(news) < MaxNews
            /\ news' = Append(news, [kind |-> "state", calls |-> call'])
       ELSE UNCHANGED news
    /\ UNCHANGED <<link, advertised, faults, brokerVars, subscribed, gtbs,
                   seen, picked, droppedForToken, started, sharedVars>>

Disconnected == [kind |-> "disconnected"]
Connected == [kind |-> "connected"]
NameLost == [kind |-> "nameLost"]

Tell(event) == events' = IF broker = "down" THEN events ELSE Append(events, event)

(* bluetoothd sees the bearer go, and tells both connections.              *)
BearerDrops ==
    /\ link' = FALSE
    /\ Tell(Disconnected)
    /\ news' = IF SessionUp THEN Append(news, Disconnected) ELSE news

OutOfRange ==
    /\ link /\ faults < MaxFaults
    /\ faults' = faults + 1
    /\ BearerDrops
    /\ UNCHANGED <<call, advertised, broker, registered, subscribed, gtbs,
                   seen, picked, droppedForToken, started, sharedVars>>

(* The phone never initiates: it answers the advertisement.                *)
PhoneConnects ==
    /\ ~link /\ advertised /\ Len(events) < MaxNews
    /\ link' = TRUE
    /\ Tell(Connected)
    /\ UNCHANGED <<call, advertised, faults, broker, registered, gtbsVars,
                   sharedVars>>

(* bluetoothd exits and returns without its clients' registrations.  The   *)
(* phone may have left meanwhile, and then nobody is told.                 *)
BluetoothdRestarts ==
    /\ faults < MaxFaults
    /\ faults' = faults + 1
    /\ link' \in {link, FALSE}
    /\ advertised' = FALSE
    /\ subscribed' = FALSE
    /\ Tell(NameLost)
    /\ UNCHANGED <<call, broker, registered, news, gtbs, seen, picked,
                   droppedForToken, started, sharedVars>>

----------------------------------------------------------------------------
(* runBlueZOnce.  It subscribes, reads the bearer, resets it if the phone  *)
(* is connected, and otherwise advertises; then it serves events.          *)

BrokerStarts ==
    /\ broker = "down"
    /\ broker' = "reading"
    /\ events' = <<>>
    /\ registered' = FALSE
    /\ UNCHANGED <<phoneVars, gtbsVars, sharedVars>>

BrokerReads ==
    /\ broker = "reading"
    /\ broker' = IF link THEN "resetting" ELSE "register"
    /\ UNCHANGED <<phoneVars, events, registered, gtbsVars, sharedVars>>

(* resetLEBearer; a failure is logged and the link is taken as it is.      *)
BrokerResets ==
    /\ broker = "resetting"
    /\ \/ /\ broker' = "loop"
          /\ UNCHANGED <<link, events, news>>
       \/ /\ broker' = "register"
          /\ IF link THEN BearerDrops ELSE UNCHANGED <<link, events, news>>
    /\ UNCHANGED <<call, advertised, faults, registered, subscribed, gtbs,
                   seen, picked, droppedForToken, started, sharedVars>>

(* setAdvertisement; unregistering what bluetoothd has forgotten fails and *)
(* ends runBlueZOnce, which Run then starts again.                         *)
SetAdvertisement(enable) ==
    IF enable = registered
    THEN broker' = "loop" /\ UNCHANGED <<registered, advertised>>
    ELSE /\ registered' = enable
         /\ advertised' = enable
         /\ broker' = IF enable # advertised THEN "loop" ELSE "down"

BrokerRegisters ==
    /\ broker = "register"
    /\ SetAdvertisement(TRUE)
    /\ UNCHANGED <<call, link, faults, events, gtbsVars, sharedVars>>

(* The hold is read under the mutex, the registration happens after it.    *)
OnDisconnected ==
    /\ broker' = IF hold THEN "loop" ELSE "register"
    /\ UNCHANGED <<registered, advertised>>

(* Mutant: the event loop goes on when bluetoothd leaves the bus.          *)
OnNameLostStays ==
    /\ broker' = "loop"
    /\ UNCHANGED <<registered, advertised>>

OnNameLost ==
    /\ broker' = "down"
    /\ registered' = FALSE
    /\ advertised' = FALSE

BrokerHandles ==
    /\ broker = "loop" /\ events # <<>>
    /\ events' = Tail(events)
    /\ \/ Head(events) = Connected /\ SetAdvertisement(FALSE)
       \/ Head(events) = Disconnected /\ OnDisconnected
       \/ Head(events) = NameLost /\ OnNameLost
    /\ UNCHANGED <<call, link, faults, gtbsVars, sharedVars>>

BrokerRearms ==
    /\ broker = "loop" /\ rearm
    /\ rearm' = FALSE
    /\ broker' = IF link \/ hold THEN "loop" ELSE "register"
    /\ UNCHANGED <<phoneVars, events, registered, gtbsVars, hold, dropping>>

----------------------------------------------------------------------------
(* The GTBS session and the Snapshot callback it runs.                     *)

(* A session needs the bearer; its first snapshot is what it reads.        *)
SessionStarts ==
    /\ gtbs = "down" /\ link
    /\ gtbs' = "hold"
    /\ subscribed' = TRUE
    /\ seen' = call
    /\ news' = <<>>
    /\ UNCHANGED <<phoneVars, brokerVars, picked, droppedForToken, started, sharedVars>>

SessionHandles ==
    /\ gtbs = "up" /\ news # <<>>
    /\ IF Head(news) = Disconnected
       THEN /\ gtbs' = "down"
            /\ news' = <<>>
            /\ UNCHANGED seen
       ELSE /\ gtbs' = "hold"
            /\ seen' = Head(news).calls
            /\ news' = Tail(news)
    /\ UNCHANGED <<phoneVars, brokerVars, subscribed, picked, droppedForToken, started,
                   sharedVars>>

HandsetAnswered ==
    LET answered == {c \in Calls : seen[c] = Handset} IN
    IF answered = {} THEN {0} ELSE answered

(* Mutant: releasing the hold leaves the rearming to the next disconnect.  *)
HoldWithoutRearm(on) == hold' = on /\ UNCHANGED rearm

(* HoldAdvertisement: releasing asks the event loop to rearm.              *)
HoldAdvertisement(on) ==
    /\ hold' = on
    /\ rearm' = (rearm \/ (hold /\ ~on))

SnapshotHolds ==
    /\ gtbs = "hold"
    /\ \E token \in HandsetAnswered :
           /\ HoldAdvertisement(token # 0)
           /\ picked' = token
           /\ IF token = 0
              THEN gtbs' = "up" /\ droppedForToken' = 0
              ELSE gtbs' = "drop" /\ UNCHANGED droppedForToken
    /\ UNCHANGED <<phoneVars, brokerVars, news, subscribed, seen, started, dropping>>

SnapshotDrops ==
    /\ gtbs = "drop"
    /\ gtbs' = "up"
    /\ droppedForToken' = picked
    /\ IF picked = droppedForToken
       THEN UNCHANGED <<dropping, started>>
       ELSE /\ dropping < MaxDropping
            /\ dropping' = dropping + 1
            /\ started' = [started EXCEPT ![picked] = IF @ < 2 THEN @ + 1 ELSE @]
    /\ UNCHANGED <<phoneVars, brokerVars, news, subscribed, seen, picked, hold, rearm>>

(* DropLEBearer on a goroutine of its own.  It does nothing when the       *)
(* broker has no connection, and resetLEBearer may fail.                   *)
DropRuns ==
    /\ dropping > 0
    /\ dropping' = dropping - 1
    /\ \/ link /\ broker # "down" /\ BearerDrops
       \/ UNCHANGED <<link, events, news>>
    /\ UNCHANGED <<call, advertised, faults, broker, registered, subscribed,
                   gtbs, seen, picked, droppedForToken, started, hold, rearm>>

----------------------------------------------------------------------------
HandbackInit ==
    /\ call = [c \in Calls |-> "future"]
    /\ link \in BOOLEAN /\ advertised = FALSE
    /\ faults = 0
    /\ events = <<>> /\ broker = "down" /\ registered = FALSE
    /\ hold = FALSE /\ rearm = FALSE /\ dropping = 0
    /\ news = <<>> /\ subscribed = FALSE /\ gtbs = "down"
    /\ seen = call /\ picked = 0 /\ droppedForToken = 0
    /\ started = [c \in Calls |-> 0]

BrokerStep == \/ BrokerStarts \/ BrokerReads \/ BrokerResets \/ BrokerRegisters
              \/ BrokerHandles

SessionStep == SessionStarts \/ SessionHandles \/ SnapshotHolds \/ SnapshotDrops

CallEnds(c) == call[c] \in Present /\ CallMoves(c) /\ call'[c] = "over"

HandbackNext ==
    \/ \E c \in Calls : CallMoves(c)
    \/ OutOfRange \/ PhoneConnects \/ BluetoothdRestarts
    \/ BrokerStep \/ BrokerRearms
    \/ SessionStep \/ DropRuns

(* The goroutines run; Go's select serves a rearm request and the event    *)
(* channel fairly; a phone in range answers an advertisement; calls end.   *)
HandbackSpec ==
    /\ HandbackInit /\ [][HandbackNext]_handbackVars
    /\ WF_handbackVars(BrokerStep)
    /\ SF_handbackVars(BrokerRearms)
    /\ WF_handbackVars(SessionStep)
    /\ WF_handbackVars(DropRuns)
    /\ WF_handbackVars(PhoneConnects)
    /\ \A c \in Calls : WF_handbackVars(CallEnds(c))

----------------------------------------------------------------------------
(* The event loop has nothing left to react to.                            *)
LoopIdle == broker = "loop" /\ events = <<>> /\ ~rearm

(* Every variable keeps its type.                                          *)
HandbackTypeOK ==
    /\ call \in [Calls -> Present \cup {"future", "over"}]
    /\ seen \in [Calls -> Present \cup {"future", "over"}]
    /\ link \in BOOLEAN /\ advertised \in BOOLEAN /\ registered \in BOOLEAN
    /\ hold \in BOOLEAN /\ rearm \in BOOLEAN /\ subscribed \in BOOLEAN
    /\ faults \in 0..MaxFaults
    /\ broker \in {"down", "reading", "resetting", "register", "loop"}
    /\ gtbs \in {"down", "up", "hold", "drop"}
    /\ picked \in Calls \cup {0} /\ droppedForToken \in Calls \cup {0}
    /\ dropping \in 0..MaxDropping /\ started \in [Calls -> 0..2]

(* README: advertising runs "only while the phone's LE bearer is           *)
(* disconnected".  Once the loop has caught up it is silent for a          *)
(* connected phone, and it advertises for an absent one unless held: no    *)
(* order of drops, holds, releases and rearm requests loses the rearming.  *)
AdvertisingFollowsBearer ==
    LoopIdle => /\ link => ~advertised
                /\ (~link /\ ~hold) => advertised

(* HoldAdvertisement: "the advertisement has to stay down until the call   *)
(* ends".  A bearer that is gone while the hold is on is not advertised    *)
(* for, also after runBlueZOnce has registered everything anew.            *)
HeldAdvertisementStaysDown ==
    (LoopIdle /\ hold /\ ~link) => ~advertised

(* main.go: "Dropping once per token".                                     *)
DropsOncePerToken == \A c \in Calls : started[c] <= 1

(* DropLEBearer: "the phone reconnects without help".  A phone that is     *)
(* away while nothing is held comes back, or a call is handed back.        *)
AwayPhoneReturns == (~link /\ ~hold) ~> (link \/ hold)

(* HoldAdvertisement: "releasing the hold has to rearm it".  When no call  *)
(* is left on the handset the hold ends.                                   *)
HoldEndsWithTheCall ==
    (hold /\ \A c \in Calls : call[c] # Handset) ~> ~hold

(* bluezNameLost: "The GTBS client recovers on its own because it          *)
(* retries".  A session that bluetoothd has forgotten, with the phone gone *)
(* as well, does not stay up.                                              *)
ForgottenSessionEnds ==
    (SessionUp /\ ~subscribed /\ ~link) ~> (~SessionUp \/ subscribed)

============================================================================
