--------------------------- MODULE HandoffServer ---------------------------
(***************************************************************************)
(* The media handoff (bluez/handoff.go): Run accepts the one media peer,   *)
(* Asterisk, and notices when it goes away; PublishPair, called by an      *)
(* acquire goroutine of the broker, sends it the two descriptors of a      *)
(* session.  The generations come from nextDescriptorGenerationLocked of   *)
(* the broker, whose process may restart while Asterisk lives on.          *)
(***************************************************************************)
EXTENDS Integers, Sequences

CONSTANTS
    MaxPeers,      \* bound: connections the peer opens
    MaxClock,      \* bound on CLOCK_BOOTTIME
    MaxRestarts    \* bound: restarts of the broker process

ASSUME BoundsAssumption == MaxPeers \in Nat /\ MaxClock \in Nat /\ MaxRestarts \in Nat

VARIABLES
    clock,        \* CLOCK_BOOTTIME
    lastGen,      \* Broker.lastGen
    published,    \* HandoffServer.lastGen and lastBundle
    session,      \* the generation of activeSession, 0 for nil
    holder,       \* history: the connection that was sent that session
    clientFD,     \* the connection that is the client, 0 for -1
    loop,         \* where Run is
    polled,       \* the client Run polled, if it must be looked at
    opened, queue, gone,   \* the peer's connections
    received,     \* connection -> descriptors received
    newest,       \* Asterisk's anti-replay state: the newest bundle it took
    replayed,     \* history: Asterisk was sent a bundle that was not newer
    restarts

peerVars == <<opened, queue, gone>>
genVars == <<clock, lastGen, published>>
sessionVars == <<session, holder>>
runVars == <<clientFD, loop, polled>>
asterisk == <<received, newest, replayed>>
vars == <<genVars, sessionVars, runVars, peerVars, asterisk, restarts>>

Peers == 1..MaxPeers
NoPeer == 0

----------------------------------------------------------------------------
(* Mutant: a counter alone.                                                *)
CounterOnly(last) == last + 1

(* nextDescriptorGenerationLocked.                                         *)
NextGeneration(last) == IF clock <= last THEN last + 1 ELSE clock

Tick ==
    /\ clock < MaxClock
    /\ clock' = clock + 1
    /\ UNCHANGED <<lastGen, published, sessionVars, runVars, peerVars, asterisk, restarts>>

(* PublishPair refuses a generation that is not newer than the last one it *)
(* sent, and works only with a client.                                     *)
Stale(sink, source) == sink <= published.sink \/ source <= published.source

(* Mutant: a failed send keeps the client.                                 *)
SendFailsQuietly == UNCHANGED clientFD

(* sendDescriptorLocked closes the client when a send fails.               *)
SendFails == clientFD' = NoPeer

(* Called for a pair acquire holds the reservations of, so never with an   *)
(* active session.  Asterisk has the sink if only the second send failed.  *)
PublishPair ==
    LET sink == NextGeneration(lastGen)
        source == NextGeneration(sink)
        Receives(what) == received' = [received EXCEPT ![clientFD] = @ \o what]
    IN
    /\ session = 0
    /\ sink < MaxClock
    /\ lastGen' = source
    /\ \/ /\ Stale(sink, source) \/ clientFD = NoPeer
          /\ UNCHANGED <<published, sessionVars, clientFD, asterisk>>
       \/ /\ ~Stale(sink, source) /\ clientFD # NoPeer
          /\ \/ /\ clientFD \notin gone
                /\ Receives(<<[direction |-> "sink", bundle |-> sink],
                              [direction |-> "source", bundle |-> sink]>>)
                /\ newest' = sink
                /\ replayed' = (replayed \/ sink <= newest)
                /\ published' = [sink |-> sink, source |-> source]
                /\ session' = sink /\ holder' = clientFD
                /\ UNCHANGED clientFD
             \/ /\ clientFD \notin gone
                /\ Receives(<<[direction |-> "sink", bundle |-> sink]>>)
                /\ newest' = sink
                /\ replayed' = (replayed \/ sink <= newest)
                /\ SendFails
                /\ UNCHANGED <<published, sessionVars>>
             \/ SendFails /\ UNCHANGED <<published, sessionVars, asterisk>>
    /\ UNCHANGED <<clock, loop, polled, peerVars, restarts>>

(* The session ends for a reason of its own (MediaSession).                *)
SessionEnds ==
    /\ session # 0
    /\ session' = 0 /\ holder' = NoPeer
    /\ UNCHANGED <<genVars, runVars, peerVars, asterisk, restarts>>

----------------------------------------------------------------------------
(* Mutant: only the listening socket is polled.                            *)
PollListener ==
    /\ loop = "poll" /\ queue # <<>>
    /\ polled' = NoPeer
    /\ loop' = "check"
    /\ UNCHANGED <<genVars, sessionVars, clientFD, peerVars, asterisk, restarts>>

(* Run.  The client is looked at before a new peer is accepted, and only   *)
(* Run accepts, so a number it polled cannot come to name another peer.    *)
Poll ==
    /\ loop = "poll"
    /\ queue # <<>> \/ clientFD \in gone
    /\ polled' = IF clientFD \in gone THEN clientFD ELSE NoPeer
    /\ loop' = "check"
    /\ UNCHANGED <<genVars, sessionVars, clientFD, peerVars, asterisk, restarts>>

(* Mutant: the client is closed, and the disconnect handler is not called. *)
CheckClientQuietly ==
    /\ loop = "check"
    /\ clientFD' = IF polled # NoPeer /\ clientFD = polled THEN NoPeer ELSE clientFD
    /\ loop' = "accept"
    /\ UNCHANGED <<genVars, sessionVars, polled, peerVars, asterisk, restarts>>

CheckClient ==
    /\ loop = "check"
    /\ IF polled # NoPeer /\ clientFD = polled
       THEN clientFD' = NoPeer /\ loop' = "report"
       ELSE loop' = "accept" /\ UNCHANGED clientFD
    /\ UNCHANGED <<genVars, sessionVars, polled, peerVars, asterisk, restarts>>

(* The disconnect handler asks for the release of the active session.      *)
Report ==
    /\ loop = "report"
    /\ loop' = "accept"
    /\ session' = 0 /\ holder' = NoPeer
    /\ UNCHANGED <<genVars, clientFD, polled, peerVars, asterisk, restarts>>

(* A second peer, or one with other credentials, is turned away.           *)
Accept ==
    /\ loop = "accept"
    /\ loop' = "poll" /\ polled' = NoPeer
    /\ IF queue = <<>>
       THEN UNCHANGED <<clientFD, queue>>
       ELSE /\ queue' = Tail(queue)
            /\ \/ clientFD = NoPeer /\ clientFD' = Head(queue)
               \/ UNCHANGED clientFD
    /\ UNCHANGED <<genVars, sessionVars, opened, gone, asterisk, restarts>>

PeerConnects ==
    /\ opened < MaxPeers
    /\ opened' = opened + 1
    /\ queue' = Append(queue, opened + 1)
    /\ UNCHANGED <<genVars, sessionVars, runVars, gone, asterisk, restarts>>

(* The peer closes, or writes what it has no business to write.            *)
PeerCloses(c) ==
    /\ c <= opened /\ c \notin gone
    /\ gone' = gone \cup {c}
    /\ UNCHANGED <<genVars, sessionVars, runVars, opened, queue, asterisk, restarts>>

(* The broker process restarts, which takes longer than the nanoseconds by *)
(* which lastGen may lead the clock.  Its connections end.                 *)
BrokerRestarts ==
    /\ restarts < MaxRestarts /\ clock > lastGen
    /\ restarts' = restarts + 1
    /\ lastGen' = 0 /\ published' = [sink |-> 0, source |-> 0]
    /\ session' = 0 /\ holder' = NoPeer
    /\ clientFD' = NoPeer /\ loop' = "poll" /\ polled' = NoPeer
    /\ queue' = <<>> /\ gone' = 1..opened
    /\ UNCHANGED <<clock, opened, asterisk>>

----------------------------------------------------------------------------
Init ==
    /\ clock = 1 /\ lastGen = 0 /\ published = [sink |-> 0, source |-> 0]
    /\ session = 0 /\ holder = NoPeer
    /\ clientFD = NoPeer /\ loop = "poll" /\ polled = NoPeer
    /\ opened = 0 /\ queue = <<>> /\ gone = {}
    /\ received = [c \in Peers |-> <<>>] /\ newest = 0 /\ replayed = FALSE
    /\ restarts = 0

Run == Poll \/ CheckClient \/ Report \/ Accept

Next == \/ Tick \/ PublishPair \/ SessionEnds \/ Run \/ BrokerRestarts
        \/ PeerConnects \/ \E c \in Peers : PeerCloses(c)

Spec == Init /\ [][Next]_vars /\ WF_vars(Run)

----------------------------------------------------------------------------
(* Every variable keeps its type; the two generations of a pair are in     *)
(* order, and the session carries the first of them.                       *)
TypeOK ==
    /\ clock \in 1..MaxClock /\ lastGen \in Nat
    /\ published.sink \in Nat /\ published.source \in Nat
    /\ published.source # 0 => published.sink < published.source
    /\ session \in {0, published.sink} /\ holder \in Peers \cup {NoPeer}
    /\ clientFD \in Peers \cup {NoPeer} /\ polled \in Peers \cup {NoPeer}
    /\ loop \in {"poll", "check", "report", "accept"}
    /\ opened \in 0..MaxPeers /\ gone \subseteq Peers
    /\ newest \in Nat /\ replayed \in BOOLEAN /\ restarts \in 0..MaxRestarts

(* Asterisk never takes a bundle that is not newer than the last one, over *)
(* failed publishes, new connections and restarts of the broker: the       *)
(* generations stay monotonic, as nextDescriptorGenerationLocked promises. *)
(* Nor is the next publish refused as stale: the broker's counter and the  *)
(* server's memory of it cannot disagree.                                  *)
BundlesIncrease ==
    LET sink == NextGeneration(lastGen)
    IN ~replayed /\ ~Stale(sink, NextGeneration(sink))

(* A live session belongs to the connected peer; when that peer is gone    *)
(* the disconnect handler is on its way, and it cannot meet the session of *)
(* a newer peer.                                                           *)
SessionBelongsToItsPeer ==
    /\ session # 0 => holder = clientFD \/ loop = "report"
    /\ loop = "report" => clientFD = NoPeer /\ holder \in {NoPeer, polled}

(* On every connection descriptors come in pairs of one bundle; half a     *)
(* pair is the last thing a connection carries before the broker closes it.*)
PairsArriveWhole ==
    \A c \in Peers :
        LET r == received[c] IN
        /\ \A i \in 1..Len(r) :
              r[i].direction = IF i % 2 = 1 THEN "sink" ELSE "source"
        /\ \A i \in 1..Len(r) : i % 2 = 0 => r[i].bundle = r[i - 1].bundle
        /\ Len(r) % 2 = 1 => clientFD # c

(* The loss of the peer is noticed and the session it had comes to an end. *)
LostPeerEndsSession ==
    \A c \in Peers : (clientFD = c /\ c \in gone) ~> (clientFD # c /\ holder # c)

============================================================================
