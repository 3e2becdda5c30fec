--------------------------- MODULE ControlServer ---------------------------
(***************************************************************************)
(* The call-control server (control/server.go) between the GTBS session    *)
(* and its peer, Asterisk: one listening socket, at most one client, and   *)
(* two goroutines that share it.  The session goroutine broadcasts         *)
(* snapshots and readiness (the callbacks of runServe); the server's own   *)
(* loop accepts peers and executes their commands.                         *)
(*                                                                         *)
(* A descriptor is a small number and the kernel reuses it, so the loop's  *)
(* local copy of it may come to name another connection.                   *)
(***************************************************************************)
EXTENDS Integers, Sequences

CONSTANTS
    MaxPeers,      \* bound: connections the peer opens
    MaxSequence,   \* bound on the store's sequence
    MaxCommands    \* bound: packets the server has not read

ASSUME BoundsAssumption == MaxPeers \in Nat /\ MaxSequence \in Nat /\ MaxCommands \in Nat

VARIABLES
    sequence,     \* the store's sequence: which snapshot is current
    session,      \* the session goroutine: what it is about to broadcast
    up,           \* whether the GTBS session is established
    ready,        \* Server.ready
    clientFD,     \* Server.clientFD
    table,        \* descriptor number -> the connection it names
    opened,       \* connections opened so far; they are numbered from 1
    queue,        \* connections not accepted yet
    gone,         \* connections closed by the peer
    inbox,        \* connection -> packets sent to the server
    got,          \* connection -> the snapshot and readiness received last
    loop          \* Run: where it is, and what poll told it

peerVars == <<opened, queue, gone, inbox>>
controlVars == <<sequence, session, up, ready, clientFD, table, peerVars, got, loop>>

Peers == 1..MaxPeers
FDs == 1..2
NoFD == 0
NoPeer == 0
NoUpdate == [snapshot |-> -1, ready |-> FALSE]
Polling == [pc |-> "poll", client |-> NoFD, join |-> FALSE, read |-> FALSE,
            hup |-> FALSE, sender |-> NoPeer]

----------------------------------------------------------------------------
(* The connection clientFD names.                                          *)
Client == table[clientFD]

(* closeClientLocked.                                                      *)
CloseClient ==
    /\ clientFD' = NoFD
    /\ table' = [table EXCEPT ![clientFD] = NoPeer]

(* sendMessagesLocked: the batch arrives, or a send fails and closes the   *)
(* client.  A send to a peer that is gone fails.                           *)
Send(update) ==
    IF clientFD = NoFD
    THEN UNCHANGED <<clientFD, table, got>>
    ELSE \/ /\ Client \notin gone
            /\ got' = [got EXCEPT ![Client] = update]
            /\ UNCHANGED <<clientFD, table>>
         \/ CloseClient /\ UNCHANGED got

(* dropClient, by number.                                                  *)
DropClient(fd) ==
    IF clientFD = fd /\ fd # NoFD THEN CloseClient ELSE UNCHANGED <<clientFD, table>>

----------------------------------------------------------------------------
(* The session goroutine: a change of the store is followed by a broadcast *)
(* of the snapshot taken then, and readiness follows the session.          *)

StoreChanges ==
    /\ session = "idle" /\ up /\ sequence < MaxSequence
    /\ sequence' = sequence + 1
    /\ session' = "broadcast"
    /\ UNCHANGED <<up, ready, clientFD, table, peerVars, got, loop>>

(* The Snapshot callback, which passes the snapshot on by value; only this *)
(* goroutine changes the store, so it is still the current one.            *)
BroadcastSnapshot ==
    /\ session = "broadcast"
    /\ Send([got[Client] EXCEPT !.snapshot = sequence])
    /\ session' = "idle"
    /\ UNCHANGED <<sequence, up, ready, peerVars, loop>>

(* The Result callback.                                                    *)
BroadcastResult ==
    /\ session = "idle" /\ up
    /\ Send(got[Client])
    /\ UNCHANGED <<sequence, session, up, ready, peerVars, loop>>

SessionTurns ==
    /\ session = "idle"
    /\ up' = ~up
    /\ session' = "ready"
    /\ UNCHANGED <<sequence, ready, clientFD, table, peerVars, got, loop>>

(* Mutant: readiness is recorded, and the client is not told.              *)
SetReadySilently ==
    /\ session = "ready"
    /\ ready' = up
    /\ session' = "idle"
    /\ UNCHANGED <<sequence, up, clientFD, table, peerVars, got, loop>>

(* SetReady: nothing is sent when it does not change.                      *)
SetReady ==
    /\ session = "ready"
    /\ ready' = up
    /\ IF ready = up THEN UNCHANGED <<clientFD, table, got>>
                     ELSE Send([got[Client] EXCEPT !.ready = up])
    /\ session' = "idle"
    /\ UNCHANGED <<sequence, up, peerVars, loop>>

----------------------------------------------------------------------------
(* The peer: it connects, writes commands (or packets that do not decode), *)
(* and closes.                                                             *)

PeerConnects ==
    /\ opened < MaxPeers
    /\ opened' = opened + 1
    /\ queue' = Append(queue, opened + 1)
    /\ UNCHANGED <<sequence, session, up, ready, clientFD, table, gone, inbox, got, loop>>

PeerWrites(c, packet) ==
    /\ c <= opened /\ c \notin gone /\ Len(inbox[c]) < MaxCommands
    /\ inbox' = [inbox EXCEPT ![c] = Append(@, packet)]
    /\ UNCHANGED <<sequence, session, up, ready, clientFD, table, opened, queue, gone,
                   got, loop>>

PeerCloses(c) ==
    /\ c <= opened /\ c \notin gone
    /\ gone' = gone \cup {c}
    /\ UNCHANGED <<sequence, session, up, ready, clientFD, table, opened, queue, inbox,
                   got, loop>>

----------------------------------------------------------------------------
(* Run.                                                                    *)

LoopTo(pc) == loop' = [loop EXCEPT !.pc = pc]

Poll ==
    LET hup == clientFD # NoFD /\ Client \in gone
        read == clientFD # NoFD /\ (hup \/ inbox[Client] # <<>>)
    IN
    /\ loop.pc = "poll"
    /\ queue # <<>> \/ read
    /\ loop' = [pc |-> "accept", client |-> clientFD, join |-> queue # <<>>,
                 read |-> read, hup |-> hup, sender |-> NoPeer]
    /\ UNCHANGED <<sequence, session, up, ready, clientFD, table, peerVars, got>>

AcceptSkipped ==
    /\ loop.pc = "accept" /\ ~loop.join
    /\ LoopTo("receive")
    /\ UNCHANGED <<sequence, session, up, ready, clientFD, table, peerVars, got>>

(* Mutant: a new peer takes the place of the client.                       *)
AcceptReplaces ==
    LET c == Head(queue) IN
    /\ loop.pc = "accept" /\ loop.join
    /\ LoopTo("receive")
    /\ queue' = Tail(queue)
    /\ \E fd \in FDs : /\ table[fd] = NoPeer
                       /\ clientFD' = fd
                       /\ table' = [table EXCEPT ![fd] = c]
    /\ got' = [got EXCEPT ![c] = [snapshot |-> sequence, ready |-> ready]]
    /\ UNCHANGED <<sequence, session, up, ready, opened, gone, inbox>>

(* Mutant: while there is a client, a second peer stays in the backlog.    *)
AcceptOnlyWhenFree ==
    LET c == Head(queue) IN
    /\ loop.pc = "accept" /\ loop.join
    /\ LoopTo("receive")
    /\ IF clientFD = NoFD
       THEN \E fd \in FDs : /\ table[fd] = NoPeer
                            /\ clientFD' = fd
                            /\ table' = [table EXCEPT ![fd] = c]
                            /\ queue' = Tail(queue)
                            /\ got' = [got EXCEPT ![c] = [snapshot |-> sequence, ready |-> ready]]
       ELSE UNCHANGED <<clientFD, table, queue, got>>
    /\ UNCHANGED <<sequence, session, up, ready, opened, gone, inbox>>

(* accept: a second peer is refused; a new one is sent the snapshot and    *)
(* readiness of the moment, under the lock that makes it the client.       *)
Accept ==
    LET c == Head(queue) IN
    /\ loop.pc = "accept" /\ loop.join
    /\ LoopTo("receive")
    /\ queue' = Tail(queue)
    /\ \/ /\ clientFD = NoFD /\ c \notin gone
          /\ \E fd \in FDs : /\ table[fd] = NoPeer
                             /\ clientFD' = fd
                             /\ table' = [table EXCEPT ![fd] = c]
          /\ got' = [got EXCEPT ![c] = [snapshot |-> sequence, ready |-> ready]]
       \/ UNCHANGED <<clientFD, table, got>>
    /\ UNCHANGED <<sequence, session, up, ready, opened, gone, inbox>>

(* receive, on the number poll was given: a command is executed by this    *)
(* goroutine; the end of the stream, an undecodable packet and a number    *)
(* that is not open drop the client.                                       *)
Receive ==
    LET c == IF loop.client = NoFD THEN NoPeer ELSE table[loop.client] IN
    /\ loop.pc = "receive"
    /\ IF ~loop.read
       THEN LoopTo("hup") /\ UNCHANGED <<clientFD, table, inbox>>
       ELSE IF c # NoPeer /\ inbox[c] # <<>>
       THEN /\ inbox' = [inbox EXCEPT ![c] = Tail(@)]
            /\ IF Head(inbox[c]) = "command"
               THEN /\ loop' = [loop EXCEPT !.pc = "execute", !.sender = c]
                    /\ UNCHANGED <<clientFD, table>>
               ELSE LoopTo("hup") /\ DropClient(loop.client)
       ELSE /\ IF c # NoPeer /\ c \notin gone THEN UNCHANGED <<clientFD, table>>
                                             ELSE DropClient(loop.client)
            /\ LoopTo("hup") /\ UNCHANGED inbox
    /\ UNCHANGED <<sequence, session, up, ready, opened, queue, gone, got>>

(* The handler returned, within its five seconds; the acknowledgement goes *)
(* to the client of the moment.                                            *)
Acknowledge ==
    /\ loop.pc = "execute"
    /\ Send(got[Client])
    /\ LoopTo("hup")
    /\ UNCHANGED <<sequence, session, up, ready, peerVars>>

HangUp ==
    /\ loop.pc = "hup"
    /\ IF loop.hup THEN DropClient(loop.client) ELSE UNCHANGED <<clientFD, table>>
    /\ loop' = Polling
    /\ UNCHANGED <<sequence, session, up, ready, peerVars, got>>

----------------------------------------------------------------------------
ControlInit ==
    /\ sequence = 0 /\ session = "idle" /\ up = FALSE /\ ready = FALSE
    /\ clientFD = NoFD /\ table = [fd \in FDs |-> NoPeer]
    /\ opened = 0 /\ queue = <<>> /\ gone = {}
    /\ inbox = [c \in Peers |-> <<>>] /\ got = [c \in Peers |-> NoUpdate]
    /\ loop = Polling

Loop == \/ Poll \/ AcceptSkipped \/ Accept \/ Receive \/ Acknowledge \/ HangUp

Session == StoreChanges \/ BroadcastSnapshot \/ BroadcastResult \/ SessionTurns \/ SetReady

ControlNext == \/ Session \/ Loop \/ PeerConnects
        \/ \E c \in Peers : \/ PeerCloses(c)
                            \/ \E packet \in {"command", "garbage"} : PeerWrites(c, packet)

ControlSpec == ControlInit /\ [][ControlNext]_controlVars /\ WF_controlVars(Loop)

----------------------------------------------------------------------------
(* Every variable keeps its type; clientFD names an open connection.       *)
ControlTypeOK ==
    /\ sequence \in 0..MaxSequence /\ session \in {"idle", "broadcast", "ready"}
    /\ up \in BOOLEAN /\ ready \in BOOLEAN
    /\ table \in [FDs -> Peers \cup {NoPeer}]
    /\ clientFD # NoFD => table[clientFD] # NoPeer
    /\ opened \in 0..MaxPeers /\ gone \subseteq 1..opened
    /\ got \in [Peers -> [snapshot : -1..MaxSequence, ready : BOOLEAN]]
    /\ loop.pc \in {"poll", "accept", "receive", "execute", "hup"}

(* The client has the latest snapshot and readiness whenever the session   *)
(* goroutine is between two broadcasts, whether they were broadcast to it  *)
(* or sent on accept, and however its connection raced them.  A client     *)
(* that missed one would act on calls that are gone.                       *)
ClientIsUpToDate ==
    clientFD # NoFD /\ session = "idle" =>
        got[Client] = [snapshot |-> sequence, ready |-> ready]

(* The acknowledgement of a command reaches the connection that sent it or *)
(* nobody, even when that connection is lost and another one waits while   *)
(* the command executes.                                                   *)
AckGoesToItsSender ==
    loop.pc = "execute" /\ clientFD # NoFD => Client = loop.sender

(* A peer that connects is answered, served or refused, whatever the       *)
(* client before it does.                                                  *)
WaitingPeerIsAnswered ==
    \A c \in Peers :
        (\E i \in 1..Len(queue) : queue[i] = c) ~> ~(\E i \in 1..Len(queue) : queue[i] = c)

============================================================================
