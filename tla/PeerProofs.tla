---------------------------- MODULE PeerProofs -----------------------------
(***************************************************************************)
(* Proofs about what the services settle with their two peers: with        *)
(* Asterisk over the control socket, for any number of connections,        *)
(* snapshots and commands; and with the phone about codec and QoS, for     *)
(* every offer, configuration, QoS dictionary and MTU.                     *)
(***************************************************************************)
EXTENDS ControlServer, Negotiation, TLAPS

Update == [snapshot : Int, ready : BOOLEAN]

LoopState == [pc : {"poll", "accept", "receive", "execute", "hup"},
              client : FDs \cup {NoFD}, join : BOOLEAN, read : BOOLEAN, hup : BOOLEAN,
              sender : Int]

Types ==
    /\ sequence \in Int /\ session \in {"idle", "broadcast", "ready"}
    /\ up \in BOOLEAN /\ ready \in BOOLEAN
    /\ opened \in Nat /\ queue \in Seq(Peers)
    /\ got \in [Peers -> Update]
    /\ loop \in LoopState
    /\ loop.pc = "accept" /\ loop.join => queue # <<>>

(* Only the client's descriptor is open: Run closes a connection it        *)
(* refuses before it goes on.                                              *)
TableInv ==
    /\ clientFD \in FDs \cup {NoFD}
    /\ table \in [FDs -> Peers \cup {NoPeer}]
    /\ \A fd \in FDs : table[fd] # NoPeer <=> fd = clientFD

(* The client lacks at most the snapshot that is about to be broadcast.    *)
GotInv ==
    clientFD # NoFD =>
        /\ got[Client].ready = ready
        /\ session # "broadcast" => got[Client].snapshot = sequence

ControlInv == Types /\ TableInv /\ GotInv /\ AckGoesToItsSender

----------------------------------------------------------------------------
(* closeClientLocked leaves no descriptor open.                            *)
LEMMA Closed ==
    ASSUME TableInv, CloseClient, clientFD # NoFD
    PROVE  TableInv' /\ clientFD' = NoFD
BY DEF TableInv, CloseClient, FDs, NoFD

(* dropClient keeps the client or closes it.                               *)
LEMMA Dropped ==
    ASSUME TableInv, NEW fd, DropClient(fd)
    PROVE  /\ TableInv'
           /\ UNCHANGED <<clientFD, table>> \/ clientFD' = NoFD
<1>1. CASE clientFD = fd /\ fd # NoFD
  BY <1>1, Closed DEF DropClient
<1>2. CASE ~(clientFD = fd /\ fd # NoFD)
  BY <1>2 DEF DropClient, TableInv
<1>. QED
  BY <1>1, <1>2

(* sendMessagesLocked delivers to the client and nobody else, or closes it.*)
LEMMA Sent ==
    ASSUME Types, TableInv, NEW update, Send(update),
           clientFD # NoFD => update \in Update
    PROVE  /\ TableInv' /\ got' \in [Peers -> Update]
           /\ \/ clientFD' = NoFD
              \/ /\ UNCHANGED <<clientFD, table>> /\ clientFD # NoFD
                 /\ got'[Client] = update
<1>1. CASE clientFD = NoFD
  BY <1>1 DEF Send, TableInv, Types
<1>2. CASE clientFD # NoFD
  <2>1. Client \in Peers
    BY <1>2 DEF TableInv, Client
  <2>2. CASE CloseClient /\ UNCHANGED got
    BY <1>2, <2>2, Closed DEF Types
  <2>3. CASE got' = [got EXCEPT ![Client] = update] /\ UNCHANGED <<clientFD, table>>
    <3>1. got' \in [Peers -> Update] /\ got'[Client] = update
      BY <1>2, <2>1, <2>3 DEF Types
    <3>. QED
      BY <1>2, <2>3, <3>1 DEF TableInv
  <2>. QED
    BY <1>2, <2>2, <2>3 DEF Send
<1>. QED
  BY <1>1, <1>2

(* The record with one field changed is still an update.                   *)
LEMMA Updates ==
    ASSUME Types, TableInv, clientFD # NoFD, NEW b \in BOOLEAN, NEW n \in Int
    PROVE  /\ Client \in Peers
           /\ got[Client] \in Update
           /\ [got[Client] EXCEPT !.snapshot = n] \in Update
           /\ [got[Client] EXCEPT !.snapshot = n].snapshot = n
           /\ [got[Client] EXCEPT !.snapshot = n].ready = got[Client].ready
           /\ [got[Client] EXCEPT !.ready = b] \in Update
           /\ [got[Client] EXCEPT !.ready = b].ready = b
           /\ [got[Client] EXCEPT !.ready = b].snapshot = got[Client].snapshot
<1>1. Client \in Peers
  BY DEF TableInv, Client
<1>2. got[Client] \in Update
  BY <1>1 DEF Types
<1>. QED
  BY <1>1, <1>2 DEF Update

(* What poll tells the loop.                                               *)
LEMMA Polled ==
    ASSUME NEW fd \in FDs \cup {NoFD}, NEW j \in BOOLEAN, NEW r \in BOOLEAN, NEW h \in BOOLEAN
    PROVE  LET polled == [pc |-> "accept", client |-> fd, join |-> j, read |-> r, hup |-> h,
                          sender |-> NoPeer]
           IN  polled \in LoopState /\ polled.pc = "accept" /\ polled.join = j
BY DEF LoopState, NoPeer

(* Every step of the session goroutine keeps the invariant.                *)
LEMMA SessionStep == ControlInv /\ Session => ControlInv'
<1>. SUFFICES ASSUME ControlInv, Session
              PROVE  ControlInv'
  OBVIOUS
<1>. USE DEF ControlInv
<1>1. CASE StoreChanges
  BY <1>1 DEF StoreChanges, Types, TableInv, GotInv, AckGoesToItsSender, Client, peerVars
<1>2. CASE BroadcastSnapshot
  <2>. DEFINE update == [got[Client] EXCEPT !.snapshot = sequence]
  <2>1. Send(update) /\ session' = "idle"
        /\ UNCHANGED <<sequence, up, ready, opened, queue, loop>>
    BY <1>2 DEF BroadcastSnapshot, peerVars
  <2>2. clientFD # NoFD => update \in Update /\ update.snapshot = sequence
                           /\ update.ready = ready
    BY Zenon, Updates DEF GotInv, Types
  <2>. HIDE DEF update
  <2>3. /\ TableInv' /\ got' \in [Peers -> Update]
        /\ \/ clientFD' = NoFD
           \/ /\ UNCHANGED <<clientFD, table>> /\ clientFD # NoFD
              /\ got'[Client] = update
    BY Zenon, <2>1, <2>2, Sent
  <2>. QED
    BY <2>1, <2>2, <2>3 DEF Types, GotInv, AckGoesToItsSender, Client
<1>3. CASE BroadcastResult
  <2>1. Send(got[Client]) /\ UNCHANGED <<sequence, session, up, ready, opened, queue, loop>>
    BY <1>3 DEF BroadcastResult, peerVars
  <2>2. clientFD # NoFD => got[Client] \in Update
    BY Zenon, Updates DEF Types
  <2>3. /\ TableInv' /\ got' \in [Peers -> Update]
        /\ \/ clientFD' = NoFD
           \/ /\ UNCHANGED <<clientFD, table>> /\ clientFD # NoFD
              /\ got'[Client] = got[Client]
    BY <2>1, <2>2, Sent
  <2>. QED
    BY <2>1, <2>3 DEF Types, GotInv, AckGoesToItsSender, Client
<1>4. CASE SessionTurns
  BY <1>4 DEF SessionTurns, Types, TableInv, GotInv, AckGoesToItsSender, Client, peerVars
<1>5. CASE SetReady
  <2>. DEFINE update == [got[Client] EXCEPT !.ready = up]
  <2>1. /\ session = "ready" /\ session' = "idle" /\ ready' = up
        /\ UNCHANGED <<sequence, up, opened, queue, loop>>
        /\ \/ ready = up /\ UNCHANGED <<clientFD, table, got>>
           \/ Send(update)
    BY <1>5 DEF SetReady, peerVars
  <2>2. CASE ready = up /\ UNCHANGED <<clientFD, table, got>>
    BY <2>1, <2>2 DEF Types, TableInv, GotInv, AckGoesToItsSender, Client
  <2>3. CASE Send(update)
    <3>1. clientFD # NoFD => update \in Update /\ update.snapshot = sequence
                             /\ update.ready = up
      BY Zenon, <2>1, Updates DEF GotInv, Types
    <3>. HIDE DEF update
    <3>2. /\ TableInv' /\ got' \in [Peers -> Update]
          /\ \/ clientFD' = NoFD
             \/ /\ UNCHANGED <<clientFD, table>> /\ clientFD # NoFD
                /\ got'[Client] = update
      BY <2>3, <3>1, Sent
    <3>. QED
      BY <2>1, <3>1, <3>2 DEF Types, GotInv, AckGoesToItsSender, Client
  <2>. QED
    BY <2>1, <2>2, <2>3
<1>. QED
  BY <1>1, <1>2, <1>3, <1>4, <1>5 DEF Session

(* Every step of the server's loop keeps the invariant.                    *)
LEMMA LoopStep == ControlInv /\ Loop => ControlInv'
<1>. SUFFICES ASSUME ControlInv, Loop
              PROVE  ControlInv'
  OBVIOUS
<1>. USE DEF ControlInv
<1>0. ASSUME NEW pc \in {"poll", "accept", "receive", "hup"}, LoopTo(pc)
      PROVE  loop' \in LoopState /\ loop'.pc = pc
  BY Zenon, <1>0 DEF LoopTo, LoopState, Types
<1>1. CASE Poll
  <2>. DEFINE hup == clientFD # NoFD /\ Client \in gone
              reads == clientFD # NoFD /\ (hup \/ inbox[Client] # <<>>)
  <2>1. /\ loop' = [pc |-> "accept", client |-> clientFD, join |-> queue # <<>>,
                    read |-> reads, hup |-> hup, sender |-> NoPeer]
        /\ UNCHANGED <<sequence, session, up, ready, clientFD, table, opened, queue, got>>
    BY <1>1 DEF Poll, peerVars
  <2>2. PICK j \in BOOLEAN, r \in BOOLEAN, h \in BOOLEAN :
            /\ loop' = [pc |-> "accept", client |-> clientFD, join |-> j, read |-> r,
                        hup |-> h, sender |-> NoPeer]
            /\ j => queue # <<>>
    <3>1. hup \in BOOLEAN /\ reads \in BOOLEAN /\ (queue # <<>>) \in BOOLEAN
      OBVIOUS
    <3>. HIDE DEF hup, reads
    <3>. QED
      BY <2>1, <3>1, Zenon
  <2>3. loop' \in LoopState /\ loop'.pc = "accept" /\ loop'.join = j
    BY <2>2, Polled DEF TableInv
  <2>. QED
    BY Zenon, <2>1, <2>2, <2>3 DEF Types, TableInv, GotInv, AckGoesToItsSender, Client
<1>2. CASE AcceptSkipped
  BY <1>0, <1>2 DEF AcceptSkipped, peerVars, Types, TableInv, GotInv, AckGoesToItsSender, Client
<1>3. CASE Accept
  <2>1. /\ loop.join /\ LoopTo("receive") /\ queue' = Tail(queue)
        /\ UNCHANGED <<sequence, session, up, ready, opened>>
    BY <1>3 DEF Accept
  <2>2. loop' \in LoopState /\ loop'.pc = "receive"
    BY <1>0, <2>1
  <2>3. queue # <<>> /\ queue' \in Seq(Peers) /\ Head(queue) \in Peers
    BY <1>3, <2>1 DEF Accept, Types
  <2>4. CASE UNCHANGED <<clientFD, table, got>>
    BY <2>1, <2>2, <2>3, <2>4 DEF Types, TableInv, GotInv, AckGoesToItsSender, Client
  <2>5. CASE clientFD = NoFD /\ ~UNCHANGED <<clientFD, table, got>>
    <3>1. PICK fd \in FDs : /\ table[fd] = NoPeer /\ clientFD' = fd
                            /\ table' = [table EXCEPT ![fd] = Head(queue)]
      BY <1>3, <2>5 DEF Accept
    <3>2. got' = [got EXCEPT ![Head(queue)] = [snapshot |-> sequence, ready |-> ready]]
      BY <1>3, <2>5 DEF Accept
    <3>3. [snapshot |-> sequence, ready |-> ready] \in Update
      BY DEF Types, Update
    <3>4. TableInv' /\ Client' = Head(queue)
      BY <2>3, <2>5, <3>1, BoundsAssumption DEF TableInv, Client, Peers, NoPeer, FDs, NoFD
    <3>5. /\ got' \in [Peers -> Update]
          /\ got'[Head(queue)] = [snapshot |-> sequence, ready |-> ready]
      BY <2>3, <3>2, <3>3 DEF Types
    <3>6. GotInv'
      BY SMTT(60), <2>1, <3>4, <3>5 DEF GotInv
    <3>. QED
      BY Zenon, <2>1, <2>2, <2>3, <3>4, <3>5, <3>6 DEF Types, AckGoesToItsSender
  <2>. QED
    BY <1>3, <2>4, <2>5 DEF Accept
<1>4. CASE Receive
  <2>. DEFINE c == IF loop.client = NoFD THEN NoPeer ELSE table[loop.client]
  <2>1. UNCHANGED <<sequence, session, up, ready, opened, queue, got>>
    BY <1>4 DEF Receive
  <2>2. CASE LoopTo("hup") /\ UNCHANGED <<clientFD, table>>
    BY <1>0, <2>1, <2>2 DEF Types, TableInv, GotInv, AckGoesToItsSender, Client
  <2>3. CASE LoopTo("hup") /\ DropClient(loop.client)
    <3>1. loop' \in LoopState /\ loop'.pc = "hup"
      BY <1>0, <2>3
    <3>2. TableInv' /\ (UNCHANGED <<clientFD, table>> \/ clientFD' = NoFD)
      BY <2>3, Dropped
    <3>. QED
      BY <2>1, <3>1, <3>2 DEF Types, GotInv, AckGoesToItsSender, Client
  <2>4. CASE c # NoPeer /\ loop' = [loop EXCEPT !.pc = "execute", !.sender = c]
             /\ UNCHANGED <<clientFD, table>>
    <3>1. loop.client \in FDs /\ c = table[loop.client]
      BY <2>4 DEF Types, LoopState
    <3>2. loop.client = clientFD /\ c = Client /\ c \in Int
      BY <2>4, <3>1 DEF TableInv, Client, Peers, NoPeer
    <3>. HIDE DEF c
    <3>3. loop' \in LoopState /\ loop'.pc = "execute" /\ loop'.sender = c
      BY Zenon, <2>4, <3>2 DEF Types, LoopState
    <3>. QED
      BY <2>1, <2>4, <3>2, <3>3 DEF Types, TableInv, GotInv, AckGoesToItsSender, Client
  <2>. QED
    BY <1>4, <2>2, <2>3, <2>4 DEF Receive
<1>5. CASE Acknowledge
  <2>1. /\ Send(got[Client]) /\ LoopTo("hup")
        /\ UNCHANGED <<sequence, session, up, ready, opened, queue>>
    BY <1>5 DEF Acknowledge, peerVars
  <2>2. clientFD # NoFD => got[Client] \in Update
    BY Zenon, Updates DEF Types
  <2>3. /\ TableInv' /\ got' \in [Peers -> Update]
        /\ \/ clientFD' = NoFD
           \/ /\ UNCHANGED <<clientFD, table>> /\ clientFD # NoFD
              /\ got'[Client] = got[Client]
    BY <2>1, <2>2, Sent
  <2>4. loop' \in LoopState /\ loop'.pc = "hup"
    BY <1>0, <2>1
  <2>. QED
    BY <2>1, <2>3, <2>4 DEF Types, GotInv, AckGoesToItsSender, Client
<1>6. CASE HangUp
  <2>1. /\ DropClient(loop.client) \/ UNCHANGED <<clientFD, table>>
        /\ loop' = Polling
        /\ UNCHANGED <<sequence, session, up, ready, opened, queue, got>>
    BY <1>6 DEF HangUp, peerVars
  <2>2. TableInv' /\ (UNCHANGED <<clientFD, table>> \/ clientFD' = NoFD)
    BY <2>1, Dropped DEF TableInv
  <2>3. Polling \in LoopState /\ Polling.pc = "poll"
    BY DEF Polling, LoopState, NoPeer
  <2>. QED
    BY <2>1, <2>2, <2>3 DEF Types, GotInv, AckGoesToItsSender, Client
<1>. QED
  BY <1>1, <1>2, <1>3, <1>4, <1>5, <1>6 DEF Loop

(* The invariant holds in every state.                                     *)
LEMMA ControlInvariant == ControlSpec => []ControlInv
<1>1. ControlInit => ControlInv
  <2>. SUFFICES ASSUME ControlInit
                PROVE  ControlInv
    OBVIOUS
  <2>1. NoUpdate \in Update /\ Polling \in LoopState /\ Polling.pc = "poll"
    <3>1. NoUpdate \in Update
      BY DEF NoUpdate, Update
    <3>. QED
      BY <3>1 DEF Polling, LoopState, NoPeer
  <2>2. Types
    <3>1. loop = Polling /\ queue = <<>> /\ got = [c \in Peers |-> NoUpdate]
      BY DEF ControlInit
    <3>2. got \in [Peers -> Update] /\ loop \in LoopState /\ loop.pc # "accept"
      BY <2>1, <3>1
    <3>3. sequence \in Int /\ opened \in Nat /\ queue \in Seq(Peers)
      BY <3>1 DEF ControlInit
    <3>4. up \in BOOLEAN /\ ready \in BOOLEAN /\ session \in {"idle", "broadcast", "ready"}
      BY Zenon DEF ControlInit
    <3>. QED
      BY <3>2, <3>3, <3>4 DEF Types
  <2>3. TableInv
    BY DEF ControlInit, TableInv, FDs, NoFD
  <2>. QED
    BY <2>2, <2>3 DEF ControlInit, ControlInv, GotInv, AckGoesToItsSender
<1>2. ControlInv /\ [ControlNext]_controlVars => ControlInv'
  <2>. SUFFICES ASSUME ControlInv, [ControlNext]_controlVars
                PROVE  ControlInv'
    OBVIOUS
  <2>1. CASE PeerConnects
    <3>1. queue' \in Seq(Peers) /\ queue' # <<>> /\ opened' \in Nat
      BY SMTT(60), <2>1, BoundsAssumption DEF PeerConnects, ControlInv, Types, Peers
    <3>2. UNCHANGED <<sequence, session, up, ready, clientFD, table, got, loop>>
      BY <2>1 DEF PeerConnects
    <3>. QED
      BY <3>1, <3>2 DEF ControlInv, Types, TableInv, GotInv, AckGoesToItsSender, Client
  <2>2. CASE UNCHANGED <<sequence, session, up, ready, clientFD, table, opened, queue, got, loop>>
    BY <2>2 DEF ControlInv, Types, TableInv, GotInv, AckGoesToItsSender, Client
  <2>. QED
    BY <2>1, <2>2, SessionStep, LoopStep DEF ControlNext, PeerCloses, PeerWrites, controlVars, peerVars
<1>. QED
  BY <1>1, <1>2, PTL DEF ControlSpec

(* Whenever no broadcast is on its way the client has the latest snapshot  *)
(* and readiness: accept sends both under the lock that installs the       *)
(* client, and a send that fails closes it.                                *)
THEOREM ClientsStayUpToDate == ControlSpec => []ClientIsUpToDate
<1>1. ControlInv => ClientIsUpToDate
  <2>. SUFFICES ASSUME ControlInv, clientFD # NoFD, session = "idle"
                PROVE  got[Client] = [snapshot |-> sequence, ready |-> ready]
    BY DEF ClientIsUpToDate
  <2>1. got[Client] \in Update
    BY Zenon, Updates DEF ControlInv, Types
  <2>2. got[Client].snapshot = sequence /\ got[Client].ready = ready
    BY DEF ControlInv, GotInv
  <2>. QED
    BY <2>1, <2>2 DEF Update
<1>. QED
  BY <1>1, ControlInvariant, PTL

(* An acknowledgement goes to the connection that sent the command or to   *)
(* nobody: while Run executes a command it accepts nobody, and the number  *)
(* it polled names the client or no connection at all.                     *)
THEOREM AcknowledgementsReachTheirSender == ControlSpec => []AckGoesToItsSender
<1>1. ControlInv => AckGoesToItsSender
  BY DEF ControlInv
<1>. QED
  BY <1>1, ControlInvariant, PTL

----------------------------------------------------------------------------
(* The agreement on codec and QoS.                                         *)

(* What ParseConfiguration and the final parse of the QoS guarantee.       *)
GoodCodec(c) ==
    /\ \E i \in DOMAIN Presets : SameCodec(c, Presets[i])
    /\ \E location \in c.allocation : c.allocation = {location}

GoodQoS(qos, c) ==
    /\ qos.CIG \in 0..239 /\ qos.CIS \in 0..239
    /\ qos.Interval = c.duration /\ qos.SDU = c.octets
    /\ qos.Framing \in 0..1 /\ "2M" \in qos.PHY
    /\ qos.Retransmissions \in 1..13 /\ qos.TargetLatency \in 1..3
    /\ qos.Latency \in 1..100 /\ qos.PresentationDelay \in 1..MaximumDelay

Good(held) == GoodCodec(held.codec) /\ GoodQoS(held.qos, held.codec)

-----------------------------------------------------------------------------
(* The parsers.                                                            *)
LEMMA PresetDomain == DOMAIN Presets = 1..6
BY DEF Presets

(* A configuration that is parsed has one of the supported codecs.         *)
LEMMA ParsedCodecIsGood ==
    ASSUME NEW configuration, NEW c \in ParseConfiguration(configuration)
    PROVE  GoodCodec(c)
BY SMTT(60) DEF ParseConfiguration, GoodCodec, SameCodec

(* A QoS that passes the strict parse is allocated, within its limits and  *)
(* fits the frames of the codec.                                           *)
LEMMA ParsedQoSIsGood ==
    ASSUME NEW qos, NEW c, NEW q \in ParseConfiguredQoS(qos, c, TRUE)
    PROVE  GoodQoS(q, c)
<1>1. q = [k \in QoSFields |-> IF Has(qos, k) THEN qos[k] ELSE Unallocated]
  BY Zenon DEF ParseConfiguredQoS
<1>2. /\ Given(qos, "CIG", 0..239) /\ Given(qos, "CIS", 0..239)
      /\ Given(qos, "Interval", {c.duration}) /\ Given(qos, "SDU", {c.octets})
      /\ Given(qos, "Framing", 0..1) /\ Has(qos, "PHY") /\ "2M" \in qos.PHY
      /\ Given(qos, "Retransmissions", 1..13) /\ Given(qos, "Latency", 1..100)
      /\ Given(qos, "PresentationDelay", 1..MaximumDelay)
      /\ Given(qos, "TargetLatency", 1..3)
  BY DEF ParseConfiguredQoS
<1>3. \A k \in QoSFields : Has(qos, k) => q[k] = qos[k]
  BY <1>1
<1>4. {"CIG", "CIS", "Interval", "SDU", "Framing", "PHY"} \subseteq QoSFields
  BY SMTT(60) DEF QoSFields
<1>5. {"Retransmissions", "Latency", "PresentationDelay", "TargetLatency"} \subseteq QoSFields
  BY Zenon DEF QoSFields
<1>6. q.CIG \in 0..239 /\ q.CIS \in 0..239 /\ q.Framing \in 0..1
  BY SMTT(60), <1>2, <1>3, <1>4 DEF Given
<1>7. q.Interval = c.duration /\ q.SDU = c.octets /\ "2M" \in q.PHY
  BY ZenonT(60), <1>2, <1>3, <1>4 DEF Given
<1>8. q.Retransmissions \in 1..13 /\ q.TargetLatency \in 1..3
  BY SMTT(60), <1>2, <1>3, <1>5 DEF Given
<1>9. q.Latency \in 1..100 /\ q.PresentationDelay \in 1..MaximumDelay
  BY SMTT(60), <1>2, <1>3, <1>5 DEF Given
<1> QED BY ZenonT(60), <1>6, <1>7, <1>8, <1>9 DEF GoodQoS

(* So does the one acquire reads last.                                     *)
LEMMA FinalQoSIsGood ==
    ASSUME NEW qos, NEW c, NEW t, NEW q \in ParseFinalTransportQoS(qos, c, t)
    PROVE  GoodQoS(q, c)
BY Zenon, ParsedQoSIsGood DEF ParseFinalTransportQoS

(* What the handoff asks of the QoS of a descriptor; it has upper bounds   *)
(* where the parse of a QoS has ranges.                                    *)
QoSTaken(qos, c) ==
    /\ qos.Interval = c.duration /\ "2M" \in qos.PHY
    /\ qos.Framing <= 1 /\ qos.CIG <= 239 /\ qos.CIS <= 239
    /\ qos.Retransmissions \in 1..13 /\ qos.TargetLatency \in 1..3
    /\ qos.Latency \in 1..100 /\ qos.PresentationDelay \in 1..MaximumDelay

(* The parse of a QoS asks no less.                                        *)
LEMMA GoodQoSIsTaken ==
    ASSUME NEW qos, NEW c, GoodQoS(qos, c)
    PROVE  QoSTaken(qos, c)
<1>1. qos.Framing \in 0..1 /\ qos.CIG \in 0..239 /\ qos.CIS \in 0..239
  BY ZenonT(60) DEF GoodQoS
<1>2. qos.Framing <= 1 /\ qos.CIG <= 239 /\ qos.CIS <= 239
  BY SMTT(60), <1>1
<1> QED BY ZenonT(60), <1>2 DEF GoodQoS, QoSTaken

(* The codec and the MTU complete a descriptor the handoff takes.          *)
LEMMA GoodIsTaken ==
    ASSUME NEW d, Good(d), d.mtu \in d.codec.octets..4096
    PROVE  ValidateDescriptor(d)
<1>1. \E i \in DOMAIN Presets : /\ Presets[i].rate = d.codec.rate
                                 /\ Presets[i].duration = d.codec.duration
                                 /\ Presets[i].octets = d.codec.octets
  BY DEF Good, GoodCodec, SameCodec
<1>2. \E location \in d.codec.allocation : d.codec.allocation = {location}
  BY DEF Good, GoodCodec
<1>3. d.codec.octets \in Int
  BY <1>1, PresetDomain DEF Presets, Preset
<1>4. d.codec.octets <= d.mtu /\ d.mtu <= 4096
  BY <1>3
<1>5. QoSTaken(d.qos, d.codec)
  BY SMTT(60), GoodQoSIsTaken DEF Good
<1> QED BY SMTT(60), <1>1, <1>2, <1>4, <1>5 DEF QoSTaken, ValidateDescriptor

(* What acquire accepts, the handoff accepts.                              *)
LEMMA GoodPairIsTaken ==
    ASSUME NEW a, NEW b, Good(a), Good(b), ValidateTransportPair(a, b),
           a.mtu \in a.codec.octets..4096, b.mtu \in b.codec.octets..4096
    PROVE  ValidateDescriptorPair(a, b) /\ ValidateDescriptor(a) /\ ValidateDescriptor(b)
<1>1. ValidateDescriptorPair(a, b)
  BY SMTT(60) DEF ValidateTransportPair, ValidateDescriptorPair
<1> QED BY SMTT(60), <1>1, GoodIsTaken

-----------------------------------------------------------------------------
(* The presentation delay, against its reference definition: every delay   *)
(* of the 24-bit range is considered, not only the candidates.             *)
LEMMA NearestDelay ==
    ASSUME NEW bounds, WellFormed(bounds)
    PROVE  NearestSuits(bounds, 1..MaximumDelay)
<1> DEFINE minimum == DelayBound(bounds, "MinimumDelay", 1)
           maximum == DelayBound(bounds, "MaximumDelay", MaximumDelay)
           preferredMinimum == DelayBound(bounds, "PreferredMinimumDelay", 0)
           preferredMaximum == DelayBound(bounds, "PreferredMaximumDelay", 0)
           low == IF preferredMinimum > minimum THEN preferredMinimum ELSE minimum
           high == IF preferredMaximum # 0 /\ preferredMaximum < maximum
                   THEN preferredMaximum ELSE maximum
<1>1. /\ minimum \in 1..MaximumDelay /\ maximum \in 1..MaximumDelay
      /\ preferredMinimum \in 0..MaximumDelay /\ preferredMaximum \in 0..MaximumDelay
      /\ minimum <= maximum
  BY DelayAssumption DEF WellFormed, DelayBound
<1>2. \A delay \in 1..MaximumDelay :
          Suits(delay, bounds) <=>
              /\ minimum <= delay /\ delay <= maximum /\ preferredMinimum <= delay
              /\ preferredMaximum = 0 \/ delay <= preferredMaximum
  BY DelayAssumption DEF Suits, DelayBound
<1>3. SelectPresentationDelay(bounds) =
          IF low <= high THEN {Clamp(PreferredDelay, low, high)} ELSE {}
  BY <1>1 DEF SelectPresentationDelay
<1> HIDE DEF minimum, maximum, preferredMinimum, preferredMaximum
<1>4. low \in 1..MaximumDelay /\ high \in 1..MaximumDelay
  BY <1>1, DelayAssumption
<1>5. \A delay \in 1..MaximumDelay : Suits(delay, bounds) <=> low <= delay /\ delay <= high
  BY <1>1, <1>2, DelayAssumption
<1> HIDE DEF low, high
<1>6. CASE low > high
  <2>1. SelectPresentationDelay(bounds) = {}
    BY <1>3, <1>4, <1>6, DelayAssumption
  <2>2. \A delay \in 1..MaximumDelay : ~Suits(delay, bounds)
    BY <1>4, <1>5, <1>6, DelayAssumption
  <2> QED BY <2>1, <2>2 DEF NearestSuits
<1>7. CASE low <= high
  <2> DEFINE d == Clamp(PreferredDelay, low, high)
  <2>1. SelectPresentationDelay(bounds) = {d}
    BY <1>3, <1>7
  <2>2. d \in 1..MaximumDelay /\ low <= d /\ d <= high
    BY <1>4, <1>7, DelayAssumption DEF Clamp
  <2>3. ASSUME NEW other \in 1..MaximumDelay, low <= other, other <= high
        PROVE  Distance(d, PreferredDelay) <= Distance(other, PreferredDelay)
    BY SMTT(60), <1>4, <1>7, <2>3, DelayAssumption DEF Clamp, Distance
  <2> HIDE DEF d
  <2> QED BY <1>5, <2>1, <2>2, <2>3 DEF NearestSuits
<1> QED BY <1>4, <1>6, <1>7, DelayAssumption

(* A selected delay is one the QoS field can carry.                        *)
LEMMA SelectedDelayIsInRange ==
    ASSUME NEW bounds, NEW d \in SelectPresentationDelay(bounds)
    PROVE  d \in 1..MaximumDelay
<1> DEFINE minimum == DelayBound(bounds, "MinimumDelay", 1)
           maximum == DelayBound(bounds, "MaximumDelay", MaximumDelay)
           preferredMinimum == DelayBound(bounds, "PreferredMinimumDelay", 0)
           preferredMaximum == DelayBound(bounds, "PreferredMaximumDelay", 0)
           low == IF preferredMinimum > minimum THEN preferredMinimum ELSE minimum
           high == IF preferredMaximum # 0 /\ preferredMaximum < maximum
                   THEN preferredMaximum ELSE maximum
<1>1. /\ minimum \in 1..MaximumDelay /\ maximum \in 1..MaximumDelay
      /\ preferredMinimum \in 0..MaximumDelay /\ preferredMaximum \in 0..MaximumDelay
      /\ low <= high /\ d = Clamp(PreferredDelay, low, high)
  BY DEF SelectPresentationDelay
<1> HIDE DEF minimum, maximum, preferredMinimum, preferredMaximum
<1> QED BY <1>1, DelayAssumption DEF Clamp

-----------------------------------------------------------------------------
(* SetConfiguration accepts what SelectProperties answers.                 *)
LEMMA SelectedIsParsed ==
    ASSUME NEW bounds, NEW codec, NEW q \in SelectQoS(bounds, codec)
    PROVE  StoredAsIs(q, codec)
<1>1. PICK framing \in 0..1, retransmissions \in 1..13, delay \in 1..MaximumDelay :
          q = Selected(codec, framing, retransmissions, PresetLatency(codec), delay)
  BY SelectedDelayIsInRange DEF SelectQoS
<1>2. PresetLatency(codec) \in 1..100
  BY DEF PresetLatency
<1>3. q = [k \in QoSFields |-> q[k]]
  BY <1>1 DEF Selected, QoSFields
<1>4. ParseConfiguredQoS(q, codec, FALSE) = {q}
  <2>1. /\ Given(q, "Interval", {codec.duration}) /\ Given(q, "SDU", {codec.octets})
        /\ Given(q, "Framing", 0..1) /\ Has(q, "PHY") /\ "2M" \in q.PHY
        /\ Given(q, "Retransmissions", 1..13) /\ Given(q, "Latency", 1..100)
        /\ Given(q, "PresentationDelay", 1..MaximumDelay) /\ Given(q, "TargetLatency", 1..3)
    BY <1>1, <1>2, DelayAssumption DEF Selected, Given, Has
  <2>2. [k \in QoSFields |-> IF Has(q, k) THEN q[k] ELSE Unallocated] = q
    BY <1>3 DEF Has
  <2> QED BY Zenon, <2>1, <2>2 DEF ParseConfiguredQoS
<1>5. ASSUME NEW x, ParsePreliminaryConfiguredQoS(x, codec) = {q}
      PROVE  ConfiguredQoS({x}, codec) = {q}
  BY <1>5 DEF ConfiguredQoS
<1>6. ParsePreliminaryConfiguredQoS(q, codec) = {q}
  BY Zenon, <1>1, <1>4 DEF ParsePreliminaryConfiguredQoS, Has, Selected
<1>7. ParsePreliminaryConfiguredQoS(WithoutTargetLatency(q), codec) = {q}
  <2> DEFINE x == [k \in QoSFields \ {"TargetLatency"} |-> q[k]]
  <2>1. ~Has(x, "TargetLatency")
    BY Zenon DEF Has
  <2>2. q["TargetLatency"] = 2 /\ DefaultQoS(codec).TargetLatency = 2
    BY <1>1 DEF Selected, DefaultQoS
  <2>3. DOMAIN x \cup {"TargetLatency"} = QoSFields
    BY DEF QoSFields
  <2>4. With(x, "TargetLatency", 2) = [k \in QoSFields |-> q[k]]
    BY <2>2, <2>3 DEF With
  <2> HIDE DEF x
  <2>5. ParsePreliminaryConfiguredQoS(x, codec) = {q}
    BY Zenon, <1>3, <1>4, <2>1, <2>2, <2>4 DEF ParsePreliminaryConfiguredQoS
  <2> QED BY <2>5 DEF x, WithoutTargetLatency
<1> QED BY <1>5, <1>6, <1>7 DEF StoredAsIs

(* What SelectProperties answers is a configuration that parses and a QoS  *)
(* selected for its codec.                                                 *)
LEMMA AnswerIsSelected ==
    ASSUME NEW properties, NEW answer \in SelectProperties(properties)
    PROVE  \E codec \in ParseConfiguration(answer.configuration) : \E bounds :
               answer.qos \in SelectQoS(bounds, codec)
BY DEF SelectProperties

-----------------------------------------------------------------------------
(* The inductive invariant.  Everything that goes by a generation of a     *)
(* path has the codec configured under that generation; what has been read *)
(* has passed the final check; pairs have been validated.                  *)
Holds(p) == read[p] \cup pending[p] \cup {held[p] : held \in pairs \cup published}

Seen(p) == configured[p] \cup acquiring[p] \cup Holds(p)

SeenInv ==
    \A p \in Paths : \A x \in Seen(p) :
        /\ GoodCodec(x.codec) /\ x.generation \in 1..nextConfig
        /\ \A config \in configured[p] :
              x.generation = config.generation => x.codec = config.codec

HeldInv == \A p \in Paths : \A x \in Holds(p) : GoodQoS(x.qos, x.codec)

PairInv ==
    /\ \A held \in pairs \cup published : ValidateTransportPair(held["sink"], held["source"])
    /\ \A held \in published : PairCurrent(held)

Functions ==
    /\ configured = [p \in Paths |-> configured[p]] /\ acquiring = [p \in Paths |-> acquiring[p]]
    /\ read = [p \in Paths |-> read[p]] /\ pending = [p \in Paths |-> pending[p]]

ProposalInv == \A chosen \in proposal : chosen.answers = SelectProperties(chosen.properties)

IInv == /\ nextConfig \in Nat /\ Functions /\ ProposalInv
        /\ SeenInv /\ HeldInv /\ PairInv

(* The invariant holds when nothing is configured.                         *)
LEMMA InitIInv == Init => IInv
BY DEF Init, Nothing, IInv, Functions, ProposalInv, SeenInv, HeldInv, PairInv, Seen, Holds, Paths

(* It does not matter to acquire which half of a pair came first.          *)
LEMMA PairIsSymmetric ==
    ASSUME NEW a, NEW b, ValidateTransportPair(a, b)
    PROVE  ValidateTransportPair(b, a)
BY Zenon DEF ValidateTransportPair, SameCodec

(* A step that leaves the configurations alone and holds nothing new.      *)
LEMMA Forgetting ==
    ASSUME IInv, Functions', ProposalInv', configured' = configured, nextConfig' = nextConfig,
           \A p \in Paths : acquiring'[p] \subseteq acquiring[p] /\ Holds(p)' \subseteq Holds(p),
           pairs' \subseteq pairs, published' \subseteq published
    PROVE  IInv'
<1>1. SeenInv'
  BY DEF IInv, SeenInv, Seen
<1>2. HeldInv'
  BY Zenon DEF IInv, HeldInv
<1>3. PairInv'
  BY DEF IInv, PairInv, PairCurrent, Current
<1> QED BY Zenon, <1>1, <1>2, <1>3 DEF IInv

(* A new configuration has a generation of its own.                        *)
LEMMA Reconfiguring ==
    ASSUME IInv, NEW p \in Paths, NEW configuration, NEW qos, SetConfiguration(p, configuration, qos)
    PROVE  IInv'
<1>1. PICK codec \in ParseConfiguration(configuration) : \E t :
          configured' = [configured EXCEPT ![p] =
              {[codec |-> codec, targetLatency |-> t, generation |-> nextConfig + 1]}]
  BY Zenon DEF SetConfiguration
<1>2. PICK t : configured' = [configured EXCEPT ![p] =
              {[codec |-> codec, targetLatency |-> t, generation |-> nextConfig + 1]}]
  BY Zenon, <1>1
<1> DEFINE new == [codec |-> codec, targetLatency |-> t, generation |-> nextConfig + 1]
<1>3. configured'[p] = {new} /\ \A q \in Paths \ {p} : configured'[q] = configured[q]
  BY ZenonT(60), <1>2 DEF IInv, Functions
<1>4. /\ acquiring' = acquiring /\ pairs' = pairs /\ published' = {}
      /\ \A q \in Paths : Holds(q)' \subseteq Holds(q)
  BY DEF SetConfiguration, IInv, Functions, Holds
<1>5. nextConfig' = nextConfig + 1 /\ nextConfig \in Nat
  BY DEF SetConfiguration, IInv
<1>6. GoodCodec(new.codec) /\ new.generation = nextConfig + 1
  BY Zenon, ParsedCodecIsGood
<1> HIDE DEF new
<1>7. SeenInv'
  <2>1. ASSUME NEW q \in Paths, NEW x \in Seen(q)'
        PROVE  x \in Seen(q) \/ (q = p /\ x = new)
    BY ZenonT(60), <1>3, <1>4 DEF Seen
  <2>2. ASSUME NEW q \in Paths, NEW x \in Seen(q)'
        PROVE  GoodCodec(x.codec) /\ x.generation \in 1..nextConfig'
    BY <1>5, <1>6, <2>1 DEF IInv, SeenInv
  <2>3. ASSUME NEW q \in Paths, NEW x \in Seen(q)', NEW config \in configured'[q],
               x.generation = config.generation
        PROVE  x.codec = config.codec
    <3>1. CASE q # p
      BY ZenonT(60), <1>3, <2>1, <2>3, <3>1 DEF IInv, SeenInv
    <3>2. CASE q = p
      <4>1. config = new
        BY Zenon, <1>3, <3>2
      <4>2. x \in Seen(q) => x.generation \in 1..nextConfig
        BY DEF IInv, SeenInv
      <4> QED BY SMTT(60), <1>5, <1>6, <2>1, <2>3, <4>1, <4>2
    <3> QED BY Zenon, <3>1, <3>2
  <2> QED BY Zenon, <2>2, <2>3 DEF SeenInv
<1>8. HeldInv'
  BY Zenon, <1>4 DEF IInv, HeldInv
<1>9. PairInv'
  BY Zenon, <1>4 DEF IInv, PairInv
<1>10. ProposalInv' /\ nextConfig' \in Nat
  BY <1>5 DEF ProposalInv, SetConfiguration
<1>11. configured' = [q \in Paths |-> configured'[q]]
  BY Zenon, <1>2 DEF IInv, Functions
<1>12. pending' = [q \in Paths |-> pending'[q]] /\ acquiring' = acquiring /\ read' = read
  BY ZenonT(60) DEF IInv, Functions, SetConfiguration
<1>13. Functions'
  BY <1>11, <1>12 DEF IInv, Functions
<1> QED BY <1>7, <1>8, <1>9, <1>10, <1>13 DEF IInv

(* ClearConfiguration preserves the invariant: it only takes away.         *)
LEMMA Clearing ==
    ASSUME IInv, NEW p \in Paths, ClearConfiguration(p)
    PROVE  IInv'
<1>1. \A q \in Paths : configured'[q] \subseteq configured[q]
  BY DEF ClearConfiguration, IInv, Functions
<1>2. /\ acquiring' = acquiring /\ pairs' = pairs /\ published' = {} /\ nextConfig' = nextConfig
      /\ \A q \in Paths : Holds(q)' \subseteq Holds(q)
  BY Zenon DEF ClearConfiguration, IInv, Functions, Holds
<1>3. SeenInv'
  BY <1>1, <1>2 DEF IInv, SeenInv, Seen
<1>4. HeldInv' /\ PairInv'
  BY <1>2 DEF IInv, HeldInv, PairInv
<1> QED BY Zenon, <1>2, <1>3, <1>4 DEF IInv, Functions, ProposalInv, ClearConfiguration

(* So does the start of an acquisition, under the generation configured    *)
(* now.                                                                    *)
LEMMA Acquiring ==
    ASSUME IInv, NEW p \in Paths, Acquire(p)
    PROVE  IInv'
<1>1. \A q \in Paths : Seen(q)' \subseteq Seen(q) /\ Holds(q)' = Holds(q)
  BY ZenonT(60) DEF Acquire, IInv, Functions, Seen, Holds
<1>2. SeenInv' /\ HeldInv'
  BY <1>1 DEF Acquire, IInv, SeenInv, HeldInv
<1>3. PairInv'
  BY DEF Acquire, IInv, PairInv, PairCurrent, Current
<1> QED BY Zenon, <1>2, <1>3 DEF IInv, Functions, ProposalInv, Acquire

(* So does reading the transport, whose QoS passes the final check.        *)
LEMMA Reading ==
    ASSUME IInv, NEW p \in Paths, NEW config \in acquiring[p], NEW mtu,
           ReadTransportDetails(p, config, mtu)
    PROVE  IInv'
<1>1. ASSUME NEW q \in Paths, NEW x \in Holds(q)', x \notin Holds(q)
      PROVE  /\ q = p /\ x.codec = config.codec /\ x.generation = config.generation
             /\ GoodQoS(x.qos, x.codec)
  <2>1. q = p /\ x \in read'[p]
    BY ZenonT(60), <1>1 DEF ReadTransportDetails, IInv, Functions, Holds
  <2>2. PICK y \in shown[p] :
          \E qos \in ParseFinalTransportQoS(y, config.codec, config.targetLatency) :
             x = [codec |-> config.codec, generation |-> config.generation,
                  qos |-> qos, mtu |-> mtu]
    BY <1>1, <2>1 DEF ReadTransportDetails, IInv, Functions, Holds
  <2>3. PICK qos \in ParseFinalTransportQoS(y, config.codec, config.targetLatency) :
          x = [codec |-> config.codec, generation |-> config.generation, qos |-> qos, mtu |-> mtu]
    BY Zenon, <2>2
  <2>4. GoodQoS(qos, config.codec)
    BY Zenon, FinalQoSIsGood
  <2>5. x.codec = config.codec /\ x.generation = config.generation /\ x.qos = qos
    BY Zenon, <2>3
  <2> QED BY Zenon, <2>1, <2>4, <2>5
<1>2. \A q \in Paths : acquiring'[q] \subseteq acquiring[q]
  BY ZenonT(60) DEF ReadTransportDetails, IInv, Functions
<1>3. SeenInv'
  <2>1. configured' = configured /\ nextConfig' = nextConfig
    BY DEF ReadTransportDetails
  <2>2. config \in Seen(p)
    BY Zenon DEF Seen
  <2>3. ASSUME NEW q \in Paths, NEW x \in Seen(q)'
        PROVE  \E y \in Seen(q) : x.codec = y.codec /\ x.generation = y.generation
    BY Zenon, <1>1, <1>2, <2>1, <2>2 DEF Seen
  <2> QED BY SMTT(60), <2>1, <2>3 DEF IInv, SeenInv
<1>4. HeldInv'
  BY Zenon, <1>1 DEF IInv, HeldInv
<1>5. PairInv'
  BY Zenon DEF ReadTransportDetails, IInv, PairInv, PairCurrent, Current
<1> QED BY ZenonT(60), <1>3, <1>4, <1>5 DEF IInv, Functions, ProposalInv, ReadTransportDetails

(* So does holding a transport or pairing it with its held peer.           *)
LEMMA Holding ==
    ASSUME IInv, NEW p \in Paths, NEW peer \in Paths, NEW held \in read[p], Hold(p, peer, held)
    PROVE  IInv'
<1>1. /\ configured' = configured /\ nextConfig' = nextConfig /\ acquiring' = acquiring
      /\ published' = published /\ p # peer
  BY Zenon DEF Hold
<1>2. ASSUME NEW new \in pairs', new \notin pairs
      PROVE  /\ \A q \in Paths : new[q] \in Holds(q)
             /\ ValidateTransportPair(new["sink"], new["source"])
  <2>1. PICK other \in pending[peer] :
          /\ ValidateTransportPair(held, other)
          /\ new = [q \in Paths |-> IF q = p THEN held ELSE other]
    BY <1>2 DEF Hold
  <2>2. \A q \in Paths : new[q] \in Holds(q)
    BY <1>1, <2>1 DEF Holds, Paths
  <2> QED BY ZenonT(60), <1>1, <2>1, <2>2, PairIsSymmetric DEF Paths
<1>3. \A q \in Paths : read'[q] \subseteq read[q] /\ pending'[q] \subseteq Holds(q)
  BY DEF Hold, IInv, Functions, Holds, Nothing
<1>4. ASSUME NEW q \in Paths, NEW x \in Holds(q)' PROVE x \in Holds(q)
  <2>1. CASE x \in read'[q] \cup pending'[q]
    BY ZenonT(60), <1>3, <2>1 DEF Holds
  <2>2. CASE x \in {h[q] : h \in pairs' \cup published'}
    BY SMTT(60), <1>1, <1>2, <2>2 DEF Holds
  <2> QED BY Zenon, <2>1, <2>2 DEF Holds
<1>5. SeenInv'
  BY <1>1, <1>4 DEF IInv, SeenInv, Seen
<1>6. HeldInv'
  BY ZenonT(60), <1>4 DEF IInv, HeldInv
<1>7. PairInv'
  BY SMTT(60), <1>1, <1>2 DEF IInv, PairInv, PairCurrent, Current
<1>8. Functions'
  BY Zenon DEF IInv, Functions, Hold, Nothing
<1> QED BY Zenon, <1>1, <1>5, <1>6, <1>7, <1>8 DEF IInv, ProposalInv, Hold

(* So does handing a pair off, after the generations are compared again.   *)
LEMMA Publishing ==
    ASSUME IInv, NEW held \in pairs, PublishPair(held)
    PROVE  IInv'
<1>1. /\ UNCHANGED <<proposal, configured, nextConfig, acquiring, read, pending>>
      /\ pairs' \subseteq pairs
      /\ published' = published \/ (published' = {held} /\ PairCurrent(held))
  BY Zenon DEF PublishPair
<1>2. \A q \in Paths : Seen(q)' \subseteq Seen(q) /\ Holds(q)' \subseteq Holds(q)
  BY ZenonT(60), <1>1 DEF Seen, Holds
<1>3. SeenInv' /\ HeldInv'
  BY ZenonT(60), <1>1, <1>2 DEF IInv, SeenInv, HeldInv
<1>4. PairInv'
  BY <1>1 DEF IInv, PairInv, PairCurrent, Current
<1> QED BY <1>1, <1>3, <1>4 DEF IInv, Functions, ProposalInv

(* Every step preserves the invariant.                                     *)
LEMMA StepIInv == IInv /\ [Next]_vars => IInv'
<1> SUFFICES ASSUME IInv, [Next]_vars PROVE IInv'
  OBVIOUS
<1>1. ASSUME UNCHANGED <<configured, nextConfig, acquiring, read, pending, pairs>>,
             ProposalInv', published' \subseteq published
      PROVE  IInv'
  BY Zenon, <1>1, Forgetting DEF IInv, Functions, Holds
<1>2. ASSUME NEW properties, Select(properties) PROVE IInv'
  <2>1. UNCHANGED <<configured, nextConfig, acquiring, read, pending, pairs, published>>
    BY Zenon, <1>2 DEF Select
  <2>2. ProposalInv'
    BY <1>2 DEF Select, IInv, ProposalInv
  <2> QED BY Zenon, <1>1, <2>1, <2>2
<1>3. ASSUME NEW p \in Paths, NEW qos, ShowQoS(p, qos) PROVE IInv'
  BY <1>1, <1>3 DEF ShowQoS, IInv, ProposalInv
<1>4. ASSUME NEW p \in Paths, ExpirePending(p) PROVE IInv'
  BY Zenon, <1>4, Forgetting DEF ExpirePending, IInv, Functions, Holds, ProposalInv
<1>5. ASSUME NEW held \in pairs, PairReturned(held) PROVE IInv'
  BY Zenon, <1>5, Forgetting DEF PairReturned, IInv, Functions, Holds, ProposalInv
<1>6. CASE SessionEnds \/ UNCHANGED vars
  BY <1>1, <1>6 DEF SessionEnds, vars, IInv, ProposalInv
<1> QED BY ZenonT(60), <1>2, <1>3, <1>4, <1>5, <1>6, Reconfiguring, Clearing, Acquiring,
           Reading, Holding, Publishing DEF Next

-----------------------------------------------------------------------------
(* So it holds in every state.                                             *)
LEMMA Invariance == Spec => []IInv
BY InitIInv, StepIInv, PTL DEF Spec

(* Whatever a phone offers, SetConfiguration accepts what SelectProperties *)
(* answered (broker.go).                                                   *)
THEOREM SelectionsAreAccepted == Spec => []SelectionIsAccepted
<1>1. IInv => SelectionIsAccepted
  <2> SUFFICES ASSUME IInv, NEW answer \in Answers
               PROVE  \E codec \in ParseConfiguration(answer.configuration) :
                         StoredAsIs(answer.qos, codec)
    BY DEF SelectionIsAccepted
  <2>1. PICK properties : answer \in SelectProperties(properties)
    BY DEF IInv, ProposalInv, Answers
  <2>2. PICK codec \in ParseConfiguration(answer.configuration) : \E bounds :
            answer.qos \in SelectQoS(bounds, codec)
    BY <2>1, AnswerIsSelected
  <2>3. PICK bounds : answer.qos \in SelectQoS(bounds, codec)
    BY <2>2
  <2> QED BY <2>3, SelectedIsParsed
<1> QED BY <1>1, Invariance, PTL

(* selectPresentationDelay picks the suitable delay nearest to 40 ms.      *)
THEOREM DelaysAreNearest == Spec => []SelectedDelayIsNearest
<1>1. SelectedDelayIsNearest
  <2>1. ASSUME NEW bounds, WellFormed(bounds)
        PROVE  NearestSuits(bounds, Candidates(bounds))
    BY ZenonT(60), <2>1, NearestDelay DEF NearestSuits, Suits
  <2> QED BY SMTT(60), <2>1 DEF SelectedDelayIsNearest
<1> QED BY <1>1, PTL

(* The checks of acquire (broker.go) and of PublishPair (handoff.go) agree *)
(* on every pair, but for the MTU.                                         *)
THEOREM HandoffAgreesWithAcquire == Spec => []HandoffTakesThePair
<1>1. IInv => HandoffTakesThePair
  <2> SUFFICES ASSUME IInv, NEW held \in pairs,
                      \A p \in Paths : held[p].mtu \in held[p].codec.octets..4096
               PROVE  /\ ValidateDescriptorPair(held["sink"], held["source"])
                      /\ \A p \in Paths : ValidateDescriptor(held[p])
    BY Zenon DEF HandoffTakesThePair
  <2>1. \A p \in Paths : held[p] \in Holds(p) /\ held[p] \in Seen(p)
    BY SMTT(60) DEF Holds, Seen
  <2>2. \A p \in Paths : Good(held[p])
    BY SMTT(60), <2>1 DEF IInv, SeenInv, HeldInv, Good
  <2>3. ValidateTransportPair(held["sink"], held["source"])
    BY SMTT(60) DEF IInv, PairInv
  <2> QED BY SMTT(60), <2>2, <2>3, GoodPairIsTaken DEF Paths
<1> QED BY <1>1, Invariance, PTL

(* The session Asterisk gets is one allocated CIS with the frames of the   *)
(* configuration both transports have (broker.go acquire).                 *)
THEOREM PublishedStaysCurrent == Spec => []PublishedIsCurrent
<1>1. IInv => PublishedIsCurrent
  <2> SUFFICES ASSUME IInv, NEW held \in published, NEW p \in Paths
               PROVE  /\ \E config \in configured[p] : config.codec = held[p].codec
                      /\ held[p].qos.SDU = held["sink"].codec.octets
                      /\ held[p].qos.Interval = held["sink"].codec.duration
                      /\ \A id \in {"CIG", "CIS"} : held[p].qos[id] = held["sink"].qos[id]
                                                    /\ held[p].qos[id] # Unallocated
    BY SMTT(60) DEF PublishedIsCurrent
  <2>1. \A q \in Paths : held[q] \in Holds(q) /\ held[q] \in Seen(q)
    BY DEF Holds, Seen
  <2>2. GoodQoS(held[p].qos, held[p].codec)
    BY SMTT(60), <2>1 DEF IInv, HeldInv
  <2>3. ValidateTransportPair(held["sink"], held["source"]) /\ PairCurrent(held)
    BY ZenonT(60) DEF IInv, PairInv
  <2>4. \E config \in configured[p] : config.codec = held[p].codec
    BY <2>1, <2>3 DEF IInv, SeenInv, PairCurrent, Current
  <2>5. p = "sink" \/ p = "source"
    BY Zenon DEF Paths
  <2>6. /\ SameCodec(held["sink"].codec, held["source"].codec)
        /\ held["sink"].qos.CIG = held["source"].qos.CIG
        /\ held["sink"].qos.CIS = held["source"].qos.CIS
    BY <2>3 DEF ValidateTransportPair
  <2>7. held[p].qos.CIG # Unallocated /\ held[p].qos.CIS # Unallocated
    <3>1. held[p].qos.CIG \in 0..239 /\ held[p].qos.CIS \in 0..239
      BY <2>2, Zenon DEF GoodQoS
    <3>2. \A id \in 0..239 : id # Unallocated
      BY DEF Unallocated
    <3> QED BY <3>1, <3>2, ZenonT(60)
  <2>8. held[p].qos.SDU = held[p].codec.octets /\ held[p].qos.Interval = held[p].codec.duration
    BY <2>2, Zenon DEF GoodQoS
  <2> QED BY ZenonT(60), <2>4, <2>5, <2>6, <2>7, <2>8 DEF SameCodec
<1> QED BY <1>1, Invariance, PTL

============================================================================
