------------------------ MODULE HandoffServerProofs ------------------------
(***************************************************************************)
(* Proofs about the media handoff, for any number of connections, clock    *)
(* ticks and restarts of the broker.                                       *)
(***************************************************************************)
EXTENDS HandoffServer, TLAPS

(* What Asterisk remembers is behind the broker's counter, or, after a     *)
(* restart has cleared the counter, behind the clock; what the server      *)
(* remembers is never ahead of the counter.                                *)
GenInv ==
    /\ clock \in Nat \ {0} /\ lastGen \in Nat /\ newest \in Nat
    /\ published \in [sink : Nat, source : Nat]
    /\ published.sink <= lastGen /\ published.source <= lastGen
    /\ newest <= lastGen \/ newest < clock
    /\ replayed = FALSE

(* A session has a holder, and both appear and disappear together.         *)
HolderInv ==
    /\ clientFD \in Nat /\ polled \in Nat
    /\ session = 0 <=> holder = NoPeer
    /\ SessionBelongsToItsPeer

----------------------------------------------------------------------------
(* nextDescriptorGenerationLocked exceeds the last generation and is not   *)
(* behind the clock.                                                       *)
LEMMA GenerationGrows ==
    ASSUME NEW last \in Nat, clock \in Nat
    PROVE  /\ NextGeneration(last) \in Nat
           /\ NextGeneration(last) > last
           /\ NextGeneration(last) >= clock
BY DEF NextGeneration

(* Every step keeps the generations in order; only PublishPair, the clock  *)
(* and a restart move them.                                                *)
LEMMA GenInvStep == GenInv /\ [Next]_vars => GenInv'
<1>. SUFFICES ASSUME GenInv, [Next]_vars
              PROVE  GenInv'
  OBVIOUS
<1>. USE DEF GenInv
<1>1. CASE Tick
  BY <1>1 DEF Tick, asterisk
<1>2. CASE PublishPair
  <2>. DEFINE sink == NextGeneration(lastGen)
              source == NextGeneration(sink)
  <2>1. /\ sink \in Nat /\ sink > lastGen /\ sink >= clock
        /\ source \in Nat /\ source > sink
    BY GenerationGrows
  <2>2. clock' = clock /\ lastGen' = source
    BY <1>2 DEF PublishPair
  <2>3. \/ UNCHANGED <<published, newest, replayed>>
        \/ /\ newest' = sink /\ replayed' = (replayed \/ sink <= newest)
           /\ published' \in {published, [sink |-> sink, source |-> source]}
    BY <1>2 DEF PublishPair, asterisk
  <2>. HIDE DEF sink, source
  <2>4. CASE UNCHANGED <<published, newest, replayed>>
    BY <2>1, <2>2, <2>4
  <2>5. CASE newest' = sink /\ replayed' = (replayed \/ sink <= newest)
             /\ published' \in {published, [sink |-> sink, source |-> source]}
    <3>1. ~(sink <= newest)
      BY <2>1
    <3>2. replayed' = FALSE
      BY Zenon, <2>5, <3>1
    <3>3. CASE published' = published
      BY <2>1, <2>2, <2>5, <3>2, <3>3
    <3>4. CASE published' = [sink |-> sink, source |-> source]
      BY <2>1, <2>2, <2>5, <3>2, <3>4
    <3>. QED
      BY Zenon, <2>5, <3>3, <3>4
  <2>. QED
    BY ZenonT(60), <2>3, <2>4, <2>5
<1>3. CASE BrokerRestarts
  BY <1>3 DEF BrokerRestarts, asterisk
<1>4. CASE SessionEnds \/ Run \/ PeerConnects \/ (\E c \in Peers : PeerCloses(c))
  BY <1>4 DEF SessionEnds, Run, Poll, CheckClient, Report, Accept, PeerConnects,
              PeerCloses, genVars, asterisk
<1>5. CASE UNCHANGED vars
  BY <1>5 DEF vars, genVars, asterisk
<1>. QED
  BY Zenon, <1>1, <1>2, <1>3, <1>4, <1>5 DEF Next

(* The order of the generations holds in every state.                     *)
LEMMA GenInvariant == Spec => []GenInv
<1>1. Init => GenInv
  BY DEF Init, GenInv
<1>. QED
  BY <1>1, GenInvStep, PTL DEF Spec

(* Asterisk's anti-replay check never meets an old bundle and PublishPair  *)
(* never refuses one of its own, over any number of restarts: the clock    *)
(* takes over where nextDescriptorGenerationLocked lost its counter.       *)
THEOREM GenerationsStayMonotonic == Spec => []BundlesIncrease
<1>1. GenInv => BundlesIncrease
  <2>. SUFFICES ASSUME GenInv
                PROVE  BundlesIncrease
    OBVIOUS
  <2>. DEFINE sink == NextGeneration(lastGen)
  <2>1. sink \in Nat /\ sink > lastGen
    BY GenerationGrows DEF GenInv
  <2>2. NextGeneration(sink) \in Nat /\ NextGeneration(sink) > sink
    BY <2>1, GenerationGrows DEF GenInv
  <2>. QED
    BY <2>1, <2>2 DEF GenInv, BundlesIncrease, Stale
<1>. QED
  BY <1>1, GenInvariant, PTL

----------------------------------------------------------------------------
Descriptor == [direction : {"sink", "source"}, bundle : Nat]

(* A connection waits in the queue once and has been sent nothing before   *)
(* it is accepted, so a connection that was closed never comes back.       *)
QueueInv ==
    /\ opened \in Nat /\ opened <= MaxPeers
    /\ queue \in Seq(Peers)
    /\ received \in [Peers -> Seq(Descriptor)]
    /\ clientFD \in Nat /\ clientFD <= opened
    /\ \A i, j \in 1..Len(queue) : queue[i] = queue[j] => i = j
    /\ \A i \in 1..Len(queue) : /\ queue[i] <= opened /\ queue[i] # clientFD
                               /\ received[queue[i]] = <<>>
    /\ \A c \in Peers : c > opened => received[c] = <<>>

(* PairsArriveWhole for one connection.                                    *)
Whole(r, open) ==
    /\ \A i \in 1..Len(r) : r[i].direction = IF i % 2 = 1 THEN "sink" ELSE "source"
    /\ \A i \in 1..Len(r) : i % 2 = 0 => r[i].bundle = r[i - 1].bundle
    /\ Len(r) % 2 = 1 => ~open

(* Both outcomes of PublishPair's two sends keep a connection whole: the   *)
(* pair, or its first half if the connection is closed.                    *)
LEMMA PairAppended ==
    ASSUME NEW r \in Seq(Descriptor), NEW b \in Nat, Whole(r, TRUE)
    PROVE  /\ Whole(r \o <<[direction |-> "sink", bundle |-> b],
                           [direction |-> "source", bundle |-> b]>>, TRUE)
           /\ Whole(r \o <<[direction |-> "sink", bundle |-> b]>>, FALSE)
<1>. DEFINE first == [direction |-> "sink", bundle |-> b]
            second == [direction |-> "source", bundle |-> b]
<1>1. first \in Descriptor /\ second \in Descriptor
  BY DEF Descriptor
<1>2. Len(r) \in Nat /\ Len(r) % 2 = 0
  BY DEF Whole
<1>3. /\ Len(r \o <<first, second>>) = Len(r) + 2
      /\ \A i \in 1..Len(r) : (r \o <<first, second>>)[i] = r[i]
      /\ (r \o <<first, second>>)[Len(r) + 1] = first
      /\ (r \o <<first, second>>)[Len(r) + 2] = second
  BY <1>1
<1>4. /\ Len(r \o <<first>>) = Len(r) + 1
      /\ \A i \in 1..Len(r) : (r \o <<first>>)[i] = r[i]
      /\ (r \o <<first>>)[Len(r) + 1] = first
  BY <1>1
<1>5. first.direction = "sink" /\ second.direction = "source" /\ first.bundle = second.bundle
  OBVIOUS
<1>. HIDE DEF first, second
<1>6. /\ (Len(r) + 1) % 2 = 1 /\ (Len(r) + 2) % 2 = 0
      /\ Len(r) + 2 - 1 = Len(r) + 1
      /\ \A i \in 1..Len(r) : i % 2 = 0 => i - 1 \in 1..Len(r)
  BY <1>2
<1>7. Whole(r \o <<first, second>>, TRUE)
  <2>. DEFINE q == r \o <<first, second>>
  <2>0. /\ Len(q) = Len(r) + 2
        /\ \A i \in 1..Len(r) : q[i] = r[i]
        /\ q[Len(r) + 1] = first /\ q[Len(r) + 2] = second
    BY <1>3
  <2>. HIDE DEF q
  <2>1. ASSUME NEW i \in 1..Len(q)
        PROVE  /\ q[i].direction = IF i % 2 = 1 THEN "sink" ELSE "source"
               /\ i % 2 = 0 => q[i].bundle = q[i - 1].bundle
    <3>1. CASE i \in 1..Len(r)
      BY SMTT(60), <1>6, <2>0, <3>1 DEF Whole
    <3>2. CASE i = Len(r) + 1
      BY <1>5, <1>6, <2>0, <3>2
    <3>3. CASE i = Len(r) + 2
      BY <1>5, <1>6, <2>0, <3>3
    <3>4. i \in 1..Len(r) \/ i = Len(r) + 1 \/ i = Len(r) + 2
      BY <1>1, <2>0
    <3>. QED
      BY Zenon, <3>1, <3>2, <3>3, <3>4
  <2>2. Len(q) % 2 # 1
    BY <1>6, <2>0
  <2>3. Whole(q, TRUE)
    BY SMTT(60), <2>1, <2>2 DEF Whole
  <2>. QED
    BY Zenon, <2>3 DEF q
<1>8. Whole(r \o <<first>>, FALSE)
  <2>. DEFINE q == r \o <<first>>
  <2>0. /\ Len(q) = Len(r) + 1
        /\ \A i \in 1..Len(r) : q[i] = r[i]
        /\ q[Len(r) + 1] = first
    BY <1>4
  <2>. HIDE DEF q
  <2>1. ASSUME NEW i \in 1..Len(q)
        PROVE  /\ q[i].direction = IF i % 2 = 1 THEN "sink" ELSE "source"
               /\ i % 2 = 0 => q[i].bundle = q[i - 1].bundle
    <3>1. CASE i \in 1..Len(r)
      BY ZenonT(60), <1>6, <2>0, <3>1 DEF Whole
    <3>2. CASE i = Len(r) + 1
      BY <1>5, <1>6, <2>0, <3>2
    <3>3. i \in 1..Len(r) \/ i = Len(r) + 1
      BY <1>1, <2>0
    <3>. QED
      BY Zenon, <3>1, <3>2, <3>3
  <2>2. Whole(q, FALSE)
    BY <2>1 DEF Whole
  <2>. QED
    BY Zenon, <2>2 DEF q
<1>. QED
  BY Zenon, <1>7, <1>8 DEF first, second

(* Accept takes connections in the order they came, each of them once.     *)
LEMMA QueueInvStep == GenInv /\ QueueInv /\ [Next]_vars => QueueInv'
<1>. SUFFICES ASSUME GenInv, QueueInv, [Next]_vars
              PROVE  QueueInv'
  OBVIOUS
<1>. USE BoundsAssumption DEF QueueInv
<1>0. \A i \in 1..Len(queue) : queue[i] \in Peers /\ queue[i] \in Nat /\ queue[i] # NoPeer
  BY SMTT(60) DEF Peers, NoPeer
<1>1. CASE PublishPair
  <2>1. UNCHANGED <<opened, queue, gone>> /\ clientFD' \in {clientFD, NoPeer}
    BY <1>1 DEF PublishPair, SendFails, peerVars
  <2>2. \/ UNCHANGED received
        \/ /\ clientFD # NoPeer
           /\ \E what \in Seq(Descriptor) :
                 received' = [received EXCEPT ![clientFD] = @ \o what]
    <3>1. NextGeneration(lastGen) \in Nat
      BY GenerationGrows DEF GenInv
    <3>2. /\ <<[direction |-> "sink", bundle |-> NextGeneration(lastGen)],
               [direction |-> "source", bundle |-> NextGeneration(lastGen)]>> \in Seq(Descriptor)
          /\ <<[direction |-> "sink", bundle |-> NextGeneration(lastGen)]>> \in Seq(Descriptor)
      BY <3>1 DEF Descriptor
    <3>. QED
      BY Zenon, <1>1, <3>2 DEF PublishPair, asterisk
  <2>3. CASE UNCHANGED received
    BY <1>0, <2>1, <2>3 DEF NoPeer
  <2>4. ASSUME NEW what \in Seq(Descriptor), clientFD # NoPeer,
               received' = [received EXCEPT ![clientFD] = @ \o what]
        PROVE  QueueInv'
    <3>1. clientFD \in Peers /\ \A c \in Peers : c # clientFD => received'[c] = received[c]
      BY <2>4 DEF Peers, NoPeer
    <3>2. received' \in [Peers -> Seq(Descriptor)]
      BY <2>4, <3>1
    <3>3. \A i \in 1..Len(queue) : received'[queue[i]] = <<>> /\ queue[i] # clientFD'
      BY SMTT(60), <1>0, <2>1, <3>1
    <3>4. \A c \in Peers : c > opened => received'[c] = <<>>
      BY SMTT(60), <3>1 DEF Peers
    <3>. QED
      BY <2>1, <3>2, <3>3, <3>4 DEF NoPeer
  <2>. QED
    BY ZenonT(60), <2>2, <2>3, <2>4
<1>2. CASE PeerConnects
  <2>1. /\ opened' = opened + 1 /\ opened' \in Peers
        /\ queue' = Append(queue, opened')
        /\ UNCHANGED <<received, clientFD>>
    BY <1>2 DEF PeerConnects, Peers, runVars, asterisk
  <2>2. queue' \in Seq(Peers) /\ Len(queue') = Len(queue) + 1
    BY <2>1
  <2>3. /\ \A i \in 1..Len(queue) : queue'[i] = queue[i] /\ queue[i] \in Peers
        /\ queue'[Len(queue) + 1] = opened'
    BY <2>1
  <2>4. ASSUME NEW i \in 1..Len(queue')
        PROVE  queue'[i] <= opened' /\ queue'[i] # clientFD' /\ received'[queue'[i]] = <<>>
    <3>1. CASE i = Len(queue) + 1
      BY <2>1, <2>3, <3>1 DEF Peers
    <3>2. CASE i \in 1..Len(queue)
      BY SMTT(60), <1>0, <2>1, <2>3, <3>2
    <3>. QED
      BY <2>2, <3>1, <3>2
  <2>5. \A i, j \in 1..Len(queue') : queue'[i] = queue'[j] => i = j
    <3>1. \A i \in 1..Len(queue) : queue[i] < opened'
      BY SMTT(60), <1>0, <2>1
    <3>2. \A i \in 1..Len(queue') : i \in 1..Len(queue) \/ i = Len(queue) + 1
      BY <2>2
    <3>. SUFFICES ASSUME NEW i \in 1..Len(queue'), NEW j \in 1..Len(queue'),
                         queue'[i] = queue'[j]
                  PROVE  i = j
      OBVIOUS
    <3>3. CASE i \in 1..Len(queue) /\ j \in 1..Len(queue)
      BY <2>3, <3>3
    <3>. QED
      BY <1>0, <2>1, <2>3, <3>1, <3>2, <3>3
  <2>6. \A c \in Peers : c > opened' => received'[c] = <<>>
    BY <2>1 DEF Peers
  <2>. QED
    <3>1. opened' \in Nat /\ opened' <= MaxPeers /\ clientFD' \in Nat /\ clientFD' <= opened'
      BY <2>1 DEF Peers
    <3>. QED
      BY SMTT(60), <2>1, <2>2, <2>4, <2>5, <2>6, <3>1
<1>3. CASE Accept
  <2>1. UNCHANGED <<opened, received>>
    BY <1>3 DEF Accept, asterisk
  <2>2. CASE queue = <<>>
    BY <1>3, <2>1, <2>2 DEF Accept
  <2>3. CASE queue # <<>>
    <3>1. queue' = Tail(queue) /\ clientFD' \in {clientFD, queue[1]}
      BY <1>3, <2>3 DEF Accept
    <3>2. /\ queue' \in Seq(Peers) /\ Len(queue') = Len(queue) - 1
          /\ \A i \in 1..Len(queue') : i + 1 \in 1..Len(queue) /\ queue'[i] = queue[i + 1]
      BY <2>3, <3>1
    <3>3. 1 \in 1..Len(queue) /\ queue[1] \in Peers
      BY <2>3
    <3>4. ASSUME NEW i \in 1..Len(queue'), NEW j \in 1..Len(queue'), queue'[i] = queue'[j]
          PROVE  i = j
      <4>1. queue[i + 1] = queue[j + 1] /\ i + 1 \in 1..Len(queue) /\ j + 1 \in 1..Len(queue)
        BY Zenon, <3>2, <3>4
      <4>. QED
        BY <4>1
    <3>5. ASSUME NEW i \in 1..Len(queue')
          PROVE  /\ queue'[i] # clientFD' /\ queue'[i] <= opened'
                 /\ received'[queue'[i]] = <<>>
      BY SMTT(60), <2>1, <3>1, <3>2, <3>3
    <3>6. clientFD' \in Nat /\ clientFD' <= opened
      BY ZenonT(60), <1>0, <3>1, <3>3
    <3>. QED
      BY Zenon, <2>1, <3>2, <3>4, <3>5, <3>6
  <2>. QED
    BY <2>2, <2>3
<1>4. CASE BrokerRestarts
  BY <1>4 DEF BrokerRestarts, asterisk, NoPeer
<1>5. CASE CheckClient
  BY <1>0, <1>5 DEF CheckClient, peerVars, asterisk, NoPeer
<1>6. CASE Tick \/ SessionEnds \/ Poll \/ Report \/ (\E c \in Peers : PeerCloses(c)) \/ UNCHANGED vars
  BY ZenonT(60), <1>6 DEF Tick, SessionEnds, Poll, Report, PeerCloses,
                         vars, runVars, peerVars, asterisk
<1>. QED
  BY <1>1, <1>2, <1>3, <1>4, <1>5, <1>6 DEF Next, Run

(* The queue of waiting connections is in order in every state.            *)
LEMMA QueueInvariant == Spec => []QueueInv
<1>1. Init => QueueInv
  BY BoundsAssumption DEF Init, QueueInv, NoPeer
<1>. QED
  BY <1>1, GenInvariant, QueueInvStep, PTL DEF Spec

----------------------------------------------------------------------------
(* Every step keeps a session with the connection it was sent to.          *)
LEMMA HolderInvStep == GenInv /\ QueueInv /\ HolderInv /\ [Next]_vars => HolderInv'
<1>. SUFFICES ASSUME GenInv, QueueInv, HolderInv, [Next]_vars
              PROVE  HolderInv'
  OBVIOUS
<1>. USE DEF HolderInv, SessionBelongsToItsPeer, NoPeer
<1>1. CASE PublishPair
  <2>1. NextGeneration(lastGen) # 0
    BY GenerationGrows DEF GenInv
  <2>. QED
    BY <1>1, <2>1 DEF PublishPair, SendFails, sessionVars
<1>2. CASE SessionEnds
  BY <1>2 DEF SessionEnds, runVars
<1>3. CASE Poll
  BY <1>3 DEF Poll, sessionVars
<1>4. CASE CheckClient
  BY <1>4 DEF CheckClient, sessionVars
<1>5. CASE Report
  BY <1>5 DEF Report
<1>6. CASE Accept
  <2>1. queue # <<>> => Head(queue) \in Nat
    BY SMTT(60), BoundsAssumption DEF QueueInv, Peers
  <2>. QED
    BY <1>6, <2>1 DEF Accept, sessionVars
<1>7. CASE BrokerRestarts
  BY <1>7 DEF BrokerRestarts
<1>8. CASE Tick \/ PeerConnects \/ (\E c \in Peers : PeerCloses(c)) \/ UNCHANGED vars
  BY <1>8 DEF Tick, PeerConnects, PeerCloses, vars, sessionVars, runVars
<1>. QED
  BY <1>1, <1>2, <1>3, <1>4, <1>5, <1>6, <1>7, <1>8 DEF Next, Run

(* A live session belongs to the peer it was sent to, and the disconnect   *)
(* handler, which names no session, cannot end the session of a newer      *)
(* peer: CheckClient closes the client before Report and Accept.           *)
THEOREM SessionsStayWithTheirPeer == Spec => []SessionBelongsToItsPeer
<1>1. Init => HolderInv
  BY DEF Init, HolderInv, SessionBelongsToItsPeer, NoPeer
<1>2. HolderInv => SessionBelongsToItsPeer
  BY DEF HolderInv
<1>. QED
  BY <1>1, <1>2, GenInvariant, QueueInvariant, HolderInvStep, PTL DEF Spec

(* Asterisk sees descriptors in pairs of one bundle on every connection:   *)
(* a PublishPair that fails between its two sends closes the client, which *)
(* is never accepted again.                                                *)
THEOREM PairsStayWhole == Spec => []PairsArriveWhole
<1>1. Init => PairsArriveWhole
  BY SMTT(60) DEF Init, PairsArriveWhole
<1>2. GenInv /\ QueueInv /\ PairsArriveWhole /\ [Next]_vars => PairsArriveWhole'
  <2>. SUFFICES ASSUME GenInv, QueueInv, PairsArriveWhole, [Next]_vars, NEW c \in Peers
                PROVE  Whole(received'[c], clientFD' = c)
    BY Zenon DEF PairsArriveWhole, Whole
  <2>0. Whole(received[c], clientFD = c)
    BY Zenon DEF PairsArriveWhole, Whole
  <2>1. CASE UNCHANGED received /\ clientFD' \in {clientFD, NoPeer}
    <3>1. clientFD' = c => clientFD = c
      BY <2>1, BoundsAssumption DEF NoPeer, Peers
    <3>. QED
      BY Zenon, <2>0, <2>1, <3>1 DEF Whole
  <2>2. CASE Accept
    <3>1. CASE clientFD' = clientFD
      BY <2>1, <2>2, <3>1 DEF Accept, asterisk
    <3>2. CASE queue # <<>> /\ clientFD' = Head(queue)
      <4>1. received[Head(queue)] = <<>>
        BY <3>2 DEF QueueInv
      <4>2. Len(received[c]) % 2 = 1 => clientFD' # c
        <5>1. Len(<<>>) % 2 # 1
          OBVIOUS
        <5>. QED
          BY Zenon, <3>2, <4>1, <5>1
      <4>. QED
        BY Zenon, <2>0, <2>2, <4>2 DEF Accept, asterisk, Whole
    <3>. QED
      BY <2>2, <3>1, <3>2 DEF Accept
  <2>3. CASE PublishPair
    <3>. DEFINE sink == NextGeneration(lastGen)
                first == [direction |-> "sink", bundle |-> sink]
                second == [direction |-> "source", bundle |-> sink]
    <3>1. \/ UNCHANGED received /\ clientFD' \in {clientFD, NoPeer}
          \/ /\ received' = [received EXCEPT ![clientFD] = @ \o <<first, second>>]
             /\ clientFD' = clientFD
          \/ /\ received' = [received EXCEPT ![clientFD] = @ \o <<first>>]
             /\ clientFD' = NoPeer
      BY SMTT(60), <2>3 DEF PublishPair, SendFails, asterisk
    <3>2. sink \in Nat
      BY GenerationGrows DEF GenInv
    <3>. HIDE DEF sink
    <3>3. CASE c = clientFD
      <4>1. received[c] \in Seq(Descriptor) /\ Whole(received[c], TRUE)
        BY <2>0, <3>3 DEF QueueInv, Whole
      <4>2. /\ Whole(received[c] \o <<first, second>>, TRUE)
            /\ Whole(received[c] \o <<first>>, FALSE)
        BY Zenon, <3>2, <4>1, PairAppended
      <4>. HIDE DEF first, second
      <4>3. c # NoPeer
        BY DEF Peers, NoPeer
      <4>4. received \in [Peers -> Seq(Descriptor)]
        BY DEF QueueInv
      <4>5. Whole(received[c] \o <<first>>, clientFD' = c) \/ clientFD' # NoPeer
        BY Zenon, <4>2, <4>3 DEF Whole
      <4>6. CASE received' = [received EXCEPT ![clientFD] = @ \o <<first, second>>]
                 /\ clientFD' = clientFD
        <5>1. received'[c] = received[c] \o <<first, second>> /\ clientFD' = c
          BY <3>3, <4>4, <4>6
        <5>. QED
          BY ZenonT(60), <4>2, <5>1 DEF Whole
      <4>7. CASE received' = [received EXCEPT ![clientFD] = @ \o <<first>>]
                 /\ clientFD' = NoPeer
        <5>1. received'[c] = received[c] \o <<first>>
          BY <3>3, <4>4, <4>7
        <5>. QED
          BY <4>5, <4>7, <5>1
      <4>. QED
        BY Zenon, <2>1, <3>1, <4>6, <4>7
    <3>4. CASE c # clientFD
      <4>1. UNCHANGED received[c]
        BY <3>1, <3>4 DEF QueueInv
      <4>2. clientFD' # c
        BY <3>1, <3>4 DEF NoPeer, Peers
      <4>. QED
        BY Zenon, <2>0, <4>1, <4>2 DEF Whole
    <3>. QED
      BY SMTT(60), <3>3, <3>4
  <2>. QED
    BY SMTT(60), <2>1, <2>2, <2>3 DEF Next, Run, Tick, SessionEnds, Poll, CheckClient, Report,
         BrokerRestarts, PeerConnects, PeerCloses, vars, runVars, asterisk
<1>. QED
  BY <1>1, <1>2, GenInvariant, QueueInvariant, PTL DEF Spec

============================================================================
