----------------------------- MODULE MnsProofs ------------------------------
(***************************************************************************)
(* Proofs about the MNS server, for any number of profiles, connections    *)
(* and reports of any size.                                                *)
(***************************************************************************)
EXTENDS Mns, TLAPS

ConnFields == {"at", "profile", "reads", "open", "connected", "accumulated"}
PhoneFields == {"link", "connected", "report", "part", "packet"}
Part == [report : Reports \cup {None}, part : Nat]

Shapes ==
    /\ DOMAIN status = {"registered", "connected"}
    /\ DOMAIN conn = Conns /\ DOMAIN phone = Conns
    /\ \A c \in Conns :
          /\ DOMAIN conn[c] = ConnFields /\ conn[c].accumulated \in Seq(Part)
          /\ DOMAIN phone[c] = PhoneFields
          /\ phone[c].part \in Nat /\ phone[c].report \in Reports \cup {None}
    /\ acked \subseteq Reports

Served(c) == conn[c].at \in {"calling", "added", "handle", "offer"}

(* How much of the report the goroutine was sent and has read.             *)
Read(c) == IF phone[c].packet \in {"put", "final"} THEN phone[c].part - 1 ELSE phone[c].part

(* What accumulated holds is the report the phone is sending, as far as it *)
(* was read, or nothing between two reports.                               *)
InStep(c) ==
    /\ phone[c].packet \in {None, "connect", "put", "final"}
    /\ phone[c].packet \in {"put", "final"} => phone[c].part >= 1 /\ phone[c].report \in Reports
    /\ phone[c].packet = "final" => phone[c].part = Size[phone[c].report]
    /\ phone[c].packet = "connect" => phone[c].part = 0
    /\ phone[c].report = None => phone[c].part = 0
    /\ ~phone[c].connected => phone[c].report = None
    /\ IF conn[c].at = "offer" THEN Read(c) = 0
       ELSE /\ Len(conn[c].accumulated) = Read(c)
            /\ \A j \in 1..Read(c) :
                  conn[c].accumulated[j] = [report |-> phone[c].report, part |-> j]

ConnInv(c) ==
    /\ conn[c].at \in {"added", "handle", "offer"} => conn[c].reads = c
    /\ ~phone[c].link => phone[c].packet = None
    /\ Served(c) /\ phone[c].link => InStep(c)

IInv == Shapes /\ (\A c \in Conns : ConnInv(c)) /\ AckedReportIsAccounted

----------------------------------------------------------------------------
(* A connection is touched only by steps of its own goroutine, its own     *)
(* phone, or closeAll; a step that leaves both ends of it, as far as the   *)
(* invariant reads them, keeps its part.                                   *)
LEMMA Untouched ==
    ASSUME NEW c \in Conns, ConnInv(c),
           conn'[c].at = conn[c].at, conn'[c].reads = conn[c].reads,
           conn'[c].accumulated = conn[c].accumulated,
           phone'[c] = phone[c] \/ phone'[c] = Hung
    PROVE  ConnInv(c)'
<1>1. CASE phone'[c] = phone[c]
  BY <1>1 DEF ConnInv, Served, InStep, Read
<1>2. CASE phone'[c] = Hung
  BY <1>2 DEF ConnInv, Hung
<1>. QED
  BY SMTT(60), <1>1, <1>2

(* A goroutine that ends, and a slot that is free, have nothing to keep.   *)
LEMMA Over ==
    ASSUME NEW c \in Conns, ConnInv(c),
           conn'[c].at \in {"free", "ended", "last"},
           phone'[c] = phone[c] \/ phone'[c] = Hung
    PROVE  ConnInv(c)'
BY DEF ConnInv, Served, Hung

(* Acknowledged reports stay accounted for as long as goroutines at their  *)
(* offer stay there, or make it.                                           *)
LEMMA AckedStay ==
    ASSUME Shapes, AckedReportIsAccounted, acked' = acked, accounted \subseteq accounted',
           \A c \in Conns : conn[c].at = "offer" =>
               \/ /\ conn'[c].at = "offer"
                  /\ conn'[c].accumulated = conn[c].accumulated
               \/ ParseEvent(conn[c].accumulated) \in accounted' \cup {None}
    PROVE  AckedReportIsAccounted'
<1>. SUFFICES ASSUME NEW r \in acked, r \notin accounted'
              PROVE  \E c \in Conns : /\ conn'[c].at = "offer"
                                      /\ ParseEvent(conn'[c].accumulated) = r
  BY Zenon DEF AckedReportIsAccounted, ParseEvent
<1>1. PICK c \in Conns : conn[c].at = "offer" /\ ParseEvent(conn[c].accumulated) = r
  BY DEF AckedReportIsAccounted
<1>2. r # None
  BY ReportsAssumption DEF Shapes
<1>3. conn'[c].at = "offer" /\ conn'[c].accumulated = conn[c].accumulated
  BY <1>1, <1>2
<1>. QED
  BY SMTT(60), <1>1, <1>3

(* An unused slot and a phone that is not there have the right shape.      *)
LEMMA FreeShape ==
    /\ DOMAIN Free = ConnFields /\ Free.accumulated = <<>> /\ Free.at = "free"
    /\ DOMAIN Hung = PhoneFields /\ ~Hung.link /\ Hung.part = 0 /\ Hung.report = None
    /\ Hung.packet = None /\ <<>> \in Seq(Part)
BY DEF Free, Hung, ConnFields, PhoneFields

----------------------------------------------------------------------------
(* closeAll changes nothing but whether descriptors are open, and hangs up *)
(* the phone on the other end.                                             *)
LEMMA CloseAllKeeps ==
    ASSUME IInv, NEW p, CloseAll(p), UNCHANGED <<status, acked, accounted>>
    PROVE  IInv'
<1>1. ASSUME NEW c \in Conns
      PROVE  /\ DOMAIN conn'[c] = ConnFields
             /\ conn'[c].at = conn[c].at /\ conn'[c].reads = conn[c].reads
             /\ conn'[c].accumulated = conn[c].accumulated
             /\ phone'[c] = phone[c] \/ phone'[c] = Hung
  BY <1>1 DEF CloseAll, IInv, Shapes, ConnFields
<1>2. Shapes'
  BY <1>1, FreeShape DEF IInv, Shapes, CloseAll
<1>3. \A c \in Conns : ConnInv(c)'
  BY <1>1, Untouched DEF IInv
<1>4. AckedReportIsAccounted'
  BY <1>1, AckedStay DEF IInv
<1>. QED
  BY <1>2, <1>3, <1>4 DEF IInv

(* A step of one connection that neither acknowledges nor offers.          *)
OnlyTouches(c) ==
    /\ DOMAIN conn' = Conns /\ DOMAIN phone' = Conns
    /\ \A d \in Conns \ {c} : conn'[d] = conn[d] /\ phone'[d] = phone[d]

ShapeOf(c) ==
    /\ DOMAIN conn[c] = ConnFields /\ conn[c].accumulated \in Seq(Part)
    /\ DOMAIN phone[c] = PhoneFields
    /\ phone[c].part \in Nat /\ phone[c].report \in Reports \cup {None}

(* Every such step keeps the invariant if it does so for its connection.   *)
LEMMA OneConnection ==
    ASSUME IInv, NEW c \in Conns, OnlyTouches(c), ShapeOf(c)', ConnInv(c)',
           DOMAIN status' = {"registered", "connected"}, UNCHANGED <<acked, accounted>>,
           conn[c].at = "offer" => conn'[c] = conn[c]
    PROVE  IInv'
<1>1. \A d \in Conns : d # c => conn'[d] = conn[d] /\ phone'[d] = phone[d]
  BY DEF OnlyTouches
<1>2. Shapes'
  BY ZenonT(60), <1>1 DEF IInv, Shapes, ShapeOf, OnlyTouches
<1>3. \A d \in Conns : ConnInv(d)'
  <2>. SUFFICES ASSUME NEW d \in Conns, d # c PROVE ConnInv(d)'
    OBVIOUS
  <2>. QED
    BY <1>1, Untouched DEF IInv
<1>4. AckedReportIsAccounted'
  <2>1. \A d \in Conns : conn[d].at = "offer" => conn'[d] = conn[d]
    BY SMTT(60), <1>1
  <2>. QED
    BY <2>1, AckedStay DEF IInv
<1>. QED
  BY <1>2, <1>3, <1>4 DEF IInv

(* The end of a goroutine.                                                 *)
LEMMA EndKeeps ==
    ASSUME IInv, NEW c \in Conns, conn' = Ended(c), conn[c].at # "offer",
           phone' = phone \/ phone' = [phone EXCEPT ![c] = Hung],
           UNCHANGED <<status, acked, accounted>>
    PROVE  IInv'
<1>1. OnlyTouches(c)
  BY DEF OnlyTouches, Ended, IInv, Shapes
<1>2. conn'[c].at = "ended" /\ DOMAIN conn'[c] = ConnFields /\ conn'[c].accumulated = <<>>
  BY DEF Ended, Free, ConnFields, IInv, Shapes
<1>3. phone'[c] = phone[c] \/ phone'[c] = Hung
  BY DEF IInv, Shapes
<1>4. ShapeOf(c)'
  BY <1>2, <1>3, FreeShape DEF ShapeOf, IInv, Shapes
<1>5. ConnInv(c)'
  BY <1>2, <1>3, Over DEF IInv
<1>. QED
  BY <1>1, <1>4, <1>5, OneConnection DEF IInv, Shapes

(* Connections come and go.                                                *)
LEMMA LifeKeeps ==
    ASSUME IInv, ~NumbersReused, NEW c \in Conns,
           Dial(c) \/ NewConnection(c) \/ ReportConnected(c) \/ Forget(c) \/ ReportDisconnected(c)
    PROVE  IInv'
<1>0. ShapeOf(c) /\ ConnInv(c) /\ DOMAIN conn = Conns /\ DOMAIN phone = Conns
      /\ DOMAIN status = {"registered", "connected"}
  BY DEF IInv, Shapes, ShapeOf
<1>1. CASE Dial(c)
  <2>1. /\ conn[c] = Free /\ phone[c] = Hung
        /\ conn' = [conn EXCEPT ![c] = [Free EXCEPT !.at = "calling", !.profile = server.profile]]
        /\ phone' = [phone EXCEPT ![c] = [Hung EXCEPT !.link = TRUE]]
    BY <1>1 DEF Dial
  <2>2. /\ conn'[c].at = "calling" /\ DOMAIN conn'[c] = ConnFields /\ conn'[c].accumulated = <<>>
    BY <1>0, <2>1 DEF Free, ConnFields
  <2>3. /\ DOMAIN phone'[c] = PhoneFields /\ phone'[c].report = None /\ phone'[c].part = 0
        /\ phone'[c].packet = None /\ phone'[c].link
    BY <1>0, <2>1 DEF Hung, PhoneFields
  <2>4. OnlyTouches(c)
    BY <1>0, <2>1 DEF OnlyTouches
  <2>5. ShapeOf(c)'
    BY SMTT(60), <2>2, <2>3, FreeShape DEF ShapeOf
  <2>6. ConnInv(c)'
    BY <2>2, <2>3 DEF ConnInv, InStep, Read, None
  <2>. QED
    BY <1>0, <1>1, <2>1, <2>4, <2>5, <2>6, FreeShape, OneConnection DEF Dial
<1>2. CASE NewConnection(c)
  <2>1. /\ conn[c].at = "calling" /\ UNCHANGED <<phone, status, acked, accounted>>
        /\ conn' = [d \in Conns |->
                      IF d = c THEN [conn[c] EXCEPT !.at = "added", !.open = TRUE, !.reads = c]
                      ELSE conn[d]]
    BY <1>2 DEF NewConnection
  <2>2. /\ conn'[c].at = "added" /\ conn'[c].reads = c /\ DOMAIN conn'[c] = ConnFields
        /\ conn'[c].accumulated = conn[c].accumulated
    BY Zenon, <1>0, <2>1 DEF ShapeOf, ConnFields
  <2>3. OnlyTouches(c) /\ phone'[c] = phone[c]
    BY SMTT(60), <1>0, <2>1 DEF OnlyTouches
  <2>4. ShapeOf(c)'
    BY SMTT(60), <1>0, <2>2, <2>3 DEF ShapeOf
  <2>5. ConnInv(c)'
    BY <1>0, <2>1, <2>2, <2>3 DEF ConnInv, Served, InStep, Read
  <2>. QED
    BY <1>0, <2>1, <2>3, <2>4, <2>5, OneConnection
<1>3. CASE ReportConnected(c)
  <2>1. /\ conn[c].at = "added" /\ UNCHANGED <<phone, acked, accounted>>
        /\ conn' = [conn EXCEPT ![c] = [conn[c] EXCEPT !.at = "handle"]]
        /\ status' = [status EXCEPT !.connected = TRUE]
    BY <1>3 DEF ReportConnected
  <2>2. /\ conn'[c].at = "handle" /\ conn'[c].reads = conn[c].reads
        /\ DOMAIN conn'[c] = ConnFields /\ conn'[c].accumulated = conn[c].accumulated
    BY <1>0, <2>1 DEF ShapeOf, ConnFields
  <2>3. OnlyTouches(c) /\ phone'[c] = phone[c]
    BY <1>0, <2>1 DEF OnlyTouches
  <2>4. ShapeOf(c)'
    BY SMTT(60), <1>0, <2>2, <2>3 DEF ShapeOf
  <2>5. ConnInv(c)'
    BY <1>0, <2>1, <2>2, <2>3 DEF ConnInv, Served, InStep, Read
  <2>. QED
    BY <1>0, <2>1, <2>3, <2>4, <2>5, OneConnection
<1>4. CASE Forget(c) \/ ReportDisconnected(c)
  <2>1. /\ conn[c].at \in {"ended", "last"} /\ UNCHANGED <<phone, acked, accounted>>
        /\ \/ conn' = [conn EXCEPT ![c] = Free]
           \/ conn' = [conn EXCEPT ![c] = [Free EXCEPT !.at = "last"]]
        /\ status' = status \/ status' = [status EXCEPT !.connected = FALSE]
    BY <1>4 DEF Forget, ReportDisconnected
  <2>2. /\ conn'[c].at \in {"free", "last"} /\ DOMAIN conn'[c] = ConnFields
        /\ conn'[c].accumulated = <<>>
    BY <1>0, <2>1 DEF Free, ConnFields
  <2>3. OnlyTouches(c) /\ phone'[c] = phone[c]
    BY SMTT(60), <1>0, <2>1 DEF OnlyTouches
  <2>4. ShapeOf(c)'
    BY SMTT(60), <1>0, <2>2, <2>3, FreeShape DEF ShapeOf
  <2>5. ConnInv(c)'
    BY <1>0, <2>2, <2>3, Over
  <2>. QED
    BY <1>0, <2>1, <2>3, <2>4, <2>5, OneConnection
<1>. QED
  BY <1>1, <1>2, <1>3, <1>4

(* The phone's packets follow each other in order.                         *)
LEMMA PhoneKeeps ==
    ASSUME IInv, NEW c \in Conns,
           PhoneConnects(c) \/ (\E r \in Reports : PhonePuts(c, r)) \/ LinkLost(c)
    PROVE  IInv'
<1>0. ShapeOf(c) /\ ConnInv(c) /\ DOMAIN conn = Conns /\ DOMAIN phone = Conns
      /\ DOMAIN status = {"registered", "connected"}
  BY DEF IInv, Shapes, ShapeOf
<1>1. CASE LinkLost(c)
  <2>1. /\ phone' = [phone EXCEPT ![c] = Hung] /\ UNCHANGED <<conn, status, acked, accounted>>
    BY <1>1 DEF LinkLost
  <2>2. OnlyTouches(c) /\ phone'[c] = Hung
    BY SMTT(60), <1>0, <2>1 DEF OnlyTouches
  <2>3. ShapeOf(c)'
    BY <1>0, <2>1, <2>2, FreeShape DEF ShapeOf
  <2>4. ConnInv(c)'
    BY <1>0, <2>1, <2>2, Untouched
  <2>. QED
    BY <1>0, <2>1, <2>2, <2>3, <2>4, OneConnection
<1>2. ASSUME NEW packet, NEW report \in Reports \cup {None}, NEW part \in Nat,
             PhoneSends(c, packet, report, part), phone[c].packet = None,
             Served(c) => InStep(c),
             \/ packet = "connect" /\ report = None /\ part = 0 /\ ~phone[c].connected
             \/ /\ packet \in {"put", "final"} /\ report \in Reports /\ phone[c].connected
                /\ packet = "final" => part = Size[report]
                /\ part = phone[c].part + 1 /\ phone[c].report \in {None, report}
      PROVE  IInv'
  <2>1. /\ UNCHANGED <<conn, status, acked, accounted>>
        /\ phone' = [phone EXCEPT ![c] = [link |-> TRUE, connected |-> phone[c].connected,
                                          report |-> report, part |-> part, packet |-> packet]]
    BY <1>2 DEF PhoneSends
  <2>2. /\ OnlyTouches(c) /\ DOMAIN phone'[c] = PhoneFields
        /\ phone'[c].connected = phone[c].connected /\ phone'[c].link
        /\ phone'[c].report = report /\ phone'[c].part = part /\ phone'[c].packet = packet
    BY <1>0, <2>1 DEF OnlyTouches, PhoneFields
  <2>3. ShapeOf(c)'
    BY <1>0, <1>2, <2>1, <2>2 DEF ShapeOf
  <2>4. ASSUME Served(c) PROVE InStep(c)'
    <3>1. CASE packet = "connect"
      BY SMTT(60), <1>0, <1>2, <2>1, <2>2, <2>4, <3>1 DEF InStep, Read, None
    <3>2. CASE packet # "connect"
      <4>1. Read(c) = phone[c].part /\ Read(c)' = phone[c].part
        <5>1. /\ phone[c].packet = None /\ phone'[c].packet \in {"put", "final"}
              /\ phone'[c].part = phone[c].part + 1
          BY ZenonT(60), <1>2, <2>2, <3>2
        <5>2. phone[c].part \in Nat
          BY ZenonT(60), <1>0 DEF ShapeOf
        <5>. QED
          BY SMTT(60), <5>1, <5>2 DEF Read, None
      <4>2. phone[c].part = 0 \/ phone[c].report = report
        BY SMTT(60), <1>2, <2>4 DEF InStep
      <4>. QED
        BY SMTT(60), <1>0, <1>2, <2>1, <2>2, <2>4, <3>2, <4>1, <4>2, ReportsAssumption
           DEF InStep, ShapeOf
    <3>. QED
      BY SMTT(60), <3>1, <3>2
  <2>5. ConnInv(c)'
    BY <1>0, <2>1, <2>2, <2>4 DEF ConnInv, Served
  <2>. QED
    BY <1>0, <2>1, <2>2, <2>3, <2>5, OneConnection
<1>3. CASE PhoneConnects(c)
  <2>1. Served(c) => InStep(c)
    BY SMTT(60), <1>0, <1>3 DEF PhoneConnects, PhoneSends, ConnInv
  <2>. QED
    BY ZenonT(60), <1>2, <1>3, <2>1 DEF PhoneConnects, PhoneSends
<1>4. ASSUME NEW r \in Reports, PhonePuts(c, r) PROVE IInv'
  <2>. DEFINE part == phone[c].part + 1
              packet == IF part = Size[r] THEN "final" ELSE "put"
  <2>1. Served(c) => InStep(c)
    BY <1>0, <1>4 DEF PhonePuts, PhoneSends, ConnInv
  <2>2. /\ PhoneSends(c, packet, r, part) /\ phone[c].packet = None /\ phone[c].connected
        /\ phone[c].report \in {None, r}
    BY <1>4 DEF PhonePuts, PhoneSends
  <2>3. part \in Nat /\ packet \in {"put", "final"} /\ (packet = "final" => part = Size[r])
    BY <1>0 DEF ShapeOf
  <2>. HIDE DEF part, packet
  <2>4. part = phone[c].part + 1
    BY SMTT(60) DEF part
  <2>. QED
    BY SMTT(60), <1>2, <2>1, <2>2, <2>3, <2>4
<1>. QED
  BY <1>1, <1>3, <1>4

----------------------------------------------------------------------------
(* What reading a packet does to the goroutine's state: after the last one *)
(* of a report, accumulated is exactly that report.                        *)
BodyRead(c, new) ==
    /\ DOMAIN new = ConnFields /\ new.accumulated \in Seq(Part) /\ new.reads = c
    /\ phone[c].packet = "connect" => new.at = "handle" /\ new.accumulated = <<>>
    /\ phone[c].packet = "put" =>
          /\ new.at = "handle"
          /\ Len(new.accumulated) = phone[c].part
          /\ \A j \in 1..phone[c].part :
                new.accumulated[j] = [report |-> phone[c].report, part |-> j]
    /\ phone[c].packet = "final" =>
          new.at = "offer" /\ ParseEvent(new.accumulated) = phone[c].report

(* handle reads a packet that is in step, and adds its part of the body.   *)
LEMMA HandledBody ==
    ASSUME IInv, NEW c \in Conns, conn[c].at = "handle", phone[c].packet # None
    PROVE  phone[c].link /\ InStep(c) /\ conn[c].reads = c /\ BodyRead(c, Handled(c))
<1>. USE DEF BodyRead
<1>. DEFINE last == [report |-> phone[c].report, part |-> phone[c].part]
            body == Append(conn[c].accumulated, last)
<1>1. phone[c].link /\ InStep(c) /\ conn[c].reads = c
  BY DEF IInv, ConnInv, Served
<1>2. /\ conn[c].accumulated \in Seq(Part) /\ last \in Part /\ DOMAIN conn[c] = ConnFields
      /\ phone[c].part \in Nat
  BY ZenonT(60) DEF IInv, Shapes, Part
<1>3. CASE phone[c].packet = "connect"
  <2>1. Handled(c) = [conn[c] EXCEPT !.connected = TRUE, !.accumulated = <<>>]
    BY SMTT(60), <1>1, <1>3 DEF Handled
  <2>. QED
    BY <1>1, <1>2, <1>3, <2>1, FreeShape DEF ConnFields
<1>4. CASE phone[c].packet \in {"put", "final"}
  <2>1. /\ Read(c) = phone[c].part - 1 /\ Len(conn[c].accumulated) = phone[c].part - 1
        /\ \A j \in 1..(phone[c].part - 1) :
              conn[c].accumulated[j] = [report |-> phone[c].report, part |-> j]
        /\ phone[c].part >= 1 /\ phone[c].report \in Reports
    BY <1>1, <1>4 DEF InStep, Read
  <2>2. body \in Seq(Part) /\ Len(body) = phone[c].part
    BY SMTT(60), <1>2, <2>1
  <2>3. \A j \in 1..phone[c].part : body[j] = [report |-> phone[c].report, part |-> j]
    BY SMTT(60), <1>2, <2>1
  <2>4. CASE phone[c].packet = "put"
    <3>1. Handled(c) = [conn[c] EXCEPT !.accumulated = body]
      BY <1>1, <2>4 DEF Handled
    <3>. HIDE DEF body
    <3>2. /\ DOMAIN Handled(c) = ConnFields /\ Handled(c).accumulated = body
          /\ Handled(c).reads = conn[c].reads /\ Handled(c).at = conn[c].at
      BY <1>2, <3>1 DEF ConnFields
    <3>. QED
      BY <1>1, <2>2, <2>3, <2>4, <3>2
  <2>5. CASE phone[c].packet = "final"
    <3>1. Handled(c) = [conn[c] EXCEPT !.accumulated = body, !.at = "offer"]
      BY <1>1, <2>5 DEF Handled
    <3>2. phone[c].part = Size[phone[c].report]
      BY <1>1, <2>5 DEF InStep
    <3>. HIDE DEF body
    <3>3. /\ DOMAIN Handled(c) = ConnFields /\ Handled(c).accumulated = body
          /\ Handled(c).reads = conn[c].reads /\ Handled(c).at = "offer"
      BY <1>2, <3>1 DEF ConnFields
    <3>4. Head(body).report = phone[c].report
      <4>1. body # <<>> /\ Head(body) = body[1]
        BY <1>2, <2>1, <2>2
      <4>2. body[1] = [report |-> phone[c].report, part |-> 1]
        BY <1>2, <2>1, <2>3
      <4>. QED
        BY <4>1, <4>2
    <3>5. ParseEvent(body) = phone[c].report
      BY SMTT(60), <2>2, <2>3, <3>2, <3>4, SizeAssumption DEF ParseEvent
    <3>. QED
      BY <1>1, <2>2, <2>5, <3>3, <3>5
  <2>. QED
    BY SMTT(60), <1>4, <2>4, <2>5
<1>5. phone[c].packet \in {"connect", "put", "final"}
  BY ZenonT(60), <1>1 DEF InStep
<1>. QED
  BY ZenonT(60), <1>1, <1>3, <1>4, <1>5

(* A packet is read: the two ends stay in step, and a report that is       *)
(* acknowledged is the one about to be offered.                            *)
LEMMA PacketKeeps ==
    ASSUME IInv, NEW c \in Conns, HandlePacket(c) \/ AnswerLost(c)
    PROVE  IInv'
<1>1. /\ conn[c].at = "handle" /\ DOMAIN conn = Conns /\ DOMAIN phone = Conns
      /\ conn[c].reads = c /\ phone[c].packet # None
  BY ZenonT(60) DEF HandlePacket, AnswerLost, IInv, Shapes, ConnInv
<1>2. CASE conn' = Ended(c) /\ phone' = [phone EXCEPT ![c] = Hung] /\ UNCHANGED acked
  BY Zenon, <1>1, <1>2, EndKeeps DEF HandlePacket, AnswerLost
<1>3. CASE conn' = [conn EXCEPT ![c] = Handled(c)]
  <2>1. /\ phone[c].link /\ InStep(c) /\ phone[c].part \in Nat
        /\ phone[c].report \in Reports \cup {None} /\ BodyRead(c, conn'[c])
    <3>1. conn'[c] = Handled(c)
      BY <1>1, <1>3
    <3>2. phone[c].link /\ InStep(c) /\ BodyRead(c, Handled(c))
      BY Zenon, <1>1, HandledBody
    <3>3. phone[c].part \in Nat /\ phone[c].report \in Reports \cup {None}
      BY Zenon DEF IInv, Shapes
    <3>. QED
      BY Zenon, <3>1, <3>2, <3>3
  <2>2. CASE phone' = [phone EXCEPT ![c] = Hung] /\ UNCHANGED acked
    <3>1. OnlyTouches(c) /\ phone'[c] = Hung
      BY SMTT(60), <1>1, <1>3, <2>2 DEF OnlyTouches
    <3>2. ShapeOf(c)'
      BY SMTT(60), <2>1, <3>1, FreeShape DEF ShapeOf, BodyRead
    <3>3. ConnInv(c)'
      BY <2>1, <3>1, FreeShape DEF ConnInv, BodyRead
    <3>. QED
      BY ZenonT(60), <1>1, <2>2, <3>1, <3>2, <3>3, OneConnection
         DEF HandlePacket, AnswerLost, IInv, Shapes
  <2>3. CASE /\ phone' = Answer(c, phone[c].packet)
             /\ acked' = IF phone[c].packet = "final" THEN acked \cup {phone[c].report} ELSE acked
    <3>1. UNCHANGED <<status, accounted>>
      BY DEF HandlePacket, AnswerLost
    <3>2. /\ OnlyTouches(c) /\ DOMAIN phone'[c] = PhoneFields
          /\ phone'[c].packet = None /\ phone'[c].connected
          /\ phone'[c].report = IF phone[c].packet = "put" THEN phone[c].report ELSE None
          /\ phone'[c].part = IF phone[c].packet = "put" THEN phone[c].part ELSE 0
      BY SMTT(60), <1>1, <1>3, <2>3 DEF Answer, OnlyTouches, PhoneFields
    <3>3. ShapeOf(c)'
      BY SMTT(60), <2>1, <3>2 DEF ShapeOf, BodyRead
    <3>4. InStep(c)'
      <4>1. Read(c)' = phone'[c].part
        BY SMTT(60), <3>2 DEF Read, None
      <4>2. IF conn'[c].at = "offer" THEN Read(c)' = 0
            ELSE /\ Len(conn'[c].accumulated) = Read(c)'
                 /\ \A j \in 1..Read(c)' :
                       conn'[c].accumulated[j] = [report |-> phone'[c].report, part |-> j]
        <5>1. phone[c].packet \in {"connect", "put", "final"}
          BY <1>1, <2>1 DEF InStep
        <5>2. CASE phone[c].packet = "put"
          BY SMTT(60), <2>1, <3>2, <4>1, <5>2 DEF BodyRead
        <5>3. CASE phone[c].packet = "connect"
          BY SMTT(60), <2>1, <3>2, <4>1, <5>3 DEF BodyRead
        <5>4. CASE phone[c].packet = "final"
          BY SMTT(60), <2>1, <3>2, <4>1, <5>4 DEF BodyRead
        <5>. QED
          BY Zenon, <5>1, <5>2, <5>3, <5>4
      <4>3. phone'[c].report = None => phone'[c].part = 0
        BY SMTT(60), <2>1, <3>2 DEF InStep
      <4>. QED
        BY Zenon, <3>2, <4>2, <4>3 DEF InStep, None
    <3>5. ConnInv(c)'
      BY SMTT(60), <2>1, <3>2, <3>4 DEF ConnInv, BodyRead
    <3>6. \A d \in Conns : ConnInv(d)'
      <4>. SUFFICES ASSUME NEW d \in Conns, d # c PROVE ConnInv(d)'
        BY SMTT(60), <3>5
      <4>. QED
        BY <3>2, Untouched DEF IInv, OnlyTouches
    <3>7. phone[c].packet = "final" => phone[c].report \in Reports
      BY ZenonT(60), <2>1 DEF InStep
    <3>8. Shapes'
      BY ZenonT(60), <2>3, <3>1, <3>2, <3>3, <3>7 DEF IInv, Shapes, ShapeOf, OnlyTouches
    <3>9. AckedReportIsAccounted'
      <4>. SUFFICES ASSUME NEW r \in acked', r \notin accounted
                    PROVE  \E d \in Conns : /\ conn'[d].at = "offer"
                                            /\ ParseEvent(conn'[d].accumulated) = r
        BY ZenonT(60), <3>1 DEF AckedReportIsAccounted, ParseEvent
      <4>1. CASE r \in acked
        <5>1. PICK d \in Conns : conn[d].at = "offer" /\ ParseEvent(conn[d].accumulated) = r
          BY <4>1 DEF IInv, AckedReportIsAccounted
        <5>2. conn'[d] = conn[d]
          BY SMTT(60), <1>1, <3>2, <5>1 DEF OnlyTouches
        <5>. QED
          BY <5>1, <5>2
      <4>2. CASE r \notin acked
        <5>1. phone[c].packet = "final" /\ r = phone[c].report
          BY <2>3, <4>2
        <5>. QED
          BY SMTT(60), <2>1, <5>1 DEF BodyRead
      <4>. QED
        BY <4>1, <4>2
    <3>. QED
      BY SMTT(60), <3>6, <3>8, <3>9 DEF IInv
  <2>. QED
    BY <1>1, <1>3, <2>2, <2>3 DEF HandlePacket, AnswerLost
<1>. QED
  BY SMTT(60), <1>1, <1>2, <1>3 DEF HandlePacket, AnswerLost

(* The offer accounts for the report and leaves accumulated empty, when    *)
(* nothing of the next report has been read.                               *)
LEMMA OfferKeeps ==
    ASSUME IInv, NEW c \in Conns, Offer(c)
    PROVE  IInv'
<1>1. /\ conn[c].at = "offer" /\ UNCHANGED <<status, phone, acked>>
      /\ accounted' = accounted \cup ({ParseEvent(conn[c].accumulated)} \ {None})
  BY DEF Offer
<1>2. /\ conn'[c].at = "handle" /\ conn'[c].accumulated = <<>>
      /\ conn'[c].reads = conn[c].reads /\ DOMAIN conn'[c] = ConnFields
  BY DEF Offer, IInv, Shapes, ConnFields
<1>3. OnlyTouches(c)
  BY <1>1 DEF Offer, OnlyTouches, IInv, Shapes
<1>4. Shapes'
  BY ZenonT(60), <1>1, <1>2, <1>3, FreeShape DEF IInv, Shapes, OnlyTouches
<1>5. ConnInv(c)'
  <2>1. conn[c].reads = c /\ (~phone[c].link => phone[c].packet = None)
    BY ZenonT(60), <1>1 DEF IInv, ConnInv
  <2>2. phone[c].link => InStep(c)
    BY ZenonT(60), <1>1 DEF IInv, ConnInv, Served
  <2>3. phone[c].link => InStep(c)'
    BY SMTT(60), <1>1, <1>2, <2>2 DEF InStep, Read
  <2>. QED
    BY ZenonT(60), <1>1, <1>2, <2>1, <2>3 DEF ConnInv
<1>6. \A d \in Conns : ConnInv(d)'
  <2>. SUFFICES ASSUME NEW d \in Conns, d # c PROVE ConnInv(d)'
    BY SMTT(60), <1>5
  <2>. QED
    BY <1>3, Untouched DEF IInv, OnlyTouches
<1>7. AckedReportIsAccounted'
  <2>1. \A d \in Conns \ {c} : conn'[d] = conn[d]
    BY SMTT(60), <1>3 DEF OnlyTouches
  <2>. QED
    BY ZenonT(60), <1>1, <2>1, AckedStay DEF IInv
<1>. QED
  BY <1>4, <1>6, <1>7 DEF IInv

(* The remaining ways in which handle returns.                             *)
LEMMA ReadEnds ==
    ASSUME IInv, NEW c \in Conns, HandleDisconnect(c) \/ ReadFails(c) \/ ReadTimesOut(c)
    PROVE  IInv'
<1>1. conn[c].at = "handle" /\ conn[c].reads = c
  BY ZenonT(60) DEF HandleDisconnect, ReadFails, ReadTimesOut, IInv, ConnInv
<1>. QED
  BY SMTT(60), <1>1, EndKeeps DEF HandleDisconnect, ReadFails, ReadTimesOut

(* Every step keeps the invariant.                                         *)
LEMMA StepsKeep == ASSUME ~NumbersReused PROVE IInv /\ [Next]_vars => IInv'
<1>. SUFFICES ASSUME IInv, [Next]_vars
              PROVE  IInv'
  OBVIOUS
<1>1. CASE RegisterProfile \/ ProfileLost \/ UNCHANGED vars
  <2>1. UNCHANGED <<conn, phone, acked, accounted>> /\ DOMAIN status' = DOMAIN status
    BY SMTT(60), <1>1 DEF RegisterProfile, ProfileLost, vars
  <2>2. Shapes' /\ AckedReportIsAccounted'
    <3>1. Shapes'
      BY ZenonT(60), <2>1 DEF IInv, Shapes
    <3>. QED
      BY ZenonT(60), <2>1, <3>1 DEF IInv, AckedReportIsAccounted, ParseEvent
  <2>3. \A c \in Conns : ConnInv(c)'
    BY <2>1, Untouched DEF IInv
  <2>. QED
    BY <2>2, <2>3 DEF IInv
<1>2. CASE Unregister \/ RequestDisconnection
  BY <1>2, CloseAllKeeps DEF Unregister, RequestDisconnection
<1>. QED
  BY <1>1, <1>2, LifeKeeps, PhoneKeeps, PacketKeeps, OfferKeeps, ReadEnds
     DEF Next, Disturbance, Goroutine

(* So does the start, when there are no connections.                       *)
LEMMA InitKeeps == Init => IInv
<1>. SUFFICES ASSUME Init PROVE IInv
  OBVIOUS
<1>1. \A c \in Conns : conn[c] = Free /\ phone[c] = Hung
  BY DEF Init
<1>2. Shapes
  <2>1. /\ DOMAIN status = {"registered", "connected"} /\ DOMAIN conn = Conns
        /\ DOMAIN phone = Conns /\ acked = {}
    BY DEF Init
  <2>2. \A c \in Conns :
           /\ DOMAIN conn[c] = ConnFields /\ conn[c].accumulated \in Seq(Part)
           /\ DOMAIN phone[c] = PhoneFields /\ phone[c].part = 0 /\ phone[c].report = None
    BY Zenon, <1>1, FreeShape
  <2>. QED
    BY <2>1, <2>2 DEF Shapes
<1>3. \A c \in Conns : ConnInv(c)
  BY <1>1, FreeShape DEF ConnInv, Served
<1>. QED
  BY <1>2, <1>3 DEF Init, IInv, AckedReportIsAccounted

(* handle acknowledges a report before it parses it (server.go:263-283),   *)
(* and still none is lost: what was acknowledged is queued, counted as     *)
(* dropped, or about to be.  This rests on descriptor numbers that are not *)
(* reused under a goroutine that still reads one.                          *)
THEOREM AcknowledgedIsNotLost ==
    ASSUME ~NumbersReused
    PROVE  Spec => []AckedReportIsAccounted
<1>1. Init => IInv
  BY InitKeeps
<1>2. IInv /\ [Next]_vars => IInv'
  BY StepsKeep
<1>3. IInv => AckedReportIsAccounted
  BY DEF IInv
<1>. QED
  BY <1>1, <1>2, <1>3, PTL DEF Spec

----------------------------------------------------------------------------
Left(c) == InMap(c) \/ conn[c].at = "last"

(* A step that removes no connection and sets no flag.                     *)
LEMMA NoneLeaves ==
    ASSUME ShownConnectionExists, status'.connected = status.connected,
           \A c \in Conns : Left(c) => Left(c)'
    PROVE  ShownConnectionExists'
BY DEF ShownConnectionExists, Left

(* The map is left last by a goroutine that then clears the flag.          *)
LEMMA StepsKeepShown == IInv /\ ShownConnectionExists /\ [Next]_vars => ShownConnectionExists'
<1>. SUFFICES ASSUME IInv, ShownConnectionExists, [Next]_vars
              PROVE  ShownConnectionExists'
  OBVIOUS
<1>0. /\ DOMAIN status = {"registered", "connected"} /\ DOMAIN conn = Conns
      /\ \A c \in Conns : DOMAIN conn[c] = ConnFields
  BY DEF IInv, Shapes
<1>1. ASSUME NEW c \in Conns, Forget(c) PROVE ShownConnectionExists'
  <2>1. conn[c].at = "ended" /\ UNCHANGED status
    BY <1>1 DEF Forget
  <2>2. CASE Connections(conn[c].profile) = {c}
    <3>1. conn' = [conn EXCEPT ![c] = [Free EXCEPT !.at = "last"]]
      BY <1>1, <2>2 DEF Forget
    <3>2. conn'[c].at = "last"
      BY <1>0, <3>1 DEF Free
    <3>. QED
      BY <3>2 DEF ShownConnectionExists
  <2>3. CASE Connections(conn[c].profile) # {c}
    <3>1. conn' = [conn EXCEPT ![c] = Free]
      BY <1>1, <2>3 DEF Forget
    <3>2. PICK d \in Conns : d # c /\ InMap(d)
      BY <2>1, <2>3 DEF Connections, InMap
    <3>3. InMap(d)'
      BY <1>0, <3>1, <3>2 DEF InMap
    <3>. QED
      BY <3>3 DEF ShownConnectionExists
  <2>. QED
    BY <2>2, <2>3
<1>2. ASSUME NEW c \in Conns, ReportDisconnected(c) PROVE ShownConnectionExists'
  BY <1>0, <1>2 DEF ReportDisconnected, ShownConnectionExists
<1>3. ASSUME NEW c \in Conns, ReportConnected(c) PROVE ShownConnectionExists'
  <2>1. conn'[c].at = "handle"
    BY SMTT(60), <1>0, <1>3 DEF ReportConnected, ConnFields
  <2>. QED
    BY <2>1 DEF ShownConnectionExists, InMap
<1>4. ASSUME NEW c \in Conns, NEW end, conn' = [conn EXCEPT ![c] = end], UNCHANGED status,
             Left(c) => end.at \in {"added", "handle", "offer", "ended", "last"}
      PROVE  ShownConnectionExists'
  BY SMTT(60), <1>0, <1>4, NoneLeaves DEF Left, InMap
<1>5. ASSUME NEW c \in Conns, conn' = Ended(c), UNCHANGED status PROVE ShownConnectionExists'
  <2>. DEFINE end == [Free EXCEPT !.at = "ended", !.profile = conn[c].profile]
  <2>1. end.at = "ended"
    BY DEF Free
  <2>2. conn' = [conn EXCEPT ![c] = end]
    BY <1>5 DEF Ended
  <2>. HIDE DEF end
  <2>. QED
    BY Zenon, <1>4, <1>5, <2>1, <2>2
<1>6. ASSUME NEW c \in Conns, HandlePacket(c) \/ AnswerLost(c), conn' # Ended(c)
      PROVE  ShownConnectionExists'
  <2>1. /\ conn[c].at = "handle" /\ conn' = [conn EXCEPT ![c] = Handled(c)]
        /\ conn[c].reads = c /\ phone[c].packet # None /\ UNCHANGED status
    BY Zenon, <1>6 DEF HandlePacket, AnswerLost, IInv, ConnInv
  <2>2. Handled(c).at \in {"handle", "offer"}
    BY <2>1, HandledBody DEF InStep, BodyRead
  <2>. QED
    BY ZenonT(60), <1>4, <2>1, <2>2
<1>7. ASSUME NEW c \in Conns, Offer(c) \/ Dial(c) PROVE ShownConnectionExists'
  <2>1. CASE Offer(c)
    <3>1. /\ UNCHANGED status /\ conn'[c].at = "handle"
          /\ \A d \in Conns \ {c} : conn'[d] = conn[d]
      BY <1>0, <2>1 DEF Offer, ConnFields
    <3>. QED
      BY <3>1, NoneLeaves DEF Left, InMap
  <2>2. CASE Dial(c)
    <3>1. UNCHANGED status /\ conn[c].at = "free" /\ \A d \in Conns \ {c} : conn'[d] = conn[d]
      BY <1>0, <2>2, FreeShape DEF Dial
    <3>. QED
      BY <3>1, NoneLeaves DEF Left, InMap
  <2>. QED
    BY SMTT(60), <1>7, <2>1, <2>2
<1>8. ASSUME NEW c \in Conns, NewConnection(c) PROVE ShownConnectionExists'
  <2>1. UNCHANGED status /\ conn[c].at = "calling"
    BY <1>8 DEF NewConnection
  <2>2. \A d \in Conns \ {c} : conn'[d].at = conn[d].at
    <3>1. PICK stolen : conn' = [d \in Conns |->
                      IF d = c THEN [conn[c] EXCEPT !.at = "added", !.open = TRUE, !.reads = c]
                      ELSE IF d \in stolen THEN [conn[d] EXCEPT !.reads = c]
                      ELSE conn[d]]
      BY ZenonT(60), <1>8 DEF NewConnection
    <3>. QED
      BY <1>0, <3>1 DEF ConnFields
  <2>. QED
    BY <2>1, <2>2, NoneLeaves DEF Left, InMap
<1>9. ASSUME NEW p, CloseAll(p), UNCHANGED status PROVE ShownConnectionExists'
  <2>1. \A c \in Conns : conn'[c].at = conn[c].at
    BY <1>0, <1>9 DEF CloseAll, ConnFields
  <2>. QED
    BY <1>9, <2>1, NoneLeaves DEF Left, InMap
<1>10. ASSUME conn' = conn, status'.connected = status.connected PROVE ShownConnectionExists'
  BY <1>10, NoneLeaves DEF Left, InMap
<1>11. CASE RegisterProfile \/ ProfileLost \/ UNCHANGED vars
  BY <1>0, <1>10, <1>11 DEF RegisterProfile, ProfileLost, vars
<1>12. CASE Unregister \/ RequestDisconnection
  BY <1>9, <1>12 DEF Unregister, RequestDisconnection
<1>13. ASSUME NEW c \in Conns,
              PhoneConnects(c) \/ (\E r \in Reports : PhonePuts(c, r)) \/ LinkLost(c)
       PROVE  ShownConnectionExists'
  BY <1>10, <1>13 DEF PhoneConnects, PhonePuts, PhoneSends, LinkLost
<1>14. ASSUME NEW c \in Conns,
              \/ HandlePacket(c) \/ AnswerLost(c) \/ HandleDisconnect(c)
              \/ ReadFails(c) \/ ReadTimesOut(c)
       PROVE  ShownConnectionExists'
  BY Zenon, <1>5, <1>6, <1>14
     DEF HandlePacket, AnswerLost, HandleDisconnect, ReadFails, ReadTimesOut
<1>. QED
  BY <1>1, <1>2, <1>3, <1>7, <1>8, <1>11, <1>12, <1>13, <1>14 DEF Next, Disturbance, Goroutine

(* The Connected and Disconnected callbacks (server.go:173-188) run        *)
(* outside the lock, for several profiles; mns_connected is still never    *)
(* left set once the last connection has told of its end.                  *)
THEOREM ShownIsThere ==
    ASSUME ~NumbersReused
    PROVE  Spec => []ShownConnectionExists
<1>1. Init => ShownConnectionExists
  BY DEF Init, ShownConnectionExists
<1>2. ShownConnectionExists /\ IInv /\ [Next]_vars => ShownConnectionExists'
  BY StepsKeepShown
<1>3. Init => IInv
  BY InitKeeps
<1>4. IInv /\ [Next]_vars => IInv'
  BY StepsKeep
<1>. QED
  BY <1>1, <1>2, <1>3, <1>4, PTL DEF Spec
=============================================================================
