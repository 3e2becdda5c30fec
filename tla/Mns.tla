-------------------------------- MODULE Mns --------------------------------
(***************************************************************************)
(* The MNS server of the SMS bridge (mns/server.go): it registers a        *)
(* profile with BlueZ, again after every release or loss of the bus;       *)
(* BlueZ hands it the phone's RFCOMM connections, each served by a         *)
(* goroutine of its own; over them the phone sends event reports, cut into *)
(* OBEX packets.  Reports of new messages go into the events channel of    *)
(* the service.  Profiles and connections are slots, used over and over.   *)
(***************************************************************************)
EXTENDS Naturals, Sequences, FiniteSets

CONSTANTS
    Profiles,          \* slots for profile objects
    Conns,             \* slots for connections
    Reports,           \* the event reports the phone has to send
    Size,              \* packets each report takes
    MaximumEventBody,  \* maximumEventBody, in packets
    NumbersReused      \* a closed descriptor's number may serve a new connection
                       \* while the goroutine of the closed one still uses it

None == "none"

ASSUME ReportsAssumption == None \notin Reports
ASSUME SizeAssumption == Size \in [Reports -> Nat \ {0}] /\ MaximumEventBody \in Nat

VARIABLES
    server,     \* where runOnce is, and its profile
    status,     \* mnsRegistered and mnsConnected of the status
    conn,       \* the bridge's end of each connection, with the state of handle
    phone,      \* the phone's end of each connection
    acked,      \* reports whose last packet was answered with OK
    accounted   \* history: reports queued, or counted as dropped

vars == <<server, status, conn, phone, acked, accounted>>

Free == [at |-> "free", profile |-> None, reads |-> None, open |-> FALSE,
         connected |-> FALSE, accumulated |-> <<>>]
Hung == [link |-> FALSE, connected |-> FALSE, report |-> None, part |-> 0, packet |-> None]

InMap(c) == conn[c].at \in {"added", "handle", "offer", "ended"}
Connections(p) == {c \in Conns : conn[c].profile = p /\ InMap(c)}

Init ==
    /\ server = [at |-> "down", profile |-> None]
    /\ status = [registered |-> FALSE, connected |-> FALSE]
    /\ conn = [c \in Conns |-> Free] /\ phone = [c \in Conns |-> Hung]
    /\ acked = {} /\ accounted = {}

----------------------------------------------------------------------------
(* runOnce: a new profile is exported and registered, until it is released *)
(* or the bus is lost; Run comes back after its backoff.  An attempt that  *)
(* fails changes nothing.                                                  *)
RegisterProfile ==
    /\ server.at = "down"
    /\ LET unused == Profiles \ {conn[c].profile : c \in Conns}
       IN  unused # {} /\ server' = [at |-> "registered", profile |-> CHOOSE p \in unused : TRUE]
    /\ status' = [status EXCEPT !.registered = TRUE]
    /\ UNCHANGED <<conn, phone, acked, accounted>>

(* Release, or the bus connection ends.                                    *)
ProfileLost ==
    /\ server.at = "registered"
    /\ server' = [server EXCEPT !.at = "closing"]
    /\ status' = [status EXCEPT !.registered = FALSE]
    /\ UNCHANGED <<conn, phone, acked, accounted>>

(* closeAll.  The goroutine notices later; what the phone still sends is   *)
(* not read any more.                                                      *)
CloseAll(p) ==
    /\ conn' = [c \in Conns |-> IF c \in Connections(p) THEN [conn[c] EXCEPT !.open = FALSE] ELSE conn[c]]
    /\ phone' = [c \in Conns |-> IF c \in Connections(p) THEN Hung ELSE phone[c]]

(* Mutant: Run returns when runOnce does.                                  *)
UnregisterForGood ==
    /\ server.at = "closing"
    /\ CloseAll(server.profile)
    /\ server' = [at |-> "stopped", profile |-> None]
    /\ UNCHANGED <<status, acked, accounted>>

Unregister ==
    /\ server.at = "closing"
    /\ CloseAll(server.profile)
    /\ server' = [at |-> "down", profile |-> None]
    /\ UNCHANGED <<status, acked, accounted>>

RequestDisconnection ==
    /\ server.at = "registered"
    /\ CloseAll(server.profile)
    /\ UNCHANGED <<server, status, acked, accounted>>

----------------------------------------------------------------------------
(* BlueZ accepts a connection and calls NewConnection of the profile it    *)
(* knows; the call may run after the profile is gone.                      *)
Dial(c) ==
    /\ conn[c] = Free /\ phone[c] = Hung /\ server.profile # None
    /\ conn' = [conn EXCEPT ![c] = [Free EXCEPT !.at = "calling", !.profile = server.profile]]
    /\ phone' = [phone EXCEPT ![c].link = TRUE]
    /\ UNCHANGED <<server, status, acked, accounted>>

(* The goroutines whose descriptor is closed but which have not noticed.   *)
Unaware == {d \in Conns : conn[d].at \in {"handle", "offer"} /\ ~conn[d].open /\ conn[d].reads = d}

NewConnection(c) ==
    /\ conn[c].at = "calling"
    /\ \E stolen \in IF NumbersReused THEN {{}} \cup {{d} : d \in Unaware} ELSE {{}} :
          conn' = [d \in Conns |->
                      IF d = c THEN [conn[c] EXCEPT !.at = "added", !.open = TRUE, !.reads = c]
                      ELSE IF d \in stolen THEN [conn[d] EXCEPT !.reads = c]
                      ELSE conn[d]]
    /\ UNCHANGED <<server, status, phone, acked, accounted>>

(* The callback, outside the lock; then the goroutine is started.          *)
ReportConnected(c) ==
    /\ conn[c].at = "added"
    /\ status' = [status EXCEPT !.connected = TRUE]
    /\ conn' = [conn EXCEPT ![c].at = "handle"]
    /\ UNCHANGED <<server, phone, acked, accounted>>

(* Mutant: the connections are counted before this one leaves the map.     *)
ForgetCountsItself(c) ==
    /\ conn[c].at = "ended"
    /\ conn' = [conn EXCEPT ![c] = IF Connections(conn[c].profile) = {}
                                   THEN [Free EXCEPT !.at = "last"]
                                   ELSE Free]
    /\ UNCHANGED <<server, status, phone, acked, accounted>>

(* The goroutine's deferred steps: the connection leaves the map, and when *)
(* it was the last one the callback is called, outside the lock.           *)
Forget(c) ==
    /\ conn[c].at = "ended"
    /\ conn' = [conn EXCEPT ![c] = IF Connections(conn[c].profile) = {c}
                                   THEN [Free EXCEPT !.at = "last"]
                                   ELSE Free]
    /\ UNCHANGED <<server, status, phone, acked, accounted>>

ReportDisconnected(c) ==
    /\ conn[c].at = "last"
    /\ status' = [status EXCEPT !.connected = FALSE]
    /\ conn' = [conn EXCEPT ![c] = Free]
    /\ UNCHANGED <<server, phone, acked, accounted>>

----------------------------------------------------------------------------
(* The phone, an OBEX client: one packet at a time, reports in any order,  *)
(* each until it is acknowledged; an interrupted one starts over.          *)
PhoneSends(c, packet, report, part) ==
    /\ phone[c].link /\ phone[c].packet = None
    /\ phone' = [phone EXCEPT ![c] = [link |-> TRUE, connected |-> @.connected,
                                      report |-> report, part |-> part, packet |-> packet]]
    /\ UNCHANGED <<server, status, conn, acked, accounted>>

PhoneConnects(c) == ~phone[c].connected /\ PhoneSends(c, "connect", None, 0)

PhonePuts(c, r) ==
    /\ phone[c].connected
    /\ \/ phone[c].report = None /\ r \notin acked
       \/ phone[c].report = r
    /\ LET part == phone[c].part + 1
       IN  PhoneSends(c, IF part = Size[r] THEN "final" ELSE "put", r, part)

(* The link is lost, with a packet that was not read; or the phone sends   *)
(* ABORT, is answered NotImplemented, and gives the connection up.         *)
LinkLost(c) ==
    /\ phone[c].link
    /\ phone' = [phone EXCEPT ![c] = Hung]
    /\ UNCHANGED <<server, status, conn, acked, accounted>>

----------------------------------------------------------------------------
(* handle: what the phone makes of the answer Continue or OK.              *)
Answer(d, packet) ==
    [phone EXCEPT ![d] = [link |-> @.link, connected |-> TRUE, packet |-> None,
                          report |-> IF packet = "put" THEN @.report ELSE None,
                          part |-> IF packet = "put" THEN @.part ELSE 0]]

(* handle returns, and the goroutine closes the descriptor.                *)
Ended(c) == [conn EXCEPT ![c] = [Free EXCEPT !.at = "ended", !.profile = conn[c].profile]]

Refused(c, packet) ==
    /\ packet \in {"put", "final"}
    /\ \/ ~conn[c].connected
       \/ Len(conn[c].accumulated) + 1 > MaximumEventBody

(* A packet is read and answered; its part of the body is added, and the   *)
(* answer to the last one is written before the report is offered.         *)
Handled(c) ==
    LET d == conn[c].reads
        body == Append(conn[c].accumulated, [report |-> phone[d].report, part |-> phone[d].part])
    IN  CASE phone[d].packet = "connect" -> [conn[c] EXCEPT !.connected = TRUE, !.accumulated = <<>>]
          [] phone[d].packet = "put"     -> [conn[c] EXCEPT !.accumulated = body]
          [] phone[d].packet = "final"   -> [conn[c] EXCEPT !.accumulated = body, !.at = "offer"]

HandlePacket(c) ==
    LET d == conn[c].reads
    IN  /\ conn[c].at = "handle" /\ conn[d].open /\ phone[d].packet # None
        /\ IF Refused(c, phone[d].packet)
           THEN /\ conn' = Ended(c)
                /\ phone' = [phone EXCEPT ![d] = Hung]
                /\ UNCHANGED acked
           ELSE /\ conn' = [conn EXCEPT ![c] = Handled(c)]
                /\ phone' = Answer(d, phone[d].packet)
                /\ acked' = IF phone[d].packet = "final" THEN acked \cup {phone[d].report} ELSE acked
        /\ UNCHANGED <<server, status, accounted>>

(* The link is lost after the packet was read: the phone does not hear the *)
(* answer, and its write may fail.                                         *)
AnswerLost(c) ==
    LET d == conn[c].reads
    IN  /\ conn[c].at = "handle" /\ conn[d].open /\ phone[d].packet # None
        /\ ~Refused(c, phone[d].packet)
        /\ conn' = [conn EXCEPT ![c] = Handled(c)] \/ conn' = Ended(c)
        /\ phone' = [phone EXCEPT ![d] = Hung]
        /\ UNCHANGED <<server, status, acked, accounted>>

HandleDisconnect(c) ==
    LET d == conn[c].reads
    IN  /\ conn[c].at = "handle" /\ conn[d].open
        /\ phone[d].connected /\ phone[d].packet = None
        /\ conn' = Ended(c)
        /\ phone' = [phone EXCEPT ![d] = Hung]
        /\ UNCHANGED <<server, status, acked, accounted>>

(* parseEvent, which finds the first event element.                        *)
ParseEvent(body) ==
    LET r == Head(body).report
    IN  IF Len(body) >= Size[r] /\ \A k \in 1..Size[r] : body[k] = [report |-> r, part |-> k]
        THEN r ELSE None

(* Mutant: accumulated is not emptied.                                     *)
OfferKeepsBody(c) ==
    /\ conn[c].at = "offer"
    /\ accounted' = accounted \cup ({ParseEvent(conn[c].accumulated)} \ {None})
    /\ conn' = [conn EXCEPT ![c].at = "handle"]
    /\ UNCHANGED <<server, status, phone, acked>>

(* The event goes into the channel, or is counted as dropped when that is  *)
(* full.                                                                   *)
Offer(c) ==
    /\ conn[c].at = "offer"
    /\ accounted' = accounted \cup ({ParseEvent(conn[c].accumulated)} \ {None})
    /\ conn' = [conn EXCEPT ![c].accumulated = <<>>, ![c].at = "handle"]
    /\ UNCHANGED <<server, status, phone, acked>>

(* ReadPacket fails: the descriptor is closed or the link is lost, or 30 s *)
(* pass without a packet.                                                  *)
ReadFails(c) ==
    LET d == conn[c].reads
    IN  /\ conn[c].at = "handle"
        /\ ~conn[d].open \/ ~phone[d].link
        /\ conn' = Ended(c)
        /\ UNCHANGED <<server, status, phone, acked, accounted>>

ReadTimesOut(c) ==
    LET d == conn[c].reads
    IN  /\ conn[c].at = "handle" /\ conn[d].open /\ phone[d].link /\ phone[d].packet = None
        /\ conn' = Ended(c)
        /\ phone' = [phone EXCEPT ![c] = Hung]
        /\ UNCHANGED <<server, status, acked, accounted>>

Goroutine(c) ==
    \/ NewConnection(c) \/ ReportConnected(c) \/ Forget(c) \/ ReportDisconnected(c)
    \/ HandlePacket(c) \/ Offer(c) \/ ReadFails(c)

Disturbance ==
    \/ ProfileLost \/ RequestDisconnection
    \/ \E c \in Conns : LinkLost(c) \/ AnswerLost(c) \/ ReadTimesOut(c) \/ HandleDisconnect(c)

Next ==
    \/ RegisterProfile \/ Unregister \/ Disturbance
    \/ \E c \in Conns :
          \/ Goroutine(c) \/ Dial(c) \/ PhoneConnects(c) \/ \E r \in Reports : PhonePuts(c, r)

(* Run and the goroutines keep going and registration does not fail for    *)
(* ever; the phone dials, and sends every report in its turn.              *)
Spec ==
    /\ Init /\ [][Next]_vars
    /\ WF_vars(RegisterProfile) /\ WF_vars(Unregister)
    /\ WF_vars(\E c \in Conns : Dial(c))
    /\ \A c \in Conns : WF_vars(Goroutine(c)) /\ WF_vars(PhoneConnects(c))
    /\ \A r \in Reports : SF_vars(\E c \in Conns : PhonePuts(c, r))

----------------------------------------------------------------------------
(* Every variable keeps its type.                                          *)
TypeOK ==
    /\ server.at \in {"down", "registered", "closing"}
    /\ status \in [registered : BOOLEAN, connected : BOOLEAN]
    /\ \A c \in Conns :
          /\ conn[c].at \in {"free", "calling", "added", "handle", "offer", "ended", "last"}
          /\ conn[c].profile \in Profiles \cup {None} /\ conn[c].reads \in Conns \cup {None}
          /\ Len(conn[c].accumulated) <= MaximumEventBody
          /\ phone[c].packet \in {None, "connect", "put", "final"}
    /\ acked \subseteq Reports /\ accounted \subseteq Reports

(* A report the server answered with OK is queued for the service or       *)
(* counted as dropped, or its goroutine is about to do one of the two:     *)
(* handle acknowledges before it parses, so a rest of an earlier report in *)
(* accumulated would lose the message without a trace.                     *)
AckedReportIsAccounted ==
    \A r \in acked :
        \/ r \in accounted
        \/ \E c \in Conns : conn[c].at = "offer" /\ ParseEvent(conn[c].accumulated) = r

(* mns_connected is only shown while some connection is left whose         *)
(* goroutine has not told the status of its end: the callbacks, called     *)
(* outside the lock by goroutines of several profiles, never leave it set  *)
(* for good.                                                               *)
ShownConnectionExists == status.connected => \E c \in Conns : InMap(c) \/ conn[c].at = "last"

(* The opposite, which the callbacks do not guarantee: a connection that   *)
(* is served while nothing else happens is shown.                          *)
ServedConnectionIsShown ==
    (\E c \in Conns : conn[c].at = "handle") /\ (\A c \in Conns : conn[c].at \in {"free", "handle"}) =>
        status.connected

(* Once profile, links and phone are left in peace every report that fits  *)
(* is accounted for, whatever registrations, releases, late NewConnection  *)
(* calls and half-sent reports came before.                                *)
ReportsGetThrough ==
    <>[][~Disturbance]_vars =>
        \A r \in Reports : Size[r] <= MaximumEventBody => <>(r \in accounted)
=============================================================================
