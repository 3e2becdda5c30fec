----------------------------- MODULE GtbsClient -----------------------------
(***************************************************************************)
(* The GTBS session of le-call-go (internal/gtbs/client.go) on top of the  *)
(* call store, with the command closure of cmd/le-call-go/main.go.         *)
(*                                                                         *)
(* Three parties interleave.  The session goroutine (Run, runOnce) brings  *)
(* a session up, handles the D-Bus signals of that session in order, and   *)
(* takes it down.  The control goroutine runs one peer command at a time   *)
(* through several critical sections.  The phone is the environment: calls *)
(* come and go, its LE link drops and returns, and it answers control      *)
(* point writes with notifications.                                        *)
(***************************************************************************)
EXTENDS CallStore, Sequences

CONSTANTS
    CallerOf,      \* phone call id -> its caller number, NoURI if withheld
    Opcodes,       \* the commands the peer sends
    MaxCommands,   \* bound: commands in a behaviour
    MaxLosses,     \* bound: losses of the LE link or of the bus in a behaviour
    MaxSignals     \* bound: signals waiting for the session goroutine

MaxCalls == Len(CallerOf)   \* bound: calls the phone makes or receives

ASSUME CallerAssumption == CallerOf \in Seq(URIs \cup {NoURI})
ASSUME PhoneStatesAssumption == {"Incoming", "Dialing", "Active"} \subseteq States
ASSUME OpcodeAssumption == Opcodes \subseteq {"Accept", "Terminate", "Originate"}

VARIABLES
    phone,             \* index -> the phone's call, with an identity of its own
    created,           \* how many calls the phone has had
    ours,              \* the calls the phone originated because we asked
    link,              \* the LE bearer's Connected property
    losses,            \* how often the link or the bus was lost
    control,           \* control point writes the phone has not answered yet
    signals,           \* the session's D-Bus signal channel
    phase,             \* where the session goroutine is in runOnce
    readCalls,         \* Call State value read, not yet applied
    pending,           \* <<opcode, index>> -> token awaiting its result
    pendingOriginate,
    command,           \* the command the control goroutine is executing
    sent,              \* how many commands the peer has sent
    acceptsSent        \* history: tokens whose Accept reached the phone

phoneVars == <<phone, created, ours>>
sessionVars == <<phase, readCalls, pending, pendingOriginate>>
commandVars == <<command, sent, acceptsSent>>
clientVars == <<vars, phoneVars, link, losses, control, signals, sessionVars, commandVars>>

----------------------------------------------------------------------------
NoPhoneCall == [state |-> "None", outgoing |-> FALSE, id |-> 0]

(* The Call State characteristic's value: the phone's calls, without the   *)
(* identity only the phone knows.                                          *)
ValueOf(p) == [i \in Index |-> [state |-> p[i].state, outgoing |-> p[i].outgoing]]

StateSignal(p) == [kind |-> "state", value |-> ValueOf(p)]
IncomingSignal(i, uri) == [kind |-> "incoming", index |-> i, uri |-> uri]
ResultSignal(op, i) == [kind |-> "result", op |-> op, index |-> i]
Disconnected == [kind |-> "disconnected"]

(* Mutant: StartNotify only after Call State was read.                     *)
NotifiedAfterRead == phase \in {"applied", "up"}

(* Characteristic values reach the session once StartNotify was called;    *)
(* the bearer's properties as soon as the match rule is in place.          *)
Notified == phase \in {"notifying", "read", "applied", "up"}

Notify(news) ==
    /\ Notified => Len(signals) + Len(news) <= MaxSignals
    /\ signals' = IF Notified THEN signals \o news ELSE signals

----------------------------------------------------------------------------
(* The phone.                                                              *)

AnyOrder(a, b) == {<<a, b>>, <<b, a>>}

CallAppears(i, state, outgoing) ==
    /\ phone[i] = NoPhoneCall
    /\ created < MaxCalls
    /\ created' = created + 1
    /\ phone' = [phone EXCEPT ![i] =
                    [state |-> state, outgoing |-> outgoing, id |-> created']]

PhoneRings(i) ==
    /\ CallAppears(i, "Incoming", FALSE)
    /\ \E news \in AnyOrder(StateSignal(phone'), IncomingSignal(i, CallerOf[created'])) :
           Notify(news)
    /\ UNCHANGED <<ours, link, losses, control, vars, sessionVars, commandVars>>

(* The handset's own user answers, dials or hangs up, or the far end does. *)
PhoneMoves(i) ==
    /\ \/ /\ phone[i].state \in {"Incoming", "Dialing"}
          /\ phone' = [phone EXCEPT ![i].state = "Active"]
          /\ UNCHANGED created
       \/ /\ phone[i] # NoPhoneCall
          /\ phone' = [phone EXCEPT ![i] = NoPhoneCall]
          /\ UNCHANGED created
       \/ CallAppears(i, "Dialing", TRUE)
    /\ Notify(<<StateSignal(phone')>>)
    /\ UNCHANGED <<ours, link, losses, control, vars, sessionVars, commandVars>>

(* A control point write names an index only: the phone acts on whatever   *)
(* call is there, and answers every write with one result notification.    *)
PhoneObeys(write) ==
    LET i == write.index IN
    \/ /\ write.op = "Accept" /\ phone[i].state = "Incoming"
       /\ phone' = [phone EXCEPT ![i].state = "Active"]
       /\ UNCHANGED <<created, ours>>
    \/ /\ write.op = "Terminate" /\ phone[i] # NoPhoneCall
       /\ phone' = [phone EXCEPT ![i] = NoPhoneCall]
       /\ UNCHANGED <<created, ours>>
    \/ /\ write.op = "Originate"
       /\ \E j \in Index : CallAppears(j, "Dialing", TRUE)
       /\ ours' = ours \cup {created'}

PhoneAnswers ==
    /\ control # <<>>
    /\ control' = Tail(control)
    /\ LET result == ResultSignal(Head(control).op, Head(control).index) IN
       \/ /\ PhoneObeys(Head(control))
          /\ \E news \in AnyOrder(StateSignal(phone'), result) : Notify(news)
       \/ /\ Notify(<<result>>)
          /\ UNCHANGED phoneVars
    /\ UNCHANGED <<link, losses, vars, sessionVars, commandVars>>

LinkLost ==
    /\ link /\ losses < MaxLosses
    /\ link' = FALSE
    /\ losses' = losses + 1
    /\ control' = <<>>
    /\ signals' = IF phase = "idle" THEN signals ELSE Append(signals, Disconnected)
    /\ UNCHANGED <<phoneVars, vars, sessionVars, commandVars>>

LinkBack ==
    /\ ~link
    /\ link' = TRUE
    /\ UNCHANGED <<phoneVars, losses, control, signals, vars, sessionVars, commandVars>>

----------------------------------------------------------------------------
(* The session goroutine.                                                  *)

NonePending == [key \in Opcodes \X Index |-> 0]

ClearSession ==
    /\ pending' = NonePending
    /\ pendingOriginate' = FALSE

(* runOnce's deferred cleanup; from here the command in flight holds a     *)
(* closed connection.                                                      *)
EndSession ==
    /\ phase' = "idle"
    /\ ClearSession
    /\ signals' = <<>>
    /\ readCalls' = [i \in Index |-> NoReport]
    /\ command' = [command EXCEPT !.live = FALSE]

Unestablished ==
    /\ phase' = "idle"
    /\ signals' = <<>>
    /\ readCalls' = [i \in Index |-> NoReport]
    /\ UNCHANGED <<pending, pendingOriginate, command>>

(* The match rule and the signal channel come before the bearer is read.   *)
Connect ==
    /\ phase = "idle"
    /\ phase' = "matched"
    /\ signals' = <<>>
    /\ UNCHANGED <<phoneVars, link, losses, control, vars, readCalls, pending,
                   pendingOriginate, commandVars>>

CheckBearer ==
    /\ phase = "matched"
    /\ IF link
       THEN /\ phase' = "notifying"
            /\ UNCHANGED <<signals, readCalls, pending, pendingOriginate, command>>
       ELSE Unestablished
    /\ UNCHANGED <<phoneVars, link, losses, control, vars, sent, acceptsSent>>

ReadCallState ==
    /\ phase = "notifying"
    /\ \/ /\ link
          /\ phase' = "read"
          /\ readCalls' = ValueOf(phone)
          /\ UNCHANGED <<signals, pending, pendingOriginate, command>>
       \/ Unestablished
    /\ UNCHANGED <<phoneVars, link, losses, control, vars, sent, acceptsSent>>

ApplyCallState ==
    /\ phase = "read"
    /\ WithinOneLap(readCalls)
    /\ Apply(readCalls)
    /\ phase' = "applied"
    /\ UNCHANGED <<phoneVars, link, losses, control, signals, readCalls, pending,
                   pendingOriginate, commandVars>>

(* Mutant: the signal channel is registered only when the session is up.   *)
PublishThenListens ==
    /\ phase = "applied"
    /\ phase' = "up" /\ signals' = <<>>
    /\ ClearSession
    /\ UNCHANGED <<phoneVars, link, losses, control, vars, readCalls, commandVars>>

(* The Incoming Call characteristic holds the ringing call, if any.  The   *)
(* read is skipped when it fails.  Then the session is published.          *)
Publish ==
    /\ phase = "applied"
    /\ \/ UNCHANGED vars
       \/ /\ link
          /\ \E i \in Index : /\ phone[i].state = "Incoming"
                              /\ ApplyIncomingCall(i, CallerOf[phone[i].id])
    /\ phase' = "up"
    /\ ClearSession
    /\ UNCHANGED <<phoneVars, link, losses, control, signals, readCalls, commandVars>>

(* Mutant: the result of an originate does not free its slot.              *)
ResultKeepsOriginate(result) ==
    /\ pending' = IF result.op = "Originate" THEN pending
                  ELSE [pending EXCEPT ![<<result.op, result.index>>] = 0]
    /\ UNCHANGED <<pendingOriginate, vars>>

(* handleControlResult: a result nobody waits for is dropped.              *)
HandleControlResult(result) ==
    /\ IF result.op = "Originate"
       THEN /\ pendingOriginate' = FALSE
            /\ UNCHANGED pending
       ELSE /\ pending' = [pending EXCEPT ![<<result.op, result.index>>] = 0]
            /\ UNCHANGED pendingOriginate
    /\ UNCHANGED vars

HandleSignal ==
    /\ phase = "up" /\ signals # <<>>
    /\ LET signal == Head(signals) IN
       \/ /\ signal.kind = "disconnected"
          /\ EndSession
          /\ UNCHANGED vars
       \/ /\ signal.kind # "disconnected"
          /\ signals' = Tail(signals)
          /\ \/ /\ signal.kind = "state"
                /\ WithinOneLap(signal.value)
                /\ Apply(signal.value)
                /\ UNCHANGED <<pending, pendingOriginate>>
             \/ /\ signal.kind = "incoming"
                /\ ApplyIncomingCall(signal.index, signal.uri)
                /\ UNCHANGED <<pending, pendingOriginate>>
             \/ /\ signal.kind = "result"
                /\ HandleControlResult(signal)
          /\ UNCHANGED <<phase, readCalls, command>>
    /\ UNCHANGED <<phoneVars, link, losses, control, sent, acceptsSent>>

BusLost ==
    /\ phase = "up" /\ losses < MaxLosses
    /\ losses' = losses + 1
    /\ EndSession
    /\ UNCHANGED <<phoneVars, link, control, vars, sent, acceptsSent>>

----------------------------------------------------------------------------
(* The control goroutine: Command, between the mutexes it takes.           *)

NoCommand == [pc |-> "none", op |-> "Terminate", index |-> 0, token |-> 0,
              live |-> FALSE]

CommandTo(pc) == command' = [command EXCEPT !.pc = pc]

CommandDone == command' = NoCommand

(* An indexed command names a call by any token the peer was ever shown;   *)
(* what the initial read found is shown when the session is published.     *)
Shown == IF phase = "applied"
         THEN issued \ {calls[i].token : i \in Live(calls)} ELSE issued

Requests ==
    [op : Opcodes \ {"Originate"}, index : Index, token : Shown]
    \cup [op : Opcodes \cap {"Originate"}, index : {0}, token : {0}]

(* main.go's closure claims the call before it hands an Accept on.         *)
CommandArrives(request) ==
    /\ command = NoCommand /\ sent < MaxCommands
    /\ sent' = sent + 1
    /\ command' = [pc |-> "validate", op |-> request.op, index |-> request.index,
                   token |-> request.token, live |-> FALSE]
    /\ IF request.op = "Accept"
       THEN ClaimCall(request.index, request.token) ELSE UNCHANGED vars
    /\ UNCHANGED <<phoneVars, link, losses, control, signals, sessionVars, acceptsSent>>

CommandValidates ==
    /\ command.pc = "validate"
    /\ IF \/ command.op = "Originate"
          \/ ValidateIndexedCommand(command.index, command.token, command.op)
       THEN CommandTo("connection") ELSE CommandDone
    /\ UNCHANGED <<phoneVars, link, losses, control, signals, vars, sessionVars,
                   sent, acceptsSent>>

CommandTakesConnection ==
    /\ command.pc = "connection"
    /\ IF phase = "up"
       THEN command' = [command EXCEPT !.pc = "register", !.live = TRUE]
       ELSE CommandDone
    /\ UNCHANGED <<phoneVars, link, losses, control, signals, vars, sessionVars,
                   sent, acceptsSent>>

CommandRegisters ==
    /\ command.pc = "register"
    /\ IF command.op = "Originate"
       THEN /\ IF pendingOriginate THEN CommandDone ELSE CommandTo("write")
            /\ pendingOriginate' = TRUE
            /\ UNCHANGED pending
       ELSE /\ pending' = [pending EXCEPT ![<<command.op, command.index>>] = command.token]
            /\ CommandTo("write")
            /\ UNCHANGED pendingOriginate
    /\ UNCHANGED <<phoneVars, link, losses, control, signals, vars, phase, readCalls,
                   sent, acceptsSent>>

(* WriteValue may fail outright, and may time out after the phone got it.  *)
CommandWrites ==
    /\ command.pc = "write"
    /\ \/ /\ command.live /\ link
          /\ control' = Append(control, [op |-> command.op, index |-> command.index])
          /\ acceptsSent' = IF command.op = "Accept"
                            THEN acceptsSent \cup {command.token} ELSE acceptsSent
          /\ CommandDone \/ CommandTo("undo")
       \/ /\ CommandTo("undo")
          /\ UNCHANGED <<control, acceptsSent>>
    /\ UNCHANGED <<phoneVars, link, losses, signals, vars, sessionVars, sent>>

(* Mutant: a failed write leaves the command pending.                      *)
CommandOnlyReturns ==
    /\ command.pc = "undo"
    /\ CommandDone
    /\ UNCHANGED <<phoneVars, link, losses, control, signals, vars, sessionVars, sent,
                   acceptsSent>>

CommandUndoes ==
    /\ command.pc = "undo"
    /\ IF command.op = "Originate"
       THEN pendingOriginate' = FALSE /\ UNCHANGED pending
       ELSE /\ pending' = [pending EXCEPT ![<<command.op, command.index>>] =
                              IF @ = command.token THEN 0 ELSE @]
            /\ UNCHANGED pendingOriginate
    /\ CommandDone
    /\ UNCHANGED <<phoneVars, link, losses, control, signals, vars, phase, readCalls,
                   sent, acceptsSent>>

----------------------------------------------------------------------------
ClientInit ==
    /\ Init
    /\ phone = [i \in Index |-> NoPhoneCall]
    /\ created = 0 /\ ours = {}
    /\ link \in BOOLEAN /\ losses = 0
    /\ control = <<>> /\ signals = <<>>
    /\ phase = "idle" /\ readCalls = [i \in Index |-> NoReport]
    /\ pending = NonePending /\ pendingOriginate = FALSE
    /\ command = NoCommand /\ sent = 0 /\ acceptsSent = {}

SessionStep == \/ Connect \/ CheckBearer \/ ReadCallState
               \/ ApplyCallState \/ Publish \/ HandleSignal

CommandStep == \/ CommandValidates \/ CommandTakesConnection
               \/ CommandRegisters \/ CommandWrites \/ CommandUndoes

ClientNext ==
    \/ \E i \in Index : PhoneRings(i) \/ PhoneMoves(i)
    \/ PhoneAnswers \/ LinkLost \/ LinkBack \/ BusLost
    \/ SessionStep \/ CommandStep
    \/ \E request \in Requests : CommandArrives(request)

(* Goroutines run, and the phone answers a write while it has the link.    *)
ClientSpec ==
    /\ ClientInit /\ [][ClientNext]_clientVars
    /\ WF_clientVars(SessionStep)
    /\ WF_clientVars(CommandStep)
    /\ WF_clientVars(PhoneAnswers)
    /\ WF_clientVars(LinkBack)

----------------------------------------------------------------------------
Idle == phase = "up" /\ signals = <<>>

(* Every variable keeps its type.                                          *)
ClientTypeOK ==
    /\ TypeOK
    /\ phone \in [Index -> {NoPhoneCall} \cup
                    [state : States, outgoing : BOOLEAN, id : 1..MaxCalls]]
    /\ created \in 0..MaxCalls /\ ours \subseteq 1..MaxCalls
    /\ link \in BOOLEAN /\ losses \in 0..MaxLosses
    /\ phase \in {"idle", "matched", "notifying", "read", "applied", "up"}
    /\ readCalls \in CallStateValue
    /\ pending \in [Opcodes \X Index -> 0..MaxCounter]
    /\ pendingOriginate \in BOOLEAN
    /\ command.pc \in {"none", "validate", "connection", "register", "write", "undo"}
    /\ sent \in 0..MaxCommands /\ acceptsSent \subseteq issued

(* Once the session has worked off its signals, the store shows exactly    *)
(* the phone's calls: subscribing before the initial read in runOnce loses *)
(* no change, and what is replayed after the read ends at the latest value.*)
IdleStoreMatchesPhone ==
    Idle => \A i \in Index : /\ calls[i].state = phone[i].state
                             /\ calls[i].outgoing = phone[i].outgoing

(* A session that is being built or is up while the bearer is down has the *)
(* disconnect signal in its channel: runOnce installs the match rule       *)
(* before it reads the bearer, so no link loss can be slept through.       *)
LinkLossIsAlwaysNoticed ==
    (Notified /\ ~link) => \E n \in 1..Len(signals) : signals[n] = Disconnected

(* README: a disconnect "clears notification and command state".  Outside  *)
(* a session, and with no command half way, nothing is left waiting for a  *)
(* result, even when a command registered itself after the session ended.  *)
NothingPendingOutsideSession ==
    (phase = "idle" /\ command = NoCommand)
        => pending = NonePending /\ ~pendingOriginate

(* The single originate slot is always given back, by a result, a failed   *)
(* write or the end of the session, so that one originate cannot lock out  *)
(* all later ones.                                                         *)
OriginateSlotIsFreed == pendingOriginate ~> ~pendingOriginate

(* state.go ClaimCall: "Only an Accept we sent counts".                    *)
OnlySentAcceptsCount ==
    command = NoCommand =>
        \A i \in Index : claimed[i] # 0 => claimed[i] \in acceptsSent

(* state.go Apply: "A caller identity belongs to one call."                *)
IdentityBelongsToItsCall ==
    Idle => \A i \in Index :
        phone[i] # NoPhoneCall => identities[i] \in {NoURI, CallerOf[phone[i].id]}

(* README: outgoing calls need no Accept because "this side originated     *)
(* them".                                                                  *)
OutgoingCallsAreOurs ==
    (Idle /\ CurrentCallToken # 0) =>
        \A i \in Live(calls) : calls[i].outgoing => phone[i].id \in ours

============================================================================
