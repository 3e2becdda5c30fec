---------------------------- MODULE MapCommands ----------------------------
(***************************************************************************)
(* The commands of the internal HTTP API (handleList, handleGet and        *)
(* handleRaw of bridge/http.go, submit and executeCommand of service.go)   *)
(* over the MAP session: a handler puts a command into a bounded channel   *)
(* and waits for its response, both for 12 seconds in all; runConnected    *)
(* takes commands in its select.  The channel outlives the session.        *)
(***************************************************************************)
EXTENDS MapSession

CONSTANTS
    Requests,       \* HTTP requests
    MaxCommands     \* capacity of Service.commands

NoRequest == "none"

ASSUME RequestsAssumption == NoRequest \notin Requests

VARIABLES
    request,   \* what each request asks for and where its handler is
    commands,  \* Service.commands
    running,   \* the request whose command is executed, or NoRequest
    pushed     \* history: messages of each request the phone has accepted

commandVars == <<request, commands, running, pushed>>
vars == <<sessionVars, commandVars>>

Kinds == {"list", "get", "raw"}

(* Where the handler of a request is; the answers tell apart whether the   *)
(* handler gave up before or after its command was begun.                  *)
Waiting == {"submitting", "waiting"}
Answers == {"ok", "failed", "unavailable", "expired", "abandoned"}

Init ==
    /\ SessionInit
    /\ request = [q \in Requests |-> [kind |-> "none", at |-> "idle"]]
    /\ commands = <<>> /\ running = NoRequest
    /\ pushed = [q \in Requests |-> 0]

-----------------------------------------------------------------------------
(* submit: the status says whether a session is up; the session may end    *)
(* before the command is in the channel.                                   *)
Submit(q, kind) ==
    /\ request[q].at = "idle"
    /\ request' = [request EXCEPT ![q] = [kind |-> kind, at |-> IF up THEN "submitting" ELSE "unavailable"]]
    /\ UNCHANGED <<sessionVars, commands, running, pushed>>

PutCommand(q) ==
    /\ request[q].at = "submitting" /\ Len(commands) < MaxCommands
    /\ commands' = Append(commands, q)
    /\ request' = [request EXCEPT ![q].at = "waiting"]
    /\ UNCHANGED <<sessionVars, running, pushed>>

(* The context of the request is done.                                     *)
GiveUp(q) ==
    /\ request[q].at \in Waiting
    /\ request' = [request EXCEPT ![q].at = IF running = q THEN "abandoned" ELSE "expired"]
    /\ UNCHANGED <<sessionVars, commands, running, pushed>>

-----------------------------------------------------------------------------
(* Mutant: executeCommand does not look at the context.                    *)
ExecuteExpired ==
    /\ commands # <<>>
    /\ LET q == Head(commands)
       IN  /\ Start(request[q].kind, IF request[q].kind = "raw" THEN Outbox ELSE Inbox,
                    IF request[q].kind = "list" THEN "none" ELSE q)
           /\ running' = q
    /\ commands' = Tail(commands)
    /\ UNCHANGED <<request, pushed>>

(* executeCommand starts, unless the context of the command is done.       *)
ExecuteCommand ==
    /\ commands # <<>>
    /\ LET q == Head(commands)
       IN  IF request[q].at = "waiting"
           THEN /\ Start(request[q].kind, IF request[q].kind = "raw" THEN Outbox ELSE Inbox,
                         IF request[q].kind = "list" THEN "none" ELSE q)
                /\ running' = q
           ELSE /\ up /\ op = NoOp
                /\ UNCHANGED <<sessionVars, running>>
    /\ commands' = Tail(commands)
    /\ UNCHANGED <<request, pushed>>

(* The command ends with its operation: its response is put into its own   *)
(* channel, where a handler that has given up does not look for it.        *)
Respond(ok) ==
    IF running # NoRequest /\ op' = NoOp
    THEN /\ running' = NoRequest
         /\ request' = [request EXCEPT ![running].at = IF @ # "waiting" THEN @
                                                       ELSE IF ok THEN "ok" ELSE "failed"]
    ELSE UNCHANGED <<request, running>>

CommandReceives == Receive /\ Respond(Head(replies).ok) /\ UNCHANGED <<commands, pushed>>

CommandTimesOut == Timeout /\ Respond(FALSE) /\ UNCHANGED <<commands, pushed>>

(* External: the phone takes the message of a PushMessage it accepts.      *)
PhoneTakes(ok) ==
    /\ PhoneHandles(ok)
    /\ LET q == Head(wire).name
       IN  pushed' = IF ok /\ Head(wire).code = "put" /\ q \in Requests
                     THEN [pushed EXCEPT ![q] = @ + 1] ELSE pushed
    /\ UNCHANGED <<request, commands, running>>

Next ==
    \/ (Connect \/ StartOwn \/ Send) /\ UNCHANGED commandVars
    \/ ExecuteCommand \/ CommandReceives \/ CommandTimesOut
    \/ \E ok \in BOOLEAN : PhoneTakes(ok)
    \/ \E q \in Requests :
          \/ PutCommand(q) \/ GiveUp(q)
          \/ \E kind \in Kinds : Submit(q, kind)

Spec == Init /\ [][Next]_vars

-----------------------------------------------------------------------------
(* Every variable keeps its type.                                          *)
TypeOK ==
    /\ SessionTypeOK
    /\ request \in [Requests -> [kind : Kinds \cup {"none"}, at : {"idle"} \cup Waiting \cup Answers]]
    /\ commands \in Seq(Requests) /\ Len(commands) <= MaxCommands
    /\ running \in Requests \cup {NoRequest}

(* The answer to a raw message is the truth, over sessions that end and    *)
(* handlers that give up: the phone has it once after ok, never after      *)
(* "MAP session unavailable" or a wait that ended before the command was   *)
(* begun, and at most once in every case.  (A reply that was given up on   *)
(* is taken for a later one; see late.)                                    *)
RawAnswersAreTrue ==
    [][\A q \in Requests :
          /\ pushed'[q] <= 1
          /\ request'[q].at = "ok" /\ request[q] = [kind |-> "raw", at |-> "waiting"] /\ ~late =>
                 pushed'[q] = 1
          /\ request'[q].at \in {"unavailable", "expired"} => pushed'[q] = 0]_vars
=============================================================================
