----------------------------- MODULE MapSession -----------------------------
(***************************************************************************)
(* The MAP session of the SMS bridge (mapclient/session.go) as             *)
(* runConnected uses it: requests and replies over one RFCOMM stream, each *)
(* reply read with a timeout, the folder the phone is in cached in         *)
(* currentPath, and the rule for which errors end the session.  An         *)
(* exchange of several packets with the same direction is one exchange.    *)
(***************************************************************************)
EXTENDS Naturals, Sequences

CONSTANTS
    Inbox, Outbox,    \* folders, as sequences of path parts
    Handles,          \* messages of the inbox
    FetchAttempts,    \* len(fetchDelays)
    MaxLag            \* bound: requests the phone is behind

UnknownPath == <<"unknown">>

ASSUME FoldersAssumption ==
    /\ Inbox \in Seq(STRING) \ {<<>>, UnknownPath}
    /\ Outbox \in Seq(STRING) \ {<<>>, UnknownPath}
    /\ Inbox # Outbox

VARIABLES
    up,        \* mapLoop has a session
    path,      \* Session.currentPath
    op,        \* the operation in progress
    wire,      \* requests the phone has not handled
    replies,   \* replies the bridge has not read
    folder,    \* the folder the phone is in
    late       \* history: a reply of this session was given up on

phoneVars == <<wire, replies, folder>>
sessionVars == <<up, path, op, phoneVars, late>>

NoOp == [kind |-> "none", folder |-> <<>>, handle |-> "none", tries |-> 0, plan |-> <<>>,
         waiting |-> FALSE]

(* A request; `asked' is the folder it is meant for.                       *)
Request(code, name, asked) == [code |-> code, name |-> name, asked |-> asked]
Root == Request("root", "", <<>>)

SessionInit ==
    /\ up = FALSE /\ path = <<>> /\ op = NoOp
    /\ wire = <<>> /\ replies = <<>> /\ folder = <<>> /\ late = FALSE

(* Connect: a new stream, and the phone in its root folder.                *)
Connect ==
    /\ ~up /\ up' = TRUE
    /\ UNCHANGED <<path, op, phoneVars, late>>

Close ==
    /\ up' = FALSE /\ path' = <<>> /\ op' = NoOp
    /\ wire' = <<>> /\ replies' = <<>> /\ folder' = <<>> /\ late' = FALSE

-----------------------------------------------------------------------------
(* gotoFolder: nothing when the path is cached, else resetPath, which      *)
(* itself does nothing at the root, and one SetPath for each part.         *)
GotoFolder(cached, f) ==
    IF f = cached THEN <<>>
    ELSE (IF cached = <<>> THEN <<>> ELSE <<Root>>)
         \o [k \in 1..Len(f) |-> Request("enter", f[k], SubSeq(f, 1, k))]

MessageRequest(o) ==
    CASE o.kind \in {"event", "get"} -> <<Request("get", o.handle, o.folder)>>
      [] o.kind = "list" -> <<Request("list", "", o.folder)>>
      [] o.kind \in {"send", "raw"} -> <<Request("put", o.handle, o.folder)>>

(* The requests of one attempt; Keepalive is resetPath(true).              *)
Attempt(o, cached) ==
    [o EXCEPT !.tries = @ + 1, !.waiting = FALSE,
              !.plan = IF o.kind = "keepalive" THEN <<Root>>
                       ELSE GotoFolder(cached, o.folder) \o MessageRequest(o)]

(* The select of runConnected starts an operation.                         *)
Start(kind, f, handle) ==
    /\ up /\ op = NoOp
    /\ op' = Attempt([NoOp EXCEPT !.kind = kind, !.folder = f, !.handle = handle], path)
    /\ UNCHANGED <<up, path, phoneVars, late>>

Send ==
    /\ up /\ op # NoOp /\ ~op.waiting
    /\ wire' = Append(wire, Head(op.plan))
    /\ op' = [op EXCEPT !.waiting = TRUE]
    /\ UNCHANGED <<up, path, replies, folder, late>>

(* Mutant: currentPath is set before the walk.                             *)
PathAssumed(request, ok) ==
    IF request.code \in {"root", "enter"} THEN op.folder ELSE path

(* resetPath and gotoFolder keep currentPath: the root when it is reached, *)
(* the folder after its last part, unknown after an error.                 *)
PathAfter(request, ok) ==
    IF request.code \notin {"root", "enter"} THEN path
    ELSE IF ~ok THEN UnknownPath
    ELSE IF request.code = "root" THEN <<>>
    ELSE IF request.asked = op.folder THEN op.folder ELSE path

(* An error of the operation.  processEvent tries a fetch again on the     *)
(* same session whatever the error was.  Otherwise a transport error ends  *)
(* the session, and any error of drainOutbound or Keepalive does.          *)
Retries == op.kind = "event" /\ op.tries < FetchAttempts

EndsSession(transport) == transport \/ op.kind \in {"send", "keepalive"}

(* A reply is read: the next one on the stream, whatever it answers.       *)
Receive ==
    /\ op.waiting /\ replies # <<>>
    /\ LET request == Head(op.plan)
           reply == Head(replies)
           after == PathAfter(request, reply.ok)
       IN  IF reply.ok
           THEN /\ path' = after
                /\ op' = IF Len(op.plan) = 1 THEN NoOp
                         ELSE [op EXCEPT !.plan = Tail(@), !.waiting = FALSE]
                /\ replies' = Tail(replies)
                /\ UNCHANGED <<up, wire, folder, late>>
           ELSE IF Retries
           THEN /\ path' = after /\ op' = Attempt(op, after)
                /\ replies' = Tail(replies)
                /\ UNCHANGED <<up, wire, folder, late>>
           ELSE IF EndsSession(FALSE) THEN Close
           ELSE /\ path' = after /\ op' = NoOp
                /\ replies' = Tail(replies)
                /\ UNCHANGED <<up, wire, folder, late>>

(* SO_RCVTIMEO runs out before the reply is there.                         *)
Timeout ==
    /\ op.waiting /\ replies = <<>>
    /\ \/ /\ Retries /\ Len(wire) <= MaxLag
          /\ path' = PathAfter(Head(op.plan), FALSE)
          /\ op' = Attempt(op, path')
          /\ late' = TRUE
          /\ UNCHANGED <<up, wire, replies, folder>>
       \/ ~Retries /\ EndsSession(TRUE) /\ Close

-----------------------------------------------------------------------------
(* The phone handles requests in order and may refuse one; it enters a     *)
(* part relative to the folder it is in.                                   *)
PhoneHandles(ok) ==
    /\ wire # <<>>
    /\ LET request == Head(wire)
       IN  /\ folder' = IF ~ok THEN folder
                        ELSE IF request.code = "root" THEN <<>>
                        ELSE IF request.code = "enter" THEN Append(folder, request.name)
                        ELSE folder
           /\ request.code = "enter" /\ ok =>
                  \E f \in {Inbox, Outbox} : \E k \in 1..Len(f) : folder' = SubSeq(f, 1, k)
           /\ replies' = Append(replies, [to |-> request, ok |-> ok])
    /\ wire' = Tail(wire)
    /\ UNCHANGED <<up, path, op, late>>

(* mapLoop's own operations: an event fetches a message, a poll lists the  *)
(* inbox, drainOutbound sends.                                             *)
StartOwn ==
    \/ \E h \in Handles : Start("event", Inbox, h)
    \/ Start("list", Inbox, "none") \/ Start("send", Outbox, "none")
    \/ Start("keepalive", <<>>, "none")

-----------------------------------------------------------------------------
(* Every variable keeps its type; an operation in progress has a request   *)
(* left, so that Send and Receive always find one.                         *)
SessionTypeOK ==
    /\ up \in BOOLEAN /\ late \in BOOLEAN
    /\ path \in {<<>>, Inbox, Outbox, UnknownPath}
    /\ op.kind \in {"none", "event", "get", "list", "raw", "send", "keepalive"}
    /\ op # NoOp => op.plan # <<>> /\ op.tries \in 1..FetchAttempts
    /\ Len(wire) + Len(replies) <= MaxLag + 2

(* A listing, a fetch or a text is handled in the folder it is meant for,  *)
(* as long as no reply of the session was given up on.                     *)
HandledInItsFolder ==
    [][Len(replies') > Len(replies) /\ Head(wire).code \in {"get", "list", "put"} /\ ~late =>
         folder = Head(wire).asked]_sessionVars

(* IsTransportError: "distinguishes a dead or timed-out RFCOMM stream      *)
(* from an explicit MAP/OBEX rejection. Only transport failures require    *)
(* reconnecting the single MAS session."  So a timed-out stream is not     *)
(* used further, and a fetch that succeeds returned the message it asked   *)
(* for.                                                                    *)
FetchReturnsItsMessage ==
    [][op.waiting /\ Head(op.plan).code = "get" /\ Len(replies') < Len(replies) /\ Head(replies).ok =>
         Head(replies).to = Head(op.plan)]_sessionVars
=============================================================================
