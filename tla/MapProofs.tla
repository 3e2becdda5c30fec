----------------------------- MODULE MapProofs ------------------------------
(***************************************************************************)
(* Proofs about the MAP session and the HTTP commands over it, for any     *)
(* folders, messages, requests and number of fetches.                      *)
(***************************************************************************)
EXTENDS MapCommands, TLAPS

(* Requests, replies and operations, with the fields the code gives them.  *)
Names == {"", "none"} \cup STRING \cup Handles \cup Requests
Codes == {"root", "enter", "get", "list", "put"}
Paths == Seq(STRING)
Asks == {r \in [code : Codes, name : Names, asked : Paths] : r.code = "root" => r.asked = <<>>}
Reply == [to : Asks, ok : BOOLEAN]
OpKinds == {"event", "get", "list", "raw", "send", "keepalive"}
Operation ==
    [kind : OpKinds, folder : Paths, handle : Names, tries : Nat, plan : Seq(Asks), waiting : BOOLEAN]

SessionShapes ==
    /\ late \in BOOLEAN
    /\ op \in Operation \/ op = NoOp
    /\ wire \in Seq(Asks) /\ replies \in Seq(Reply)

CommandShapes ==
    /\ request \in [Requests -> [kind : Kinds \cup {"none"}, at : {"idle"} \cup Waiting \cup Answers]]
    /\ \A q \in Requests : request[q].at # "idle" => request[q].kind \in Kinds
    /\ commands \in Seq(Requests) /\ running \in Requests \cup {NoRequest}
    /\ pushed \in [Requests -> Nat]

Moves(r) == r.code \in {"root", "enter"}

(* The phone does in folder f what r is meant to do.                       *)
Needs(r, f) ==
    /\ r.code = "enter" => Append(f, r.name) = r.asked
    /\ ~Moves(r) => f = r.asked

(* A plan moves from folder to folder, each request starting where the one *)
(* before it has led, and ends with the request for the message.           *)
PlanOK(o) ==
    /\ o.plan # <<>>
    /\ \A i \in 1..Len(o.plan) - 1 : Moves(o.plan[i]) /\ Needs(o.plan[i + 1], o.plan[i].asked)
    /\ IF o.kind = "keepalive" THEN o.plan = <<Root>>
       ELSE <<o.plan[Len(o.plan)]>> = MessageRequest(o)

OpInv ==
    op # NoOp =>
      /\ PlanOK(op)
      /\ op.kind # "keepalive" => op.folder \in {Inbox, Outbox}
      /\ op.kind = "send" => op.handle = "none"

(* One request at a time: it is on its way, or its reply is, and the phone *)
(* is where the request needs it.                                          *)
InSync ==
    \/ /\ ~op.waiting /\ wire = <<>> /\ replies = <<>>
       /\ op # NoOp => Needs(Head(op.plan), folder)
    \/ /\ op.waiting /\ wire = <<Head(op.plan)>> /\ replies = <<>>
       /\ Needs(Head(op.plan), folder)
    \/ /\ op.waiting /\ wire = <<>>
       /\ \E ok \in BOOLEAN :
             /\ replies = <<[to |-> Head(op.plan), ok |-> ok]>>
             /\ ok \/ ~Moves(Head(op.plan)) => folder = Head(op.plan).asked

(* Between two walks currentPath is unknown or the phone's folder.         *)
PathTrue ==
    op = NoOp \/ ~Moves(Head(op.plan)) => path \in {UnknownPath, folder}

FolderInv == ~late => InSync /\ PathTrue

SessionInv == SessionShapes /\ OpInv /\ FolderInv

(* The i-th request on its way is the PushMessage of q.                    *)
Push(q, i) == wire[i].code = "put" /\ wire[i].name = q

OnWire(q) == \E i \in 1..Len(wire) : Push(q, i)

(* The command of q is executed and its text was not sent yet.             *)
Planned(q) == running = q /\ op.kind = "raw" /\ ~(op.waiting /\ Len(op.plan) = 1)

(* The command of q was not begun.                                         *)
NotBegun(q) ==
    \/ request[q].at \in {"idle", "submitting", "unavailable", "expired"}
    \/ request[q].at = "waiting" /\ running # q

QueueInv ==
    /\ \A i, j \in 1..Len(commands) : commands[i] = commands[j] => i = j
    /\ \A i \in 1..Len(commands) :
          request[commands[i]].at \in {"waiting", "expired"} /\ running # commands[i]
    /\ \A q \in Requests : request[q].at = "waiting" =>
          running = q \/ \E i \in 1..Len(commands) : commands[i] = q
    /\ running # NoRequest =>
          /\ op # NoOp /\ op.kind = request[running].kind
          /\ request[running].at \in {"waiting", "abandoned"}
          /\ op.kind # "list" => op.handle = running
    /\ op.kind = "raw" => running # NoRequest

(* A text is sent once: at most one PushMessage of it is on its way, and   *)
(* none once the phone has taken it or before its command was begun.       *)
PushInv ==
    \A q \in Requests :
      /\ pushed[q] \in {0, 1}
      /\ OnWire(q) \/ Planned(q) \/ NotBegun(q) => pushed[q] = 0
      /\ Planned(q) \/ NotBegun(q) => ~OnWire(q)
      /\ \A i, j \in 1..Len(wire) : Push(q, i) /\ Push(q, j) => i = j

(* Read in time, an ok to a text means that the phone has taken it.        *)
AnswerInv ==
    ~late /\ op.kind = "raw" /\ op.waiting /\ Len(op.plan) = 1 /\ replies # <<>> =>
      (Head(replies).ok => pushed[running] = 1)

CommandInv == CommandShapes /\ QueueInv /\ PushInv /\ AnswerInv

MapInv == SessionInv /\ CommandInv

----------------------------------------------------------------------------
(* The parts of a path: one more part makes the next longer prefix, and    *)
(* the longest prefix is the path.                                         *)
LEMMA Prefixes ==
    ASSUME NEW S, NEW s \in Seq(S)
    PROVE  /\ SubSeq(s, 1, Len(s)) = s
           /\ \A k \in 1..Len(s) :
                 /\ SubSeq(s, 1, k) \in Seq(S) /\ s[k] \in S
                 /\ Append(SubSeq(s, 1, k - 1), s[k]) = SubSeq(s, 1, k)
           /\ s # <<>> => Append(<<>>, s[1]) = SubSeq(s, 1, 1)
<1>1. SubSeq(s, 1, Len(s)) = s
  OBVIOUS
<1>2. ASSUME NEW k \in 1..Len(s)
      PROVE  /\ SubSeq(s, 1, k) \in Seq(S) /\ s[k] \in S
             /\ Append(SubSeq(s, 1, k - 1), s[k]) = SubSeq(s, 1, k)
  OBVIOUS
<1>3. s # <<>> => Append(<<>>, s[1]) = SubSeq(s, 1, 1)
  BY SMTT(60)
<1>. QED
  BY <1>1, <1>2, <1>3

(* gotoFolder walks to the folder: the SetPath of each part starts in the  *)
(* folder the one before has led to, and the last one leads to the folder. *)
LEMMA Walk ==
    ASSUME NEW f \in {Inbox, Outbox}, NEW steps,
           steps = [k \in 1..Len(f) |-> Request("enter", f[k], SubSeq(f, 1, k))]
    PROVE  /\ steps \in Seq(Asks) /\ Len(steps) = Len(f) /\ Len(f) \in Nat \ {0}
           /\ \A k \in 1..Len(f) : steps[k].code = "enter"
           /\ \A k \in 1..Len(f) - 1 : Needs(steps[k + 1], steps[k].asked)
           /\ Needs(steps[1], <<>>)
           /\ steps[Len(f)].asked = f
<1>1. f \in Seq(STRING) /\ f # <<>>
  BY FoldersAssumption
<1>2. Len(f) \in Nat \ {0}
  BY <1>1
<1>3. ASSUME NEW k \in 1..Len(f)
      PROVE  /\ steps[k] = Request("enter", f[k], SubSeq(f, 1, k))
             /\ steps[k] \in Asks
  <2>1. f[k] \in STRING /\ SubSeq(f, 1, k) \in Seq(STRING)
    BY <1>1, Prefixes
  <2>. QED
    BY Zenon, <2>1 DEF Request, Asks, Names, Codes, Paths
<1>4. steps \in Seq(Asks) /\ Len(steps) = Len(f)
  BY <1>2, <1>3
<1>5. \A k \in 1..Len(f) : steps[k].code = "enter" /\ steps[k].name = f[k] /\ steps[k].asked = SubSeq(f, 1, k)
  BY <1>3 DEF Request
<1>6. ASSUME NEW k \in 1..Len(f) - 1
      PROVE  Needs(steps[k + 1], steps[k].asked)
  <2>1. k \in 1..Len(f) /\ k + 1 \in 1..Len(f) /\ (k + 1) - 1 = k
    BY <1>2
  <2>2. Append(SubSeq(f, 1, (k + 1) - 1), f[k + 1]) = SubSeq(f, 1, k + 1)
    BY <1>1, <2>1, Prefixes
  <2>. QED
    BY Zenon, <1>5, <2>1, <2>2 DEF Needs, Moves
<1>7. Needs(steps[1], <<>>)
  BY <1>1, <1>2, <1>5, Prefixes DEF Needs, Moves
<1>8. steps[Len(f)].asked = f
  BY <1>1, <1>2, <1>5, Prefixes
<1>. QED
  BY ZenonT(60), <1>2, <1>4, <1>5, <1>6, <1>7, <1>8

(* The request of an operation other than a keepalive is one request, made *)
(* for the operation's folder.                                             *)
LEMMA MessageAsked ==
    ASSUME NEW o \in Operation, o.kind # "keepalive"
    PROVE  \E r \in Asks : /\ MessageRequest(o) = <<r>> /\ ~Moves(r) /\ r.asked = o.folder
                           /\ r.code = "put" => o.kind \in {"send", "raw"} /\ r.name = o.handle
                           /\ o.kind = "raw" => r.code = "put"
<1>1. /\ o.folder \in Paths /\ o.handle \in Names /\ o.kind \in OpKinds
      /\ "" \in Names
  <2>1. o.folder \in Paths /\ o.handle \in Names /\ o.kind \in OpKinds
    BY DEF Operation
  <2>2. "" \in Names
    BY DEF Names
  <2>. QED
    BY Zenon, <2>1, <2>2
<1>2. CASE o.kind \in {"event", "get"}
  <2>. DEFINE r == Request("get", o.handle, o.folder)
  <2>1. MessageRequest(o) = <<r>>
    BY Zenon, <1>2 DEF MessageRequest
  <2>2. r \in Asks
    BY Zenon, <1>1 DEF Request, Asks, Codes
  <2>. QED
    BY <1>2, <2>1, <2>2 DEF Request, Moves
<1>3. CASE o.kind = "list"
  <2>. DEFINE r == Request("list", "", o.folder)
  <2>1. MessageRequest(o) = <<r>>
    BY Zenon, <1>3 DEF MessageRequest
  <2>2. r \in Asks
    BY Zenon, <1>1 DEF Request, Asks, Codes
  <2>. QED
    BY Zenon, <1>3, <2>1, <2>2 DEF Request, Moves
<1>4. CASE o.kind \in {"send", "raw"}
  <2>. DEFINE r == Request("put", o.handle, o.folder)
  <2>1. MessageRequest(o) = <<r>>
    BY <1>4 DEF MessageRequest
  <2>2. r \in Asks
    BY Zenon, <1>1 DEF Request, Asks, Codes
  <2>. QED
    BY <1>4, <2>1, <2>2 DEF Request, Moves
<1>. QED
  BY Zenon, <1>1, <1>2, <1>3, <1>4 DEF OpKinds

(* Putting a request behind a walk, or resetPath before it.                *)
LEMMA Joined ==
    ASSUME NEW S, NEW s \in Seq(S), NEW r \in S
    PROVE  /\ <<>> \o s = s
           /\ s \o <<r>> \in Seq(S) /\ Len(s \o <<r>>) = Len(s) + 1
           /\ \A i \in 1..Len(s) : (s \o <<r>>)[i] = s[i]
           /\ (s \o <<r>>)[Len(s) + 1] = r
           /\ <<r>> \o s \in Seq(S) /\ Len(<<r>> \o s) = Len(s) + 1
           /\ \A i \in 1..Len(s) : (<<r>> \o s)[i + 1] = s[i]
           /\ (<<r>> \o s)[1] = r
<1>1. <<r>> \in Seq(S) /\ Len(<<r>>) = 1 /\ <<r>>[1] = r
  OBVIOUS
<1>. QED
  BY <1>1

(* The root folder is asked for with an empty name.                        *)
LEMMA RootAsked == Root \in Asks /\ Moves(Root) /\ Root.asked = <<>> /\ \A g : Needs(Root, g)
<1>1. <<>> \in Seq(STRING)
  OBVIOUS
<1>2. Root \in Asks
  BY Zenon, <1>1 DEF Root, Request, Asks, Names, Codes, Paths
<1>. QED
  BY Zenon, <1>2 DEF Root, Request, Moves, Needs

(* The requests of an attempt: from the cached folder, when that is where  *)
(* the phone is, or from anywhere when it is unknown, every request is     *)
(* handled in the folder it needs and the last one is the message's.       *)
LEMMA Attempted ==
    ASSUME NEW o \in Operation, o.kind # "keepalive" => o.folder \in {Inbox, Outbox},
           NEW cached, NEW a, a = Attempt(o, cached)
    PROVE  /\ a \in Operation
           /\ a.kind = o.kind /\ a.folder = o.folder /\ a.handle = o.handle /\ a.waiting = FALSE
           /\ PlanOK(a)
           /\ \A g : cached = UnknownPath \/ g = cached => Needs(Head(a.plan), g)
<1>. DEFINE p == IF o.kind = "keepalive" THEN <<Root>>
                 ELSE GotoFolder(cached, o.folder) \o MessageRequest(o)
<1>1. ASSUME p \in Seq(Asks)
      PROVE  /\ a \in Operation
             /\ a.kind = o.kind /\ a.folder = o.folder /\ a.handle = o.handle /\ a.waiting = FALSE
             /\ a.plan = p /\ MessageRequest(a) = MessageRequest(o)
  <2>. HIDE DEF p
  <2>1. a = [o EXCEPT !.tries = @ + 1, !.waiting = FALSE, !.plan = p]
    BY DEF Attempt, p
  <2>2. /\ a \in Operation
        /\ a.kind = o.kind /\ a.folder = o.folder /\ a.handle = o.handle /\ a.waiting = FALSE
        /\ a.plan = p
    <3>1. o \in [kind : OpKinds, folder : Paths, handle : Names, tries : Nat, plan : Seq(Asks),
                 waiting : BOOLEAN]
      BY DEF Operation
    <3>2. o.tries + 1 \in Nat
      BY <3>1
    <3>3. a = [o EXCEPT !.tries = o.tries + 1, !.waiting = FALSE, !.plan = p]
      BY <2>1
    <3>. QED
      BY Zenon, <1>1, <3>1, <3>2, <3>3 DEF Operation
  <2>3. MessageRequest(a) = MessageRequest(o)
    BY SMTT(60), <2>2 DEF MessageRequest
  <2>. QED
    BY <2>2, <2>3
<1>2. CASE o.kind = "keepalive"
  <2>1. p = <<Root>> /\ p \in Seq(Asks) /\ Len(p) = 1 /\ Head(p) = Root
    BY <1>2, RootAsked
  <2>. HIDE DEF p
  <2>2. PlanOK(a)
    <3>1. a.plan = <<Root>> /\ a.kind = "keepalive"
      BY <1>1, <1>2, <2>1
    <3>2. Len(a.plan) = 1
      BY <1>1, <2>1
    <3>3. a.plan # <<>>
      BY <3>1, <3>2
    <3>4. 1..Len(a.plan) - 1 = {}
      BY SMTT(60), <3>2
    <3>. QED
      BY <3>1, <3>3, <3>4 DEF PlanOK
  <2>. QED
    BY Zenon, <1>1, <2>1, <2>2, RootAsked
<1>3. CASE o.kind # "keepalive"
  <2>. DEFINE f == o.folder
              steps == [k \in 1..Len(f) |-> Request("enter", f[k], SubSeq(f, 1, k))]
  <2>1. PICK r \in Asks : MessageRequest(o) = <<r>> /\ ~Moves(r) /\ r.asked = f
    BY <1>3, MessageAsked
  <2>2. f \in {Inbox, Outbox} /\ f # UnknownPath /\ f # <<>>
    BY <1>3, FoldersAssumption
  <2>3. /\ steps \in Seq(Asks) /\ Len(steps) = Len(f) /\ Len(f) \in Nat \ {0}
        /\ \A k \in 1..Len(f) : steps[k].code = "enter"
        /\ \A k \in 1..Len(f) - 1 : Needs(steps[k + 1], steps[k].asked)
        /\ Needs(steps[1], <<>>)
        /\ steps[Len(f)].asked = f
    BY SMTT(60), <2>2, Walk
  <2>4. /\ p = GotoFolder(cached, f) \o <<r>>
        /\ GotoFolder(cached, f) =
             IF f = cached THEN <<>>
             ELSE (IF cached = <<>> THEN <<>> ELSE <<Root>>) \o steps
    BY SMTT(60), <1>3, <2>1 DEF GotoFolder
  <2>5. Needs(r, f)
    BY <2>1 DEF Needs, Moves
  <2>. HIDE DEF p, f, steps
  <2>6. ASSUME p \in Seq(Asks), Len(p) \in Nat \ {0}, p[Len(p)] = r,
               \A i \in 1..Len(p) - 1 : Moves(p[i]) /\ Needs(p[i + 1], p[i].asked),
               \A g : cached = UnknownPath \/ g = cached => Needs(p[1], g)
        PROVE  PlanOK(a) /\ \A g : cached = UnknownPath \/ g = cached => Needs(Head(a.plan), g)
    <3>1. p # <<>> /\ Head(p) = p[1]
      BY SMTT(60), <2>6
    <3>. QED
      BY SMTT(60), <1>1, <1>3, <2>1, <2>6, <3>1 DEF PlanOK
  <2>7. CASE f = cached
    <3>1. p = <<r>> /\ p \in Seq(Asks) /\ Len(p) = 1 /\ p[1] = r
      BY <2>4, <2>7
    <3>2. \A g : cached = UnknownPath \/ g = cached => Needs(p[1], g)
      BY <2>2, <2>5, <2>7, <3>1
    <3>3. 1..Len(p) - 1 = {} /\ Len(p) \in Nat \ {0} /\ p[Len(p)] = r
      BY <3>1
    <3>. QED
      BY Zenon, <1>1, <2>6, <3>1, <3>2, <3>3
  <2>8. CASE f # cached /\ cached = <<>>
    <3>1. p = steps \o <<r>>
      BY <2>3, <2>4, <2>8, RootAsked, Joined
    <3>2. /\ p \in Seq(Asks) /\ Len(p) = Len(f) + 1 /\ p[Len(f) + 1] = r
          /\ \A i \in 1..Len(f) : p[i] = steps[i]
      BY SMTT(60), <2>3, <3>1, Joined
    <3>3. ASSUME NEW i \in 1..Len(p) - 1 PROVE Moves(p[i]) /\ Needs(p[i + 1], p[i].asked)
      <4>1. i \in 1..Len(f) /\ p[i] = steps[i] /\ Moves(p[i])
        BY SMTT(60), <2>3, <3>2 DEF Moves
      <4>2. CASE i = Len(f)
        BY SMTT(60), <2>3, <2>5, <3>2, <4>1, <4>2
      <4>3. CASE i # Len(f)
        <5>1. i + 1 \in 1..Len(f) /\ i \in 1..Len(f) - 1
          BY <2>3, <4>1, <4>3
        <5>. QED
          BY SMTT(60), <2>3, <3>2, <4>1, <5>1
      <4>. QED
        BY <4>1, <4>2, <4>3
    <3>4. UnknownPath # <<>>
      BY DEF UnknownPath
    <3>5. \A g : cached = UnknownPath \/ g = cached => Needs(p[1], g)
      BY SMTT(60), <2>3, <2>8, <3>2, <3>4
    <3>6. Len(p) \in Nat \ {0} /\ p[Len(p)] = r
      BY SMTT(60), <2>3, <3>2
    <3>. QED
      BY Zenon, <1>1, <2>6, <3>2, <3>3, <3>5, <3>6
  <2>9. CASE f # cached /\ cached # <<>>
    <3>. DEFINE w == <<Root>> \o steps
    <3>1. p = w \o <<r>>
      BY <2>4, <2>9
    <3>2. /\ w \in Seq(Asks) /\ Len(w) = Len(f) + 1 /\ w[1] = Root
          /\ \A i \in 1..Len(f) : w[i + 1] = steps[i]
      BY <2>3, RootAsked, Joined
    <3>. HIDE DEF w
    <3>3. /\ p \in Seq(Asks) /\ Len(p) = Len(f) + 2 /\ p[Len(f) + 2] = r
          /\ \A i \in 1..Len(f) + 1 : p[i] = w[i]
      <4>1. /\ p \in Seq(Asks) /\ Len(p) = Len(w) + 1 /\ p[Len(w) + 1] = r
            /\ \A i \in 1..Len(w) : p[i] = w[i]
        BY SMTT(60), <3>1, <3>2, Joined
      <4>2. (Len(f) + 1) + 1 = Len(f) + 2
        BY SMTT(60), <2>3
      <4>. QED
        BY <3>2, <4>1, <4>2
    <3>4. p[1] = Root /\ \A i \in 1..Len(f) : p[i + 1] = steps[i]
      BY <2>3, <3>2, <3>3
    <3>5. ASSUME NEW i \in 1..Len(p) - 1 PROVE Moves(p[i]) /\ Needs(p[i + 1], p[i].asked)
      <4>1. CASE i = 1
        <5>1. p[i] = Root /\ p[i + 1] = steps[1]
          BY SMTT(60), <2>3, <3>4, <4>1
        <5>. QED
          BY SMTT(60), <2>3, <5>1, RootAsked
      <4>2. CASE i # 1
        <5>1. PICK k \in 1..Len(f) : i = k + 1
          <6>1. i - 1 \in 1..Len(f) /\ i = (i - 1) + 1
            BY SMTT(60), <2>3, <3>3, <4>2
          <6>. QED
            BY SMTT(60), <6>1
        <5>2. p[i] = steps[k] /\ Moves(p[i])
          BY SMTT(60), <2>3, <3>4, <5>1 DEF Moves
        <5>3. CASE k = Len(f)
          <6>1. i + 1 = Len(f) + 2
            BY SMTT(60), <2>3, <5>1, <5>3
          <6>. QED
            BY SMTT(60), <2>3, <2>5, <3>3, <5>2, <5>3, <6>1
        <5>4. CASE k # Len(f)
          <6>1. k + 1 \in 1..Len(f) /\ k \in 1..Len(f) - 1
            BY SMTT(60), <2>3, <5>4
          <6>2. p[(k + 1) + 1] = steps[k + 1]
            BY SMTT(60), <3>4, <6>1
          <6>. QED
            BY SMTT(60), <2>3, <5>1, <5>2, <6>1, <6>2
        <5>. QED
          BY <5>3, <5>4
      <4>. QED
        BY SMTT(60), <4>1, <4>2
    <3>6. \A g : cached = UnknownPath \/ g = cached => Needs(p[1], g)
      BY SMTT(60), <3>4, RootAsked
    <3>7. Len(p) \in Nat \ {0} /\ p[Len(p)] = r
      BY <2>3, <3>3
    <3>. QED
      BY ZenonT(60), <1>1, <2>6, <3>3, <3>5, <3>6, <3>7
  <2>. QED
    BY Zenon, <2>7, <2>8, <2>9
<1>. QED
  BY Zenon, <1>2, <1>3

----------------------------------------------------------------------------
(* A queue is its first member and the rest.                               *)
LEMMA FirstAndRest ==
    ASSUME NEW S, NEW s \in Seq(S), s # <<>>
    PROVE  /\ Len(s) \in Nat \ {0} /\ Head(s) = s[1] /\ s[1] \in S
           /\ Tail(s) \in Seq(S) /\ Len(Tail(s)) = Len(s) - 1
           /\ \A i \in 1..Len(Tail(s)) : Tail(s)[i] = s[i + 1]
           /\ Len(s) # 1 => Tail(s) # <<>> /\ Head(Tail(s)) = s[2]
<1>1. Len(s) \in Nat \ {0} /\ Head(s) = s[1] /\ s[1] \in S
  OBVIOUS
<1>2. Tail(s) \in Seq(S) /\ Len(Tail(s)) = Len(s) - 1
  OBVIOUS
<1>3. \A i \in 1..Len(Tail(s)) : Tail(s)[i] = s[i + 1]
  OBVIOUS
<1>4. ASSUME Len(s) # 1 PROVE Tail(s) # <<>> /\ Head(Tail(s)) = s[2]
  <2>1. Len(Tail(s)) # 0
    BY <1>1, <1>2, <1>4
  <2>2. Tail(s) # <<>>
    <3>1. \A t \in Seq(S) : Len(t) # 0 => t # <<>>
      OBVIOUS
    <3>. QED
      BY Zenon, <1>2, <2>1, <3>1
  <2>3. 1 \in 1..Len(Tail(s))
    BY <1>1, <1>2, <1>4
  <2>4. Tail(s)[1] = s[2]
    <3>1. Tail(s)[1] = s[1 + 1]
      BY <1>3, <2>3
    <3>2. 1 + 1 = 2
      OBVIOUS
    <3>. QED
      BY ZenonT(60), <3>1, <3>2
  <2>5. Head(Tail(s)) = Tail(s)[1]
    BY <1>2, <2>2
  <2>. QED
    BY <2>2, <2>4, <2>5
<1>. QED
  BY <1>1, <1>2, <1>3, <1>4

(* What is left of a plan: a move with more to come, or the last request.  *)
LEMMA PlanParts ==
    ASSUME NEW o \in Operation, PlanOK(o)
    PROVE  /\ o.plan \in Seq(Asks) /\ Len(o.plan) \in Nat \ {0}
           /\ Head(o.plan) \in Asks
           /\ Len(o.plan) # 1 =>
                 /\ o.kind # "keepalive"
                 /\ Moves(Head(o.plan)) /\ Needs(Head(Tail(o.plan)), Head(o.plan).asked)
           /\ Len(o.plan) = 1 /\ o.kind = "keepalive" => Head(o.plan) = Root
           /\ Len(o.plan) = 1 /\ o.kind # "keepalive" =>
                 /\ ~Moves(Head(o.plan)) /\ Head(o.plan).asked = o.folder
                 /\ Head(o.plan).code = "put" =>
                       o.kind \in {"send", "raw"} /\ Head(o.plan).name = o.handle
                 /\ o.kind = "raw" => Head(o.plan).code = "put"
<1>. DEFINE p == o.plan
<1>1. p \in Seq(Asks) /\ p # <<>>
  BY DEF Operation, PlanOK
<1>2. /\ Len(p) \in Nat \ {0} /\ Head(p) = p[1] /\ p[1] \in Asks
      /\ Len(p) # 1 => Head(Tail(p)) = p[2]
  BY <1>1, FirstAndRest
<1>3. Len(p) # 1 =>
        o.kind # "keepalive" /\ Moves(Head(p)) /\ Needs(Head(Tail(p)), Head(p).asked)
  <2>1. SUFFICES ASSUME Len(p) # 1
                 PROVE  o.kind # "keepalive" /\ Moves(p[1]) /\ Needs(p[2], p[1].asked)
    BY Zenon, <1>2
  <2>2. 1 \in 1..Len(p) - 1
    <3>1. Len(p) \in Nat /\ Len(p) # 0 /\ Len(p) # 1
      BY <1>2, <2>1
    <3>2. \A n \in Nat : n # 0 /\ n # 1 => 1 \in 1..n - 1
      OBVIOUS
    <3>. QED
      BY Zenon, <3>1, <3>2
  <2>3. Moves(p[1]) /\ Needs(p[1 + 1], p[1].asked)
    BY <2>2 DEF PlanOK
  <2>4. Needs(p[2], p[1].asked)
    <3>1. 1 + 1 = 2
      OBVIOUS
    <3>. QED
      BY <2>3, <3>1
  <2>5. Len(<<Root>>) = 1
    BY SMTT(60)
  <2>. QED
    BY Zenon, <2>1, <2>3, <2>4, <2>5 DEF PlanOK
<1>4. o.kind = "keepalive" => Head(p) = Root
  <2>1. Head(<<Root>>) = Root
    BY SMTT(60)
  <2>. QED
    BY <2>1 DEF PlanOK
<1>5. ASSUME Len(p) = 1, o.kind # "keepalive"
      PROVE  /\ ~Moves(Head(p)) /\ Head(p).asked = o.folder
             /\ Head(p).code = "put" => o.kind \in {"send", "raw"} /\ Head(p).name = o.handle
             /\ o.kind = "raw" => Head(p).code = "put"
  <2>1. PICK r \in Asks : /\ MessageRequest(o) = <<r>> /\ ~Moves(r) /\ r.asked = o.folder
                          /\ r.code = "put" => o.kind \in {"send", "raw"} /\ r.name = o.handle
                          /\ o.kind = "raw" => r.code = "put"
    BY SMTT(60), <1>5, MessageAsked
  <2>2. <<p[1]>> = <<r>>
    BY <1>5, <2>1 DEF PlanOK
  <2>3. p[1] = r
    BY <2>2
  <2>. QED
    BY SMTT(60), <1>2, <2>1, <2>3
<1>. QED
  BY Zenon, <1>1, <1>2, <1>3, <1>4, <1>5

(* Reading an ok takes the plan one request further.                       *)
LEMMA Advanced ==
    ASSUME NEW o \in Operation, PlanOK(o), Len(o.plan) # 1,
           NEW a, a = [o EXCEPT !.plan = Tail(@), !.waiting = FALSE]
    PROVE  /\ a \in Operation /\ PlanOK(a)
           /\ a.kind = o.kind /\ a.folder = o.folder /\ a.handle = o.handle /\ a.waiting = FALSE
           /\ a.plan = Tail(o.plan)
           /\ o.kind # "keepalive" /\ Moves(Head(o.plan))
           /\ Needs(Head(a.plan), Head(o.plan).asked)
           /\ ~Moves(Head(a.plan)) => Head(o.plan).asked = o.folder
<1>. DEFINE p == o.plan
            t == Tail(o.plan)
<1>1. /\ p \in Seq(Asks) /\ Len(p) \in Nat \ {0}
      /\ o.kind # "keepalive"
      /\ Moves(Head(p)) /\ Needs(Head(t), Head(p).asked)
  BY Zenon, PlanParts
<1>2. /\ t \in Seq(Asks) /\ Len(t) = Len(p) - 1 /\ t # <<>>
      /\ \A i \in 1..Len(t) : t[i] = p[i + 1]
  <2>1. p # <<>>
    BY DEF PlanOK
  <2>. QED
    BY <1>1, <2>1, FirstAndRest
<1>3. /\ a \in Operation /\ a.plan = t
      /\ a.kind = o.kind /\ a.folder = o.folder /\ a.handle = o.handle /\ a.waiting = FALSE
  <2>1. o \in [kind : OpKinds, folder : Paths, handle : Names, tries : Nat, plan : Seq(Asks),
               waiting : BOOLEAN]
    BY DEF Operation
  <2>2. a = [o EXCEPT !.plan = t, !.waiting = FALSE]
    OBVIOUS
  <2>. HIDE DEF t
  <2>. QED
    BY Zenon, <1>2, <2>1, <2>2 DEF Operation
<1>4. MessageRequest(a) = MessageRequest(o)
  BY Zenon, <1>3 DEF MessageRequest
<1>5. PlanOK(a)
  <2>1. ASSUME NEW i \in 1..Len(t) - 1 PROVE Moves(t[i]) /\ Needs(t[i + 1], t[i].asked)
    <3>1. /\ i + 1 \in 1..Len(p) - 1 /\ i \in 1..Len(t) /\ i + 1 \in 1..Len(t)
      BY SMTT(60), <1>1, <1>2
    <3>2. Moves(p[i + 1]) /\ Needs(p[(i + 1) + 1], p[i + 1].asked)
      BY <3>1 DEF PlanOK
    <3>. QED
      BY <1>2, <3>1, <3>2
  <2>2. t[Len(t)] = p[Len(p)]
    <3>1. Len(t) \in 1..Len(t) /\ Len(t) + 1 = Len(p)
      BY <1>1, <1>2
    <3>. QED
      BY <1>2, <3>1
  <2>3. <<p[Len(p)]>> = MessageRequest(o)
    BY <1>1 DEF PlanOK
  <2>. HIDE DEF p, t
  <2>. QED
    BY Zenon, <1>1, <1>2, <1>3, <1>4, <2>1, <2>2, <2>3 DEF PlanOK
<1>6. ~Moves(Head(a.plan)) => Head(p).asked = o.folder
  <2>1. SUFFICES ASSUME ~Moves(Head(a.plan)) PROVE Head(p).asked = o.folder
    BY Zenon
  <2>2. Head(a.plan).asked = Head(p).asked
    BY Zenon, <1>1, <1>3, <2>1 DEF Needs
  <2>3. Len(a.plan) = 1
    BY Zenon, <1>3, <1>5, <2>1, PlanParts
  <2>. QED
    BY Zenon, <1>1, <1>3, <1>5, <2>2, <2>3, PlanParts
<1>. QED
  BY Zenon, <1>1, <1>3, <1>5, <1>6

----------------------------------------------------------------------------
(* No operation is not an operation.                                       *)
LEMMA NoOperation == NoOp \notin Operation /\ NoOp.waiting = FALSE /\ NoOp.kind = "none"
<1>1. NoOp.kind = "none" /\ NoOp.waiting = FALSE
  BY DEF NoOp
<1>. QED
  BY <1>1 DEF Operation, OpKinds

(* The select starts an operation: its walk starts where the phone is.     *)
LEMMA StartKeepsSession ==
    ASSUME SessionInv, NEW kind \in OpKinds, NEW f \in Paths, NEW handle \in Names,
           kind # "keepalive" => f \in {Inbox, Outbox},
           kind = "send" => handle = "none",
           Start(kind, f, handle)
    PROVE  /\ SessionInv'
           /\ op' \in Operation /\ op' # NoOp
           /\ op'.kind = kind /\ op'.handle = handle /\ op'.waiting = FALSE
<1>. DEFINE o == [NoOp EXCEPT !.kind = kind, !.folder = f, !.handle = handle]
<1>1. /\ op = NoOp /\ op' = Attempt(o, path)
      /\ path' = path /\ wire' = wire /\ replies' = replies /\ folder' = folder /\ late' = late
  BY DEF Start, phoneVars
<1>2. o \in Operation /\ o.kind = kind /\ o.folder = f /\ o.handle = handle
  <2>1. <<>> \in Seq(STRING) /\ <<>> \in Seq(Asks)
    OBVIOUS
  <2>2. NoOp \in [kind : {"none"}, folder : Paths, handle : Names, tries : Nat, plan : Seq(Asks),
                  waiting : BOOLEAN]
    BY Zenon, <2>1 DEF NoOp, Paths, Names
  <2>. QED
    BY Zenon, <2>2 DEF Operation
<1>. HIDE DEF o
<1>3. /\ op' \in Operation
      /\ op'.kind = kind /\ op'.folder = f /\ op'.handle = handle /\ op'.waiting = FALSE
      /\ PlanOK(op')
      /\ \A g : path = UnknownPath \/ g = path => Needs(Head(op'.plan), g)
  BY ZenonT(60), <1>1, <1>2, Attempted
<1>4. op' # NoOp
  BY <1>3, NoOperation
<1>5. SessionShapes' /\ OpInv'
  BY <1>1, <1>3, <1>4 DEF SessionInv, SessionShapes, OpInv
<1>6. FolderInv'
  <2>1. SUFFICES ASSUME ~late PROVE (InSync /\ PathTrue)'
    BY <1>1 DEF FolderInv
  <2>2. InSync /\ PathTrue
    BY <2>1 DEF SessionInv, FolderInv
  <2>3. wire = <<>> /\ replies = <<>> /\ path \in {UnknownPath, folder}
    BY <1>1, <2>2, NoOperation DEF InSync, PathTrue
  <2>4. Needs(Head(op'.plan), folder)
    BY <1>3, <2>3
  <2>. QED
    BY <1>1, <1>3, <2>3, <2>4 DEF InSync, PathTrue
<1>. QED
  BY <1>3, <1>4, <1>5, <1>6 DEF SessionInv

(* Sending puts the request on its way; nothing else is.                   *)
LEMMA SendKeepsSession ==
    ASSUME SessionInv, Send
    PROVE  /\ SessionInv'
           /\ op \in Operation /\ PlanOK(op) /\ op.waiting = FALSE
           /\ op' \in Operation /\ op'.kind = op.kind /\ op'.handle = op.handle
           /\ op'.plan = op.plan /\ op'.waiting = TRUE
           /\ Head(op.plan) \in Asks /\ wire' = Append(wire, Head(op.plan)) /\ replies' = replies
<1>1. /\ op # NoOp /\ ~op.waiting
      /\ wire' = Append(wire, Head(op.plan)) /\ op' = [op EXCEPT !.waiting = TRUE]
      /\ path' = path /\ replies' = replies /\ folder' = folder /\ late' = late
  BY DEF Send
<1>2. /\ op \in Operation /\ PlanOK(op) /\ op.waiting = FALSE
      /\ wire \in Seq(Asks)
  BY SMTT(60), <1>1 DEF SessionInv, SessionShapes, OpInv, Operation
<1>3. Head(op.plan) \in Asks
  BY <1>2, PlanParts
<1>4. /\ op' \in Operation /\ op'.kind = op.kind /\ op'.folder = op.folder
      /\ op'.handle = op.handle /\ op'.plan = op.plan /\ op'.waiting = TRUE
  BY Zenon, <1>1, <1>2 DEF Operation
<1>5. op' # NoOp
  BY <1>4, NoOperation
<1>6. PlanOK(op')
  <2>1. MessageRequest(op') = MessageRequest(op)
    BY <1>4 DEF MessageRequest
  <2>. QED
    BY <1>2, <1>4, <2>1 DEF PlanOK
<1>7. SessionShapes' /\ OpInv'
  <2>1. wire' \in Seq(Asks)
    BY <1>1, <1>2, <1>3
  <2>. QED
    BY <1>1, <1>4, <1>5, <1>6, <2>1 DEF SessionInv, SessionShapes, OpInv
<1>8. FolderInv'
  <2>1. SUFFICES ASSUME ~late PROVE (InSync /\ PathTrue)'
    BY <1>1 DEF FolderInv
  <2>2. InSync /\ PathTrue
    BY <2>1 DEF SessionInv, FolderInv
  <2>3. wire = <<>> /\ replies = <<>> /\ Needs(Head(op.plan), folder)
    BY <1>1, <2>2 DEF InSync
  <2>4. wire' = <<Head(op.plan)>>
    BY <1>1, <2>3
  <2>5. InSync'
    BY <1>1, <1>4, <2>3, <2>4 DEF InSync
  <2>6. PathTrue'
    BY <1>1, <1>4, <1>5, <2>2 DEF PathTrue
  <2>. QED
    BY <2>5, <2>6
<1>. QED
  BY <1>1, <1>2, <1>3, <1>4, <1>7, <1>8 DEF SessionInv

(* A session that ends leaves nothing behind.                              *)
LEMMA CloseKeepsSession ==
    ASSUME Close
    PROVE  SessionInv'
<1>1. /\ op' = NoOp /\ wire' = <<>> /\ replies' = <<>> /\ folder' = <<>>
      /\ path' = <<>> /\ late' = FALSE
  BY DEF Close
<1>2. wire' \in Seq(Asks) /\ replies' \in Seq(Reply)
  BY <1>1
<1>3. SessionShapes' /\ OpInv'
  BY Zenon, <1>1, <1>2 DEF SessionShapes, OpInv
<1>4. FolderInv'
  BY <1>1, NoOperation DEF FolderInv, InSync, PathTrue
<1>. QED
  BY <1>3, <1>4 DEF SessionInv

(* A reply is read: the plan goes on where the phone now is, the fetch     *)
(* starts again, or the operation or the session ends.                     *)
LEMMA ReceiveKeepsSession ==
    ASSUME SessionInv, Receive
    PROVE  /\ SessionInv'
           /\ op \in Operation /\ PlanOK(op) /\ op.waiting
           /\ \/ op' = NoOp
              \/ op' \in Operation /\ op'.kind = op.kind /\ op'.handle = op.handle /\ op'.waiting = FALSE
           /\ wire' \in {wire, <<>>}
           /\ op' # NoOp => (op.kind = "raw" => Len(op.plan) # 1)
           /\ op' = NoOp /\ Head(replies).ok => Len(op.plan) = 1
<1>. DEFINE r == Head(op.plan)
            ok == Head(replies).ok
            after == PathAfter(r, ok)
<1>1. op.waiting /\ replies # <<>>
  BY DEF Receive
<1>2. /\ op \in Operation /\ op # NoOp /\ PlanOK(op)
      /\ op.kind # "keepalive" => op.folder \in {Inbox, Outbox}
      /\ op.kind = "send" => op.handle = "none"
      /\ late \in BOOLEAN /\ wire \in Seq(Asks) /\ replies \in Seq(Reply)
  BY <1>1, NoOperation DEF SessionInv, SessionShapes, OpInv
<1>3. r \in Asks /\ ok \in BOOLEAN /\ Tail(replies) \in Seq(Reply)
  <2>1. Head(replies) \in Reply /\ Tail(replies) \in Seq(Reply)
    BY <1>1, <1>2, FirstAndRest
  <2>. QED
    BY Zenon, <1>2, <2>1, PlanParts DEF Reply
<1>4. r.code = "root" => r.asked = <<>>
  BY SMTT(60), <1>3 DEF Asks
<1>5. /\ ~Moves(r) => after = path
      /\ Moves(r) /\ ~ok => after = UnknownPath
      /\ r.code = "root" /\ ok => after = <<>>
      /\ r.code = "enter" /\ ok /\ r.asked = op.folder => after = op.folder
  BY DEF PathAfter, Moves
<1>6. ASSUME ~late
      PROVE  /\ wire = <<>> /\ Tail(replies) = <<>>
             /\ ok \/ ~Moves(r) => folder = r.asked
             /\ ~Moves(r) => path \in {UnknownPath, folder}
  <2>1. InSync /\ PathTrue
    BY <1>6 DEF SessionInv, FolderInv
  <2>2. PICK b \in BOOLEAN : /\ wire = <<>> /\ replies = <<[to |-> r, ok |-> b]>>
                             /\ b \/ ~Moves(r) => folder = r.asked
    BY <1>1, <2>1 DEF InSync
  <2>. HIDE DEF r
  <2>3. Head(replies) = [to |-> r, ok |-> b] /\ Tail(replies) = <<>>
    BY <2>2
  <2>4. ok = b
    BY <2>3
  <2>. QED
    BY SMTT(60), <2>1, <2>2, <2>3, <2>4 DEF PathTrue, r
<1>. HIDE DEF r, ok, after
<1>7. CASE ok /\ Len(op.plan) = 1
  <2>1. /\ path' = after /\ op' = NoOp /\ replies' = Tail(replies)
        /\ wire' = wire /\ folder' = folder /\ late' = late
    BY <1>7 DEF Receive, r, ok, after
  <2>2. SessionShapes' /\ OpInv'
    BY <1>2, <1>3, <2>1 DEF SessionShapes, OpInv
  <2>3. ~late => after \in {UnknownPath, folder}
    <3>1. CASE op.kind = "keepalive"
      <4>1. r = Root
        BY <1>2, <1>7, <3>1, PlanParts DEF r
      <4>2. r.code = "root"
        BY Zenon, <4>1 DEF Root, Request
      <4>. QED
        BY SMTT(60), <1>4, <1>5, <1>6, <1>7, <4>2
    <3>2. CASE op.kind # "keepalive"
      <4>1. ~Moves(r)
        BY SMTT(60), <1>2, <1>7, <3>2, PlanParts DEF r
      <4>. QED
        BY SMTT(60), <1>5, <1>6, <4>1
    <3>. QED
      BY <3>1, <3>2
  <2>4. FolderInv'
    BY <1>6, <2>1, <2>3, NoOperation DEF FolderInv, InSync, PathTrue
  <2>. QED
    BY <1>1, <1>2, <1>7, <2>1, <2>2, <2>4 DEF SessionInv
<1>8. CASE ok /\ Len(op.plan) # 1
  <2>1. /\ path' = after /\ op' = [op EXCEPT !.plan = Tail(@), !.waiting = FALSE]
        /\ replies' = Tail(replies) /\ wire' = wire /\ folder' = folder /\ late' = late
    BY SMTT(60), <1>8 DEF Receive, r, ok, after
  <2>2. /\ op' \in Operation /\ PlanOK(op')
        /\ op'.kind = op.kind /\ op'.folder = op.folder /\ op'.handle = op.handle
        /\ op'.waiting = FALSE
        /\ Moves(r) /\ Needs(Head(op'.plan), r.asked)
        /\ ~Moves(Head(op'.plan)) => r.asked = op.folder
    BY Zenon, <1>2, <1>8, <2>1, Advanced DEF r
  <2>3. op' # NoOp
    BY <2>2, NoOperation
  <2>4. SessionShapes' /\ OpInv'
    BY SMTT(60), <1>2, <1>3, <2>1, <2>2, <2>3 DEF SessionShapes, OpInv
  <2>5. ~late /\ ~Moves(Head(op'.plan)) => after = folder
    BY <1>4, <1>5, <1>6, <1>8, <2>2 DEF Moves
  <2>6. FolderInv'
    BY Zenon, <1>6, <1>8, <2>1, <2>2, <2>3, <2>5 DEF FolderInv, InSync, PathTrue
  <2>. QED
    BY SMTT(60), <1>1, <1>2, <1>8, <2>1, <2>2, <2>3, <2>4, <2>6 DEF SessionInv
<1>9. CASE ~ok /\ Retries
  <2>1. /\ path' = after /\ op' = Attempt(op, after)
        /\ replies' = Tail(replies) /\ wire' = wire /\ folder' = folder /\ late' = late
    BY <1>9 DEF Receive, r, ok, after
  <2>2. op.kind = "event"
    BY <1>9 DEF Retries
  <2>3. /\ op' \in Operation
        /\ op'.kind = op.kind /\ op'.folder = op.folder /\ op'.handle = op.handle /\ op'.waiting = FALSE
        /\ PlanOK(op')
        /\ \A g : after = UnknownPath \/ g = after => Needs(Head(op'.plan), g)
    BY ZenonT(60), <1>2, <2>1, Attempted
  <2>4. op' # NoOp
    BY <2>3, NoOperation
  <2>5. SessionShapes' /\ OpInv'
    BY <1>2, <1>3, <2>1, <2>3, <2>4 DEF SessionShapes, OpInv
  <2>6. ~late => after \in {UnknownPath, folder}
    BY <1>5, <1>6, <1>9
  <2>7. FolderInv'
    BY SMTT(60), <1>6, <2>1, <2>3, <2>6 DEF FolderInv, InSync, PathTrue
  <2>. QED
    BY <1>1, <1>2, <2>1, <2>2, <2>3, <2>4, <2>5, <2>7 DEF SessionInv
<1>10. CASE ~ok /\ ~Retries /\ EndsSession(FALSE)
  <2>1. Close
    BY <1>10 DEF Receive, ok
  <2>2. op' = NoOp /\ wire' = <<>>
    BY SMTT(60), <2>1 DEF Close
  <2>. QED
    BY SMTT(60), <1>1, <1>2, <1>10, <2>1, <2>2, CloseKeepsSession DEF ok
<1>11. CASE ~ok /\ ~Retries /\ ~EndsSession(FALSE)
  <2>1. /\ path' = after /\ op' = NoOp /\ replies' = Tail(replies)
        /\ wire' = wire /\ folder' = folder /\ late' = late
    BY SMTT(60), <1>11 DEF Receive, r, ok, after
  <2>2. SessionShapes' /\ OpInv'
    BY <1>2, <1>3, <2>1 DEF SessionShapes, OpInv
  <2>3. ~late => after \in {UnknownPath, folder}
    BY SMTT(60), <1>5, <1>6, <1>11
  <2>4. FolderInv'
    BY <1>6, <2>1, <2>3, NoOperation DEF FolderInv, InSync, PathTrue
  <2>. QED
    BY SMTT(60), <1>1, <1>2, <1>11, <2>1, <2>2, <2>4 DEF SessionInv, ok
<1>. QED
  BY Zenon, <1>3, <1>7, <1>8, <1>9, <1>10, <1>11

(* A reply is given up on: late is set, or the session ends.               *)
LEMMA TimeoutKeepsSession ==
    ASSUME SessionInv, Timeout
    PROVE  /\ SessionInv'
           /\ op \in Operation /\ op.waiting
           /\ \/ op' = NoOp /\ wire' = <<>>
              \/ /\ op' \in Operation /\ op'.kind = op.kind /\ op'.handle = op.handle
                 /\ op.kind = "event" /\ op'.waiting = FALSE /\ wire' = wire /\ late' = TRUE
<1>1. op.waiting
  BY DEF Timeout
<1>2. /\ op \in Operation /\ op # NoOp
      /\ op.kind # "keepalive" => op.folder \in {Inbox, Outbox}
      /\ op.kind = "send" => op.handle = "none"
      /\ wire \in Seq(Asks) /\ replies \in Seq(Reply)
  BY <1>1, NoOperation DEF SessionInv, SessionShapes, OpInv
<1>3. CASE Close
  BY Zenon, <1>1, <1>2, <1>3, CloseKeepsSession DEF Close
<1>4. CASE ~Close
  <2>1. /\ Retries /\ op' = Attempt(op, path') /\ late' = TRUE
        /\ wire' = wire /\ replies' = replies
    BY Zenon, <1>4 DEF Timeout
  <2>2. op.kind = "event"
    BY <2>1 DEF Retries
  <2>3. /\ op' \in Operation /\ PlanOK(op')
        /\ op'.kind = op.kind /\ op'.folder = op.folder /\ op'.handle = op.handle /\ op'.waiting = FALSE
    BY ZenonT(60), <1>2, <2>1, Attempted
  <2>4. SessionShapes' /\ OpInv'
    BY <1>2, <2>1, <2>3 DEF SessionShapes, OpInv
  <2>5. FolderInv'
    BY <2>1 DEF FolderInv
  <2>. QED
    BY <1>1, <1>2, <2>1, <2>2, <2>3, <2>4, <2>5 DEF SessionInv
<1>. QED
  BY Zenon, <1>3, <1>4

(* The phone handles the request that was sent: in the folder it needs.    *)
LEMMA PhoneKeepsSession ==
    ASSUME SessionInv, NEW ok \in BOOLEAN, PhoneHandles(ok)
    PROVE  /\ SessionInv'
           /\ wire # <<>> /\ wire \in Seq(Asks) /\ wire' = Tail(wire) /\ op' = op /\ late' = late
           /\ ~late => /\ op.waiting /\ Head(wire) = Head(op.plan) /\ Needs(Head(wire), folder)
                       /\ replies' = <<[to |-> Head(wire), ok |-> ok]>>
<1>. DEFINE r == Head(wire)
<1>1. /\ wire # <<>> /\ wire' = Tail(wire) /\ path' = path /\ op' = op /\ late' = late
      /\ replies' = Append(replies, [to |-> r, ok |-> ok])
      /\ folder' = IF ~ok THEN folder
                   ELSE IF r.code = "root" THEN <<>>
                   ELSE IF r.code = "enter" THEN Append(folder, r.name)
                   ELSE folder
  BY DEF PhoneHandles
<1>2. wire \in Seq(Asks) /\ replies \in Seq(Reply)
  BY DEF SessionInv, SessionShapes
<1>3. r \in Asks /\ wire' \in Seq(Asks)
  BY <1>1, <1>2, FirstAndRest
<1>4. r.code = "root" => r.asked = <<>>
  BY SMTT(60), <1>3 DEF Asks
<1>. HIDE DEF r
<1>5. SessionShapes' /\ OpInv'
  <2>1. [to |-> r, ok |-> ok] \in Reply
    BY <1>3 DEF Reply
  <2>2. replies' \in Seq(Reply)
    BY SMTT(60), <1>1, <1>2, <2>1
  <2>. QED
    BY <1>1, <1>3, <2>2 DEF SessionInv, SessionShapes, OpInv
<1>6. ASSUME ~late
      PROVE  /\ op.waiting /\ r = Head(op.plan) /\ Needs(r, folder)
             /\ replies' = <<[to |-> r, ok |-> ok]>> /\ wire' = <<>>
             /\ ok \/ ~Moves(r) => folder' = r.asked
             /\ ~Moves(r) => path \in {UnknownPath, folder} /\ folder' = folder
  <2>1. InSync /\ PathTrue
    BY SMTT(60), <1>6 DEF SessionInv, FolderInv
  <2>2. /\ op.waiting /\ wire = <<Head(op.plan)>> /\ replies = <<>>
        /\ Needs(Head(op.plan), folder)
    BY <1>1, <2>1 DEF InSync
  <2>3. r = Head(op.plan) /\ wire' = <<>>
    BY <1>1, <2>2 DEF r
  <2>4. replies' = <<[to |-> r, ok |-> ok]>>
    BY SMTT(60), <1>1, <2>2
  <2>5. ok \/ ~Moves(r) => folder' = r.asked
    BY Zenon, <1>1, <1>4, <2>2, <2>3 DEF Needs, Moves
  <2>6. ~Moves(r) => path \in {UnknownPath, folder} /\ folder' = folder
    BY <1>1, <2>1, <2>3 DEF PathTrue, Moves
  <2>. QED
    BY <2>2, <2>3, <2>4, <2>5, <2>6
<1>7. FolderInv'
  <2>1. SUFFICES ASSUME ~late PROVE InSync' /\ PathTrue'
    BY <1>1 DEF FolderInv
  <2>2. InSync'
    BY <1>1, <1>6, <2>1 DEF InSync
  <2>3. op # NoOp
    BY SMTT(60), <1>6, <2>1, NoOperation
  <2>4. PathTrue'
    BY <1>1, <1>6, <2>1, <2>3 DEF PathTrue
  <2>. QED
    BY <2>2, <2>4
<1>. QED
  BY <1>1, <1>2, <1>5, <1>6, <1>7 DEF SessionInv, r

----------------------------------------------------------------------------
(* A step that leaves the session alone keeps its invariant.               *)
LEMMA SessionLeftAlone ==
    ASSUME SessionInv, path' = path, op' = op, wire' = wire, replies' = replies,
           folder' = folder, late' = late
    PROVE  SessionInv'
<1>1. SessionShapes' /\ OpInv'
  BY DEF SessionInv, SessionShapes, OpInv
<1>2. InSync' <=> InSync
  BY Zenon DEF InSync
<1>3. PathTrue' <=> PathTrue
  BY Zenon DEF PathTrue
<1>. QED
  BY Zenon, <1>1, <1>2, <1>3 DEF SessionInv, FolderInv

(* A step that neither sends nor delivers a text keeps that it is sent     *)
(* once, when the texts not sent yet were not sent before.                 *)
LEMMA PushesLeftAlone ==
    ASSUME PushInv, wire' = wire, pushed' = pushed,
           \A q \in Requests : Planned(q)' \/ NotBegun(q)' => Planned(q) \/ NotBegun(q)
    PROVE  PushInv'
<1>1. ASSUME NEW q \in Requests
      PROVE  /\ OnWire(q)' <=> OnWire(q)
             /\ \A i, j \in 1..Len(wire') : Push(q, i)' /\ Push(q, j)' => i = j
  <2>1. OnWire(q)' <=> OnWire(q)
    BY Zenon DEF OnWire, Push
  <2>2. \A i, j \in 1..Len(wire) : Push(q, i) /\ Push(q, j) => i = j
    BY Zenon DEF PushInv
  <2>3. \A i, j \in 1..Len(wire') : Push(q, i)' /\ Push(q, j)' => i = j
    BY Zenon, <2>2 DEF Push
  <2>. QED
    BY <2>1, <2>3
<1>2. ASSUME NEW q \in Requests
      PROVE  /\ pushed'[q] \in {0, 1}
             /\ OnWire(q)' \/ Planned(q)' \/ NotBegun(q)' => pushed'[q] = 0
             /\ Planned(q)' \/ NotBegun(q)' => ~OnWire(q)'
  <2>1. /\ pushed[q] \in {0, 1}
        /\ OnWire(q) \/ Planned(q) \/ NotBegun(q) => pushed[q] = 0
        /\ Planned(q) \/ NotBegun(q) => ~OnWire(q)
    BY Zenon DEF PushInv
  <2>. QED
    BY Zenon, <1>1, <2>1
<1>. QED
  BY Zenon, <1>1, <1>2 DEF PushInv

(* mapLoop's own operations start when no command is executed.             *)
LEMMA StartOwnKeepsCommands ==
    ASSUME MapInv, StartOwn, UNCHANGED commandVars
    PROVE  MapInv'
<1>1. /\ request' = request /\ commands' = commands /\ running' = running /\ pushed' = pushed
  BY SMTT(60) DEF commandVars
<1>2. PICK kind \in {"event", "list", "send", "keepalive"}, f \in {Inbox, Outbox, <<>>}, h \in Names :
        /\ Start(kind, f, h)
        /\ kind # "keepalive" => f \in {Inbox, Outbox}
        /\ kind = "send" => h = "none"
  <2>1. "none" \in Names /\ Handles \subseteq Names
    BY Zenon DEF Names
  <2>2. CASE \E h \in Handles : Start("event", Inbox, h)
    BY <2>1, <2>2
  <2>3. CASE Start("list", Inbox, "none")
    BY <2>1, <2>3
  <2>4. CASE Start("send", Outbox, "none")
    BY <2>1, <2>4
  <2>5. CASE Start("keepalive", <<>>, "none")
    BY <2>1, <2>5
  <2>. QED
    BY <2>2, <2>3, <2>4, <2>5 DEF StartOwn
<1>3. f \in Paths /\ kind \in OpKinds
  <2>1. <<>> \in Seq(STRING)
    OBVIOUS
  <2>. QED
    BY Zenon, <1>2, <2>1, FoldersAssumption DEF Paths, OpKinds
<1>4. SessionInv' /\ op'.kind = kind /\ op'.waiting = FALSE
  BY Zenon, <1>2, <1>3, StartKeepsSession DEF MapInv
<1>5. op = NoOp /\ wire' = wire /\ op.kind = "none"
  BY <1>2, NoOperation DEF Start, phoneVars
<1>6. running = NoRequest
  BY <1>5 DEF MapInv, CommandInv, QueueInv
<1>7. CommandShapes'
  BY SMTT(60), <1>1 DEF MapInv, CommandInv, CommandShapes
<1>8. QueueInv'
  BY SMTT(60), <1>1, <1>2, <1>4, <1>6 DEF MapInv, CommandInv, QueueInv
<1>9. PushInv'
  <2>1. ASSUME NEW q \in Requests
        PROVE  Planned(q)' \/ NotBegun(q)' => NotBegun(q)
    <3>1. ~Planned(q)'
      BY <1>1, <1>6, RequestsAssumption DEF Planned
    <3>2. NotBegun(q)' => NotBegun(q)
      BY Zenon, <1>1 DEF NotBegun
    <3>. QED
      BY <3>1, <3>2
  <2>. QED
    BY <1>1, <1>5, <2>1, PushesLeftAlone DEF MapInv, CommandInv
<1>10. AnswerInv'
  BY SMTT(60), <1>2, <1>4 DEF AnswerInv
<1>. QED
  BY <1>4, <1>7, <1>8, <1>9, <1>10 DEF MapInv, CommandInv

(* Sending puts a text on its way only when it is that of the running      *)
(* command, and this once.                                                 *)
LEMMA SendKeepsCommands ==
    ASSUME MapInv, Send, UNCHANGED commandVars
    PROVE  MapInv'
<1>. DEFINE r == Head(op.plan)
<1>1. /\ request' = request /\ commands' = commands /\ running' = running /\ pushed' = pushed
  BY DEF commandVars
<1>2. /\ SessionInv'
      /\ op \in Operation /\ PlanOK(op) /\ op.waiting = FALSE
      /\ op' \in Operation /\ op'.kind = op.kind /\ op'.handle = op.handle
      /\ op'.plan = op.plan /\ op'.waiting = TRUE
      /\ r \in Asks /\ wire' = Append(wire, r) /\ replies' = replies
  BY Zenon, SendKeepsSession DEF MapInv
<1>3. op # NoOp /\ op' # NoOp
  BY <1>2, NoOperation
<1>4. wire \in Seq(Asks)
  BY DEF MapInv, SessionInv, SessionShapes
<1>5. r.code = "put" => Len(op.plan) = 1 /\ op.kind \in {"send", "raw"} /\ r.name = op.handle
  <2>1. SUFFICES ASSUME r.code = "put"
                 PROVE  Len(op.plan) = 1 /\ op.kind \in {"send", "raw"} /\ r.name = op.handle
    OBVIOUS
  <2>2. ~Moves(r)
    BY SMTT(60), <2>1 DEF Moves
  <2>3. Len(op.plan) = 1
    BY <1>2, <2>2, PlanParts
  <2>4. op.kind # "keepalive"
    <3>1. SUFFICES ASSUME op.kind = "keepalive" PROVE FALSE
      BY SMTT(60)
    <3>2. r = Root
      BY <1>2, <2>3, <3>1, PlanParts
    <3>. QED
      BY <2>2, <3>2, RootAsked
  <2>. QED
    BY <1>2, <2>1, <2>3, <2>4, PlanParts
<1>6. op.kind = "send" => op.handle \notin Requests
  BY SMTT(60), <1>3, RequestsAssumption DEF MapInv, SessionInv, OpInv, NoRequest
<1>7. /\ op.kind = "raw" => running \in Requests /\ op.handle = running
      /\ running \in Requests => request[running].at \in {"waiting", "abandoned"}
  BY SMTT(60), <1>2, RequestsAssumption DEF MapInv, CommandInv, CommandShapes, QueueInv
<1>. HIDE DEF r
<1>8. CommandShapes'
  BY SMTT(60), <1>1 DEF MapInv, CommandInv, CommandShapes
<1>9. QueueInv'
  BY SMTT(60), <1>1, <1>2, <1>3 DEF MapInv, CommandInv, QueueInv
<1>10. ASSUME NEW q \in Requests, r.code = "put", r.name = q
       PROVE  Planned(q) /\ ~Planned(q)' /\ ~NotBegun(q)'
  <2>1. op.kind = "raw" /\ running = q /\ Len(op.plan) = 1
    BY SMTT(60), <1>5, <1>6, <1>7, <1>10
  <2>. QED
    BY SMTT(60), <1>1, <1>2, <1>7, <2>1 DEF Planned, NotBegun
<1>11. ASSUME NEW q \in Requests
       PROVE  Planned(q)' => Planned(q)
  BY <1>1, <1>2 DEF Planned
<1>12. PICK n \in Nat : /\ Len(wire) = n /\ Len(wire') = n + 1
                        /\ \A i \in 1..n : wire'[i] = wire[i]
                        /\ wire'[n + 1] = r
  <2>1. /\ Len(wire) \in Nat /\ Len(wire') = Len(wire) + 1
        /\ \A i \in 1..Len(wire) : wire'[i] = wire[i]
        /\ wire'[Len(wire) + 1] = r
    BY SMTT(60), <1>2, <1>4
  <2>. QED
    BY SMTT(60), <2>1
<1>13. PushInv'
  <2>1. SUFFICES ASSUME NEW q \in Requests
                 PROVE  /\ pushed[q] \in {0, 1}
                        /\ OnWire(q)' \/ Planned(q)' \/ NotBegun(q)' => pushed[q] = 0
                        /\ Planned(q)' \/ NotBegun(q)' => ~OnWire(q)'
                        /\ \A i, j \in 1..Len(wire') : Push(q, i)' /\ Push(q, j)' => i = j
    BY SMTT(60), <1>1 DEF PushInv
  <2>2. /\ pushed[q] \in {0, 1}
        /\ OnWire(q) \/ Planned(q) \/ NotBegun(q) => pushed[q] = 0
        /\ Planned(q) \/ NotBegun(q) => ~OnWire(q)
        /\ \A i, j \in 1..Len(wire) : Push(q, i) /\ Push(q, j) => i = j
    BY SMTT(60) DEF MapInv, CommandInv, PushInv
  <2>3. NotBegun(q)' = NotBegun(q)
    BY SMTT(60), <1>1 DEF NotBegun
  <2>4. /\ \A i \in 1..n : Push(q, i)' <=> Push(q, i)
        /\ Push(q, n + 1)' <=> r.code = "put" /\ r.name = q
    BY SMTT(60), <1>12 DEF Push
  <2>5. \A i \in 1..Len(wire') : i \in 1..n \/ i = n + 1
    BY SMTT(60), <1>12
  <2>6. CASE r.code = "put" /\ r.name = q
    <3>1. Planned(q) /\ ~Planned(q)' /\ ~NotBegun(q)'
      BY SMTT(60), <1>10, <2>6
    <3>2. \A i \in 1..n : ~Push(q, i)'
      BY SMTT(60), <1>12, <2>2, <2>4, <3>1 DEF OnWire
    <3>. QED
      BY SMTT(60), <2>2, <2>5, <3>1, <3>2
  <2>7. CASE ~(r.code = "put" /\ r.name = q)
    <3>1. \A i \in 1..Len(wire') : Push(q, i)' => i \in 1..Len(wire) /\ Push(q, i)
      BY SMTT(60), <1>12, <2>4, <2>5, <2>7
    <3>2. OnWire(q)' => OnWire(q)
      BY SMTT(60), <3>1 DEF OnWire
    <3>. QED
      BY SMTT(60), <1>11, <2>2, <2>3, <3>1, <3>2
  <2>. QED
    BY SMTT(60), <2>6, <2>7
<1>14. AnswerInv'
  <2>1. SUFFICES ASSUME ~late' PROVE replies = <<>>
    BY <1>2 DEF AnswerInv
  <2>2. ~late
    BY SMTT(60), <2>1 DEF Send
  <2>. QED
    BY SMTT(60), <1>2, <2>2 DEF MapInv, SessionInv, FolderInv, InSync
<1>. QED
  BY SMTT(60), <1>2, <1>8, <1>9, <1>13, <1>14 DEF MapInv, CommandInv

(* A command is taken from the channel: it is in it no more.               *)
LEMMA CommandTaken ==
    ASSUME MapInv, commands # <<>>, commands' = Tail(commands)
    PROVE  /\ Head(commands) \in Requests /\ commands' \in Seq(Requests)
           /\ request[Head(commands)].at \in {"waiting", "expired"}
           /\ \A i, j \in 1..Len(commands') : commands'[i] = commands'[j] => i = j
           /\ \A i \in 1..Len(commands') :
                 /\ request[commands'[i]].at \in {"waiting", "expired"}
                 /\ running # commands'[i] /\ commands'[i] # Head(commands)
           /\ \A q \in Requests : request[q].at = "waiting" =>
                 running = q \/ q = Head(commands) \/ \E i \in 1..Len(commands') : commands'[i] = q
<1>1. commands \in Seq(Requests)
  BY DEF MapInv, CommandInv, CommandShapes
<1>2. /\ Len(commands) \in Nat \ {0} /\ Head(commands) = commands[1] /\ commands[1] \in Requests
      /\ commands' \in Seq(Requests) /\ Len(commands') = Len(commands) - 1
      /\ \A i \in 1..Len(commands') : commands'[i] = commands[i + 1]
  BY <1>1, FirstAndRest
<1>3. \A i \in 1..Len(commands') : i + 1 \in 1..Len(commands) /\ i + 1 # 1
  BY <1>2
<1>4. 1 \in 1..Len(commands)
  BY SMTT(60), <1>2
<1>5. /\ \A i, j \in 1..Len(commands) : commands[i] = commands[j] => i = j
      /\ \A i \in 1..Len(commands) :
            request[commands[i]].at \in {"waiting", "expired"} /\ running # commands[i]
      /\ \A q \in Requests : request[q].at = "waiting" =>
            running = q \/ \E i \in 1..Len(commands) : commands[i] = q
  BY DEF MapInv, CommandInv, QueueInv
<1>6. ASSUME NEW i \in 1..Len(commands'), NEW j \in 1..Len(commands'), commands'[i] = commands'[j]
      PROVE  i = j
  <2>1. i + 1 = j + 1
    BY SMTT(60), <1>2, <1>3, <1>5, <1>6
  <2>. QED
    BY SMTT(60), <2>1
<1>7. ASSUME NEW i \in 1..Len(commands')
      PROVE  /\ request[commands'[i]].at \in {"waiting", "expired"}
             /\ running # commands'[i] /\ commands'[i] # Head(commands)
  BY SMTT(60), <1>2, <1>3, <1>4, <1>5
<1>8. ASSUME NEW q \in Requests, request[q].at = "waiting", running # q, q # Head(commands)
      PROVE  \E i \in 1..Len(commands') : commands'[i] = q
  <2>1. PICK i \in 1..Len(commands) : commands[i] = q
    BY <1>5, <1>8
  <2>2. i # 1
    BY <1>2, <1>8, <2>1
  <2>3. i - 1 \in 1..Len(commands') /\ (i - 1) + 1 = i
    BY <1>2, <2>2
  <2>. QED
    BY ZenonT(60), <1>2, <2>1, <2>3
<1>. QED
  BY SMTT(60), <1>2, <1>4, <1>5, <1>6, <1>7, <1>8

(* executeCommand begins a command that was never begun, or skips one      *)
(* whose handler has given up.                                             *)
LEMMA ExecuteKeepsCommands ==
    ASSUME MapInv, ExecuteCommand
    PROVE  MapInv'
<1>. DEFINE h == Head(commands)
<1>1. commands # <<>> /\ commands' = Tail(commands) /\ request' = request /\ pushed' = pushed
  BY SMTT(60) DEF ExecuteCommand
<1>2. /\ h \in Requests /\ commands' \in Seq(Requests)
      /\ request[h].at \in {"waiting", "expired"}
      /\ \A i, j \in 1..Len(commands') : commands'[i] = commands'[j] => i = j
      /\ \A i \in 1..Len(commands') :
            /\ request[commands'[i]].at \in {"waiting", "expired"}
            /\ running # commands'[i] /\ commands'[i] # h
      /\ \A q \in Requests : request[q].at = "waiting" =>
            running = q \/ q = h \/ \E i \in 1..Len(commands') : commands'[i] = q
  BY SMTT(60), <1>1, CommandTaken
<1>3. CASE request[h].at = "waiting"
  <2>. DEFINE kind == request[h].kind
              f == IF kind = "raw" THEN Outbox ELSE Inbox
              handle == IF kind = "list" THEN "none" ELSE h
  <2>1. Start(kind, f, handle) /\ running' = h
    BY SMTT(60), <1>3 DEF ExecuteCommand
  <2>2. kind \in {"list", "get", "raw"}
    BY SMTT(60), <1>2, <1>3 DEF MapInv, CommandInv, CommandShapes, Kinds
  <2>3. kind \in OpKinds /\ f \in Paths /\ f \in {Inbox, Outbox} /\ handle \in Names
    BY ZenonT(60), <1>2, <2>2, FoldersAssumption DEF OpKinds, Paths, Names
  <2>. HIDE DEF kind, f, handle
  <2>4. /\ SessionInv'
        /\ op' \in Operation /\ op' # NoOp
        /\ op'.kind = kind /\ op'.handle = handle /\ op'.waiting = FALSE
    BY Zenon, <2>1, <2>2, <2>3, StartKeepsSession DEF MapInv
  <2>5. op = NoOp /\ wire' = wire
    BY <2>1 DEF Start, phoneVars
  <2>6. running = NoRequest
    BY <2>5 DEF MapInv, CommandInv, QueueInv
  <2>7. CommandShapes'
    BY SMTT(60), <1>1, <1>2, <2>1 DEF MapInv, CommandInv, CommandShapes
  <2>8. QueueInv'
    <3>1. op'.kind = request[h].kind /\ (op'.kind # "list" => op'.handle = h)
      BY SMTT(60), <2>4 DEF kind, handle
    <3>2. h # NoRequest
      BY SMTT(60), <1>2, RequestsAssumption
    <3>3. \A q \in Requests : request[q].at = "waiting" =>
            h = q \/ \E i \in 1..Len(commands') : commands'[i] = q
      BY SMTT(60), <1>2, <2>6, RequestsAssumption
    <3>. QED
      BY SMTT(60), <1>1, <1>2, <1>3, <2>1, <2>4, <3>1, <3>2, <3>3 DEF QueueInv
  <2>9. PushInv'
    <3>1. ASSUME NEW q \in Requests
          PROVE  Planned(q)' \/ NotBegun(q)' => NotBegun(q)
      <4>1. request[q].at = "waiting" => NotBegun(q)
        BY <2>6, RequestsAssumption DEF NotBegun
      <4>2. Planned(q)' => NotBegun(q)
        BY <1>3, <2>1, <4>1 DEF Planned
      <4>3. NotBegun(q)' => NotBegun(q)
        BY Zenon, <1>1, <4>1 DEF NotBegun
      <4>. QED
        BY <4>2, <4>3
    <3>. QED
      BY <1>1, <2>5, <3>1, PushesLeftAlone DEF MapInv, CommandInv
  <2>10. AnswerInv'
    BY <2>4 DEF AnswerInv
  <2>. QED
    BY SMTT(60), <2>4, <2>7, <2>8, <2>9, <2>10 DEF MapInv, CommandInv
<1>4. CASE request[h].at # "waiting"
  <2>1. /\ path' = path /\ op' = op /\ wire' = wire /\ replies' = replies
        /\ folder' = folder /\ late' = late /\ running' = running
    BY SMTT(60), <1>4 DEF ExecuteCommand, sessionVars, phoneVars
  <2>2. SessionInv'
    BY <2>1, SessionLeftAlone DEF MapInv
  <2>3. CommandShapes'
    BY SMTT(60), <1>1, <1>2, <2>1 DEF MapInv, CommandInv, CommandShapes
  <2>4. QueueInv'
    BY SMTT(60), <1>1, <1>2, <1>4, <2>1 DEF MapInv, CommandInv, QueueInv
  <2>5. PushInv'
    <3>1. \A q \in Requests : Planned(q)' \/ NotBegun(q)' => Planned(q) \/ NotBegun(q)
      BY Zenon, <1>1, <2>1 DEF Planned, NotBegun
    <3>. QED
      BY <1>1, <2>1, <3>1, PushesLeftAlone DEF MapInv, CommandInv
  <2>6. AnswerInv'
    BY Zenon, <1>1, <2>1 DEF MapInv, CommandInv, AnswerInv
  <2>. QED
    BY SMTT(60), <2>2, <2>3, <2>4, <2>5, <2>6 DEF MapInv, CommandInv
<1>. QED
  BY <1>3, <1>4

(* An operation goes on or ends, and with it its command.                  *)
LEMMA RespondKeepsCommands ==
    ASSUME MapInv, SessionInv', NEW b \in BOOLEAN, Respond(b), UNCHANGED <<commands, pushed>>,
           op \in Operation, op.waiting, wire' \in {wire, <<>>},
           \/ op' = NoOp
           \/ /\ op' \in Operation /\ op'.kind = op.kind /\ op'.handle = op.handle
              /\ op'.waiting = FALSE /\ (op.kind = "raw" => Len(op.plan) # 1)
    PROVE  MapInv'
<1>1. commands' = commands /\ pushed' = pushed
  OBVIOUS
<1>2. /\ request \in [Requests -> [kind : Kinds \cup {"none"}, at : {"idle"} \cup Waiting \cup Answers]]
      /\ \A q \in Requests : request[q].at # "idle" => request[q].kind \in Kinds
      /\ commands \in Seq(Requests) /\ running \in Requests \cup {NoRequest}
      /\ pushed \in [Requests -> Nat]
  BY DEF MapInv, CommandInv, CommandShapes
<1>3. /\ \A i, j \in 1..Len(commands) : commands[i] = commands[j] => i = j
      /\ \A i \in 1..Len(commands) :
            request[commands[i]].at \in {"waiting", "expired"} /\ running # commands[i]
      /\ \A q \in Requests : request[q].at = "waiting" =>
            running = q \/ \E i \in 1..Len(commands) : commands[i] = q
      /\ running # NoRequest =>
            /\ op # NoOp /\ op.kind = request[running].kind
            /\ request[running].at \in {"waiting", "abandoned"}
            /\ op.kind # "list" => op.handle = running
      /\ op.kind = "raw" => running # NoRequest
  BY DEF MapInv, CommandInv, QueueInv
<1>4. \A i \in 1..Len(commands) : commands[i] \in Requests
  BY SMTT(60), <1>2
<1>5. ASSUME NEW q \in Requests
      PROVE  OnWire(q)' => OnWire(q)
  BY SMTT(60) DEF OnWire, Push
<1>6. ASSUME NEW q \in Requests, NEW i \in 1..Len(wire'), NEW j \in 1..Len(wire'),
             Push(q, i)', Push(q, j)'
      PROVE  i = j
  <2>1. wire' = wire
    BY <1>6
  <2>. QED
    BY SMTT(60), <1>6, <2>1 DEF MapInv, CommandInv, PushInv, Push
<1>7. ASSUME NEW q \in Requests
      PROVE  Planned(q)' => Planned(q)
  <2>1. SUFFICES ASSUME running' = q, op'.kind = "raw" PROVE Planned(q)
    BY SMTT(60) DEF Planned
  <2>2. op' # NoOp
    BY <2>1, NoOperation
  <2>3. running' = running /\ op.kind = "raw" /\ Len(op.plan) # 1
    BY SMTT(60), <2>1, <2>2 DEF Respond
  <2>. QED
    BY SMTT(60), <2>1, <2>3 DEF Planned
<1>8. AnswerInv'
  BY SMTT(60), NoOperation DEF AnswerInv
<1>9. CASE running # NoRequest /\ op' = NoOp
  <2>1. /\ running' = NoRequest /\ running \in Requests
        /\ request' = [request EXCEPT ![running].at = IF @ # "waiting" THEN @
                                                      ELSE IF b THEN "ok" ELSE "failed"]
    BY <1>2, <1>9 DEF Respond
  <2>2. /\ \A q \in Requests : q # running => request'[q] = request[q]
        /\ request'[running].kind = request[running].kind
        /\ request'[running].at \in {"ok", "failed", "abandoned"}
    <3>. DEFINE x == IF request[running].at # "waiting" THEN request[running].at
                     ELSE IF b THEN "ok" ELSE "failed"
    <3>1. x \in {"ok", "failed", "abandoned"}
      BY <1>3, <1>9
    <3>2. request' = [request EXCEPT ![running].at = x]
      BY <2>1
    <3>. HIDE DEF x
    <3>3. \A q \in Requests : q # running => request'[q] = request[q]
      BY <1>2, <3>2
    <3>4. request'[running] = [request[running] EXCEPT !.at = x]
      BY <1>2, <2>1, <3>2
    <3>5. request[running] \in [kind : Kinds \cup {"none"}, at : {"idle"} \cup Waiting \cup Answers]
      BY <1>2, <2>1
    <3>. QED
      BY SMTT(60), <3>1, <3>3, <3>4, <3>5
  <2>3. CommandShapes'
    <3>1. request' \in [Requests -> [kind : Kinds \cup {"none"}, at : {"idle"} \cup Waiting \cup Answers]]
      BY <1>2, <2>1 DEF Answers
    <3>2. \A q \in Requests : request'[q].at # "idle" => request'[q].kind \in Kinds
      BY <1>2, <1>3, <2>1, <2>2
    <3>. QED
      BY <1>1, <1>2, <2>1, <3>1, <3>2 DEF CommandShapes
  <2>4. QueueInv'
    <3>1. \A i \in 1..Len(commands) : request'[commands[i]].at \in {"waiting", "expired"}
                                       /\ NoRequest # commands[i]
      BY SMTT(60), <1>3, <1>4, <2>2, RequestsAssumption
    <3>2. \A q \in Requests : request'[q].at = "waiting" =>
            \E i \in 1..Len(commands) : commands[i] = q
      BY <1>3, <2>2
    <3>3. op'.kind # "raw"
      BY <1>9, NoOperation
    <3>. QED
      BY SMTT(60), <1>1, <1>3, <2>1, <3>1, <3>2, <3>3 DEF QueueInv
  <2>5. ASSUME NEW q \in Requests
        PROVE  NotBegun(q)' => NotBegun(q)
    <3>1. CASE q = running
      BY SMTT(60), <2>2, <3>1 DEF NotBegun
    <3>2. CASE q # running
      BY SMTT(60), <2>2, <3>2 DEF NotBegun
    <3>. QED
      BY SMTT(60), <3>1, <3>2
  <2>6. PushInv'
    BY SMTT(60), <1>1, <1>5, <1>6, <1>7, <2>5 DEF MapInv, CommandInv, PushInv
  <2>. QED
    BY <1>8, <2>3, <2>4, <2>6 DEF MapInv, CommandInv
<1>10. CASE ~(running # NoRequest /\ op' = NoOp)
  <2>1. request' = request /\ running' = running
    BY SMTT(60), <1>10 DEF Respond
  <2>2. CommandShapes'
    BY SMTT(60), <1>1, <1>2, <2>1 DEF CommandShapes
  <2>3. QueueInv'
    BY SMTT(60), <1>1, <1>3, <1>10, <2>1, NoOperation DEF QueueInv
  <2>4. ASSUME NEW q \in Requests
        PROVE  NotBegun(q)' => NotBegun(q)
    BY SMTT(60), <2>1 DEF NotBegun
  <2>5. PushInv'
    BY <1>1, <1>5, <1>6, <1>7, <2>4 DEF MapInv, CommandInv, PushInv
  <2>. QED
    BY <1>8, <2>2, <2>3, <2>5 DEF MapInv, CommandInv
<1>. QED
  BY <1>9, <1>10

(* The phone takes a text that was on its way, and it is no more.          *)
LEMMA PhoneKeepsCommands ==
    ASSUME MapInv, NEW ok \in BOOLEAN, PhoneTakes(ok)
    PROVE  MapInv'
<1>. DEFINE r == Head(wire)
<1>1. /\ PhoneHandles(ok) /\ request' = request /\ commands' = commands /\ running' = running
      /\ pushed' = IF ok /\ r.code = "put" /\ r.name \in Requests
                   THEN [pushed EXCEPT ![r.name] = @ + 1] ELSE pushed
  BY SMTT(60) DEF PhoneTakes
<1>2. /\ SessionInv'
      /\ wire # <<>> /\ wire \in Seq(Asks) /\ wire' = Tail(wire) /\ op' = op /\ late' = late
      /\ ~late => /\ op.waiting /\ r = Head(op.plan)
                  /\ replies' = <<[to |-> r, ok |-> ok]>>
  BY SMTT(60), <1>1, PhoneKeepsSession DEF MapInv
<1>3. /\ Len(wire) \in Nat \ {0} /\ r = wire[1]
      /\ Len(wire') = Len(wire) - 1
      /\ \A i \in 1..Len(wire') : wire'[i] = wire[i + 1]
  BY <1>2, FirstAndRest
<1>4. \A i \in 1..Len(wire') : i + 1 \in 1..Len(wire) /\ i + 1 # 1
  BY <1>3
<1>5. 1 \in 1..Len(wire)
  BY <1>3
<1>6. pushed \in [Requests -> Nat]
  BY SMTT(60) DEF MapInv, CommandInv, CommandShapes
<1>. HIDE DEF r
<1>7. CommandShapes'
  <2>1. pushed' \in [Requests -> Nat]
    BY SMTT(60), <1>1, <1>6
  <2>. QED
    BY <1>1, <2>1 DEF MapInv, CommandInv, CommandShapes
<1>8. QueueInv'
  BY SMTT(60), <1>1, <1>2 DEF MapInv, CommandInv, QueueInv
<1>9. ASSUME NEW q \in Requests
      PROVE  /\ pushed'[q] \in {0, 1}
             /\ OnWire(q)' \/ Planned(q)' \/ NotBegun(q)' => pushed'[q] = 0
             /\ Planned(q)' \/ NotBegun(q)' => ~OnWire(q)'
             /\ \A i, j \in 1..Len(wire') : Push(q, i)' /\ Push(q, j)' => i = j
             /\ ok /\ r.code = "put" /\ r.name = q => pushed'[q] = 1
  <2>1. /\ pushed[q] \in {0, 1}
        /\ OnWire(q) \/ Planned(q) \/ NotBegun(q) => pushed[q] = 0
        /\ Planned(q) \/ NotBegun(q) => ~OnWire(q)
        /\ \A i, j \in 1..Len(wire) : Push(q, i) /\ Push(q, j) => i = j
    BY SMTT(60) DEF MapInv, CommandInv, PushInv
  <2>2. /\ Planned(q)' <=> Planned(q)
        /\ NotBegun(q)' <=> NotBegun(q)
    BY SMTT(60), <1>1, <1>2 DEF Planned, NotBegun
  <2>3. \A i \in 1..Len(wire') : Push(q, i)' <=> Push(q, i + 1)
    BY <1>3 DEF Push
  <2>4. OnWire(q)' => OnWire(q)
    BY <1>4, <2>3 DEF OnWire
  <2>5. \A i, j \in 1..Len(wire') : Push(q, i)' /\ Push(q, j)' => i = j
    <3>1. SUFFICES ASSUME NEW i \in 1..Len(wire'), NEW j \in 1..Len(wire'), Push(q, i)', Push(q, j)'
                   PROVE  i = j
      BY SMTT(60)
    <3>2. i + 1 = j + 1
      BY SMTT(60), <1>4, <2>1, <2>3, <3>1
    <3>. QED
      BY <3>2
  <2>6. CASE ok /\ r.code = "put" /\ r.name = q
    <3>1. Push(q, 1) /\ OnWire(q)
      BY <1>3, <1>5, <2>6 DEF Push, OnWire
    <3>2. ~OnWire(q)'
      <4>1. \A i \in 1..Len(wire') : ~Push(q, i)'
        BY <1>4, <1>5, <2>1, <2>3, <3>1
      <4>. QED
        BY <4>1 DEF OnWire
    <3>3. pushed'[q] = 1
      <4>1. pushed' = [pushed EXCEPT ![q] = pushed[q] + 1]
        BY <1>1, <2>6
      <4>2. pushed[q] = 0
        BY SMTT(60), <2>1, <3>1
      <4>. QED
        BY <1>6, <4>1, <4>2
    <3>. QED
      BY ZenonT(60), <2>1, <2>2, <2>5, <3>1, <3>2, <3>3
  <2>7. CASE ~(ok /\ r.code = "put" /\ r.name = q)
    <3>1. pushed'[q] = pushed[q]
      BY SMTT(60), <1>1, <1>6, <2>7
    <3>. QED
      BY ZenonT(60), <2>1, <2>2, <2>4, <2>5, <2>7, <3>1
  <2>. QED
    BY ZenonT(60), <2>6, <2>7
<1>10. PushInv'
  BY SMTT(60), <1>9 DEF PushInv
<1>11. AnswerInv'
  <2>1. SUFFICES ASSUME ~late, op.kind = "raw", op.waiting, Len(op.plan) = 1, Head(replies').ok
                 PROVE  pushed'[running] = 1
    BY SMTT(60), <1>1, <1>2 DEF AnswerInv
  <2>2. op \in Operation /\ PlanOK(op)
    BY SMTT(60), <2>1, NoOperation DEF MapInv, SessionInv, SessionShapes, OpInv
  <2>3. running \in Requests /\ op.handle = running
    BY ZenonT(60), <2>1 DEF MapInv, CommandInv, CommandShapes, QueueInv
  <2>4. r.code = "put" /\ r.name = running
    BY SMTT(60), <1>2, <2>1, <2>2, <2>3, PlanParts
  <2>5. Head(replies') = [to |-> r, ok |-> ok]
    BY <1>2, <2>1
  <2>6. ok
    BY <2>1, <2>5
  <2>. QED
    BY Zenon, <1>9, <2>3, <2>4, <2>6
<1>. QED
  BY SMTT(60), <1>2, <1>7, <1>8, <1>10, <1>11 DEF MapInv, CommandInv

(* A handler's own steps: to ask, to put its command into the channel, to  *)
(* give up.  What it does to its request leaves the session alone.         *)
LEMMA HandlersKeepCommands ==
    ASSUME MapInv, NEW q \in Requests,
           PutCommand(q) \/ GiveUp(q) \/ \E kind \in Kinds : Submit(q, kind)
    PROVE  MapInv'
<1>1. /\ path' = path /\ op' = op /\ wire' = wire /\ replies' = replies
      /\ folder' = folder /\ late' = late /\ running' = running /\ pushed' = pushed
  BY SMTT(60) DEF PutCommand, GiveUp, Submit, sessionVars, phoneVars
<1>2. SessionInv' /\ AnswerInv'
  <2>1. SessionInv'
    BY <1>1, SessionLeftAlone DEF MapInv
  <2>2. AnswerInv'
    BY Zenon, <1>1 DEF MapInv, CommandInv, AnswerInv
  <2>. QED
    BY <2>1, <2>2
<1>3. /\ request \in [Requests -> [kind : Kinds \cup {"none"}, at : {"idle"} \cup Waiting \cup Answers]]
      /\ \A p \in Requests : request[p].at # "idle" => request[p].kind \in Kinds
      /\ commands \in Seq(Requests) /\ running \in Requests \cup {NoRequest}
      /\ pushed \in [Requests -> Nat]
  BY SMTT(60) DEF MapInv, CommandInv, CommandShapes
<1>4. /\ \A i, j \in 1..Len(commands) : commands[i] = commands[j] => i = j
      /\ \A i \in 1..Len(commands) :
            request[commands[i]].at \in {"waiting", "expired"} /\ running # commands[i]
      /\ \A p \in Requests : request[p].at = "waiting" =>
            running = p \/ \E i \in 1..Len(commands) : commands[i] = p
      /\ running # NoRequest =>
            /\ op # NoOp /\ op.kind = request[running].kind
            /\ request[running].at \in {"waiting", "abandoned"}
            /\ op.kind # "list" => op.handle = running
      /\ op.kind = "raw" => running # NoRequest
  BY Zenon DEF MapInv, CommandInv, QueueInv
<1>5. \A i \in 1..Len(commands) : commands[i] \in Requests
  BY SMTT(60), <1>3
<1>6. ASSUME \A p \in Requests : NotBegun(p)' => NotBegun(p)
      PROVE  PushInv'
  <2>1. \A p \in Requests : Planned(p)' => Planned(p)
    BY Zenon, <1>1 DEF Planned
  <2>. QED
    BY <1>1, <1>6, <2>1, PushesLeftAlone DEF MapInv, CommandInv
<1>7. CASE \E kind \in Kinds : Submit(q, kind)
  <2>1. PICK kind \in Kinds : Submit(q, kind)
    BY SMTT(60), <1>7
  <2>. DEFINE x == IF up THEN "submitting" ELSE "unavailable"
  <2>2. /\ request[q].at = "idle" /\ commands' = commands
        /\ request' = [request EXCEPT ![q] = [kind |-> kind, at |-> x]]
    BY <2>1 DEF Submit
  <2>3. x \in {"submitting", "unavailable"}
    BY SMTT(60)
  <2>. HIDE DEF x
  <2>4. /\ request'[q].kind = kind /\ request'[q].at = x
        /\ \A p \in Requests : p # q => request'[p] = request[p]
    BY Zenon, <1>3, <2>2
  <2>5. CommandShapes'
    <3>1. x \in {"idle"} \cup Waiting \cup Answers
      BY SMTT(60), <2>3 DEF Waiting, Answers
    <3>2. request' \in [Requests -> [kind : Kinds \cup {"none"}, at : {"idle"} \cup Waiting \cup Answers]]
      BY SMTT(60), <1>3, <2>2, <3>1
    <3>. QED
      BY <1>1, <1>3, <2>2, <2>4, <3>2 DEF CommandShapes
  <2>6. running # q /\ \A i \in 1..Len(commands) : commands[i] # q
    BY SMTT(60), <1>4, <2>2, RequestsAssumption
  <2>7. QueueInv'
    <3>1. \A i \in 1..Len(commands) :
            request'[commands[i]].at \in {"waiting", "expired"} /\ running # commands[i]
      BY Zenon, <1>4, <1>5, <2>4, <2>6
    <3>2. \A p \in Requests : request'[p].at = "waiting" =>
            running = p \/ \E i \in 1..Len(commands) : commands[i] = p
      BY <1>4, <2>3, <2>4
    <3>3. running # NoRequest => request'[running] = request[running]
      BY <1>3, <2>4, <2>6
    <3>. QED
      BY ZenonT(60), <1>1, <1>4, <2>2, <3>1, <3>2, <3>3 DEF QueueInv
  <2>8. PushInv'
    <3>1. ASSUME NEW p \in Requests, NotBegun(p)'
          PROVE  NotBegun(p)
      BY Zenon, <1>1, <2>2, <2>4, <3>1 DEF NotBegun
    <3>. QED
      BY <1>6, <3>1
  <2>. QED
    BY SMTT(60), <1>2, <2>5, <2>7, <2>8 DEF MapInv, CommandInv
<1>8. CASE GiveUp(q)
  <2>. DEFINE x == IF running = q THEN "abandoned" ELSE "expired"
  <2>1. /\ request[q].at \in {"submitting", "waiting"} /\ commands' = commands
        /\ request' = [request EXCEPT ![q].at = x]
    BY <1>8 DEF GiveUp, Waiting
  <2>2. /\ running = q => x = "abandoned"
        /\ running # q => x = "expired"
    OBVIOUS
  <2>. HIDE DEF x
  <2>3. /\ request'[q].kind = request[q].kind /\ request'[q].at = x
        /\ \A p \in Requests : p # q => request'[p] = request[p]
    BY <1>3, <2>1
  <2>4. CommandShapes'
    <3>1. x \in {"idle"} \cup Waiting \cup Answers
      BY <2>2 DEF Waiting, Answers
    <3>2. request' \in [Requests -> [kind : Kinds \cup {"none"}, at : {"idle"} \cup Waiting \cup Answers]]
      BY ZenonT(60), <1>3, <2>1, <3>1
    <3>3. \A p \in Requests : request'[p].at # "idle" => request'[p].kind \in Kinds
      BY <1>3, <2>1, <2>3
    <3>. QED
      BY <1>1, <1>3, <2>1, <3>2, <3>3 DEF CommandShapes
  <2>5. QueueInv'
    <3>1. \A i \in 1..Len(commands) :
            request'[commands[i]].at \in {"waiting", "expired"} /\ running # commands[i]
      BY ZenonT(60), <1>4, <1>5, <2>2, <2>3
    <3>2. \A p \in Requests : request'[p].at = "waiting" =>
            running = p \/ \E i \in 1..Len(commands) : commands[i] = p
      BY SMTT(60), <1>4, <2>2, <2>3
    <3>3. running # NoRequest =>
            /\ op # NoOp /\ op.kind = request'[running].kind
            /\ request'[running].at \in {"waiting", "abandoned"}
            /\ op.kind # "list" => op.handle = running
      BY Zenon, <1>3, <1>4, <2>2, <2>3
    <3>. QED
      BY <1>1, <1>4, <2>1, <3>1, <3>2, <3>3 DEF QueueInv
  <2>6. PushInv'
    <3>1. ASSUME NEW p \in Requests, NotBegun(p)'
          PROVE  NotBegun(p)
      BY SMTT(60), <1>1, <2>1, <2>2, <2>3, <3>1 DEF NotBegun
    <3>. QED
      BY <1>6, <3>1
  <2>. QED
    BY <1>2, <2>4, <2>5, <2>6 DEF MapInv, CommandInv
<1>9. CASE PutCommand(q)
  <2>1. /\ request[q].at = "submitting" /\ commands' = Append(commands, q)
        /\ request' = [request EXCEPT ![q].at = "waiting"]
    BY <1>9 DEF PutCommand
  <2>2. /\ request'[q].kind = request[q].kind /\ request'[q].at = "waiting"
        /\ \A p \in Requests : p # q => request'[p] = request[p]
    BY SMTT(60), <1>3, <2>1
  <2>3. CommandShapes'
    <3>1. request' \in [Requests -> [kind : Kinds \cup {"none"}, at : {"idle"} \cup Waiting \cup Answers]]
      BY ZenonT(60), <1>3, <2>1 DEF Waiting
    <3>2. \A p \in Requests : request'[p].at # "idle" => request'[p].kind \in Kinds
      BY <1>3, <2>1, <2>2
    <3>3. commands' \in Seq(Requests)
      BY <1>3, <2>1
    <3>. QED
      BY <1>1, <1>3, <3>1, <3>2, <3>3 DEF CommandShapes
  <2>4. running # q /\ \A i \in 1..Len(commands) : commands[i] # q
    BY <1>4, <2>1, RequestsAssumption
  <2>5. PICK n \in Nat : /\ Len(commands) = n /\ Len(commands') = n + 1
                         /\ \A i \in 1..n : commands'[i] = commands[i]
                         /\ commands'[n + 1] = q
    <3>1. /\ Len(commands) \in Nat /\ Len(commands') = Len(commands) + 1
          /\ \A i \in 1..Len(commands) : commands'[i] = commands[i]
          /\ commands'[Len(commands) + 1] = q
      BY SMTT(60), <1>3, <2>1
    <3>. QED
      BY Zenon, <3>1
  <2>6. /\ \A i \in 1..n + 1 : i \in 1..n \/ i = n + 1
        /\ 1..n \subseteq 1..n + 1 /\ n + 1 \in 1..n + 1
    OBVIOUS
  <2>7. QueueInv'
    <3>1. ASSUME NEW i \in 1..Len(commands'), NEW j \in 1..Len(commands'), commands'[i] = commands'[j]
          PROVE  i = j
      <4>1. (i \in 1..n \/ i = n + 1) /\ (j \in 1..n \/ j = n + 1)
        BY Zenon, <2>5, <2>6
      <4>2. CASE i \in 1..n /\ j \in 1..n
        <5>1. commands[i] = commands[j] /\ i \in 1..Len(commands) /\ j \in 1..Len(commands)
          BY <2>5, <3>1, <4>2
        <5>. QED
          BY Zenon, <1>4, <5>1
      <4>3. ~(i \in 1..n /\ j = n + 1) /\ ~(i = n + 1 /\ j \in 1..n)
        BY Zenon, <2>4, <2>5, <3>1
      <4>. QED
        BY Zenon, <4>1, <4>2, <4>3
    <3>2. ASSUME NEW i \in 1..Len(commands')
          PROVE  request'[commands'[i]].at \in {"waiting", "expired"} /\ running # commands'[i]
      <4>1. CASE i \in 1..n
        <5>1. /\ commands'[i] = commands[i] /\ commands[i] \in Requests /\ commands[i] # q
              /\ request[commands[i]].at \in {"waiting", "expired"} /\ running # commands[i]
          BY Zenon, <1>4, <1>5, <2>4, <2>5, <4>1
        <5>. QED
          BY <2>2, <5>1
      <4>2. CASE i = n + 1
        BY <2>2, <2>4, <2>5, <4>2
      <4>. QED
        BY Zenon, <2>5, <2>6, <4>1, <4>2
    <3>3. ASSUME NEW p \in Requests, request'[p].at = "waiting", running # p
          PROVE  \E i \in 1..Len(commands') : commands'[i] = p
      <4>1. CASE p = q
        BY Zenon, <2>5, <2>6, <4>1
      <4>2. CASE p # q
        <5>1. PICK i \in 1..Len(commands) : commands[i] = p
          BY ZenonT(60), <1>4, <2>2, <3>3, <4>2
        <5>2. i \in 1..n /\ i \in 1..Len(commands')
          BY Zenon, <2>5, <2>6
        <5>. QED
          BY Zenon, <2>5, <5>1, <5>2
      <4>. QED
        BY <4>1, <4>2
    <3>4. running # NoRequest =>
            /\ op # NoOp /\ op.kind = request'[running].kind
            /\ request'[running].at \in {"waiting", "abandoned"}
            /\ op.kind # "list" => op.handle = running
      BY <1>3, <1>4, <2>2, <2>4
    <3>. QED
      BY Zenon, <1>1, <1>4, <3>1, <3>2, <3>3, <3>4 DEF QueueInv
  <2>8. PushInv'
    <3>1. ASSUME NEW p \in Requests, NotBegun(p)'
          PROVE  NotBegun(p)
      BY <1>1, <2>1, <2>2, <3>1 DEF NotBegun
    <3>. QED
      BY <1>6, <3>1
  <2>. QED
    BY <1>2, <2>3, <2>7, <2>8 DEF MapInv, CommandInv
<1>. QED
  BY <1>7, <1>8, <1>9

----------------------------------------------------------------------------
(* The invariant holds when the bridge starts.                             *)
LEMMA MapInitially ==
    Init => MapInv
<1>1. SUFFICES ASSUME Init PROVE MapInv
  OBVIOUS
<1>2. /\ path = <<>> /\ op = NoOp /\ wire = <<>> /\ replies = <<>> /\ folder = <<>> /\ late = FALSE
      /\ request = [q \in Requests |-> [kind |-> "none", at |-> "idle"]]
      /\ commands = <<>> /\ running = NoRequest /\ pushed = [q \in Requests |-> 0]
  BY <1>1 DEF Init, SessionInit
<1>3. wire \in Seq(Asks) /\ replies \in Seq(Reply) /\ commands \in Seq(Requests)
  BY <1>2
<1>4. Len(wire) = 0 /\ Len(commands) = 0
  BY SMTT(60), <1>2
<1>5. SessionInv
  BY ZenonT(60), <1>2, <1>3, NoOperation
     DEF SessionInv, SessionShapes, OpInv, FolderInv, InSync, PathTrue
<1>6. CommandShapes
  BY <1>2, <1>3 DEF CommandShapes
<1>7. QueueInv
  BY <1>2, <1>4, NoOperation DEF QueueInv
<1>8. PushInv
  <2>1. 1..Len(wire) = {}
    BY SMTT(60), <1>4
  <2>. QED
    BY <1>2, <2>1 DEF PushInv, OnWire
<1>9. AnswerInv
  BY <1>2 DEF AnswerInv
<1>. QED
  BY SMTT(60), <1>5, <1>6, <1>7, <1>8, <1>9 DEF MapInv, CommandInv

(* Every step keeps the invariant.                                         *)
LEMMA MapSteps ==
    MapInv /\ [Next]_vars => MapInv'
<1>1. SUFFICES ASSUME MapInv, [Next]_vars PROVE MapInv'
  OBVIOUS
<1>2. ASSUME path' = path, op' = op, wire' = wire, replies' = replies, folder' = folder, late' = late,
             UNCHANGED commandVars
      PROVE  MapInv'
  <2>1. request' = request /\ commands' = commands /\ running' = running /\ pushed' = pushed
    BY SMTT(60), <1>2 DEF commandVars
  <2>2. SessionInv'
    BY <1>1, <1>2, SessionLeftAlone DEF MapInv
  <2>3. CommandShapes' /\ QueueInv'
    BY Zenon, <1>1, <1>2, <2>1 DEF MapInv, CommandInv, CommandShapes, QueueInv
  <2>4. AnswerInv'
    BY Zenon, <1>1, <1>2, <2>1 DEF MapInv, CommandInv, AnswerInv
  <2>5. PushInv'
    <3>1. \A q \in Requests : Planned(q)' \/ NotBegun(q)' => Planned(q) \/ NotBegun(q)
      BY Zenon, <1>2, <2>1 DEF Planned, NotBegun
    <3>. QED
      BY <1>1, <1>2, <2>1, <3>1, PushesLeftAlone DEF MapInv, CommandInv
  <2>. QED
    BY <2>2, <2>3, <2>4, <2>5 DEF MapInv, CommandInv
<1>3. CASE UNCHANGED vars
  BY <1>2, <1>3 DEF vars, sessionVars, phoneVars
<1>4. CASE Connect /\ UNCHANGED commandVars
  BY <1>2, <1>4 DEF Connect, phoneVars
<1>5. CASE StartOwn /\ UNCHANGED commandVars
  BY <1>1, <1>5, StartOwnKeepsCommands
<1>6. CASE Send /\ UNCHANGED commandVars
  BY <1>1, <1>6, SendKeepsCommands
<1>7. CASE ExecuteCommand
  BY <1>1, <1>7, ExecuteKeepsCommands
<1>8. CASE CommandReceives
  <2>1. Receive /\ Respond(Head(replies).ok) /\ UNCHANGED <<commands, pushed>> /\ SessionInv
    BY <1>1, <1>8 DEF CommandReceives, MapInv
  <2>2. Head(replies).ok \in BOOLEAN
    <3>1. replies # <<>> /\ replies \in Seq(Reply)
      BY <2>1 DEF Receive, SessionInv, SessionShapes
    <3>2. Head(replies) \in Reply
      BY SMTT(60), <3>1, FirstAndRest
    <3>. QED
      BY <3>2 DEF Reply
  <2>. QED
    BY Zenon, <1>1, <2>1, <2>2, ReceiveKeepsSession, RespondKeepsCommands
<1>9. CASE CommandTimesOut
  <2>1. Timeout /\ Respond(FALSE) /\ UNCHANGED <<commands, pushed>> /\ SessionInv
    BY Zenon, <1>1, <1>9 DEF CommandTimesOut, MapInv
  <2>2. /\ SessionInv' /\ op \in Operation /\ op.waiting
        /\ \/ op' = NoOp /\ wire' = <<>>
           \/ /\ op' \in Operation /\ op'.kind = op.kind /\ op'.handle = op.handle
              /\ op.kind = "event" /\ op'.waiting = FALSE /\ wire' = wire
    BY Zenon, <2>1, TimeoutKeepsSession
  <2>. QED
    BY Zenon, <1>1, <2>1, <2>2, RespondKeepsCommands
<1>10. CASE \E ok \in BOOLEAN : PhoneTakes(ok)
  BY <1>1, <1>10, PhoneKeepsCommands
<1>11. CASE \E q \in Requests : PutCommand(q) \/ GiveUp(q) \/ \E kind \in Kinds : Submit(q, kind)
  BY <1>1, <1>11, HandlersKeepCommands
<1>. QED
  BY SMTT(60), <1>1, <1>3, <1>4, <1>5, <1>6, <1>7, <1>8, <1>9, <1>10, <1>11 DEF Next

(* The invariant of the MAP session and of the commands over it.           *)
THEOREM MapInvariant ==
    Spec => []MapInv
BY MapInitially, MapSteps, PTL DEF Spec

(* Whatever the phone refuses and however walks, fetches, texts and        *)
(* commands follow each other, gotoFolder's cached currentPath never has a *)
(* listing, a fetch or a text handled in another folder than its own,      *)
(* unless a reply of the session was given up on.                          *)
THEOREM RequestsReachTheirFolder ==
    Spec => HandledInItsFolder
<1>1. ASSUME MapInv, [Next]_vars
      PROVE  [Len(replies') > Len(replies) /\ Head(wire).code \in {"get", "list", "put"} /\ ~late =>
                folder = Head(wire).asked]_sessionVars
  <2>1. SUFFICES ASSUME Len(replies') > Len(replies), Head(wire).code \in {"get", "list", "put"}, ~late
                 PROVE  folder = Head(wire).asked
    OBVIOUS
  <2>2. replies \in Seq(Reply) /\ Len(replies) \in Nat
    BY <1>1 DEF MapInv, SessionInv, SessionShapes
  <2>3. replies' # replies
    BY <2>1, <2>2
  <2>4. ~(replies' = Tail(replies) /\ replies # <<>>)
    <3>1. SUFFICES ASSUME replies' = Tail(replies), replies # <<>> PROVE FALSE
      OBVIOUS
    <3>2. Len(replies') = Len(replies) - 1
      BY <2>2, <3>1, FirstAndRest
    <3>. QED
      BY <2>1, <2>2, <3>2
  <2>5. replies' # <<>>
    BY <2>1, <2>2
  <2>6. ~Receive /\ ~Timeout
    BY Zenon, <2>3, <2>4, <2>5 DEF Receive, Timeout, Close
  <2>7. ~Connect /\ ~StartOwn /\ ~Send
    BY Zenon, <2>3 DEF Connect, StartOwn, Start, Send, phoneVars
  <2>8. ~ExecuteCommand /\ \A q \in Requests : /\ ~PutCommand(q) /\ ~GiveUp(q)
                                                /\ \A kind \in Kinds : ~Submit(q, kind)
    BY <2>3 DEF ExecuteCommand, Start, PutCommand, GiveUp, Submit, sessionVars, phoneVars
  <2>9. PICK ok \in BOOLEAN : PhoneTakes(ok)
    BY ZenonT(60), <1>1, <2>3, <2>6, <2>7, <2>8
       DEF Next, vars, sessionVars, phoneVars, CommandReceives, CommandTimesOut
  <2>10. Needs(Head(wire), folder)
    BY <1>1, <2>1, <2>9, PhoneKeepsSession DEF PhoneTakes, MapInv
  <2>. QED
    BY <2>1, <2>10 DEF Needs, Moves
<1>. QED
  BY <1>1, MapInvariant, PTL DEF Spec, HandledInItsFolder

(* What the HTTP handler of a raw message is told is true for any number   *)
(* of requests, however they race the session and their own timeout: the   *)
(* phone took the message once after ok, never when the session was        *)
(* unavailable or the handler gave up before executeCommand, and never     *)
(* twice.                                                                  *)
THEOREM RawMessagesAreAnswered ==
    Spec => RawAnswersAreTrue
<1>1. ASSUME MapInv, [Next]_vars
      PROVE  [\A q \in Requests :
                /\ pushed'[q] <= 1
                /\ request'[q].at = "ok" /\ request[q] = [kind |-> "raw", at |-> "waiting"] /\ ~late =>
                      pushed'[q] = 1
                /\ request'[q].at \in {"unavailable", "expired"} => pushed'[q] = 0]_vars
  <2>1. SUFFICES ASSUME Next, NEW q \in Requests
                 PROVE  /\ pushed'[q] <= 1
                        /\ request'[q].at = "ok" /\ request[q] = [kind |-> "raw", at |-> "waiting"] /\ ~late =>
                              pushed'[q] = 1
                        /\ request'[q].at \in {"unavailable", "expired"} => pushed'[q] = 0
    BY <1>1
  <2>2. PushInv'
    BY SMTT(60), <1>1, MapSteps DEF MapInv, CommandInv
  <2>3. pushed'[q] <= 1
    BY SMTT(60), <2>2 DEF PushInv
  <2>4. request'[q].at \in {"unavailable", "expired"} => pushed'[q] = 0
    BY <2>2 DEF PushInv, NotBegun
  <2>5. ASSUME request'[q].at = "ok", request[q] = [kind |-> "raw", at |-> "waiting"], ~late
        PROVE  pushed'[q] = 1
    <3>1. request[q].at = "waiting" /\ request[q].kind = "raw"
      BY SMTT(60), <2>5
    <3>2. request \in [Requests -> [kind : Kinds \cup {"none"}, at : {"idle"} \cup Waiting \cup Answers]]
      BY SMTT(60), <1>1 DEF MapInv, CommandInv, CommandShapes
    <3>3. request' # request
      BY <2>5, <3>1
    <3>4. ASSUME NEW p \in Requests, PutCommand(p) \/ GiveUp(p) \/ \E kind \in Kinds : Submit(p, kind)
          PROVE  FALSE
      <4>1. CASE PutCommand(p)
        BY <2>5, <3>1, <3>2, <4>1 DEF PutCommand
      <4>2. CASE GiveUp(p)
        BY SMTT(60), <2>5, <3>1, <3>2, <4>2 DEF GiveUp
      <4>3. CASE \E kind \in Kinds : Submit(p, kind)
        BY SMTT(60), <2>5, <3>1, <3>2, <4>3 DEF Submit
      <4>. QED
        BY <3>4, <4>1, <4>2, <4>3
    <3>5. \E b \in {Head(replies).ok, FALSE} :
            /\ Respond(b) /\ pushed' = pushed
            /\ b = FALSE \/ Receive
      BY Zenon, <2>1, <3>3, <3>4
         DEF Next, commandVars, ExecuteCommand, CommandReceives, CommandTimesOut, PhoneTakes
    <3>6. PICK b \in {Head(replies).ok, FALSE} :
            /\ Respond(b) /\ pushed' = pushed
            /\ b = FALSE \/ Receive
      BY Zenon, <3>5
    <3>7. /\ running # NoRequest /\ op' = NoOp
          /\ request' = [request EXCEPT ![running].at = IF @ # "waiting" THEN @
                                                        ELSE IF b THEN "ok" ELSE "failed"]
      BY <3>3, <3>6 DEF Respond
    <3>8. running = q
      BY <2>5, <3>1, <3>2, <3>7
    <3>9. request'[q].at = IF b THEN "ok" ELSE "failed"
      BY SMTT(60), <3>1, <3>2, <3>7, <3>8
    <3>10. b # FALSE
      BY Zenon, <2>5, <3>9
    <3>11. Receive /\ b = Head(replies).ok
      BY Zenon, <3>6, <3>10
    <3>12. Head(replies).ok
      BY <2>5, <3>9, <3>11
    <3>13. op.waiting /\ replies # <<>>
      BY <3>11 DEF Receive
    <3>14. Len(op.plan) = 1
      BY <1>1, <3>7, <3>11, <3>12, ReceiveKeepsSession DEF MapInv
    <3>15. op.kind = "raw"
      BY Zenon, <1>1, <3>1, <3>7, <3>8 DEF MapInv, CommandInv, QueueInv
    <3>16. pushed[q] = 1
      BY SMTT(60), <1>1, <2>5, <3>8, <3>12, <3>13, <3>14, <3>15 DEF MapInv, CommandInv, AnswerInv
    <3>. QED
      BY SMTT(60), <3>6, <3>16
  <2>. QED
    BY Zenon, <2>3, <2>4, <2>5
<1>. QED
  BY <1>1, MapInvariant, PTL DEF Spec, RawAnswersAreTrue
=============================================================================
