---------------------------- MODULE MediaSession ----------------------------
(***************************************************************************)
(* The life of a handed-off transport session in the media broker          *)
(* (bluez/broker.go): the watcher goroutine of each session, the goroutine *)
(* that bounds a normal teardown, the goroutine that releases the          *)
(* transports, and what else ends a session (BlueZ reporting idle or       *)
(* clearing a transport, the LE bearer or the handoff peer going away, the *)
(* D-Bus connection being rebuilt).  Asterisk, at the other end of the     *)
(* lifecycle socket, and the call store are the environment.               *)
(*                                                                         *)
(* Every session uses the same pair of transport paths, as calls on one    *)
(* phone do.  How a pair gets acquired is the subject of TransportAcquire. *)
(***************************************************************************)
EXTENDS Integers, Sequences, FiniteSets

CONSTANTS
    Sessions,       \* 1..n, in the order of their generations
    ReleasePaths,   \* one path for a linked pair, both otherwise
    Packets,        \* the lifecycle packets Asterisk writes
    MaxAttempts,    \* transportReleaseRetries
    MaxInbox        \* bound: lifecycle packets the watcher has not read

Paths == {"sink", "source"}

ASSUME SessionsAssumption == Sessions \subseteq Nat \ {0}
ASSUME ReleasePathsAssumption == ReleasePaths \subseteq Paths /\ ReleasePaths # {}
ASSUME PacketsAssumption ==
    Packets \subseteq {"progress", "normalEnd", "otherIdentity", "garbage"}
ASSUME AttemptsAssumption == MaxAttempts \in Nat \ {0}

VARIABLES
    active,      \* activeSession, 0 for nil
    acquired,    \* the paths marked acquired
    made,        \* the sessions handed off so far
    flags,       \* session -> the flags of activeTransportSession; `quiet' is
                 \* for the lease that applies having run out
    inbox,       \* session -> lifecycle packets not read yet
    hungUp,      \* session -> Asterisk closed its end
    wroteEnd,    \* history: sessions whose normal-end Asterisk wrote
    watcher,     \* session -> where its watcher is
    open,        \* session -> the watcher's lifecycleOpen
    waiting,     \* sessions whose waitNormalRelease timer is running
    job          \* session -> its release in progress

sessionVars == <<active, acquired, made, flags>>
peerVars == <<inbox, hungUp, wroteEnd>>
watchVars == <<watcher, open>>
vars == <<sessionVars, peerVars, watchVars, waiting, job>>

----------------------------------------------------------------------------
Fresh == [releasing |-> FALSE, exhausted |-> FALSE, normalEnd |-> FALSE,
          waitStarted |-> FALSE, idle |-> {}, remoteIdle |-> FALSE, quiet |-> FALSE,
          done |-> FALSE]

NoJob == [todo |-> {}, left |-> {}, attempt |-> 0]

Busy(s) == job[s] # NoJob

(* The guard every transition of a session repeats under the mutex.        *)
Current(s) == /\ active = s
              /\ ~flags[s].releasing
              /\ ~flags[s].exhausted

NormalReleasePending(s) == Current(s) /\ flags[s].normalEnd

NormalReleaseWaiting(s) == Current(s) /\ flags[s].waitStarted

(* clearActiveSessionLocked.  Apart from the closed lifecycleDone channel  *)
(* nothing reads the flags of a session that is not the active one.        *)
ClearActiveSession(s) ==
    IF active = s
    THEN /\ active' = 0
         /\ acquired' = {}
         /\ flags' = [flags EXCEPT ![s] = [Fresh EXCEPT !.done = TRUE]]
    ELSE UNCHANGED <<active, acquired, flags>>

----------------------------------------------------------------------------
(* Asterisk and the clock, as far as a watcher is left to notice them: the *)
(* watcher takes its end of the socket with it, and looks at the leases of *)
(* the active session only.                                                *)

Watched(s) == watcher[s] \notin {"none", "gone"}

Write(s, packet) ==
    /\ Watched(s) /\ ~hungUp[s] /\ Len(inbox[s]) < MaxInbox
    /\ inbox' = [inbox EXCEPT ![s] = Append(@, packet)]
    /\ wroteEnd' = IF packet = "normalEnd" THEN wroteEnd \cup {s} ELSE wroteEnd
    /\ UNCHANGED <<sessionVars, hungUp, watchVars, waiting, job>>

HangUp(s) ==
    /\ Watched(s) /\ ~hungUp[s]
    /\ hungUp' = [hungUp EXCEPT ![s] = TRUE]
    /\ UNCHANGED <<sessionVars, inbox, wroteEnd, watchVars, waiting, job>>

LeaseRunsOut(s) ==
    /\ Watched(s) /\ active = s /\ ~flags[s].quiet
    /\ flags' = [flags EXCEPT ![s].quiet = TRUE]
    /\ UNCHANGED <<active, acquired, made, peerVars, watchVars, waiting, job>>

----------------------------------------------------------------------------
(* What ends a session.                                                    *)

(* acquire after a successful PublishPair, and the watcher it starts.      *)
HandOff(s) ==
    /\ s \notin made /\ \A t \in Sessions : t < s => t \in made
    /\ acquired = {}
    /\ active' = s
    /\ acquired' = Paths
    /\ made' = made \cup {s}
    /\ flags' = [t \in Sessions |-> IF t = active THEN Fresh ELSE flags[t]]
    /\ watcher' = [watcher EXCEPT ![s] = "top"]
    /\ UNCHANGED <<peerVars, open, waiting, job>>

(* Mutant: an exhausted session may be released again.                     *)
RequestReleaseAgain(s) ==
    IF active = s /\ ~flags[s].releasing
    THEN /\ flags' = [flags EXCEPT ![s].releasing = TRUE, ![s].exhausted = FALSE]
         /\ job' = [job EXCEPT ![s] = [todo |-> ReleasePaths, left |-> ReleasePaths,
                                       attempt |-> 1]]
    ELSE UNCHANGED <<flags, job>>

(* requestSpecificSessionRelease.                                          *)
RequestRelease(s) ==
    IF Current(s)
    THEN /\ flags' = [flags EXCEPT ![s].releasing = TRUE]
         /\ job' = [job EXCEPT ![s] = [todo |-> ReleasePaths, left |-> ReleasePaths,
                                       attempt |-> 1]]
    ELSE UNCHANGED <<flags, job>>

(* handleLEBearerDisconnected and the handoff server's disconnect handler. *)
(* Here and below, an event that would change nothing is left out.         *)
BearerOrPeerLost(s) ==
    /\ Current(s)
    /\ RequestRelease(s)
    /\ UNCHANGED <<active, acquired, made, peerVars, watchVars, waiting>>

(* markNormalReleasePending.                                               *)
MarkNormalEnd(s) ==
    flags' = IF Current(s) THEN [flags EXCEPT ![s].normalEnd = TRUE] ELSE flags

(* recordLifecycleProgress renews the lease.                               *)
RecordProgress(s) ==
    flags' = IF Current(s) THEN [flags EXCEPT ![s].quiet = FALSE] ELSE flags

(* ReleaseCallToken, when the peer terminates the session's call.          *)
ReleaseCallToken(s) ==
    /\ Current(s) /\ ~flags[s].normalEnd
    /\ MarkNormalEnd(s)
    /\ UNCHANGED <<active, acquired, made, peerVars, watchVars, waiting, job>>

(* handleSignal for a transport that became idle.                          *)
Idle(p) ==
    /\ active # 0 \/ p \in acquired
    /\ LET s == active IN
       IF active = 0
       THEN acquired' = acquired \ {p} /\ UNCHANGED <<active, flags>>
       ELSE LET both == flags[s].idle \cup {p} = Paths IN
            IF both /\ ~flags[s].releasing
            THEN ClearActiveSession(s)
            ELSE /\ acquired' = acquired \ {p}
                 /\ flags' = [flags EXCEPT ![s].idle = @ \cup {p},
                                           ![s].remoteIdle = @ \/ both]
                 /\ UNCHANGED active
    /\ UNCHANGED <<made, peerVars, watchVars, waiting, job>>

(* ClearConfiguration of one of the session's transports.                  *)
Clear(p) ==
    /\ active # 0 \/ p \in acquired
    /\ IF active = 0
       THEN acquired' = acquired \ {p} /\ UNCHANGED <<active, flags>>
       ELSE ClearActiveSession(active)
    /\ UNCHANGED <<made, peerVars, watchVars, waiting, job>>

(* SetConfiguration forgets that the path was acquired, and no more.       *)
Configure(p) ==
    /\ p \in acquired
    /\ acquired' = acquired \ {p}
    /\ UNCHANGED <<active, made, flags, peerVars, watchVars, waiting, job>>

(* runBlueZOnce ends and starts over.                                      *)
Rebuild ==
    /\ active # 0
    /\ ClearActiveSession(active)
    /\ UNCHANGED <<made, peerVars, watchVars, waiting, job>>

----------------------------------------------------------------------------
(* releaseActiveSession: every path is tried, failures are retried, and    *)
(* the last resort is to close the D-Bus connection that owns them.        *)

ReleaseCall(s, p) ==
    /\ p \in job[s].todo
    /\ \E ok \in BOOLEAN :
           job' = [job EXCEPT ![s].todo = @ \ {p},
                              ![s].left = IF ok THEN @ \ {p} ELSE @]
    /\ UNCHANGED <<sessionVars, peerVars, watchVars, waiting>>

PassOver(s) == Busy(s) /\ job[s].todo = {}

(* Mutant: the retries never end in the fallback.                          *)
RetryAtTheLimit(s) ==
    /\ PassOver(s) /\ job[s].left # {}
    /\ job' = [job EXCEPT ![s].todo = job[s].left]
    /\ UNCHANGED <<sessionVars, peerVars, watchVars, waiting>>

RetryRelease(s) ==
    /\ PassOver(s) /\ job[s].left # {} /\ job[s].attempt < MaxAttempts
    /\ job' = [job EXCEPT ![s].todo = job[s].left, ![s].attempt = @ + 1]
    /\ UNCHANGED <<sessionVars, peerVars, watchVars, waiting>>

(* Released, or the connection was closed, which drops every transport.    *)
ReleaseDone(s) ==
    /\ PassOver(s) /\ (job[s].left = {} \/ job[s].attempt = MaxAttempts)
    /\ ClearActiveSession(s)
    /\ job' = [job EXCEPT ![s] = NoJob]
    /\ UNCHANGED <<made, peerVars, watchVars, waiting>>

(* Mutant: a session whose release failed stays marked as releasing.       *)
ExhaustedStaysReleasing(s) ==
    /\ PassOver(s) /\ job[s].left # {} /\ job[s].attempt = MaxAttempts
    /\ flags' = [flags EXCEPT ![s].exhausted = TRUE]
    /\ job' = [job EXCEPT ![s] = NoJob]
    /\ UNCHANGED <<active, acquired, made, peerVars, watchVars, waiting>>

ReleaseExhausted(s) ==
    /\ PassOver(s) /\ job[s].left # {} /\ job[s].attempt = MaxAttempts
    /\ IF active = s /\ ~flags[s].remoteIdle
       THEN /\ flags' = [flags EXCEPT ![s].releasing = FALSE, ![s].exhausted = TRUE]
            /\ UNCHANGED <<active, acquired>>
       ELSE ClearActiveSession(s)
    /\ job' = [job EXCEPT ![s] = NoJob]
    /\ UNCHANGED <<made, peerVars, watchVars, waiting>>

(* Mutant: the timer of a normal teardown runs out without effect.         *)
NormalWaitForgotten(s) ==
    /\ s \in waiting
    /\ waiting' = waiting \ {s}
    /\ UNCHANGED <<sessionVars, peerVars, watchVars, job>>

(* waitNormalRelease: the timer, or lifecycleDone.                         *)
NormalWaitOver(s) ==
    /\ s \in waiting
    /\ waiting' = waiting \ {s}
    /\ IF flags[s].done
       THEN UNCHANGED <<flags, job>>
       ELSE RequestRelease(s)
    /\ UNCHANGED <<active, acquired, made, peerVars, watchVars>>

----------------------------------------------------------------------------
(* watchActiveSession.                                                     *)

WatcherTo(s, pc) == watcher' = [watcher EXCEPT ![s] = pc]

(* The watcher returns, which closes its end of the socket.                *)
WatcherReturns(s) ==
    /\ WatcherTo(s, "gone")
    /\ inbox' = [inbox EXCEPT ![s] = <<>>]
    /\ hungUp' = [hungUp EXCEPT ![s] = FALSE]
    /\ open' = [open EXCEPT ![s] = TRUE]
    /\ UNCHANGED wroteEnd

(* The top of the loop: lifecycleDone, then a poll of the lifecycle        *)
(* socket, which leads straight to a read or, when it has nothing, to the  *)
(* checks below.                                                           *)
Readable(s) == open[s] /\ (inbox[s] # <<>> \/ hungUp[s])

AtTop(s) == watcher[s] = "top" /\ ~flags[s].done

Draining(s) == watcher[s] = "drain" \/ (AtTop(s) /\ Readable(s))

WatchDone(s) ==
    /\ watcher[s] = "top" /\ flags[s].done
    /\ WatcherReturns(s)
    /\ UNCHANGED <<sessionVars, waiting, job>>

(* Packets are read until the socket is empty, before a close is judged.   *)
WatchDrain(s) ==
    /\ Draining(s) /\ inbox[s] # <<>>
    /\ inbox' = [inbox EXCEPT ![s] = Tail(@)]
    /\ LET packet == Head(inbox[s]) IN
       /\ CASE packet = "normalEnd" -> MarkNormalEnd(s)
            [] packet = "progress" -> RecordProgress(s)
            [] OTHER -> UNCHANGED flags
       /\ WatcherTo(s, IF packet = "garbage" THEN "protocol" ELSE "drain")
    /\ UNCHANGED <<active, acquired, made, hungUp, wroteEnd, open,
                   waiting, job>>

WatchDrained(s) ==
    /\ watcher[s] = "drain" /\ inbox[s] = <<>> /\ ~hungUp[s]
    /\ WatcherTo(s, "check")
    /\ UNCHANGED <<sessionVars, peerVars, open, waiting, job>>

(* Mutant: the close is judged before the packets are read.                *)
WatchClosedFirst(s) ==
    /\ Draining(s) /\ hungUp[s]
    /\ IF NormalReleasePending(s)
       THEN WatcherTo(s, "check") /\ open' = [open EXCEPT ![s] = FALSE]
       ELSE WatcherTo(s, "hangup") /\ UNCHANGED open
    /\ UNCHANGED <<sessionVars, peerVars, waiting, job>>

(* The end of the socket: part of a normal end, or a hangup.               *)
WatchClosed(s) ==
    /\ Draining(s) /\ inbox[s] = <<>> /\ hungUp[s]
    /\ IF NormalReleasePending(s)
       THEN WatcherTo(s, "check") /\ open' = [open EXCEPT ![s] = FALSE]
       ELSE WatcherTo(s, "hangup") /\ UNCHANGED open
    /\ UNCHANGED <<sessionVars, peerVars, waiting, job>>

Checking(s) == watcher[s] = "check" \/ (AtTop(s) /\ ~Readable(s))

WatchSuperseded(s) ==
    /\ Checking(s) /\ (active # s \/ flags[s].exhausted)
    /\ WatcherReturns(s)
    /\ UNCHANGED <<sessionVars, waiting, job>>

(* The leases, then the call token, whose call may be over by now.         *)
WatchCheck(s) ==
    /\ Checking(s) /\ active = s /\ ~flags[s].exhausted
    /\ IF flags[s].quiet /\ ~NormalReleaseWaiting(s)
       THEN WatcherTo(s, "expired") /\ UNCHANGED flags
       ELSE /\ WatcherTo(s, "top")
            /\ \/ UNCHANGED flags
               \/ ~NormalReleaseWaiting(s) /\ MarkNormalEnd(s)
    /\ UNCHANGED <<active, acquired, made, peerVars, open, waiting, job>>

(* beginNormalReleaseWait when the end was announced, a release otherwise. *)
WatchExpired(s) ==
    /\ watcher[s] = "expired"
    /\ IF NormalReleasePending(s)
       THEN /\ WatcherTo(s, "top")
            /\ flags' = [flags EXCEPT ![s].waitStarted = TRUE]
            /\ waiting' = waiting \cup {s}
       ELSE WatcherTo(s, "lease") /\ UNCHANGED <<flags, waiting>>
    /\ UNCHANGED <<active, acquired, made, peerVars, open, job>>

WatchReleases(s) ==
    /\ watcher[s] \in {"protocol", "hangup", "lease"}
    /\ RequestRelease(s)
    /\ WatcherReturns(s)
    /\ UNCHANGED <<active, acquired, made, waiting>>

----------------------------------------------------------------------------
Init ==
    /\ active = 0 /\ acquired = {} /\ made = {}
    /\ flags = [s \in Sessions |-> Fresh]
    /\ inbox = [s \in Sessions |-> <<>>]
    /\ hungUp = [s \in Sessions |-> FALSE]
    /\ wroteEnd = {}
    /\ watcher = [s \in Sessions |-> "none"]
    /\ open = [s \in Sessions |-> TRUE]
    /\ waiting = {}
    /\ job = [s \in Sessions |-> NoJob]

Watch(s) == \/ WatchDone(s) \/ WatchDrain(s) \/ WatchDrained(s)
            \/ WatchClosed(s) \/ WatchSuperseded(s) \/ WatchCheck(s)
            \/ WatchExpired(s) \/ WatchReleases(s)

Release(s) == \/ \E p \in Paths : ReleaseCall(s, p)
              \/ RetryRelease(s) \/ ReleaseDone(s) \/ ReleaseExhausted(s)

Next ==
    \/ \E s \in Sessions :
          \/ \E packet \in Packets : Write(s, packet)
          \/ HangUp(s) \/ LeaseRunsOut(s)
          \/ HandOff(s) \/ BearerOrPeerLost(s) \/ ReleaseCallToken(s)
          \/ Release(s) \/ NormalWaitOver(s) \/ Watch(s)
    \/ \E p \in Paths : Idle(p) \/ Clear(p) \/ Configure(p)
    \/ Rebuild

(* Goroutines run, timers fire, and the watcher reads packets faster than  *)
(* Asterisk writes them, so that it finds the socket empty again.          *)
Fairness ==
    \A s \in Sessions :
        /\ WF_vars(Watch(s)) /\ SF_vars(WatchDrained(s) \/ WatchClosed(s))
        /\ SF_vars(WatchDrain(s) /\ inbox'[s] = <<>>)
        /\ WF_vars(Release(s)) /\ WF_vars(NormalWaitOver(s))
        /\ WF_vars(LeaseRunsOut(s))

Spec == Init /\ [][Next]_vars /\ Fairness

----------------------------------------------------------------------------
(* Every variable keeps its type; a release makes at most MaxAttempts      *)
(* passes.                                                                 *)
TypeOK ==
    /\ active \in Sessions \cup {0} /\ acquired \subseteq Paths
    /\ made \subseteq Sessions
    /\ flags \in [Sessions -> [releasing : BOOLEAN, exhausted : BOOLEAN,
                               normalEnd : BOOLEAN, waitStarted : BOOLEAN,
                               idle : SUBSET Paths, remoteIdle : BOOLEAN,
                               quiet : BOOLEAN, done : BOOLEAN]]
    /\ inbox \in [Sessions -> Seq(Packets)]
    /\ hungUp \in [Sessions -> BOOLEAN]
    /\ wroteEnd \subseteq made /\ waiting \subseteq made
    /\ watcher \in [Sessions -> {"none", "top", "drain", "check", "expired",
                                 "protocol", "hangup", "lease", "gone"}]
    /\ open \in [Sessions -> BOOLEAN]
    /\ job \in [Sessions -> [todo : SUBSET Paths, left : SUBSET Paths,
                             attempt : 0..MaxAttempts]]

Status(s) ==
    IF s \notin made THEN "none"
    ELSE IF active # s THEN "ended"
    ELSE IF flags[s].releasing THEN "releasing"
    ELSE IF flags[s].exhausted THEN "stuck" ELSE "live"

C == INSTANCE SessionContract WITH status <- [s \in Sessions |-> Status(s)]

(* However a hangup, a lease, a normal-end timeout, a lost bearer, idle    *)
(* transports and a rebuilt connection race, each session keeps the        *)
(* contract: one release at most, no retry once exhausted, no resurrection.*)
(* The tests call this "once per generation".                              *)
KeepsContract == C!Contract

(* A session Asterisk ended properly is never released as a hangup, even   *)
(* when normal-end and close arrive together: the watcher reads every      *)
(* packet before it judges the close.                                      *)
NormalEndIsNoHangup ==
    \A s \in Sessions : watcher[s] = "hangup" /\ Current(s) => s \notin wroteEnd

(* A release in progress is for a session that is releasing, or that BlueZ *)
(* or a newer handoff has ended meanwhile; and a session is only shown as  *)
(* releasing while somebody is working on it, so it cannot stay that way.  *)
ReleasingMeansWorking ==
    \A s \in Sessions : (active = s /\ flags[s].releasing) <=> (active = s /\ Busy(s))

(* When Asterisk has closed the lifecycle socket its session does not last:*)
(* it is released, or waits for remote idle and is then forced, or is kept *)
(* as exhausted.                                                           *)
HungUpSessionEnds ==
    \A s \in Sessions :
        (active = s /\ hungUp[s]) ~> (active # s \/ flags[s].exhausted)

(* The goroutines of a session that is over finish, and with the watcher   *)
(* the lifecycle descriptor it owns, whether or not lifecycleDone was      *)
(* closed.                                                                 *)
EndedSessionIsForgotten ==
    \A s \in Sessions :
        (s \in made /\ active # s)
            ~> (watcher[s] = "gone" /\ s \notin waiting /\ ~Busy(s))

(* handleSignal: "A timeout/abnormal Release already owns termination.     *)
(* Keep the session visible until that invocation finishes".               *)
ReleasingSessionStaysVisible ==
    \A s \in Sessions : Busy(s) => (active = s \/ flags[s].done)

============================================================================
