------------------------- MODULE MediaSessionProofs -------------------------
(***************************************************************************)
(* MediaSession implements SessionContract, for any number of sessions,    *)
(* any release paths, packets and bounds.  Every step has one of six       *)
(* effects on what the contract can see; the inductive invariant and the   *)
(* refinement are then proved effect by effect.  Then: what the watcher of *)
(* a session takes for a hangup is one.                                    *)
(*                                                                         *)
(* The last part is about the other half of the broker, Handback: its      *)
(* advertisement follows the bearer, for any calls, losses and restarts.   *)
(***************************************************************************)
EXTENDS MediaSession, Handback, TLAPS

FlagRecord ==
    [releasing : BOOLEAN, exhausted : BOOLEAN, normalEnd : BOOLEAN, waitStarted : BOOLEAN,
     idle : SUBSET Paths, remoteIdle : BOOLEAN, quiet : BOOLEAN, done : BOOLEAN]

JobRecord == [todo : SUBSET Paths, left : SUBSET Paths, attempt : Nat]

(* The active session has been handed off; a session that has not been is  *)
(* untouched; a release in progress counts its attempts from one.          *)
IInv ==
    /\ made \subseteq Sessions
    /\ active \in made \cup {0}
    /\ flags \in [Sessions -> FlagRecord]
    /\ job \in [Sessions -> JobRecord]
    /\ \A s \in Sessions : s \notin made => flags[s] = Fresh /\ job[s] = NoJob
    /\ \A s \in Sessions : Busy(s) => job[s].attempt > 0
    /\ ReleasingMeansWorking

-----------------------------------------------------------------------------
(* The effects of a step.                                                  *)
Typed == flags' \in [Sessions -> FlagRecord] /\ job' \in [Sessions -> JobRecord]

JobsKept(S) == \A t \in S : (Busy(t)' <=> Busy(t)) /\ (Busy(t) => job'[t].attempt > 0)

Unseen ==
    /\ Typed /\ active' = active /\ made' = made
    /\ JobsKept(Sessions)
    /\ \A t \in Sessions :
          /\ active # t => flags'[t] = flags[t]
          /\ flags'[t].releasing = flags[t].releasing
          /\ flags'[t].exhausted = flags[t].exhausted

Begins(s) ==
    /\ Typed /\ s \notin made /\ active' = s /\ made' = made \cup {s}
    /\ job' = job
    /\ \A t \in Sessions : flags'[t] = IF t = active THEN Fresh ELSE flags[t]

Starts(s) ==
    /\ Typed /\ Current(s) /\ active' = active /\ made' = made
    /\ JobsKept(Sessions \ {s})
    /\ job'[s].attempt = 1
    /\ flags' = [flags EXCEPT ![s].releasing = TRUE]

GivesUp(s) ==
    /\ Typed /\ active = s /\ Busy(s) /\ active' = active /\ made' = made
    /\ JobsKept(Sessions \ {s})
    /\ job'[s] = NoJob
    /\ flags' = [flags EXCEPT ![s].releasing = FALSE, ![s].exhausted = TRUE]

Ends(s) ==
    /\ Typed /\ active = s /\ active' = 0 /\ made' = made
    /\ JobsKept(Sessions \ {s})
    /\ Busy(s)' => Busy(s) /\ job'[s].attempt > 0
    /\ \A t \in Sessions : t # s => flags'[t] = flags[t]

(* The release of a session that is no longer the active one is over.      *)
Finishes(s) ==
    /\ Typed /\ active # s /\ active' = active /\ made' = made /\ flags' = flags
    /\ JobsKept(Sessions \ {s})
    /\ job'[s] = NoJob

Effect ==
    Unseen \/ \E s \in Sessions : Begins(s) \/ Starts(s) \/ GivesUp(s) \/ Ends(s) \/ Finishes(s)

(* The flags of a new session, and of one that has ended, are well formed. *)
LEMMA FreshIsFlagRecord == Fresh \in FlagRecord /\ [Fresh EXCEPT !.done = TRUE] \in FlagRecord
BY Zenon DEF Fresh, FlagRecord

(* So is the job of a session that is not being released.                  *)
LEMMA NoJobIsJobRecord == NoJob \in JobRecord /\ NoJob.attempt = 0
BY DEF NoJob, JobRecord

-----------------------------------------------------------------------------
(* The building blocks.                                                    *)
LEMMA ClearEffect ==
    ASSUME IInv, NEW s \in Sessions, active = s, ClearActiveSession(s), made' = made, job' = job
    PROVE  Ends(s)
BY Zenon, FreshIsFlagRecord DEF IInv, ClearActiveSession, Ends, Typed, JobsKept, Busy

(* requestRelease starts a release of the active session, or does nothing  *)
(* when one is at work or given up.                                        *)
LEMMA RequestEffect ==
    ASSUME IInv, NEW s \in Sessions, RequestRelease(s), active' = active, made' = made
    PROVE  Unseen \/ Starts(s)
<1>1. CASE Current(s)
  <2>1. [todo |-> ReleasePaths, left |-> ReleasePaths, attempt |-> 1] \in JobRecord
    BY ReleasePathsAssumption DEF JobRecord
  <2>2. flags' \in [Sessions -> FlagRecord]
    <3>1. [flags[s] EXCEPT !.releasing = TRUE] \in FlagRecord
      BY ZenonT(60) DEF IInv, FlagRecord
    <3> QED BY ZenonT(60), <1>1, <3>1 DEF IInv, RequestRelease
  <2>3. job' \in [Sessions -> JobRecord] /\ job'[s].attempt = 1
    BY <1>1, <2>1 DEF IInv, RequestRelease
  <2>4. JobsKept(Sessions \ {s})
    BY <1>1 DEF IInv, RequestRelease, JobsKept, Busy
  <2> QED BY <1>1, <2>2, <2>3, <2>4 DEF Starts, Typed, RequestRelease
<1>2. CASE ~Current(s)
  BY <1>2 DEF IInv, RequestRelease, Unseen, Typed, JobsKept, Busy
<1> QED BY <1>1, <1>2

(* A change of the other flags of the active session is not seen by the    *)
(* contract.                                                               *)
LEMMA FlagsEffect ==
    ASSUME IInv, NEW s \in Sessions, active = s, active' = active, made' = made, job' = job,
           NEW r \in FlagRecord, r.releasing = flags[s].releasing, r.exhausted = flags[s].exhausted,
           flags' = [flags EXCEPT ![s] = r]
    PROVE  Unseen
BY DEF IInv, Unseen, Typed, JobsKept, Busy

(* Nor is a step that changes none of the session variables.               *)
LEMMA NothingEffect ==
    ASSUME IInv, active' = active, made' = made, job' = job, flags' = flags
    PROVE  Unseen
BY DEF IInv, Unseen, Typed, JobsKept, Busy

(* Marking the normal end and recording progress only change such flags.   *)
LEMMA MarkEffect ==
    ASSUME IInv, NEW s \in Sessions, MarkNormalEnd(s) \/ RecordProgress(s),
           active' = active, made' = made, job' = job
    PROVE  Unseen
<1>1. CASE ~Current(s)
  BY <1>1, NothingEffect DEF MarkNormalEnd, RecordProgress
<1>2. CASE Current(s) /\ MarkNormalEnd(s)
  <2>1. [flags[s] EXCEPT !.normalEnd = TRUE] \in FlagRecord
    BY ZenonT(60) DEF IInv, FlagRecord
  <2> QED BY Zenon, <1>2, <2>1, FlagsEffect DEF MarkNormalEnd, Current, FlagRecord, IInv
<1>3. CASE Current(s) /\ RecordProgress(s)
  <2>1. [flags[s] EXCEPT !.quiet = FALSE] \in FlagRecord
    BY ZenonT(60) DEF IInv, FlagRecord
  <2> QED BY Zenon, <1>3, <2>1, FlagsEffect DEF RecordProgress, Current, FlagRecord, IInv
<1> QED BY <1>1, <1>2, <1>3

(* A change of the jobs only, for a session whose release goes on.         *)
LEMMA JobEffect ==
    ASSUME IInv, NEW s \in Sessions, Busy(s), active' = active, made' = made, flags' = flags,
           NEW j \in JobRecord, j.attempt > 0, job' = [job EXCEPT ![s] = j]
    PROVE  Unseen
<1>1. j # NoJob
  BY NoJobIsJobRecord DEF JobRecord
<1>2. JobsKept(Sessions)
  BY <1>1 DEF IInv, JobsKept, Busy
<1> QED BY <1>2 DEF IInv, Unseen, Typed

(* The release of a session is over, by ClearActiveSession.                *)
LEMMA OverEffect ==
    ASSUME IInv, NEW s \in Sessions, ClearActiveSession(s), made' = made,
           job' = [job EXCEPT ![s] = NoJob]
    PROVE  Ends(s) \/ Finishes(s)
<1>1. job' \in [Sessions -> JobRecord] /\ job'[s] = NoJob /\ JobsKept(Sessions \ {s})
  BY NoJobIsJobRecord DEF IInv, JobsKept, Busy
<1>2. CASE active = s
  BY ZenonT(60), <1>1, <1>2, FreshIsFlagRecord DEF IInv, ClearActiveSession, Ends, Typed, Busy
<1>3. CASE active # s
  BY <1>1, <1>3 DEF IInv, ClearActiveSession, Finishes, Typed
<1> QED BY <1>2, <1>3

-----------------------------------------------------------------------------
(* Every step of MediaSession has one of the effects.                      *)
LEMMA SessionEffect ==
    ASSUME IInv, NEW s \in Sessions,
           \/ HandOff(s) \/ LeaseRunsOut(s) \/ BearerOrPeerLost(s) \/ ReleaseCallToken(s)
           \/ NormalWaitOver(s)
    PROVE  Effect
<1>1. CASE HandOff(s)
  <2>1. flags' \in [Sessions -> FlagRecord]
    BY <1>1, FreshIsFlagRecord DEF IInv, HandOff
  <2> QED BY <1>1, <2>1 DEF IInv, HandOff, Begins, Typed, Effect
<1>2. CASE LeaseRunsOut(s)
  <2>1. [flags[s] EXCEPT !.quiet = TRUE] \in FlagRecord
    BY ZenonT(60) DEF IInv, FlagRecord
  <2> QED BY Zenon, <1>2, <2>1, FlagsEffect DEF IInv, FlagRecord, LeaseRunsOut, Effect
<1>3. CASE BearerOrPeerLost(s)
  BY <1>3, RequestEffect DEF BearerOrPeerLost, Effect
<1>4. CASE ReleaseCallToken(s)
  BY <1>4, MarkEffect DEF ReleaseCallToken, Effect
<1>5. CASE NormalWaitOver(s)
  BY <1>5, RequestEffect, NothingEffect DEF NormalWaitOver, Effect
<1> QED BY <1>1, <1>2, <1>3, <1>4, <1>5

(* A step of the release goroutine ends the session, gives up, finishes    *)
(* for a session that was replaced, or goes on unseen.                     *)
LEMMA ReleaseEffect ==
    ASSUME IInv, NEW s \in Sessions, Release(s)
    PROVE  Effect
<1>1. CASE \E p \in Paths : ReleaseCall(s, p)
  <2>1. PICK p \in Paths, ok \in BOOLEAN :
          /\ p \in job[s].todo
          /\ job' = [job EXCEPT ![s].todo = @ \ {p}, ![s].left = IF ok THEN @ \ {p} ELSE @]
    BY Zenon, <1>1 DEF ReleaseCall
  <2>2. UNCHANGED sessionVars
    BY <1>1 DEF ReleaseCall
  <2> DEFINE j == [job[s] EXCEPT !.todo = @ \ {p}, !.left = IF ok THEN @ \ {p} ELSE @]
  <2>3. Busy(s) /\ job[s] \in JobRecord
    BY <2>1 DEF IInv, Busy, NoJob
  <2>4. j \in JobRecord /\ j.attempt = job[s].attempt
    BY Zenon, <2>3 DEF JobRecord
  <2>5. job' = [job EXCEPT ![s] = j]
    BY Zenon, <2>1 DEF IInv
  <2>6. j.attempt > 0
    BY <2>3, <2>4 DEF IInv
  <2> HIDE DEF j
  <2> QED BY Zenon, <2>2, <2>3, <2>4, <2>5, <2>6, JobEffect DEF sessionVars, Effect
<1>2. CASE RetryRelease(s)
  <2>1. Busy(s) /\ job[s] \in JobRecord
    BY <1>2 DEF IInv, RetryRelease, PassOver
  <2>2. PICK n \in Nat : n = job[s].attempt + 1 /\ n > 0
    <3>1. job[s].attempt \in Nat
      BY <2>1 DEF JobRecord
    <3> QED BY <3>1
  <2> DEFINE j == [job[s] EXCEPT !.todo = job[s].left, !.attempt = n]
  <2>3. j \in JobRecord /\ j.attempt = n
    BY Zenon, <2>1 DEF JobRecord
  <2>4. job' = [job EXCEPT ![s] = j]
    BY Zenon, <1>2, <2>2 DEF IInv, RetryRelease
  <2> HIDE DEF j
  <2> QED BY ZenonT(60), <1>2, <2>1, <2>2, <2>3, <2>4, JobEffect
             DEF RetryRelease, sessionVars, Effect
<1>3. CASE ReleaseDone(s)
  BY Zenon, <1>3, OverEffect DEF ReleaseDone, Effect
<1>4. CASE ReleaseExhausted(s)
  <2>1. CASE active = s /\ ~flags[s].remoteIdle
    <3>1. [flags[s] EXCEPT !.releasing = FALSE, !.exhausted = TRUE] \in FlagRecord
      BY ZenonT(60) DEF IInv, FlagRecord
    <3>2. flags' = [flags EXCEPT ![s] = [flags[s] EXCEPT !.releasing = FALSE, !.exhausted = TRUE]]
      BY Zenon, <1>4, <2>1 DEF IInv, ReleaseExhausted
    <3>3. Typed
      BY <1>4, <3>1, <3>2, NoJobIsJobRecord DEF IInv, ReleaseExhausted, Typed
    <3>4. job'[s] = NoJob /\ JobsKept(Sessions \ {s})
      BY <1>4 DEF IInv, ReleaseExhausted, JobsKept, Busy
    <3>5. GivesUp(s)
      BY Zenon, <1>4, <2>1, <3>3, <3>4 DEF ReleaseExhausted, PassOver, GivesUp
    <3> QED BY <3>5 DEF Effect
  <2>2. CASE ~(active = s /\ ~flags[s].remoteIdle)
    BY ZenonT(60), <1>4, <2>2, OverEffect DEF ReleaseExhausted, Effect
  <2> QED BY <2>1, <2>2
<1> QED BY <1>1, <1>2, <1>3, <1>4 DEF Release

(* The watcher starts releases and marks flags, nothing else.              *)
LEMMA WatchEffect ==
    ASSUME IInv, NEW s \in Sessions, Watch(s)
    PROVE  Effect
<1>1. CASE WatchDone(s) \/ WatchDrained(s) \/ WatchClosed(s) \/ WatchSuperseded(s)
  BY <1>1, NothingEffect
     DEF WatchDone, WatchDrained, WatchClosed, WatchSuperseded, sessionVars, Effect
<1>2. CASE WatchDrain(s)
  BY <1>2, MarkEffect, NothingEffect DEF WatchDrain, Effect
<1>3. CASE WatchCheck(s)
  BY <1>3, MarkEffect, NothingEffect DEF WatchCheck, Effect
<1>4. CASE WatchExpired(s)
  <2>1. [flags[s] EXCEPT !.waitStarted = TRUE] \in FlagRecord
    BY ZenonT(60) DEF IInv, FlagRecord
  <2>2. CASE NormalReleasePending(s)
    BY ZenonT(60), <1>4, <2>1, <2>2, FlagsEffect
       DEF WatchExpired, NormalReleasePending, Current, FlagRecord, IInv, Effect
  <2>3. CASE ~NormalReleasePending(s)
    BY <1>4, <2>3, NothingEffect DEF WatchExpired, Effect
  <2> QED BY <2>2, <2>3
<1>5. CASE WatchReleases(s)
  BY <1>5, RequestEffect DEF WatchReleases, Effect
<1> QED BY <1>1, <1>2, <1>3, <1>4, <1>5 DEF Watch

(* Idle signals, reconfigurations and rebuilds end the active session or   *)
(* leave it alone.                                                         *)
LEMMA SignalEffect ==
    ASSUME IInv, (\E p \in Paths : Idle(p) \/ Clear(p) \/ Configure(p)) \/ Rebuild
    PROVE  Effect
<1>1. active # 0 => active \in Sessions
  BY DEF IInv
<1>2. ASSUME NEW p \in Paths, Idle(p) PROVE Effect
  <2>1. CASE active = 0
    BY <1>2, <2>1, NothingEffect DEF Idle, Effect
  <2>2. CASE active # 0 /\ ClearActiveSession(active)
    BY <1>1, <1>2, <2>2, ClearEffect DEF Idle, Effect
  <2>3. CASE active # 0 /\ ~ClearActiveSession(active)
    <3> DEFINE r == [flags[active] EXCEPT !.idle = @ \cup {p},
                        !.remoteIdle = @ \/ flags[active].idle \cup {p} = Paths]
    <3>1. active' = active /\ made' = made /\ job' = job
      BY <1>2, <2>3 DEF Idle
    <3>2. flags' = [flags EXCEPT ![active].idle = @ \cup {p},
                       ![active].remoteIdle = @ \/ flags[active].idle \cup {p} = Paths]
      BY <1>2, <2>3 DEF Idle
    <3>3. r \in FlagRecord /\ r.releasing = flags[active].releasing
                           /\ r.exhausted = flags[active].exhausted
      <4>1. flags[active] \in FlagRecord
        BY <1>1, <2>3 DEF IInv
      <4>2. (flags[active].remoteIdle \/ flags[active].idle \cup {p} = Paths) \in BOOLEAN
        OBVIOUS
      <4> QED BY ZenonT(60), <4>1, <4>2 DEF FlagRecord
    <3>4. flags' = [flags EXCEPT ![active] = r]
      BY ZenonT(60), <1>1, <2>3, <3>2 DEF IInv
    <3> HIDE DEF r
    <3> QED BY Zenon, <1>1, <2>3, <3>1, <3>3, <3>4, FlagsEffect DEF Effect
  <2> QED BY <2>1, <2>2, <2>3
<1>3. ASSUME NEW p \in Paths, Clear(p) PROVE Effect
  BY <1>1, <1>3, ClearEffect, NothingEffect DEF Clear, Effect
<1>4. ASSUME NEW p \in Paths, Configure(p) PROVE Effect
  BY <1>4, NothingEffect DEF Configure, Effect
<1>5. CASE Rebuild
  BY <1>1, <1>5, ClearEffect DEF Rebuild, Effect
<1> QED BY <1>2, <1>3, <1>4, <1>5

(* Every step of the specification has one of the effects.                 *)
LEMMA StepEffect ==
    ASSUME IInv, [Next]_vars
    PROVE  Effect
<1>1. CASE UNCHANGED vars
  BY <1>1, NothingEffect DEF vars, sessionVars, Effect
<1>2. ASSUME NEW s \in Sessions, (\E packet \in Packets : Write(s, packet)) \/ HangUp(s)
      PROVE  Effect
  BY <1>2, NothingEffect DEF Write, HangUp, sessionVars, Effect
<1> QED BY <1>1, <1>2, SessionEffect, ReleaseEffect, WatchEffect, SignalEffect DEF Next

-----------------------------------------------------------------------------
(* The invariant holds at the start and every effect preserves it.         *)
LEMMA InitIInv == Init => IInv
BY FreshIsFlagRecord, NoJobIsJobRecord, SessionsAssumption
   DEF Init, IInv, ReleasingMeansWorking, Busy, Fresh

(* Every effect preserves the inductive invariant.                         *)
LEMMA EffectKeepsIInv ==
    ASSUME IInv, Effect
    PROVE  IInv'
<1>1. CASE Unseen
  <2>1. ReleasingMeansWorking'
    BY <1>1 DEF IInv, Unseen, JobsKept, ReleasingMeansWorking
  <2>2. \A t \in Sessions : t \notin made => flags'[t] = Fresh /\ job'[t] = NoJob
    BY ZenonT(60), <1>1, SessionsAssumption DEF IInv, Unseen, JobsKept, Busy
  <2> QED BY <1>1, <2>1, <2>2 DEF IInv, Unseen, Typed, JobsKept
<1>2. ASSUME NEW s \in Sessions, Begins(s) PROVE IInv'
  BY <1>2 DEF IInv, Begins, Typed, Busy, ReleasingMeansWorking, Fresh
<1>3. ASSUME NEW s \in Sessions, Starts(s) PROVE IInv'
  <2>1. Busy(s)' /\ job'[s].attempt > 0
    BY <1>3, NoJobIsJobRecord DEF Starts, Busy
  <2>2. /\ flags'[s].releasing
        /\ \A t \in Sessions \ {s} : flags'[t] = flags[t]
    BY <1>3 DEF IInv, Starts, FlagRecord
  <2>3. active = s /\ s \in made
    BY <1>3, SessionsAssumption DEF IInv, Starts, Current
  <2> QED BY <1>3, <2>1, <2>2, <2>3
          DEF IInv, Starts, Typed, JobsKept, Busy, ReleasingMeansWorking
<1>4. ASSUME NEW s \in Sessions, GivesUp(s) PROVE IInv'
  <2>1. /\ ~flags'[s].releasing
        /\ \A t \in Sessions \ {s} : flags'[t] = flags[t]
    BY <1>4 DEF IInv, GivesUp, FlagRecord
  <2>2. active = s /\ s \in made
    BY <1>4, SessionsAssumption DEF IInv, GivesUp
  <2> QED BY <1>4, <2>1, <2>2
          DEF IInv, GivesUp, Typed, JobsKept, Busy, ReleasingMeansWorking
<1>5. ASSUME NEW s \in Sessions, Ends(s) PROVE IInv'
  BY <1>5, SessionsAssumption DEF IInv, Ends, Typed, JobsKept, Busy, ReleasingMeansWorking
<1>6. ASSUME NEW s \in Sessions, Finishes(s) PROVE IInv'
  BY <1>6 DEF IInv, Finishes, Typed, JobsKept, Busy, ReleasingMeansWorking
<1> QED BY <1>1, <1>2, <1>3, <1>4, <1>5, <1>6 DEF Effect
-----------------------------------------------------------------------------
(* Every effect is a step of the contract, or leaves its status alone.     *)
StatusMap == [s \in Sessions |-> Status(s)]

(* Before the first handoff the contract is in its initial state.          *)
LEMMA InitRefines == Init => C!ContractInit
BY DEF Init, C!ContractInit, Status

(* Every effect is a step of SessionContract or a stutter.                 *)
LEMMA EffectRefines ==
    ASSUME IInv, Effect
    PROVE  [C!ContractNext]_StatusMap
<1> USE DEF StatusMap
<1>0. \A t \in Sessions : t # 0
  BY SessionsAssumption
<1>1. CASE Unseen
  <2>1. \A t \in Sessions : Status(t)' = Status(t)
    BY <1>1 DEF Unseen, Status
  <2> QED BY <2>1
<1>2. ASSUME NEW s \in Sessions, Begins(s) PROVE C!Begin(s)
  <2>1. Status(s) = "none"
    BY <1>2 DEF Begins, Status
  <2>2. Status(s)' = "live"
    BY <1>0, <1>2 DEF IInv, Begins, Status, Fresh
  <2>3. \A t \in Sessions \ {s} : Status(t)' = IF Status(t) = "none" THEN "none" ELSE "ended"
    BY <1>2 DEF Begins, Status
  <2> QED BY <2>1, <2>2, <2>3 DEF C!Begin
<1>3. ASSUME NEW s \in Sessions, Starts(s) PROVE C!StartRelease(s)
  <2>1. s \in made /\ flags'[s].releasing
    BY <1>0, <1>3 DEF IInv, Starts, Current, FlagRecord
  <2>2. Status(s) = "live" /\ Status(s)' = "releasing"
    BY <1>3, <2>1 DEF Starts, Current, Status
  <2>3. \A t \in Sessions \ {s} : Status(t)' = Status(t)
    BY <1>3 DEF Starts, Current, Status
  <2> QED BY Zenon, <2>2, <2>3 DEF C!StartRelease
<1>4. ASSUME NEW s \in Sessions, GivesUp(s) PROVE C!GiveUp(s)
  <2>1. s \in made /\ flags[s].releasing
    BY <1>0, <1>4 DEF IInv, GivesUp, ReleasingMeansWorking
  <2>2. ~flags'[s].releasing /\ flags'[s].exhausted
    BY <1>4 DEF IInv, GivesUp, FlagRecord
  <2>3. Status(s) = "releasing" /\ Status(s)' = "stuck"
    BY <1>4, <2>1, <2>2 DEF GivesUp, Status
  <2>4. \A t \in Sessions \ {s} : Status(t)' = Status(t)
    BY <1>4 DEF GivesUp, Status
  <2> QED BY Zenon, <2>3, <2>4 DEF C!GiveUp
<1>5. ASSUME NEW s \in Sessions, Ends(s) PROVE C!End(s)
  <2>1. Status(s) \in {"live", "releasing", "stuck"} /\ Status(s)' = "ended"
    BY <1>0, <1>5 DEF IInv, Ends, Status
  <2>2. \A t \in Sessions \ {s} : Status(t)' = Status(t)
    BY <1>0, <1>5 DEF Ends, Status
  <2> QED BY Zenon, <2>1, <2>2 DEF C!End
<1>6. ASSUME NEW s \in Sessions, Finishes(s) PROVE UNCHANGED StatusMap
  BY <1>6 DEF Finishes, Status
<1> QED BY <1>1, <1>2, <1>3, <1>4, <1>5, <1>6 DEF Effect, C!ContractNext

-----------------------------------------------------------------------------
(* A session is shown as releasing exactly while its one release is in     *)
(* progress (broker.go requestActiveSessionRelease, releaseActiveSession). *)
THEOREM ReleasingIsWorking == Spec => []ReleasingMeansWorking
<1>1. IInv /\ [Next]_vars => IInv'
  BY StepEffect, EffectKeepsIInv
<1>2. IInv => ReleasingMeansWorking
  BY DEF IInv
<1> QED BY InitIInv, <1>1, <1>2, PTL DEF Spec

(* Whatever races to end a session, the sessions keep SessionContract: one *)
(* release at most, no retry once exhausted, no resurrection.              *)
THEOREM SessionsKeepContract == Spec => KeepsContract
<1>1. IInv /\ [Next]_vars => IInv'
  BY StepEffect, EffectKeepsIInv
<1>2. IInv /\ [Next]_vars => [C!ContractNext]_StatusMap
  BY StepEffect, EffectRefines
<1> QED BY InitIInv, InitRefines, <1>1, <1>2, PTL DEF Spec, KeepsContract, C!Contract, StatusMap

-----------------------------------------------------------------------------
(* A normal end is not taken for a hangup.                                 *)

(* A normal-end that was written and is not marked yet is still in the     *)
(* socket of its watcher; one that judged a hangup had an empty, closed    *)
(* socket.                                                                 *)
EndInv ==
    /\ inbox \in [Sessions -> Seq(Packets)]
    /\ hungUp = [s \in Sessions |-> hungUp[s]]
    /\ watcher = [s \in Sessions |-> watcher[s]]
    /\ wroteEnd \subseteq made
    /\ \A s \in Sessions :
          /\ watcher[s] # "none" => s \in made
          /\ watcher[s] = "hangup" => hungUp[s] /\ inbox[s] = <<>>
          /\ s \in wroteEnd /\ Current(s) /\ watcher[s] # "gone" =>
                flags[s].normalEnd \/ \E i \in 1..Len(inbox[s]) : inbox[s][i] = "normalEnd"
    /\ NormalEndIsNoHangup

(* No session becomes the current one, and the current one keeps its mark. *)
MarksKept ==
    /\ made' = made
    /\ \A t \in Sessions : Current(t)' => /\ Current(t)
                                          /\ flags[t].normalEnd => flags'[t].normalEnd

(* clearActiveSessionLocked leaves no session current.                     *)
LEMMA ClearKeepsMarks ==
    ASSUME NEW s, ClearActiveSession(s), made' = made
    PROVE  MarksKept
BY SessionsAssumption DEF ClearActiveSession, MarksKept, Current

(* Other flags of one session may change, and it may stop being current.   *)
LEMMA FlagsKeepMarks ==
    ASSUME IInv, NEW s \in Sessions, NEW r \in FlagRecord, active' = active, made' = made,
           flags' = flags \/ flags' = [flags EXCEPT ![s] = r],
           \/ r.releasing \/ r.exhausted
           \/ /\ r.releasing = flags[s].releasing /\ r.exhausted = flags[s].exhausted
              /\ flags[s].normalEnd => r.normalEnd
    PROVE  MarksKept
BY DEF IInv, MarksKept, Current

(* A request for a release makes the current session releasing.            *)
LEMMA RequestKeepsMarks ==
    ASSUME IInv, NEW s \in Sessions, RequestRelease(s), active' = active, made' = made
    PROVE  MarksKept
<1>1. CASE Current(s)
  <2>1. /\ [flags[s] EXCEPT !.releasing = TRUE] \in FlagRecord
        /\ [flags[s] EXCEPT !.releasing = TRUE].releasing
    BY ZenonT(60) DEF IInv, FlagRecord
  <2>2. flags' = [flags EXCEPT ![s] = [flags[s] EXCEPT !.releasing = TRUE]]
    BY <1>1 DEF RequestRelease
  <2>. QED
    BY Zenon, <2>1, <2>2, FlagsKeepMarks
<1>2. CASE ~Current(s)
  BY <1>2 DEF RequestRelease, MarksKept, Current
<1>. QED
  BY <1>1, <1>2

(* Marking the normal end and renewing the lease take no mark away.        *)
LEMMA MarkKeepsMarks ==
    ASSUME IInv, NEW s \in Sessions, MarkNormalEnd(s) \/ RecordProgress(s) \/ UNCHANGED flags,
           active' = active, made' = made
    PROVE  MarksKept
<1>1. CASE UNCHANGED flags
  BY <1>1 DEF MarksKept, Current
<1>2. CASE flags' = [flags EXCEPT ![s].normalEnd = TRUE]
  <2>. DEFINE r == [flags[s] EXCEPT !.normalEnd = TRUE]
  <2>1. /\ r \in FlagRecord /\ r.releasing = flags[s].releasing
        /\ r.exhausted = flags[s].exhausted /\ r.normalEnd
    BY ZenonT(60) DEF IInv, FlagRecord
  <2>2. flags' = [flags EXCEPT ![s] = r]
    BY <1>2
  <2>. HIDE DEF r
  <2>. QED
    BY Zenon, <2>1, <2>2, FlagsKeepMarks
<1>3. CASE flags' = [flags EXCEPT ![s].quiet = FALSE]
  <2>. DEFINE r == [flags[s] EXCEPT !.quiet = FALSE]
  <2>1. /\ r \in FlagRecord /\ r.releasing = flags[s].releasing
        /\ r.exhausted = flags[s].exhausted /\ r.normalEnd = flags[s].normalEnd
    BY ZenonT(60) DEF IInv, FlagRecord
  <2>2. flags' = [flags EXCEPT ![s] = r]
    BY <1>3
  <2>. HIDE DEF r
  <2>. QED
    BY Zenon, <2>1, <2>2, FlagsKeepMarks
<1>. QED
  BY <1>1, <1>2, <1>3 DEF MarkNormalEnd, RecordProgress

(* So do all the steps that leave the watchers and their sockets alone,    *)
(* but for a handoff.                                                      *)
LEMMA OthersKeepMarks ==
    ASSUME IInv,
           \/ \E s \in Sessions : \/ LeaseRunsOut(s) \/ BearerOrPeerLost(s) \/ ReleaseCallToken(s)
                                  \/ Release(s) \/ NormalWaitOver(s)
           \/ \E p \in Paths : Idle(p) \/ Clear(p) \/ Configure(p)
           \/ Rebuild
    PROVE  MarksKept
<1>1. ASSUME NEW s \in Sessions, LeaseRunsOut(s) PROVE MarksKept
  <2>. DEFINE r == [flags[s] EXCEPT !.quiet = TRUE]
  <2>1. /\ r \in FlagRecord /\ r.releasing = flags[s].releasing
        /\ r.exhausted = flags[s].exhausted /\ r.normalEnd = flags[s].normalEnd
    BY ZenonT(60) DEF IInv, FlagRecord
  <2>2. flags' = [flags EXCEPT ![s] = r] /\ active' = active /\ made' = made
    BY <1>1 DEF LeaseRunsOut
  <2>. HIDE DEF r
  <2>. QED
    BY Zenon, <2>1, <2>2, FlagsKeepMarks
<1>2. ASSUME NEW s \in Sessions, BearerOrPeerLost(s) PROVE MarksKept
  BY <1>2, RequestKeepsMarks DEF BearerOrPeerLost
<1>3. ASSUME NEW s \in Sessions, ReleaseCallToken(s) PROVE MarksKept
  BY <1>3, MarkKeepsMarks DEF ReleaseCallToken
<1>4. ASSUME NEW s \in Sessions, NormalWaitOver(s) PROVE MarksKept
  BY <1>4, RequestKeepsMarks, MarkKeepsMarks DEF NormalWaitOver
<1>5. ASSUME NEW s \in Sessions, Release(s) PROVE MarksKept
  <2>1. CASE (\E p \in Paths : ReleaseCall(s, p)) \/ RetryRelease(s)
    BY Zenon, <2>1 DEF ReleaseCall, RetryRelease, sessionVars, MarksKept, Current
  <2>2. CASE ClearActiveSession(s) /\ made' = made
    BY <2>2, ClearKeepsMarks
  <2>3. CASE /\ flags' = [flags EXCEPT ![s].releasing = FALSE, ![s].exhausted = TRUE]
             /\ UNCHANGED <<active, made>>
    <3>. DEFINE r == [flags[s] EXCEPT !.releasing = FALSE, !.exhausted = TRUE]
    <3>1. r \in FlagRecord /\ r.exhausted
      BY ZenonT(60) DEF IInv, FlagRecord
    <3>2. flags' = [flags EXCEPT ![s] = r]
      BY Zenon, <2>3 DEF IInv
    <3>. HIDE DEF r
    <3>. QED
      BY Zenon, <2>3, <3>1, <3>2, FlagsKeepMarks
  <2>. QED
    BY Zenon, <1>5, <2>1, <2>2, <2>3 DEF Release, ReleaseDone, ReleaseExhausted
<1>6. ASSUME NEW p \in Paths, Idle(p) PROVE MarksKept
  <2>1. CASE active = 0
    BY <1>6, <2>1 DEF Idle, MarksKept, Current
  <2>2. CASE active # 0 /\ ClearActiveSession(active)
    BY <1>6, <2>2, ClearKeepsMarks DEF Idle
  <2>3. CASE active # 0 /\ ~ClearActiveSession(active)
    <3>. DEFINE r == [flags[active] EXCEPT !.idle = @ \cup {p},
                         !.remoteIdle = @ \/ flags[active].idle \cup {p} = Paths]
    <3>1. active' = active /\ made' = made /\ active \in Sessions
      BY <1>6, <2>3 DEF Idle, IInv
    <3>2. flags' = [flags EXCEPT ![active].idle = @ \cup {p},
                       ![active].remoteIdle = @ \/ flags[active].idle \cup {p} = Paths]
      BY <1>6, <2>3 DEF Idle
    <3>3. /\ r \in FlagRecord /\ r.releasing = flags[active].releasing
          /\ r.exhausted = flags[active].exhausted /\ r.normalEnd = flags[active].normalEnd
      <4>1. flags[active] \in FlagRecord
        BY <3>1 DEF IInv
      <4>2. (flags[active].remoteIdle \/ flags[active].idle \cup {p} = Paths) \in BOOLEAN
        OBVIOUS
      <4>. QED
        BY ZenonT(60), <4>1, <4>2 DEF FlagRecord
    <3>4. flags' = [flags EXCEPT ![active] = r]
      BY ZenonT(60), <3>1, <3>2 DEF IInv
    <3>. HIDE DEF r
    <3>. QED
      BY Zenon, <3>1, <3>3, <3>4, FlagsKeepMarks
  <2>. QED
    BY <2>1, <2>2, <2>3
<1>7. ASSUME NEW p \in Paths, Clear(p) \/ Configure(p) \/ Rebuild PROVE MarksKept
  BY <1>7, ClearKeepsMarks, MarkKeepsMarks DEF Clear, Configure, Rebuild, MarksKept, Current
<1>. QED
  BY <1>1, <1>2, <1>3, <1>4, <1>5, <1>6, <1>7, "sink" \in Paths DEF Paths

(* Those steps leave the watchers as they are.                             *)
LEMMA MarksKeepEndInv ==
    ASSUME EndInv, MarksKept, UNCHANGED <<inbox, hungUp, wroteEnd, watcher>>
    PROVE  EndInv'
BY DEF EndInv, MarksKept, NormalEndIsNoHangup

(* Asterisk writes a packet, or hangs up; a new session has written none.  *)
LEMMA PeerKeepsEndInv ==
    ASSUME IInv, EndInv, NEW s \in Sessions,
           (\E packet \in Packets : Write(s, packet)) \/ HangUp(s) \/ HandOff(s)
    PROVE  EndInv'
<1>1. ASSUME NEW packet \in Packets, Write(s, packet) PROVE EndInv'
  <2>1. /\ inbox' = [inbox EXCEPT ![s] = Append(inbox[s], packet)] /\ ~hungUp[s]
        /\ wroteEnd' = IF packet = "normalEnd" THEN wroteEnd \cup {s} ELSE wroteEnd
        /\ UNCHANGED <<active, made, flags, hungUp, watcher>> /\ Watched(s)
    BY <1>1 DEF Write, sessionVars, watchVars
  <2>2. /\ inbox[s] \in Seq(Packets) /\ Append(inbox[s], packet) \in Seq(Packets)
        /\ inbox'[s] = Append(inbox[s], packet)
        /\ \A t \in Sessions : t # s => inbox'[t] = inbox[t]
        /\ inbox' \in [Sessions -> Seq(Packets)]
    BY <2>1 DEF EndInv
  <2>3. /\ Len(inbox'[s]) = Len(inbox[s]) + 1 /\ Len(inbox[s]) \in Nat
        /\ inbox'[s][Len(inbox[s]) + 1] = packet
        /\ \A i \in 1..Len(inbox[s]) : inbox'[s][i] = inbox[s][i]
    BY <2>2
  <2>4. s \in made /\ watcher[s] # "hangup"
    BY <2>1 DEF EndInv, Watched
  <2>5. s \in wroteEnd' => \/ s \in wroteEnd
                           \/ \E i \in 1..Len(inbox'[s]) : inbox'[s][i] = "normalEnd"
    BY <2>1, <2>3
  <2>6. (\E i \in 1..Len(inbox[s]) : inbox[s][i] = "normalEnd")
            => \E i \in 1..Len(inbox'[s]) : inbox'[s][i] = "normalEnd"
    BY <2>3
  <2>7. \A t \in Sessions : Current(t)' <=> Current(t)
    BY <2>1 DEF Current
  <2>. QED
    BY <2>1, <2>2, <2>4, <2>5, <2>6, <2>7 DEF EndInv, NormalEndIsNoHangup
<1>2. CASE HangUp(s)
  BY ZenonT(60), <1>2 DEF EndInv, NormalEndIsNoHangup, HangUp, sessionVars, watchVars, Current
<1>3. CASE HandOff(s)
  <2>1. /\ active' = s /\ made' = made \cup {s} /\ s \notin made
        /\ watcher' = [watcher EXCEPT ![s] = "top"]
        /\ UNCHANGED <<inbox, hungUp, wroteEnd>>
    BY <1>3 DEF HandOff, peerVars
  <2>2. s \notin wroteEnd /\ \A t \in Sessions : Current(t)' => t = s
    BY ZenonT(60), <2>1 DEF EndInv, Current
  <2>. QED
    BY Zenon, <2>1, <2>2 DEF EndInv, NormalEndIsNoHangup
<1>. QED
  BY Zenon, <1>1, <1>2, <1>3

(* The watcher of one session moves, with the marks kept.                  *)
LEMMA WatcherKeepsEndInv ==
    ASSUME EndInv, MarksKept, NEW s \in Sessions, NEW pc, WatcherTo(s, pc),
           watcher[s] # "none", wroteEnd' = wroteEnd,
           \/ pc = "gone" /\ inbox' = [inbox EXCEPT ![s] = <<>>]
                          /\ hungUp' = [hungUp EXCEPT ![s] = FALSE]
           \/ UNCHANGED <<inbox, hungUp>>,
           pc = "hangup" => hungUp[s] /\ inbox[s] = <<>> /\ ~NormalReleasePending(s),
           watcher[s] # "gone"
    PROVE  EndInv'
<1>1. /\ watcher' = [t \in Sessions |-> watcher'[t]] /\ watcher'[s] = pc
      /\ \A t \in Sessions : t # s => watcher'[t] = watcher[t]
  BY Zenon DEF EndInv, WatcherTo
<1>2. /\ inbox' \in [Sessions -> Seq(Packets)] /\ hungUp' = [t \in Sessions |-> hungUp'[t]]
      /\ \A t \in Sessions : t # s => inbox'[t] = inbox[t] /\ hungUp'[t] = hungUp[t]
      /\ pc # "gone" => inbox'[s] = inbox[s] /\ hungUp'[s] = hungUp[s]
  <2>1. CASE UNCHANGED <<inbox, hungUp>>
    BY <2>1 DEF EndInv
  <2>2. CASE /\ pc = "gone" /\ inbox' = [inbox EXCEPT ![s] = <<>>]
             /\ hungUp' = [hungUp EXCEPT ![s] = FALSE]
    <3>1. <<>> \in Seq(Packets)
      OBVIOUS
    <3>2. inbox' \in [Sessions -> Seq(Packets)] /\ \A t \in Sessions : t # s => inbox'[t] = inbox[t]
      BY <2>2, <3>1 DEF EndInv
    <3>3. /\ hungUp' = [t \in Sessions |-> hungUp'[t]]
          /\ \A t \in Sessions : t # s => hungUp'[t] = hungUp[t]
      BY ZenonT(60), <2>2 DEF EndInv
    <3>. QED
      BY <2>2, <3>2, <3>3
  <2>. QED
    BY <2>1, <2>2
<1>3. inbox[s] = <<>> => ~\E i \in 1..Len(inbox[s]) : inbox[s][i] = "normalEnd"
  OBVIOUS
<1>4. pc = "hangup" /\ Current(s)' => s \notin wroteEnd
  BY ZenonT(60), <1>3 DEF EndInv, MarksKept, NormalReleasePending
<1>5. ASSUME NEW t \in Sessions
      PROVE  /\ watcher'[t] # "none" => t \in made'
             /\ watcher'[t] = "hangup" => hungUp'[t] /\ inbox'[t] = <<>>
             /\ t \in wroteEnd' /\ Current(t)' /\ watcher'[t] # "gone" =>
                   \/ flags'[t].normalEnd
                   \/ \E i \in 1..Len(inbox'[t]) : inbox'[t][i] = "normalEnd"
             /\ watcher'[t] = "hangup" /\ Current(t)' => t \notin wroteEnd'
  <2>1. CASE t # s
    BY SMTT(60), <1>1, <1>2, <2>1 DEF EndInv, MarksKept, NormalEndIsNoHangup
  <2>2. CASE t = s /\ pc # "gone"
    BY SMTT(60), <1>1, <1>2, <1>4, <2>2 DEF EndInv, MarksKept
  <2>3. CASE t = s /\ pc = "gone"
    BY SMTT(60), <1>1, <2>3 DEF EndInv, MarksKept
  <2>. QED
    BY Zenon, <2>1, <2>2, <2>3
<1>6. wroteEnd' \subseteq made'
  BY DEF EndInv, MarksKept
<1>. QED
  BY <1>1, <1>2, <1>5, <1>6 DEF EndInv, NormalEndIsNoHangup

(* A step of a watcher.                                                    *)
LEMMA WatchKeepsEndInv ==
    ASSUME IInv, EndInv, NEW s \in Sessions, Watch(s)
    PROVE  EndInv'
<1>0. watcher[s] # "none" /\ watcher[s] # "gone"
  BY SMTT(60) DEF Watch, WatchDone, WatchDrain, WatchDrained, WatchClosed, WatchSuperseded, WatchCheck,
         WatchExpired, WatchReleases, Draining, Checking, AtTop
<1>1. CASE WatchDone(s) \/ WatchSuperseded(s)
  <2>1. WatcherReturns(s) /\ UNCHANGED <<active, made, flags>>
    BY <1>1 DEF WatchDone, WatchSuperseded, sessionVars
  <2>2. MarksKept
    BY <2>1, MarkKeepsMarks
  <2>. QED
    BY ZenonT(60), <1>0, <2>1, <2>2, WatcherKeepsEndInv DEF WatcherReturns
<1>2. CASE WatchReleases(s)
  BY Zenon, <1>0, <1>2, RequestKeepsMarks, WatcherKeepsEndInv DEF WatchReleases, WatcherReturns
<1>3. CASE WatchDrained(s) \/ WatchClosed(s)
  <2>1. UNCHANGED <<active, made, flags, inbox, hungUp, wroteEnd>>
    BY <1>3 DEF WatchDrained, WatchClosed, sessionVars, peerVars
  <2>2. MarksKept
    BY <2>1, MarkKeepsMarks
  <2>. QED
    BY ZenonT(60), <1>0, <1>3, <2>1, <2>2, WatcherKeepsEndInv DEF WatchDrained, WatchClosed
<1>4. CASE WatchCheck(s)
  <2>1. UNCHANGED <<active, made, inbox, hungUp, wroteEnd>> /\ (UNCHANGED flags \/ MarkNormalEnd(s))
        /\ (WatcherTo(s, "expired") \/ WatcherTo(s, "top"))
    BY <1>4 DEF WatchCheck, peerVars
  <2>2. MarksKept
    BY <2>1, MarkKeepsMarks
  <2>. QED
    BY SMTT(60), <1>0, <2>1, <2>2, WatcherKeepsEndInv
<1>5. CASE WatchExpired(s)
  <2>1. UNCHANGED <<active, made, inbox, hungUp, wroteEnd>>
        /\ (flags' = flags \/ flags' = [flags EXCEPT ![s].waitStarted = TRUE])
        /\ (WatcherTo(s, "top") \/ WatcherTo(s, "lease"))
    BY <1>5 DEF WatchExpired, peerVars
  <2>. DEFINE r == [flags[s] EXCEPT !.waitStarted = TRUE]
  <2>2. /\ r \in FlagRecord /\ r.releasing = flags[s].releasing
        /\ r.exhausted = flags[s].exhausted /\ r.normalEnd = flags[s].normalEnd
    BY ZenonT(60) DEF IInv, FlagRecord
  <2>3. flags' = flags \/ flags' = [flags EXCEPT ![s] = r]
    BY <2>1
  <2>. HIDE DEF r
  <2>4. MarksKept
    BY <2>1, <2>2, <2>3, FlagsKeepMarks
  <2>. QED
    BY <1>0, <2>1, <2>4, WatcherKeepsEndInv
<1>6. CASE WatchDrain(s)
  <2>. DEFINE packet == Head(inbox[s])
  <2>1. /\ inbox[s] # <<>> /\ inbox' = [inbox EXCEPT ![s] = Tail(inbox[s])]
        /\ UNCHANGED <<active, made, hungUp, wroteEnd>>
        /\ \E pc \in {"protocol", "drain"} : WatcherTo(s, pc)
    BY <1>6 DEF WatchDrain
  <2>2. packet = "normalEnd" => MarkNormalEnd(s)
    BY <1>6 DEF WatchDrain
  <2>3. MarksKept
    BY <1>6, <2>1, MarkKeepsMarks DEF WatchDrain
  <2>4. PICK pc \in {"protocol", "drain"} : WatcherTo(s, pc)
    BY <2>1
  <2>5. /\ watcher' = [t \in Sessions |-> watcher'[t]] /\ watcher'[s] = pc
        /\ \A t \in Sessions : t # s => watcher'[t] = watcher[t]
    BY Zenon, <2>4 DEF EndInv, WatcherTo
  <2>6. /\ inbox[s] \in Seq(Packets) /\ inbox'[s] = Tail(inbox[s])
        /\ inbox' \in [Sessions -> Seq(Packets)]
        /\ \A t \in Sessions : t # s => inbox'[t] = inbox[t]
    BY <2>1 DEF EndInv
  <2>7. (\E i \in 1..Len(inbox[s]) : inbox[s][i] = "normalEnd")
            => packet = "normalEnd" \/ \E i \in 1..Len(inbox'[s]) : inbox'[s][i] = "normalEnd"
    <3>. DEFINE q == inbox[s]
    <3>1. q \in Seq(Packets) /\ q # <<>>
      BY <2>1, <2>6
    <3>. HIDE DEF q
    <3>2. /\ Head(q) = q[1] /\ Len(Tail(q)) = Len(q) - 1 /\ Len(q) \in Nat
          /\ \A i \in 1..Len(Tail(q)) : Tail(q)[i] = q[i + 1]
      BY <3>1
    <3>3. ASSUME NEW i \in 1..Len(q), q[i] = "normalEnd", i # 1
          PROVE  \E j \in 1..Len(Tail(q)) : Tail(q)[j] = "normalEnd"
      <4>1. i - 1 \in 1..Len(Tail(q)) /\ (i - 1) + 1 = i
        BY <3>2, <3>3
      <4>2. Tail(q)[i - 1] = q[(i - 1) + 1]
        BY SMTT(60), <3>2, <4>1
      <4>. QED
        BY <3>3, <4>1, <4>2
    <3>. QED
      BY <2>6, <3>2, <3>3 DEF q
  <2>8. packet = "normalEnd" /\ Current(s)' => flags'[s].normalEnd
    <3>1. CASE packet = "normalEnd" /\ Current(s)
      <4>1. flags' = [flags EXCEPT ![s].normalEnd = TRUE]
        BY SMTT(60), <2>2, <3>1 DEF MarkNormalEnd
      <4>. QED
        BY <4>1 DEF IInv, FlagRecord
    <3>. QED
      BY <2>3, <3>1 DEF MarksKept
  <2>. QED
    BY <1>0, <2>1, <2>3, <2>4, <2>5, <2>6, <2>7, <2>8 DEF EndInv, MarksKept, NormalEndIsNoHangup
<1>. QED
  BY ZenonT(60), <1>1, <1>2, <1>3, <1>4, <1>5, <1>6 DEF Watch

(* Before the first handoff nobody has written anything.                   *)
LEMMA InitEndInv == Init => EndInv
BY DEF Init, EndInv, NormalEndIsNoHangup, Current

(* A session that Asterisk ended properly is never released as a hangup,   *)
(* however normal-end, the close of the socket and the other ends of the   *)
(* session race (broker.go watchActiveSession reads before it judges).     *)
THEOREM NormalEndsAreNoHangups == Spec => []NormalEndIsNoHangup
<1>1. IInv /\ [Next]_vars => IInv'
  BY StepEffect, EffectKeepsIInv
<1>2. IInv /\ EndInv /\ [Next]_vars => EndInv'
  <2>. SUFFICES ASSUME IInv, EndInv, [Next]_vars PROVE EndInv'
    OBVIOUS
  <2>1. CASE UNCHANGED vars
    BY <2>1, MarksKeepEndInv DEF vars, sessionVars, peerVars, watchVars, MarksKept, Current
  <2>2. ASSUME \/ \E s \in Sessions : \/ LeaseRunsOut(s) \/ BearerOrPeerLost(s)
                                      \/ ReleaseCallToken(s) \/ Release(s) \/ NormalWaitOver(s)
               \/ \E p \in Paths : Idle(p) \/ Clear(p) \/ Configure(p)
               \/ Rebuild
        PROVE  EndInv'
    <3>1. UNCHANGED <<inbox, hungUp, wroteEnd, watcher>>
      BY Zenon, <2>2 DEF LeaseRunsOut, BearerOrPeerLost, ReleaseCallToken, Release, ReleaseCall,
                  RetryRelease, ReleaseDone, ReleaseExhausted, NormalWaitOver, Idle, Clear,
                  Configure, Rebuild, peerVars, watchVars
    <3>. QED
      BY SMTT(60), <2>2, <3>1, OthersKeepMarks, MarksKeepEndInv
  <2>. QED
    BY <2>1, <2>2, PeerKeepsEndInv, WatchKeepsEndInv DEF Next
<1>3. EndInv => NormalEndIsNoHangup
  BY DEF EndInv
<1>. QED
  BY InitIInv, InitEndInv, <1>1, <1>2, <1>3, PTL DEF Spec

-----------------------------------------------------------------------------
(* The advertisement follows the bearer.                                   *)

BearerEvents == {Disconnected, Connected, NameLost}

(* The broker has not been told yet that bluetoothd left the bus.          *)
OnTheBus == \A i \in 1..Len(events) : events[i] # NameLost

(* While bluetoothd stays, what it broadcasts is what the broker has       *)
(* registered, and the last change of the bearer waiting for the event     *)
(* loop says how the bearer is.  When nothing is waiting, the state of the *)
(* event loop agrees with the bearer; an absent phone that is not          *)
(* advertised for is held, or a rearm request is pending.                  *)
BrokerInv ==
    /\ events \in Seq(BearerEvents)
    /\ broker \in {"down", "reading", "resetting", "register", "loop"}
    /\ link \in BOOLEAN /\ advertised \in BOOLEAN /\ registered \in BOOLEAN
    /\ hold \in BOOLEAN /\ rearm \in BOOLEAN
    /\ broker \in {"down", "reading", "resetting"} => ~registered
    /\ advertised => registered
    /\ broker # "down" /\ OnTheBus =>
          /\ registered => advertised
          /\ events # <<>> => (link <=> events[Len(events)] = Connected)
          /\ events = <<>> =>
                /\ broker = "resetting" => link
                /\ broker = "register" => ~link
                /\ broker = "loop" => IF link THEN ~registered ELSE registered \/ hold \/ rearm

(* The three signals differ.                                               *)
LEMMA EventsDiffer ==
    Connected # Disconnected /\ Connected # NameLost /\ Disconnected # NameLost
BY DEF Connected, Disconnected, NameLost

(* A signal that reaches a running broker is the last one waiting.         *)
LEMMA Told ==
    ASSUME events \in Seq(BearerEvents), NEW e \in BearerEvents, Tell(e), broker # "down"
    PROVE  /\ events' \in Seq(BearerEvents) /\ events' # <<>>
           /\ events'[Len(events')] = e
           /\ OnTheBus' => OnTheBus /\ e # NameLost
<1>1. events' = Append(events, e)
  BY DEF Tell
<1>2. /\ Len(events) \in Nat /\ Len(events') = Len(events) + 1
      /\ \A i \in 1..Len(events) : events'[i] = events[i]
      /\ events'[Len(events) + 1] = e
  BY <1>1
<1>3. \A i \in 1..Len(events) : i \in 1..Len(events')
  BY <1>2
<1>4. OnTheBus' => OnTheBus
  BY <1>2, <1>3 DEF OnTheBus
<1>5. OnTheBus' => e # NameLost
  BY <1>2 DEF OnTheBus
<1>. QED
  BY <1>1, <1>2, <1>4, <1>5

(* The event loop takes the first signal and leaves the last one last.     *)
LEMMA Taken ==
    ASSUME events \in Seq(BearerEvents), events # <<>>, events' = Tail(events)
    PROVE  /\ events' \in Seq(BearerEvents)
           /\ events' # <<>> => events'[Len(events')] = events[Len(events)]
           /\ events' = <<>> => Head(events) = events[Len(events)]
           /\ OnTheBus' /\ Head(events) # NameLost => OnTheBus
<1>1. /\ Len(events) \in Nat \ {0} /\ Len(events') = Len(events) - 1
      /\ \A i \in 1..Len(events') : events'[i] = events[i + 1]
      /\ Head(events) = events[1]
  OBVIOUS
<1>2. events' # <<>> => Len(events') # 0
  OBVIOUS
<1>3. \A i \in 1..Len(events) : i = 1 \/ (i - 1 \in 1..Len(events') /\ events'[i - 1] = events[i])
  BY <1>1
<1>4. OnTheBus' /\ Head(events) # NameLost => OnTheBus
  BY <1>1, <1>3 DEF OnTheBus
<1>5. events' # <<>> => events'[Len(events')] = events[Len(events)]
  <2>. SUFFICES ASSUME events' # <<>> PROVE events'[Len(events')] = events[Len(events)]
    OBVIOUS
  <2>1. Len(events') \in 1..Len(events') /\ Len(events') + 1 = Len(events)
    BY <1>1, <1>2
  <2>. QED
    BY <1>1, <2>1
<1>6. events' = <<>> => Len(events') = 0
  BY Zenon
<1>7. events' = <<>> => Head(events) = events[Len(events)]
  BY <1>1, <1>6
<1>. QED
  BY <1>4, <1>5, <1>7

(* The broker's part of the state is consistent at the start.              *)
LEMMA BrokerInitially == HandbackInit => BrokerInv
<1>1. <<>> \in Seq(BearerEvents)
  OBVIOUS
<1>. QED
  BY Zenon, <1>1 DEF HandbackInit, BrokerInv

(* A step that touches neither the bearer, the event loop nor the hold.    *)
LEMMA BrokerUntouched ==
    ASSUME BrokerInv, UNCHANGED <<link, advertised, events, broker, registered, hold, rearm>>
    PROVE  BrokerInv'
BY DEF BrokerInv, OnTheBus

(* A running broker is told that the bearer went away or came up.          *)
LEMMA BearerChanges ==
    ASSUME BrokerInv, broker # "down", NEW e \in {Connected, Disconnected}, Tell(e),
           link' \in BOOLEAN, link' <=> e = Connected,
           UNCHANGED <<advertised, registered, hold, rearm>>,
           broker' = broker \/ (broker = "resetting" /\ broker' = "register")
    PROVE  BrokerInv'
<1>1. /\ events' \in Seq(BearerEvents) /\ events' # <<>>
      /\ events'[Len(events')] = e /\ (OnTheBus' => OnTheBus)
  BY Told DEF BrokerInv, BearerEvents
<1>2. broker' # "down" /\ OnTheBus' =>
          (registered' => advertised') /\ (link' <=> events'[Len(events')] = Connected)
  BY <1>1 DEF BrokerInv
<1>3. broker' \in {"down", "reading", "resetting"} => ~registered'
  BY DEF BrokerInv
<1>. QED
  BY <1>1, <1>2, <1>3 DEF BrokerInv

(* Nobody is told while the broker is between two runs.                    *)
LEMMA BearerDropsUnheard ==
    ASSUME BrokerInv, broker = "down", link' \in BOOLEAN, events' = events, ~advertised',
           advertised' \in BOOLEAN, UNCHANGED <<broker, registered, hold, rearm>>
    PROVE  BrokerInv'
BY DEF BrokerInv

(* The phone goes out of range, answers the advertisement, or finds        *)
(* bluetoothd restarted.                                                   *)
LEMMA PhoneKeepsBroker ==
    ASSUME BrokerInv, OutOfRange \/ PhoneConnects \/ BluetoothdRestarts
    PROVE  BrokerInv'
<1>1. CASE OutOfRange
  <2>1. Tell(Disconnected) /\ link' = FALSE
        /\ UNCHANGED <<advertised, broker, registered, hold, rearm>>
    BY SMTT(60), <1>1 DEF OutOfRange, BearerDrops, sharedVars
  <2>2. CASE broker = "down"
    BY Zenon, <2>1, <2>2, BearerDropsUnheard DEF Tell, BrokerInv
  <2>3. CASE broker # "down"
    BY Zenon, <2>1, <2>3, BearerChanges, EventsDiffer
  <2>. QED
    BY <2>2, <2>3
<1>2. CASE PhoneConnects
  <2>1. Tell(Connected) /\ link' = TRUE /\ UNCHANGED <<advertised, broker, registered, hold, rearm>>
    BY <1>2 DEF PhoneConnects, sharedVars
  <2>2. broker # "down"
    BY SMTT(60), <1>2 DEF PhoneConnects, BrokerInv
  <2>. QED
    BY <2>1, <2>2, BearerChanges
<1>3. CASE BluetoothdRestarts
  <2>1. Tell(NameLost) /\ link' \in {link, FALSE} /\ advertised' = FALSE
        /\ UNCHANGED <<broker, registered, hold, rearm>>
    BY Zenon, <1>3 DEF BluetoothdRestarts, sharedVars
  <2>2. link' \in BOOLEAN
    BY Zenon, <2>1 DEF BrokerInv
  <2>3. CASE broker = "down"
    BY Zenon, <2>1, <2>2, <2>3, BearerDropsUnheard DEF Tell
  <2>4. CASE broker # "down"
    <3>1. events' \in Seq(BearerEvents) /\ ~OnTheBus'
      BY <2>1, <2>4, Told DEF BrokerInv, BearerEvents
    <3>. QED
      BY ZenonT(60), <2>1, <2>2, <3>1 DEF BrokerInv
  <2>. QED
    BY <2>3, <2>4
<1>. QED
  BY <1>1, <1>2, <1>3

(* runBlueZOnce until it serves events.                                    *)
LEMMA StartKeepsBroker ==
    ASSUME BrokerInv, BrokerStarts \/ BrokerReads \/ BrokerResets \/ BrokerRegisters
    PROVE  BrokerInv'
<1>1. CASE BrokerStarts
  <2>1. broker' = "reading" /\ events' = <<>> /\ registered' = FALSE /\ ~advertised
        /\ UNCHANGED <<link, advertised, hold, rearm>>
    BY <1>1 DEF BrokerStarts, BrokerInv, phoneVars, sharedVars
  <2>2. <<>> \in Seq(BearerEvents)
    OBVIOUS
  <2>. QED
    BY ZenonT(60), <2>1, <2>2 DEF BrokerInv
<1>2. CASE BrokerReads
  <2>1. /\ UNCHANGED <<link, advertised, events, registered, hold, rearm>> /\ ~registered
        /\ broker = "reading" /\ broker' = IF link THEN "resetting" ELSE "register"
    BY <1>2 DEF BrokerReads, BrokerInv, phoneVars, sharedVars
  <2>. QED
    BY <2>1 DEF BrokerInv, OnTheBus
<1>3. CASE BrokerResets
  <2>1. broker = "resetting" /\ UNCHANGED <<advertised, registered, hold, rearm>> /\ ~registered
    BY SMTT(60), <1>3 DEF BrokerResets, BrokerInv, sharedVars
  <2>2. CASE broker' = "loop" /\ UNCHANGED <<link, events>>
    BY <2>1, <2>2 DEF BrokerInv, OnTheBus
  <2>3. CASE broker' = "register" /\ link /\ BearerDrops
    <3>1. Tell(Disconnected) /\ link' = FALSE
      BY <2>3 DEF BearerDrops
    <3>. QED
      BY Zenon, <2>1, <2>3, <3>1, BearerChanges, EventsDiffer
  <2>4. CASE broker' = "register" /\ ~link /\ UNCHANGED <<link, events>>
    BY <2>1, <2>4 DEF BrokerInv, OnTheBus
  <2>. QED
    BY Zenon, <1>3, <2>2, <2>3, <2>4 DEF BrokerResets
<1>4. CASE BrokerRegisters
  <2>1. /\ broker = "register" /\ UNCHANGED <<link, events, hold, rearm>>
        /\ registered' = TRUE /\ advertised' = (advertised \/ ~registered) /\ broker' = "loop"
    BY Zenon, <1>4 DEF BrokerRegisters, SetAdvertisement, BrokerInv, sharedVars
  <2>. QED
    BY Zenon, <2>1 DEF BrokerInv, OnTheBus
<1>. QED
  BY <1>1, <1>2, <1>3, <1>4

(* The event loop handles a signal or a rearm request.                     *)
LEMMA LoopKeepsBroker ==
    ASSUME BrokerInv, BrokerHandles \/ BrokerRearms
    PROVE  BrokerInv'
<1>1. CASE BrokerHandles
  <2>1. /\ broker = "loop" /\ events # <<>> /\ UNCHANGED <<link, hold, rearm>>
        /\ events' = Tail(events) /\ events \in Seq(BearerEvents)
    BY <1>1 DEF BrokerHandles, BrokerInv, sharedVars
  <2>2. /\ events' \in Seq(BearerEvents)
        /\ events' # <<>> => events'[Len(events')] = events[Len(events)]
        /\ events' = <<>> => Head(events) = events[Len(events)]
        /\ OnTheBus' /\ Head(events) # NameLost => OnTheBus
    BY <2>1, Taken
  <2>3. OnTheBus => (link <=> events[Len(events)] = Connected) /\ (registered => advertised)
    BY <2>1 DEF BrokerInv
  <2>4. CASE Head(events) = Connected /\ SetAdvertisement(FALSE)
    <3>1. registered' = FALSE /\ advertised' = FALSE /\ broker' \in {"loop", "down"}
      BY Zenon, <2>1, <2>4 DEF SetAdvertisement, BrokerInv
    <3>2. OnTheBus' => OnTheBus
      BY Zenon, <2>2, <2>4, EventsDiffer
    <3>. QED
      BY Zenon, <2>1, <2>2, <2>3, <2>4, <3>1, <3>2 DEF BrokerInv
  <2>5. CASE Head(events) = Disconnected /\ OnDisconnected
    <3>1. UNCHANGED <<registered, advertised>> /\ broker' = IF hold THEN "loop" ELSE "register"
      BY <2>5 DEF OnDisconnected
    <3>2. (OnTheBus' => OnTheBus) /\ (OnTheBus /\ events' = <<>> => ~link)
      BY SMTT(60), <2>2, <2>3, <2>5, EventsDiffer
    <3>. QED
      BY <2>1, <2>2, <2>3, <3>1, <3>2 DEF BrokerInv
  <2>6. CASE Head(events) = NameLost /\ OnNameLost
    BY Zenon, <2>1, <2>2, <2>6 DEF BrokerInv, OnNameLost
  <2>. QED
    BY ZenonT(60), <1>1, <2>4, <2>5, <2>6 DEF BrokerHandles
<1>2. CASE BrokerRearms
  <2>1. /\ broker = "loop" /\ UNCHANGED <<link, advertised, events, registered, hold>>
        /\ rearm' = FALSE /\ broker' = IF link \/ hold THEN "loop" ELSE "register"
    BY <1>2 DEF BrokerRearms, phoneVars
  <2>. QED
    BY Zenon, <2>1 DEF BrokerInv, OnTheBus
<1>. QED
  BY <1>1, <1>2

(* A snapshot holds the advertisement or releases it, and asks for the     *)
(* rearming when it does; a goroutine of its own drops the bearer.         *)
LEMMA SessionKeepsBroker ==
    ASSUME BrokerInv, SessionStep \/ DropRuns
    PROVE  BrokerInv'
<1>1. CASE SessionStarts \/ SessionHandles \/ SnapshotDrops
  BY Zenon, <1>1, BrokerUntouched
     DEF SessionStarts, SessionHandles, SnapshotDrops, phoneVars, brokerVars, sharedVars
<1>2. CASE SnapshotHolds
  <2>1. PICK token \in HandsetAnswered : HoldAdvertisement(token # 0)
    BY <1>2 DEF SnapshotHolds
  <2>2. /\ UNCHANGED <<link, advertised, events, broker, registered>>
        /\ hold' \in BOOLEAN /\ rearm' = (rearm \/ (hold /\ ~hold'))
    BY Zenon, <1>2, <2>1 DEF SnapshotHolds, HoldAdvertisement, phoneVars, brokerVars
  <2>. QED
    BY <2>2 DEF BrokerInv, OnTheBus
<1>3. CASE DropRuns
  <2>1. UNCHANGED <<advertised, broker, registered, hold, rearm>>
    BY <1>3 DEF DropRuns
  <2>2. CASE broker # "down" /\ BearerDrops
    BY Zenon, <2>1, <2>2, BearerChanges, EventsDiffer DEF BearerDrops
  <2>3. CASE UNCHANGED <<link, events>>
    BY <2>1, <2>3, BrokerUntouched
  <2>. QED
    BY Zenon, <1>3, <2>2, <2>3 DEF DropRuns
<1>. QED
  BY Zenon, <1>1, <1>2, <1>3 DEF SessionStep

(* Once the event loop has caught up, the advertisement is down for a      *)
(* connected phone and up for an absent one that is not held: no order of  *)
(* drops, holds, releases, rearm requests and restarts of bluetoothd loses *)
(* the rearming (broker.go runBlueZOnce, HoldAdvertisement, DropLEBearer). *)
THEOREM AdvertisingStaysRight == HandbackSpec => []AdvertisingFollowsBearer
<1>1. BrokerInv /\ [HandbackNext]_handbackVars => BrokerInv'
  <2>. SUFFICES ASSUME BrokerInv, [HandbackNext]_handbackVars PROVE BrokerInv'
    OBVIOUS
  <2>1. ASSUME NEW c \in Calls, CallMoves(c) PROVE BrokerInv'
    BY <2>1, BrokerUntouched DEF CallMoves, brokerVars, sharedVars
  <2>2. CASE UNCHANGED handbackVars
    BY <2>2, BrokerUntouched DEF handbackVars, phoneVars, brokerVars, sharedVars
  <2>. QED
    BY <2>1, <2>2, PhoneKeepsBroker, StartKeepsBroker, LoopKeepsBroker, SessionKeepsBroker
       DEF HandbackNext, BrokerStep
<1>2. BrokerInv => AdvertisingFollowsBearer
  BY DEF BrokerInv, OnTheBus, AdvertisingFollowsBearer, LoopIdle
<1>. QED
  BY BrokerInitially, <1>1, <1>2, PTL DEF HandbackSpec

=============================================================================
