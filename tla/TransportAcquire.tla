-------------------------- MODULE TransportAcquire --------------------------
(***************************************************************************)
(* How the media broker (bluez/broker.go) turns a pair of configured BlueZ *)
(* transports into one handed-off session: the acquire goroutines started  *)
(* by "pending" signals, the reservations they take, the descriptors they  *)
(* hold, the timer that expires a half pair, and what may happen to them   *)
(* meanwhile (SetConfiguration, ClearConfiguration, "idle" signals, a      *)
(* rebuilt D-Bus connection).  BlueZ is the environment.  What happens to  *)
(* a session after its handoff is the subject of MediaSession.             *)
(***************************************************************************)
EXTENDS Integers, FiniteSetsExt

CONSTANTS
    Workers,      \* slots for the goroutines that are alive at one time
    MaxConfigs,   \* bound on nextConfig
    MaxRebuilds   \* bound: D-Bus connections after the first

Paths == {"sink", "source"}
Leader == "sink"

VARIABLES
    conn,         \* connection, numbered
    configured,   \* path -> generation of its configuration, 0 for none
    nextConfig,
    acquiring, acquired, pairing,   \* the paths the three maps hold
    pending,      \* path -> the pendingTransport held for it
    session,      \* activeSession: live, and the paths seen idle
    work,         \* worker -> the goroutine in that slot
    timers,       \* running expirePending timers
    fds,          \* open transport descriptors of the process
    linked,       \* whether BlueZ links the two transports into one CIS
    remote,       \* path -> the state of the transport in BlueZ
    idles         \* paths with an "idle" signal not handled yet

blueZ == <<remote, idles>>
maps == <<configured, nextConfig, acquiring, acquired, pairing, pending, session>>
vars == <<conn, maps, work, timers, fds, blueZ, linked>>

----------------------------------------------------------------------------
(* The paths one TryAcquire covers: a linked pair shares one descriptor.   *)
Covered(p) == IF linked THEN Paths ELSE {p}

NoHold == [fd |-> 0, generation |-> 0]
NoSession == [live |-> FALSE, idle |-> {}]
Free == [pc |-> "free", path |-> Leader, reserved |-> {}, conn |-> 0,
         held |-> [p \in Paths |-> NoHold], release |-> {}]

(* Mutant: the duplicate of a linked pair is forgotten.                    *)
LeaderFdOnly(held) == {held[Leader].fd} \ {0}

HeldFds(held) == {held[p].fd : p \in Paths} \ {0}

(* The kernel hands out the lowest descriptor numbers that are free.       *)
NewFds(n) == {new \in kSubset(n, 1..(Cardinality(fds) + n) \ fds) :
                 \A k \in 1..(Cardinality(fds) + n) \ (fds \cup new) :
                     \A m \in new : m < k}

(* Mutant: the leader is released whether or not the pair is linked.       *)
AlwaysLeader(p) == Leader

(* pendingReleasePaths: a linked peer is released through its leader.      *)
ReleasePath(p) == IF linked THEN Leader ELSE p

(* All that is left to do is the deferred clean-up of the reservation.     *)
WorkerExits(w) ==
    work' = [work EXCEPT ![w] = [Free EXCEPT !.pc = "exit", !.reserved = work[w].reserved]]

(* Close what the worker holds, then release the given paths.              *)
WorkerReleases(w, held, paths) ==
    /\ fds' = fds \ HeldFds(held)
    /\ work' = [work EXCEPT ![w] = [Free EXCEPT !.pc = "release", !.release = paths,
                            !.reserved = work[w].reserved, !.conn = work[w].conn]]

----------------------------------------------------------------------------
(* endpoint.SetConfiguration and configure.  A held descriptor of the path *)
(* belongs to the previous configuration and is closed.                    *)
Configure(p) ==
    /\ remote[p] \in {"gone", "idle"}
    /\ nextConfig < MaxConfigs
    /\ nextConfig' = nextConfig + 1
    /\ configured' = [configured EXCEPT ![p] = nextConfig + 1]
    /\ fds' = fds \ {pending[p].fd}
    /\ pending' = [pending EXCEPT ![p] = NoHold]
    /\ acquiring' = acquiring \ {p}
    /\ acquired' = acquired \ {p}
    /\ pairing' = pairing \ {p}
    /\ remote' = [remote EXCEPT ![p] = "idle"]
    /\ UNCHANGED <<conn, linked, session, work, timers, idles>>

(* endpoint.ClearConfiguration and clear.                                  *)
Clear(p) ==
    /\ remote[p] # "gone"
    /\ remote' = [remote EXCEPT ![p] = "gone"]
    /\ configured' = [configured EXCEPT ![p] = 0]
    /\ fds' = fds \ {pending[p].fd}
    /\ pending' = [pending EXCEPT ![p] = NoHold]
    /\ acquiring' = acquiring \ {p}
    /\ pairing' = pairing \ {p}
    /\ acquired' = IF session.live THEN {} ELSE acquired \ {p}
    /\ session' = NoSession
    /\ UNCHANGED <<conn, linked, nextConfig, work, timers, idles>>

(* BlueZ moves a transport.  Its State signals are handled in order:       *)
(* handleSignal starts an acquire goroutine for "pending"; for "idle" it   *)
(* drops the reservations of the path, and the session once both are idle. *)
BlueZPending(p, w) ==
    /\ remote[p] = "idle" /\ p \notin idles
    /\ work[w].pc = "free"
    /\ remote' = [remote EXCEPT ![p] = "pending"]
    /\ work' = [work EXCEPT ![w] = [Free EXCEPT !.pc = "start", !.path = p]]
    /\ UNCHANGED <<conn, linked, maps, timers, fds, idles>>

BlueZIdle(p) ==
    /\ remote[p] \in {"pending", "active"}
    /\ remote' = [remote EXCEPT ![p] = "idle"]
    /\ idles' = idles \cup {p}
    /\ UNCHANGED <<conn, linked, maps, work, timers, fds>>

HandleIdle(p) ==
    /\ p \in idles
    /\ LET over == session.live /\ session.idle \cup {p} = Paths
       IN /\ acquiring' = acquiring \ {p}
          /\ pairing' = pairing \ {p}
          /\ acquired' = IF over THEN {} ELSE acquired \ {p}
          /\ session' = IF over \/ ~session.live THEN NoSession
                        ELSE [session EXCEPT !.idle = @ \cup {p}]
    /\ idles' = idles \ {p}
    /\ UNCHANGED <<conn, linked, configured, nextConfig, pending, work, timers, fds, remote>>

(* runBlueZOnce returns and starts over on a new connection: bluetoothd    *)
(* forgets the endpoints of the old one.  Before the first configuration   *)
(* that would only renumber the connection.                                *)
Forgets ==
    /\ conn < MaxRebuilds /\ nextConfig > 0
    /\ conn' = conn + 1
    /\ configured' = [p \in Paths |-> 0]
    /\ acquiring' = {} /\ acquired' = {} /\ pairing' = {}
    /\ session' = NoSession
    /\ pending' = [p \in Paths |-> NoHold]
    /\ remote' = [p \in Paths |-> "gone"]
    /\ idles' = {}
    /\ UNCHANGED <<linked, nextConfig, timers>>

Rebuild ==
    /\ Forgets
    /\ fds' = fds \ HeldFds(pending)
    /\ UNCHANGED work

(* Release, as BlueZ performs it.                                          *)
GiveBack(paths) ==
    LET given == {q \in paths : remote[q] = "active"} IN
    /\ remote' = [q \in Paths |-> IF q \in given THEN "idle" ELSE remote[q]]
    /\ idles' = idles \cup given

(* The session ends as MediaSession describes.                             *)
SessionEnds ==
    /\ session.live
    /\ session' = NoSession
    /\ acquired' = {}
    /\ GiveBack(Paths)
    /\ UNCHANGED <<conn, linked, configured, nextConfig, acquiring, pairing, pending,
                   work, timers, fds>>

----------------------------------------------------------------------------
(* acquire.                                                                *)

Busy(p) == p \in acquiring \cup acquired \cup pairing

(* An unreadable or invalid Links property, a follower of a linked pair,   *)
(* or a path that is spoken for.                                           *)
AcquireDeclines(w) ==
    /\ work[w].pc = "start"
    /\ work' = [work EXCEPT ![w] = Free]
    /\ UNCHANGED <<conn, linked, maps, timers, fds, blueZ>>

AcquireReserves(w) ==
    LET p == work[w].path IN
    /\ work[w].pc = "start"
    /\ linked => p = Leader
    /\ \A q \in Covered(p) : configured[q] # 0 /\ ~Busy(q)
    /\ acquiring' = acquiring \cup Covered(p)
    /\ work' = [work EXCEPT ![w].pc = "try", ![w].reserved = Covered(p), ![w].conn = conn,
                            ![w].held = [q \in Paths |->
                                IF q \in Covered(p)
                                THEN [fd |-> 0, generation |-> configured[q]]
                                ELSE NoHold]]
    /\ UNCHANGED <<conn, linked, configured, nextConfig, acquired, pairing, pending, session,
                   timers, fds, blueZ>>

TryAcquireFails(w) ==
    /\ work[w].pc = "try"
    /\ WorkerExits(w)
    /\ UNCHANGED <<conn, linked, maps, timers, fds, blueZ>>

(* TryAcquire, the reads that validate what it returned, and the duplicate *)
(* descriptor for a linked peer.                                           *)
TryAcquire(w) ==
    LET p == work[w].path IN
    /\ work[w].pc = "try" /\ work[w].conn = conn
    /\ \A q \in Covered(p) : remote[q] = "pending"
    /\ remote' = [q \in Paths |-> IF q \in Covered(p) THEN "active" ELSE remote[q]]
    /\ \/ \E new \in NewFds(Cardinality(Covered(p))) :
             \E number \in [Covered(p) -> new] :
                 /\ {number[q] : q \in Covered(p)} = new
                 /\ linked => number["sink"] < number["source"]
                 /\ fds' = fds \cup new
                 /\ work' = [work EXCEPT ![w].pc = "hold",
                                ![w].held = [q \in Paths |->
                                   IF q \in Covered(p)
                                   THEN [@[q] EXCEPT !.fd = number[q]] ELSE NoHold]]
       \/ WorkerReleases(w, Free.held, {p})
    /\ UNCHANGED <<conn, linked, maps, timers, idles>>

Outdated(held) ==
    \E p \in Paths : held[p].generation # 0 /\ held[p].generation # configured[p]

(* The configuration changed, or a descriptor is already held for a path.  *)
HoldRefused(w) ==
    LET p == work[w].path IN
    /\ work[w].pc = "hold"
    /\ Outdated(work[w].held) \/ \E q \in Covered(p) : pending[q] # NoHold
    /\ WorkerReleases(w, work[w].held, {p})
    /\ UNCHANGED <<conn, linked, maps, timers, blueZ>>

(* The descriptors are held.  Without its peer a transport waits for it,   *)
(* with a timer; an invalid pair goes back to BlueZ; a valid one is        *)
(* reserved while the call token is looked up.                             *)
Hold(w) ==
    LET p == work[w].path
        all == [q \in Paths |-> IF q \in Covered(p) THEN work[w].held[q] ELSE pending[q]]
        paired == \A q \in Paths : all[q] # NoHold
    IN
    /\ work[w].pc = "hold"
    /\ ~Outdated(work[w].held) /\ \A q \in Covered(p) : pending[q] = NoHold
    /\ IF ~paired
       THEN /\ pending' = all
            /\ timers' = timers \cup {[path |-> p, generation |-> all[p].generation]}
            /\ WorkerExits(w)
            /\ UNCHANGED <<pairing, fds>>
       ELSE /\ pending' = [q \in Paths |-> NoHold]
            /\ UNCHANGED timers
            /\ \/ WorkerReleases(w, all, {ReleasePath(q) : q \in Paths})
                  /\ UNCHANGED pairing
               \/ /\ pairing' = Paths
                  /\ work' = [work EXCEPT ![w].pc = "correlate", ![w].held = all]
                  /\ UNCHANGED fds
    /\ UNCHANGED <<conn, linked, configured, nextConfig, acquiring, acquired, session, blueZ>>

(* Mutant: the reservation of a pair outlives its goroutine.               *)
KeepPairing(held) == UNCHANGED pairing

(* clearPairingLocked.                                                     *)
ClearPairing(held) ==
    pairing' = {p \in pairing : held[p].generation # configured[p]}

PairCurrent(w) ==
    work[w].conn = conn /\ pairing = Paths /\ ~Outdated(work[w].held)

(* No call token in time, a pair that is not current, or a failed publish. *)
PairReturned(w) ==
    /\ work[w].pc = "correlate"
    /\ ClearPairing(work[w].held)
    /\ WorkerReleases(w, work[w].held, {ReleasePath(q) : q \in Paths})
    /\ UNCHANGED <<conn, linked, configured, nextConfig, acquiring, acquired, pending, session,
                   timers, blueZ>>

PublishPair(w) ==
    /\ work[w].pc = "correlate" /\ PairCurrent(w)
    /\ acquired' = Paths
    /\ session' = [live |-> TRUE, idle |-> {}]
    /\ ClearPairing(work[w].held)
    /\ fds' = fds \ HeldFds(work[w].held)
    /\ WorkerExits(w)
    /\ UNCHANGED <<conn, linked, configured, nextConfig, acquiring, pending, timers, blueZ>>

(* The deferred clean-up of the reservation.                               *)
AcquireReturns(w) ==
    /\ work[w].pc = "exit"
    /\ acquiring' = acquiring \ work[w].reserved
    /\ work' = [work EXCEPT ![w] = Free]
    /\ UNCHANGED <<conn, linked, configured, nextConfig, acquired, pairing, pending, session,
                   timers, fds, blueZ>>

----------------------------------------------------------------------------
(* expirePending.                                                          *)
ExpireNothing(t) ==
    /\ t \in timers
    /\ pending[t.path].generation # t.generation
    /\ timers' = timers \ {t}
    /\ UNCHANGED <<conn, linked, maps, work, fds, blueZ>>

ExpirePending(w, t) ==
    /\ t \in timers /\ work[w].pc = "free"
    /\ pending[t.path].generation = t.generation
    /\ timers' = timers \ {t}
    /\ pending' = [pending EXCEPT ![t.path] = NoHold]
    /\ fds' = fds \ {pending[t.path].fd}
    /\ work' = [work EXCEPT ![w] = [Free EXCEPT !.pc = "release", !.conn = conn,
                                       !.release = {ReleasePath(t.path)}]]
    /\ UNCHANGED <<conn, linked, configured, nextConfig, acquiring, acquired, pairing, session,
                   blueZ>>

(* releaseTransportPaths, by path, on the connection of the acquisition:   *)
(* Release through a connection that is gone does nothing, and a release   *)
(* that keeps failing closes the connection.                               *)
Release(w) ==
    /\ work[w].pc = "release"
    /\ \E p \in work[w].release :
         /\ GiveBack(IF work[w].conn = conn THEN Covered(p) ELSE {})
         /\ IF work[w].release = {p} THEN WorkerExits(w)
            ELSE work' = [work EXCEPT ![w].release = @ \ {p}]
    /\ UNCHANGED <<conn, linked, maps, timers, fds>>

ReleaseFails(w) ==
    /\ work[w].pc = "release" /\ work[w].conn = conn
    /\ Forgets
    /\ fds' = fds \ HeldFds(pending)
    /\ WorkerExits(w)

----------------------------------------------------------------------------
Init ==
    /\ conn = 0
    /\ configured = [p \in Paths |-> 0] /\ nextConfig = 0
    /\ acquiring = {} /\ acquired = {} /\ pairing = {}
    /\ pending = [p \in Paths |-> NoHold]
    /\ session = NoSession
    /\ work = [w \in Workers |-> Free]
    /\ timers = {} /\ fds = {}
    /\ remote = [p \in Paths |-> "gone"] /\ idles = {} /\ linked \in BOOLEAN

Work(w) == \/ AcquireDeclines(w) \/ AcquireReserves(w)
           \/ TryAcquireFails(w) \/ TryAcquire(w)
           \/ HoldRefused(w) \/ Hold(w) \/ PairReturned(w) \/ PublishPair(w)
           \/ Release(w) \/ ReleaseFails(w) \/ AcquireReturns(w)

Expire(t) == ExpireNothing(t) \/ \E w \in Workers : ExpirePending(w, t)

Next ==
    \/ \E p \in Paths : \/ Configure(p) \/ Clear(p)
                        \/ \E w \in Workers : BlueZPending(p, w)
                        \/ BlueZIdle(p) \/ HandleIdle(p)
    \/ Rebuild \/ SessionEnds
    \/ \E w \in Workers : Work(w)
    \/ \E t \in timers : Expire(t)

Spec == Init /\ [][Next]_vars

(* Goroutines and timers run.  The code never lacks a goroutine for an     *)
(* expired timer, the model may lack a slot: hence strong fairness.        *)
FairSpec == /\ Spec
            /\ \A w \in Workers : WF_vars(Work(w))
            /\ WF_vars(\E p \in Paths : HandleIdle(p))
            /\ \A p \in Paths : SF_vars(\E t \in timers : t.path = p /\ Expire(t))

----------------------------------------------------------------------------
(* Every variable keeps its type.                                          *)
TypeOK ==
    /\ conn \in 0..MaxRebuilds /\ nextConfig \in 0..MaxConfigs
    /\ configured \in [Paths -> 0..nextConfig]
    /\ acquiring \subseteq Paths /\ acquired \subseteq Paths /\ pairing \subseteq Paths
    /\ \A p \in Paths : pending[p].fd \in fds \cup {0} /\ pending[p].generation \in 0..nextConfig
    /\ session.live \in BOOLEAN /\ session.idle \subseteq Paths
    /\ DOMAIN work = Workers /\ IsFiniteSet(fds)
    /\ remote \in [Paths -> {"gone", "idle", "pending", "active"}]

(* However configuration changes, idle signals, expiry and rebuilding      *)
(* interleave with acquire, every open transport descriptor has exactly    *)
(* one owner, a pending entry or one goroutine: none leaks, and none is    *)
(* closed under somebody who still uses its number.                        *)
DescriptorsHaveOneOwner ==
    LET slots == ({"pending"} \X Paths) \cup ({"held"} \X (Workers \X Paths))
        fd(x) == IF x[1] = "pending" THEN pending[x[2]].fd ELSE work[x[2][1]].held[x[2][2]].fd
        used == {x \in slots : fd(x) # 0}
    IN /\ {fd(x) : x \in used} = fds
       /\ \A x, y \in used : fd(x) = fd(y) => x = y

(* A path that acquire treats as busy has somebody who will free it: a     *)
(* goroutine that deletes the reservation, or a session that will end.  An *)
(* orphaned entry would refuse every later stream on the path.             *)
ReservationsHaveOwners ==
    /\ \A p \in acquiring : \E w \in Workers : p \in work[w].reserved
    /\ \A p \in pairing : \E w \in Workers :
           work[w].pc = "correlate" /\ work[w].held[p].generation = configured[p]
    /\ \A p \in acquired : session.live /\ p \notin session.idle

(* A transport BlueZ has given to the broker is held, being given back, or *)
(* part of the session.                                                    *)
HasOwner(p) ==
    \/ session.live
    \/ pending[p] # NoHold
    \/ \E w \in Workers :
          /\ work[w].conn = conn
          /\ work[w].held[p].fd # 0 \/ \E q \in work[w].release : p \in Covered(q)

(* The broker never drops a transport it has acquired without releasing    *)
(* it, except with the session it is part of: when BlueZ clears one of its *)
(* transports, or has reported both idle, the session ends unreleased.     *)
DropsOnlyWithItsSession ==
    [][\A p \in Paths :
          (remote'[p] = "active" /\ (remote[p] = "active" => HasOwner(p)))
              => (HasOwner(p)' \/ (session.live /\ ~session'.live))]_vars

(* A transport held for its peer does not wait forever: the peer arrives,  *)
(* the path is configured anew or cleared, or expirePending gives it back. *)
HeldTransportIsResolved ==
    \A p \in Paths : pending[p] # NoHold ~> pending[p] = NoHold

============================================================================
