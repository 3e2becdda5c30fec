----------------------- MODULE TransportAcquireProofs -----------------------
(***************************************************************************)
(* Proofs about the acquisition of transports, for any number of           *)
(* goroutines, configurations and D-Bus connections.                       *)
(***************************************************************************)
EXTENDS TransportAcquire, TLAPS

HeldTransports == [fd : Nat, generation : Nat]

Steps == {"free", "start", "try", "hold", "correlate", "release", "exit"}

Goroutines == [pc : Steps, path : Paths, reserved : SUBSET Paths, conn : Nat,
               held : [Paths -> HeldTransports], release : SUBSET Paths]

(* What a goroutine may look like, given whether the pair is linked, the   *)
(* connection, the configurations and the last generation: where it may    *)
(* hold descriptors, reservations and paths to release, and that what it   *)
(* holds from an earlier connection is outdated.                           *)
IsWorker(r, pair, current, cfg, last) ==
    /\ r \in Goroutines
    /\ r.pc \in {"free", "start"} => r.reserved = {}
    /\ r.pc # "release" => r.release = {}
    /\ r.pc \notin {"hold", "correlate"} => \A p \in Paths : r.held[p].fd = 0
    /\ r.pc \in {"try", "hold"} => \A p \in Paths :
           IF pair \/ p = r.path THEN r.held[p].generation # 0 ELSE r.held[p] = NoHold
    /\ r.pc = "hold" => \A p \in Paths : pair \/ p = r.path => r.held[p].fd # 0
    /\ r.pc = "correlate" => \A p \in Paths : r.held[p].fd # 0 /\ r.held[p].generation # 0
    /\ \A p \in Paths : r.held[p].generation <= last
    /\ r.conn # current => \A p \in Paths :
           r.held[p].generation # 0 => r.held[p].generation # cfg[p]

WorkersInv ==
    /\ work = [w \in Workers |-> work[w]]
    /\ \A w \in Workers : IsWorker(work[w], linked, conn, configured, nextConfig)

(* A held transport is one of the present configuration.                   *)
MapsInv ==
    /\ conn \in Nat /\ nextConfig \in Nat
    /\ configured \in [Paths -> Nat]
    /\ \A p \in Paths : configured[p] <= nextConfig
    /\ acquiring \subseteq Paths /\ acquired \subseteq Paths /\ pairing \subseteq Paths
    /\ session \in [live : BOOLEAN, idle : SUBSET Paths]
    /\ pending \in [Paths -> HeldTransports]
    /\ \A p \in Paths : pending[p] # NoHold =>
           pending[p].fd # 0 /\ pending[p].generation # 0 /\ pending[p].generation = configured[p]
    /\ \A t \in timers : t.path \in Paths
    /\ linked \in BOOLEAN
    /\ remote = [p \in Paths |-> remote[p]]

PendingFds == [p \in Paths |-> pending[p].fd]
WorkerFds == [w \in Workers |-> [p \in Paths |-> work[w].held[p].fd]]

(* Every open descriptor has an owner and nobody owns one of another.      *)
Owned(pend, wk, open) ==
    /\ \A p \in Paths : pend[p] \in open \cup {0}
    /\ \A w \in Workers, p \in Paths : wk[w][p] \in open \cup {0}
    /\ \A f \in open : \/ \E p \in Paths : pend[p] = f
                       \/ \E w \in Workers, p \in Paths : wk[w][p] = f
    /\ \A p, q \in Paths : pend[p] # 0 /\ pend[p] = pend[q] => p = q
    /\ \A p, q \in Paths, w \in Workers : pend[p] # 0 => pend[p] # wk[w][q]
    /\ \A w, v \in Workers, p, q \in Paths :
           wk[w][p] # 0 /\ wk[w][p] = wk[v][q] => w = v /\ p = q

FdInv ==
    /\ fds \subseteq Nat \ {0}
    /\ Owned(PendingFds, WorkerFds, fds)

IInv == WorkersInv /\ MapsInv /\ FdInv /\ ReservationsHaveOwners

----------------------------------------------------------------------------
(* Ownership of descriptors.                                               *)

OthersSame(w, wk, wk2) ==
    \A v \in Workers : v # w => \A p \in Paths : wk2[v][p] = wk[v][p]

(* Closing what is held for some of the paths.                             *)
LEMMA OwnedClosesPending ==
    ASSUME NEW pend, NEW wk, NEW open, NEW pend2, NEW wk2, NEW S \in SUBSET Paths,
           Owned(pend, wk, open), 0 \notin open,
           \A p \in Paths : pend2[p] = IF p \in S THEN 0 ELSE pend[p],
           \A v \in Workers, p \in Paths : wk2[v][p] = wk[v][p]
    PROVE  Owned(pend2, wk2, open \ {pend[p] : p \in S})
<1>. DEFINE left == open \ {pend[p] : p \in S}
<1>1. \A p \in Paths : pend2[p] \in left \cup {0}
  BY DEF Owned
<1>2. \A w \in Workers, p \in Paths : wk2[w][p] \in left \cup {0}
  BY DEF Owned
<1>3. \A f \in left : \/ \E p \in Paths : pend2[p] = f
                      \/ \E w \in Workers, p \in Paths : wk2[w][p] = f
  BY DEF Owned
<1>. HIDE DEF left
<1>. QED
  BY <1>1, <1>2, <1>3 DEF Owned, left

(* Closing what one goroutine holds.                                       *)
LEMMA OwnedClosesHeld ==
    ASSUME NEW pend, NEW wk, NEW open, NEW wk2, NEW w \in Workers,
           Owned(pend, wk, open), 0 \notin open, OthersSame(w, wk, wk2),
           \A p \in Paths : wk2[w][p] = 0
    PROVE  Owned(pend, wk2, open \ {wk[w][p] : p \in Paths})
<1>. DEFINE left == open \ {wk[w][p] : p \in Paths}
<1>1. \A p \in Paths : pend[p] \in left \cup {0}
  BY DEF Owned
<1>2. \A v \in Workers, p \in Paths : wk2[v][p] \in left \cup {0}
  BY DEF Owned, OthersSame
<1>3. \A f \in left : \/ \E p \in Paths : pend[p] = f
                      \/ \E v \in Workers, p \in Paths : wk2[v][p] = f
  BY DEF Owned, OthersSame
<1>4. \A v, u \in Workers, p, q \in Paths :
           wk2[v][p] # 0 /\ wk2[v][p] = wk2[u][q] => v = u /\ p = q
  BY DEF Owned, OthersSame
<1>5. \A p, q \in Paths, v \in Workers : pend[p] # 0 => pend[p] # wk2[v][q]
  BY DEF Owned, OthersSame
<1>. HIDE DEF left
<1>. QED
  BY <1>1, <1>2, <1>3, <1>4, <1>5 DEF Owned, left

(* A goroutine leaves what it holds to the pending map.                    *)
LEMMA OwnedMovesToPending ==
    ASSUME NEW pend, NEW wk, NEW open, NEW pend2, NEW wk2, NEW w \in Workers, NEW S \in SUBSET Paths,
           Owned(pend, wk, open), 0 \notin open, OthersSame(w, wk, wk2),
           \A p \in Paths : wk2[w][p] = 0,
           \A p \in S : pend[p] = 0 /\ pend2[p] = wk[w][p],
           \A p \in Paths \ S : wk[w][p] = 0 /\ pend2[p] = pend[p]
    PROVE  Owned(pend2, wk2, open)
<1>1. \A p \in Paths : pend2[p] \in open \cup {0}
  BY DEF Owned
<1>2. \A v \in Workers, p \in Paths : wk2[v][p] \in open \cup {0}
  BY DEF Owned, OthersSame
<1>3. \A f \in open : \/ \E p \in Paths : pend2[p] = f
                      \/ \E v \in Workers, p \in Paths : wk2[v][p] = f
  BY DEF Owned, OthersSame
<1>4. \A v, u \in Workers, p, q \in Paths :
           wk2[v][p] # 0 /\ wk2[v][p] = wk2[u][q] => v = u /\ p = q
  BY DEF Owned, OthersSame
<1>5. \A p, q \in Paths, v \in Workers : pend2[p] # 0 => pend2[p] # wk2[v][q]
  BY DEF Owned, OthersSame
<1>6. \A p, q \in Paths : pend2[p] # 0 /\ pend2[p] = pend2[q] => p = q
  BY DEF Owned
<1>. QED
  BY <1>1, <1>2, <1>3, <1>4, <1>5, <1>6 DEF Owned

(* A goroutine takes over what is pending.                                 *)
LEMMA OwnedTakesPending ==
    ASSUME NEW pend, NEW wk, NEW open, NEW pend2, NEW wk2, NEW w \in Workers, NEW S \in SUBSET Paths,
           Owned(pend, wk, open), 0 \notin open, OthersSame(w, wk, wk2),
           \A p \in Paths : pend2[p] = 0,
           \A p \in S : pend[p] = 0 /\ wk2[w][p] = wk[w][p],
           \A p \in Paths \ S : wk[w][p] = 0 /\ wk2[w][p] = pend[p]
    PROVE  Owned(pend2, wk2, open)
<1>1. \A v \in Workers, p \in Paths : wk2[v][p] \in open \cup {0}
  BY DEF Owned, OthersSame
<1>2. \A f \in open : \E v \in Workers, p \in Paths : wk2[v][p] = f
  BY DEF Owned, OthersSame
<1>3. \A v, u \in Workers, p, q \in Paths :
           wk2[v][p] # 0 /\ wk2[v][p] = wk2[u][q] => v = u /\ p = q
  <2>1. \A p, q \in Paths : wk2[w][p] # 0 /\ wk2[w][p] = wk2[w][q] => p = q
    BY DEF Owned
  <2>2. \A v \in Workers, p, q \in Paths :
            v # w /\ wk2[w][p] # 0 => wk2[w][p] # wk2[v][q]
    BY DEF Owned, OthersSame
  <2>3. \A v, u \in Workers, p, q \in Paths : v # w /\ u # w
            /\ wk2[v][p] # 0 /\ wk2[v][p] = wk2[u][q] => v = u /\ p = q
    BY DEF Owned, OthersSame
  <2>. QED
    BY <2>1, <2>2, <2>3
<1>. QED
  BY <1>1, <1>2, <1>3 DEF Owned

(* A goroutine that held nothing holds just the new descriptors.           *)
Opens(w, wk, wk2, new) ==
    /\ \A p \in Paths : wk[w][p] = 0 /\ wk2[w][p] \in new \cup {0}
    /\ \A f \in new : \E p \in Paths : wk2[w][p] = f
    /\ \A p, q \in Paths : wk2[w][p] # 0 /\ wk2[w][p] = wk2[w][q] => p = q

(* Opening new descriptors.                                                *)
LEMMA OwnedOpens ==
    ASSUME NEW pend, NEW wk, NEW open, NEW wk2, NEW w \in Workers, NEW new,
           Owned(pend, wk, open), 0 \notin open, OthersSame(w, wk, wk2),
           0 \notin new, new \cap open = {}, Opens(w, wk, wk2, new)
    PROVE  Owned(pend, wk2, open \cup new)
<1>. USE DEF Opens
<1>1. \A v \in Workers, p \in Paths : wk2[v][p] \in open \cup new \cup {0}
  BY DEF Owned, OthersSame
<1>2. \A f \in open \cup new : \/ \E p \in Paths : pend[p] = f
                               \/ \E v \in Workers, p \in Paths : wk2[v][p] = f
  BY DEF Owned, OthersSame
<1>3. \A v, u \in Workers, p, q \in Paths :
           wk2[v][p] # 0 /\ wk2[v][p] = wk2[u][q] => v = u /\ p = q
  BY DEF Owned, OthersSame
<1>4. \A p, q \in Paths, v \in Workers : pend[p] # 0 => pend[p] # wk2[v][q]
  BY DEF Owned, OthersSame
<1>. QED
  BY <1>1, <1>2, <1>3, <1>4 DEF Owned

(* New descriptors have numbers of their own.                              *)
LEMMA NewFdsAreNew ==
    ASSUME NEW n, NEW new \in NewFds(n)
    PROVE  new \subseteq Nat \ {0} /\ new \cap fds = {}
<1>. DEFINE last == Cardinality(fds) + n
<1>1. new \in SUBSET ((1..last) \ fds)
  BY DEF NewFds, kSubset
<1>. HIDE DEF last
<1>2. \A k \in 1..last : k \in Nat \ {0}
  OBVIOUS
<1>. QED
  BY Zenon, <1>1, <1>2

----------------------------------------------------------------------------
(* Goroutines.                                                             *)

(* Goroutine records with one field replaced.                              *)
LEMMA OneField ==
    ASSUME NEW r \in Goroutines
    PROVE  /\ \A x \in Steps : [r EXCEPT !.pc = x] \in Goroutines
           /\ \A x \in Paths : [r EXCEPT !.path = x] \in Goroutines
           /\ \A x \in SUBSET Paths : [r EXCEPT !.reserved = x] \in Goroutines
           /\ \A x \in Nat : [r EXCEPT !.conn = x] \in Goroutines
           /\ \A x \in [Paths -> HeldTransports] : [r EXCEPT !.held = x] \in Goroutines
           /\ \A x \in SUBSET Paths : [r EXCEPT !.release = x] \in Goroutines
BY DEF Goroutines

(* Goroutine records with the fields replaced that the actions replace.    *)
LEMMA SeveralFields ==
    ASSUME NEW r \in Goroutines
    PROVE  /\ \A x \in Steps, y \in Paths : [r EXCEPT !.pc = x, !.path = y] \in Goroutines
           /\ \A x \in Steps, y \in SUBSET Paths : [r EXCEPT !.pc = x, !.reserved = y] \in Goroutines
           /\ \A x \in Steps, y \in [Paths -> HeldTransports] :
                  [r EXCEPT !.pc = x, !.held = y] \in Goroutines
           /\ \A x \in Steps, y \in Nat, z \in SUBSET Paths :
                  [r EXCEPT !.pc = x, !.conn = y, !.release = z] \in Goroutines
           /\ \A x \in Steps, y \in SUBSET Paths, z \in SUBSET Paths, n \in Nat :
                  [r EXCEPT !.pc = x, !.release = y, !.reserved = z, !.conn = n] \in Goroutines
           /\ \A x \in Steps, y \in SUBSET Paths, n \in Nat, z \in [Paths -> HeldTransports] :
                  [r EXCEPT !.pc = x, !.reserved = y, !.conn = n, !.held = z] \in Goroutines
<1>1. ASSUME NEW x, NEW y
      PROVE  /\ [r EXCEPT !.pc = x, !.path = y] = [[r EXCEPT !.pc = x] EXCEPT !.path = y]
             /\ [r EXCEPT !.pc = x, !.reserved = y] = [[r EXCEPT !.pc = x] EXCEPT !.reserved = y]
             /\ [r EXCEPT !.pc = x, !.held = y] = [[r EXCEPT !.pc = x] EXCEPT !.held = y]
  OBVIOUS
<1>2. ASSUME NEW x, NEW y, NEW z
      PROVE  [r EXCEPT !.pc = x, !.conn = y, !.release = z]
                = [[[r EXCEPT !.pc = x] EXCEPT !.conn = y] EXCEPT !.release = z]
  OBVIOUS
<1>3. ASSUME NEW x, NEW y, NEW z, NEW n
      PROVE  [r EXCEPT !.pc = x, !.release = y, !.reserved = z, !.conn = n]
                = [[[[r EXCEPT !.pc = x] EXCEPT !.release = y] EXCEPT !.reserved = z] EXCEPT !.conn = n]
  OBVIOUS
<1>4. ASSUME NEW x, NEW y, NEW n, NEW z
      PROVE  [r EXCEPT !.pc = x, !.reserved = y, !.conn = n, !.held = z]
                = [[[[r EXCEPT !.pc = x] EXCEPT !.reserved = y] EXCEPT !.conn = n] EXCEPT !.held = z]
  OBVIOUS
<1>5. /\ \A x \in Steps, y \in Paths : [r EXCEPT !.pc = x, !.path = y] \in Goroutines
      /\ \A x \in Steps, y \in SUBSET Paths : [r EXCEPT !.pc = x, !.reserved = y] \in Goroutines
      /\ \A x \in Steps, y \in [Paths -> HeldTransports] :
             [r EXCEPT !.pc = x, !.held = y] \in Goroutines
  BY Zenon, <1>1, OneField
<1>6. \A x \in Steps, y \in Nat, z \in SUBSET Paths :
             [r EXCEPT !.pc = x, !.conn = y, !.release = z] \in Goroutines
  BY Zenon, <1>2, OneField
<1>7. \A x \in Steps, y \in SUBSET Paths, z \in SUBSET Paths, n \in Nat :
             [r EXCEPT !.pc = x, !.release = y, !.reserved = z, !.conn = n] \in Goroutines
  BY Zenon, <1>3, OneField
<1>8. \A x \in Steps, y \in SUBSET Paths, n \in Nat, z \in [Paths -> HeldTransports] :
             [r EXCEPT !.pc = x, !.reserved = y, !.conn = n, !.held = z] \in Goroutines
  BY Zenon, <1>4, OneField
<1>. QED
  BY Zenon, <1>5, <1>6, <1>7, <1>8

(* A goroutine that holds nothing.                                         *)
LEMMA FreeHoldsNothing ==
    /\ Free \in Goroutines
    /\ Free.pc = "free" /\ Free.reserved = {} /\ Free.release = {}
    /\ \A p \in Paths : Free.held[p] = NoHold /\ Free.held[p].fd = 0 /\ Free.held[p].generation = 0
BY DEF Free, NoHold, HeldTransports, Goroutines, Steps, Paths, Leader

(* A goroutine that holds nothing, and what it reserves and releases.      *)
Idle(r, pc, R, S) ==
    /\ r \in Goroutines /\ r.held = Free.held
    /\ r.pc = pc /\ r.reserved = R /\ r.release = S

(* The forms such a goroutine takes.                                       *)
LEMMA IdleForms ==
    ASSUME NEW p \in Paths, NEW R \in SUBSET Paths, NEW S \in SUBSET Paths, NEW n \in Nat
    PROVE  /\ Idle(Free, "free", {}, {})
           /\ Idle([Free EXCEPT !.pc = "start", !.path = p], "start", {}, {})
           /\ Idle([Free EXCEPT !.pc = "exit", !.reserved = R], "exit", R, {})
           /\ Idle([Free EXCEPT !.pc = "release", !.release = S, !.reserved = R, !.conn = n],
                   "release", R, S)
           /\ Idle([Free EXCEPT !.pc = "release", !.conn = n, !.release = S], "release", {}, S)
           /\ [Free EXCEPT !.pc = "release", !.release = S, !.reserved = R, !.conn = n].conn = n
           /\ [Free EXCEPT !.pc = "release", !.conn = n, !.release = S].conn = n
<1>0. {"free", "start", "release", "exit"} \subseteq Steps
  BY DEF Steps
<1>1. /\ [Free EXCEPT !.pc = "start", !.path = p] \in Goroutines
      /\ [Free EXCEPT !.pc = "exit", !.reserved = R] \in Goroutines
      /\ [Free EXCEPT !.pc = "release", !.release = S, !.reserved = R, !.conn = n] \in Goroutines
      /\ [Free EXCEPT !.pc = "release", !.conn = n, !.release = S] \in Goroutines
  BY Zenon, <1>0, FreeHoldsNothing, SeveralFields
<1>2. Idle(Free, "free", {}, {})
  BY FreeHoldsNothing DEF Idle
<1>3. Idle([Free EXCEPT !.pc = "start", !.path = p], "start", {}, {})
  BY <1>1, FreeHoldsNothing DEF Idle, Goroutines
<1>4. Idle([Free EXCEPT !.pc = "exit", !.reserved = R], "exit", R, {})
  BY <1>1, FreeHoldsNothing DEF Idle, Goroutines
<1>5. Idle([Free EXCEPT !.pc = "release", !.release = S, !.reserved = R, !.conn = n], "release", R, S)
  BY <1>1, FreeHoldsNothing DEF Idle, Goroutines
<1>6. Idle([Free EXCEPT !.pc = "release", !.conn = n, !.release = S], "release", {}, S)
  BY <1>1, FreeHoldsNothing DEF Idle, Goroutines
<1>7. [Free EXCEPT !.pc = "release", !.release = S, !.reserved = R, !.conn = n].conn = n
  BY FreeHoldsNothing DEF Goroutines
<1>8. [Free EXCEPT !.pc = "release", !.conn = n, !.release = S].conn = n
  BY FreeHoldsNothing DEF Goroutines
<1>. QED
  BY Zenon, <1>2, <1>3, <1>4, <1>5, <1>6, <1>7, <1>8

(* They are goroutines as the invariant wants them.                        *)
LEMMA IdleIsWorker ==
    ASSUME NEW r, NEW pc, NEW R, NEW S, Idle(r, pc, R, S),
           \/ pc \in {"free", "start"} /\ R = {} /\ S = {}
           \/ pc = "exit" /\ S = {}
           \/ pc = "release",
           NEW pair, NEW current, NEW cfg, NEW last \in Nat
    PROVE  IsWorker(r, pair, current, cfg, last) /\ \A p \in Paths : r.held[p].fd = 0
<1>1. \A p \in Paths : r.held[p].fd = 0 /\ r.held[p].generation = 0
  BY FreeHoldsNothing DEF Idle
<1>. QED
  BY <1>1 DEF IsWorker, Idle

(* The goroutines after a step in which configurations only become newer   *)
(* or go away, all of them with the connection.                            *)
LEMMA WorkersStep ==
    ASSUME WorkersInv, MapsInv, linked' = linked, nextConfig' \in Nat, nextConfig <= nextConfig',
           work' = [v \in Workers |-> work'[v]],
           \A p \in Paths : \/ configured'[p] = configured[p] \/ configured'[p] = 0
                            \/ configured'[p] = nextConfig + 1,
           conn' # conn => \A p \in Paths : configured'[p] = 0,
           \A v \in Workers : \/ work'[v] = work[v]
                              \/ IsWorker(work'[v], linked', conn', configured', nextConfig')
    PROVE  WorkersInv'
<1>1. ASSUME NEW v \in Workers, work'[v] = work[v]
      PROVE  IsWorker(work[v], linked', conn', configured', nextConfig')
  <2>. DEFINE r == work[v]
  <2>1. IsWorker(r, linked, conn, configured, nextConfig)
    BY DEF WorkersInv
  <2>2. nextConfig \in Nat /\ configured \in [Paths -> Nat]
    BY DEF MapsInv
  <2>. HIDE DEF r
  <2>3. \A p \in Paths : r.held[p].generation \in Nat /\ r.held[p].generation <= nextConfig
    BY <2>1 DEF IsWorker, Goroutines, HeldTransports
  <2>4. \A p \in Paths : r.held[p].generation <= nextConfig'
    BY <2>2, <2>3
  <2>5. r.conn # conn' => \A p \in Paths :
            r.held[p].generation # 0 => r.held[p].generation # configured'[p]
    <3>1. r.conn # conn => \A p \in Paths :
             r.held[p].generation # 0 => r.held[p].generation # configured[p]
      BY <2>1 DEF IsWorker
    <3>. QED
      BY <2>2, <2>3, <3>1
  <2>6. IsWorker(r, linked', conn', configured', nextConfig')
    BY <2>1, <2>4, <2>5 DEF IsWorker
  <2>. QED
    BY <2>6 DEF r
<1>. QED
  BY <1>1 DEF WorkersInv

(* One goroutine moves and the others stay.                                *)
LEMMA WorkerMoves ==
    ASSUME WorkersInv, NEW w \in Workers, NEW r, work' = [work EXCEPT ![w] = r]
    PROVE  /\ work' = [v \in Workers |-> work'[v]]
           /\ work'[w] = r
           /\ \A v \in Workers : v # w => work'[v] = work[v]
BY DEF WorkersInv

----------------------------------------------------------------------------
(* Descriptors after a step.                                               *)

(* Nothing changes hands.                                                  *)
LEMMA FdsStay ==
    ASSUME FdInv, UNCHANGED <<pending, fds>>,
           \A v \in Workers, p \in Paths : work'[v].held[p].fd = work[v].held[p].fd
    PROVE  FdInv'
<1>1. PendingFds' = PendingFds /\ WorkerFds' = WorkerFds
  BY DEF PendingFds, WorkerFds
<1>. QED
  BY <1>1 DEF FdInv

(* What is held for some paths is closed.                                  *)
LEMMA FdsClosePending ==
    ASSUME FdInv, NEW S \in SUBSET Paths, fds' = fds \ {pending[p].fd : p \in S},
           \A p \in Paths : pending'[p].fd = IF p \in S THEN 0 ELSE pending[p].fd,
           \A v \in Workers, p \in Paths : work'[v].held[p].fd = work[v].held[p].fd
    PROVE  FdInv'
<1>1. /\ \A p \in Paths : PendingFds'[p] = IF p \in S THEN 0 ELSE PendingFds[p]
      /\ \A v \in Workers, p \in Paths : WorkerFds'[v][p] = WorkerFds[v][p]
      /\ fds' = fds \ {PendingFds[p] : p \in S}
  BY Zenon DEF PendingFds, WorkerFds
<1>2. fds \subseteq Nat \ {0} /\ Owned(PendingFds, WorkerFds, fds)
  BY DEF FdInv
<1>3. 0 \notin fds
  BY <1>2
<1>4. Owned(PendingFds', WorkerFds', fds')
  BY <1>1, <1>2, <1>3, OwnedClosesPending
<1>5. fds' \subseteq Nat \ {0}
  BY Zenon, <1>1, <1>2
<1>. QED
  BY <1>4, <1>5 DEF FdInv

(* What one goroutine holds is closed.                                     *)
LEMMA FdsCloseHeld ==
    ASSUME FdInv, NEW w \in Workers, UNCHANGED pending, fds' = fds \ HeldFds(work[w].held),
           \A p \in Paths : work'[w].held[p].fd = 0,
           \A v \in Workers : v # w => work'[v] = work[v]
    PROVE  FdInv'
<1>1. /\ PendingFds' = PendingFds
      /\ OthersSame(w, WorkerFds, WorkerFds')
      /\ \A p \in Paths : WorkerFds'[w][p] = 0
      /\ HeldFds(work[w].held) = {WorkerFds[w][p] : p \in Paths} \ {0}
  BY DEF PendingFds, WorkerFds, HeldFds, OthersSame
<1>2. fds \subseteq Nat \ {0} /\ Owned(PendingFds, WorkerFds, fds)
  BY DEF FdInv
<1>3. 0 \notin fds
  BY <1>2
<1>4. fds' = fds \ {WorkerFds[w][p] : p \in Paths}
  BY <1>1, <1>3
<1>5. Owned(PendingFds, WorkerFds', fds \ {WorkerFds[w][p] : p \in Paths})
  BY <1>1, <1>2, <1>3, OwnedClosesHeld
<1>6. fds' \subseteq Nat \ {0}
  BY Zenon, <1>2, <1>4
<1>. QED
  BY Zenon, <1>1, <1>4, <1>5, <1>6 DEF FdInv

(* A goroutine that holds nothing opens new descriptors.                   *)
LEMMA FdsOpen ==
    ASSUME FdInv, NEW w \in Workers, NEW new \in SUBSET (Nat \ {0}), UNCHANGED pending,
           fds' = fds \cup new, new \cap fds = {},
           \A v \in Workers : v # w => work'[v] = work[v],
           \A p \in Paths : work[w].held[p].fd = 0 /\ work'[w].held[p].fd \in new \cup {0},
           \A f \in new : \E p \in Paths : work'[w].held[p].fd = f,
           \A p, q \in Paths : work'[w].held[p].fd # 0 /\ work'[w].held[p].fd = work'[w].held[q].fd
                                  => p = q
    PROVE  FdInv'
<1>1. PendingFds' = PendingFds /\ OthersSame(w, WorkerFds, WorkerFds')
  BY DEF PendingFds, WorkerFds, OthersSame
<1>2. \A p \in Paths : WorkerFds[w][p] = work[w].held[p].fd /\ WorkerFds'[w][p] = work'[w].held[p].fd
  BY DEF WorkerFds
<1>3. Opens(w, WorkerFds, WorkerFds', new)
  BY <1>2 DEF Opens
<1>4. fds \subseteq Nat \ {0} /\ Owned(PendingFds, WorkerFds, fds)
  BY Zenon DEF FdInv
<1>5. 0 \notin fds /\ 0 \notin new
  BY <1>4
<1>6. Owned(PendingFds, WorkerFds', fds \cup new)
  BY ONLY <1>1, <1>3, <1>4, <1>5, new \cap fds = {}, w \in Workers, OwnedOpens
<1>8. fds' \subseteq Nat \ {0}
  BY <1>4
<1>. QED
  BY <1>1, <1>6, <1>8 DEF FdInv

(* A goroutine leaves what it holds to the pending map.                    *)
LEMMA FdsMoveToPending ==
    ASSUME FdInv, NEW w \in Workers, NEW S \in SUBSET Paths, UNCHANGED fds,
           \A v \in Workers : v # w => work'[v] = work[v],
           \A p \in Paths : work'[w].held[p].fd = 0,
           \A p \in S : pending[p].fd = 0 /\ pending'[p].fd = work[w].held[p].fd,
           \A p \in Paths \ S : work[w].held[p].fd = 0 /\ pending'[p].fd = pending[p].fd
    PROVE  FdInv'
<1>1. OthersSame(w, WorkerFds, WorkerFds')
  BY DEF WorkerFds, OthersSame
<1>2. \A p \in Paths : WorkerFds[w][p] = work[w].held[p].fd /\ WorkerFds'[w][p] = 0
  BY DEF WorkerFds
<1>3. \A p \in Paths : PendingFds[p] = pending[p].fd /\ PendingFds'[p] = pending'[p].fd
  BY DEF PendingFds
<1>4. /\ \A p \in S : PendingFds[p] = 0 /\ PendingFds'[p] = WorkerFds[w][p]
      /\ \A p \in Paths \ S : WorkerFds[w][p] = 0 /\ PendingFds'[p] = PendingFds[p]
  BY <1>2, <1>3
<1>5. Owned(PendingFds, WorkerFds, fds) /\ 0 \notin fds
  BY DEF FdInv
<1>6. Owned(PendingFds', WorkerFds', fds)
  BY <1>1, <1>2, <1>4, <1>5, OwnedMovesToPending
<1>. QED
  BY <1>6 DEF FdInv

(* The pair of what the goroutine holds for some paths and what is pending *)
(* for the others.                                                         *)
Pair(w, S, all) ==
    /\ \A p \in S : pending[p].fd = 0 /\ all[p].fd = work[w].held[p].fd
    /\ \A p \in Paths \ S : work[w].held[p].fd = 0 /\ all[p].fd = pending[p].fd

(* A goroutine takes what is pending for the other paths, and keeps it or  *)
(* closes the pair at once.                                                *)
LEMMA FdsTakePending ==
    ASSUME FdInv, NEW w \in Workers, NEW S \in SUBSET Paths, NEW all,
           \A v \in Workers : v # w => work'[v] = work[v],
           \A p \in Paths : pending'[p].fd = 0,
           Pair(w, S, all),
           \/ fds' = fds /\ \A p \in Paths : work'[w].held[p].fd = all[p].fd
           \/ fds' = fds \ HeldFds(all) /\ \A p \in Paths : work'[w].held[p].fd = 0
    PROVE  FdInv'
<1>. DEFINE H == [v \in Workers |-> [p \in Paths |-> IF v = w THEN all[p].fd ELSE WorkerFds[v][p]]]
            P == [p \in Paths |-> 0]
<1>1. OthersSame(w, WorkerFds, H) /\ OthersSame(w, H, WorkerFds')
  BY DEF WorkerFds, OthersSame
<1>2. \A p \in Paths : WorkerFds[w][p] = work[w].held[p].fd /\ WorkerFds'[w][p] = work'[w].held[p].fd
  BY DEF WorkerFds
<1>3. PendingFds' = P /\ \A p \in Paths : PendingFds[p] = pending[p].fd
  BY DEF PendingFds
<1>4. (\A p \in Paths : H[w][p] = all[p].fd) /\ (\A p \in Paths : P[p] = 0)
  OBVIOUS
<1>5. Owned(PendingFds, WorkerFds, fds) /\ 0 \notin fds /\ fds \subseteq Nat \ {0}
  BY DEF FdInv
<1>. HIDE DEF H, P
<1>6. /\ \A p \in S : PendingFds[p] = 0 /\ H[w][p] = WorkerFds[w][p]
      /\ \A p \in Paths \ S : WorkerFds[w][p] = 0 /\ H[w][p] = PendingFds[p]
  BY <1>2, <1>3, <1>4 DEF Pair
<1>7. Owned(P, H, fds)
  BY Zenon, <1>1, <1>4, <1>5, <1>6, OwnedTakesPending
<1>8. CASE fds' = fds /\ \A p \in Paths : work'[w].held[p].fd = all[p].fd
  <2>1. WorkerFds' = H
    BY <1>8 DEF WorkerFds, H
  <2>. QED
    BY <1>3, <1>5, <1>7, <1>8, <2>1 DEF FdInv
<1>9. CASE fds' = fds \ HeldFds(all) /\ \A p \in Paths : work'[w].held[p].fd = 0
  <2>1. fds' = fds \ {H[w][p] : p \in Paths}
    BY <1>4, <1>5, <1>9 DEF HeldFds
  <2>2. \A p \in Paths : WorkerFds'[w][p] = 0
    BY <1>2, <1>9
  <2>3. Owned(P, WorkerFds', fds \ {H[w][p] : p \in Paths})
    BY <1>1, <1>5, <1>7, <2>2, OwnedClosesHeld
  <2>4. fds' \subseteq Nat \ {0}
    BY Zenon, <1>5, <2>1
  <2>. QED
    BY <1>3, <2>1, <2>3, <2>4 DEF FdInv
<1>. QED
  BY <1>8, <1>9

----------------------------------------------------------------------------
(* Reservations after a step that takes none and in which no goroutine     *)
(* stops correlating.                                                      *)
LEMMA ReservationsStay ==
    ASSUME ReservationsHaveOwners, acquiring' \subseteq acquiring, pairing' \subseteq pairing,
           \A p \in pairing' : configured'[p] = configured[p],
           \A v \in Workers :
               /\ work'[v].reserved = work[v].reserved
               /\ work[v].pc = "correlate" => work'[v].pc = "correlate" /\ work'[v].held = work[v].held,
           \A p \in acquired' : session'.live /\ p \notin session'.idle
    PROVE  ReservationsHaveOwners'
<1>1. \A p \in acquiring' : \E v \in Workers : p \in work'[v].reserved
  BY DEF ReservationsHaveOwners
<1>2. \A p \in pairing' : \E v \in Workers :
          work'[v].pc = "correlate" /\ work'[v].held[p].generation = configured'[p]
  BY DEF ReservationsHaveOwners
<1>. QED
  BY <1>1, <1>2 DEF ReservationsHaveOwners

(* A held transport fits the invariant.                                    *)
LEMMA NoHoldIsHeld == NoHold \in HeldTransports /\ NoHold.fd = 0 /\ NoHold.generation = 0
BY DEF NoHold, HeldTransports

(* No session is a session.                                                *)
LEMMA NoSessionIsSession == NoSession \in [live : BOOLEAN, idle : SUBSET Paths] /\ ~NoSession.live
BY DEF NoSession

----------------------------------------------------------------------------
(* The steps of BlueZ and of its signals.                                  *)

(* SetConfiguration keeps the invariant: its generation is above all.      *)
LEMMA ConfigureStep ==
    ASSUME IInv, NEW p \in Paths, Configure(p)
    PROVE  IInv'
<1>0. WorkersInv /\ MapsInv /\ FdInv /\ ReservationsHaveOwners
  BY DEF IInv
<1>1. /\ nextConfig \in Nat /\ nextConfig' = nextConfig + 1
      /\ configured \in [Paths -> Nat] /\ configured' = [configured EXCEPT ![p] = nextConfig + 1]
      /\ pending \in [Paths -> HeldTransports] /\ pending' = [pending EXCEPT ![p] = NoHold]
      /\ fds' = fds \ {pending[p].fd}
      /\ pairing' = pairing \ {p} /\ acquiring' = acquiring \ {p} /\ acquired' = acquired \ {p}
      /\ UNCHANGED <<conn, linked, session, work, timers>>
  BY <1>0 DEF Configure, MapsInv
<1>2. WorkersInv'
  <2>1. work' = [v \in Workers |-> work'[v]] /\ \A v \in Workers : work'[v] = work[v]
    BY <1>0, <1>1 DEF WorkersInv
  <2>. QED
    BY <1>0, <1>1, <2>1, WorkersStep
<1>3. MapsInv'
  <2>1. /\ configured' \in [Paths -> Nat] /\ \A q \in Paths : configured'[q] <= nextConfig'
        /\ pending' \in [Paths -> HeldTransports]
        /\ \A q \in Paths : pending'[q] # NoHold => q # p /\ pending'[q] = pending[q]
                                                    /\ configured'[q] = configured[q]
    BY <1>0, <1>1, NoHoldIsHeld DEF MapsInv
  <2>2. remote' = [q \in Paths |-> remote'[q]]
    BY Zenon, <1>0 DEF MapsInv, Configure
  <2>. QED
    BY <1>0, <1>1, <2>1, <2>2 DEF MapsInv
<1>4. FdInv'
  <2>1. fds' = fds \ {pending[q].fd : q \in {p}}
    BY <1>1
  <2>2. \A q \in Paths : pending'[q].fd = IF q \in {p} THEN 0 ELSE pending[q].fd
    BY <1>1, NoHoldIsHeld
  <2>. QED
    BY ZenonT(60), <1>0, <1>1, <2>1, <2>2, FdsClosePending
<1>5. ReservationsHaveOwners'
  <2>1. \A q \in pairing' : configured'[q] = configured[q]
    BY <1>0, <1>1 DEF MapsInv
  <2>2. \A q \in acquired' : session'.live /\ q \notin session'.idle
    BY <1>0, <1>1 DEF ReservationsHaveOwners
  <2>. QED
    BY <1>0, <1>1, <2>1, <2>2, ReservationsStay
<1>. QED
  BY <1>2, <1>3, <1>4, <1>5 DEF IInv

(* ClearConfiguration keeps the invariant.                                 *)
LEMMA ClearStep ==
    ASSUME IInv, NEW p \in Paths, Clear(p)
    PROVE  IInv'
<1>0. WorkersInv /\ MapsInv /\ FdInv /\ ReservationsHaveOwners
  BY DEF IInv
<1>1. /\ nextConfig \in Nat
      /\ configured \in [Paths -> Nat] /\ configured' = [configured EXCEPT ![p] = 0]
      /\ pending \in [Paths -> HeldTransports] /\ pending' = [pending EXCEPT ![p] = NoHold]
      /\ fds' = fds \ {pending[p].fd}
      /\ pairing' = pairing \ {p} /\ acquiring' = acquiring \ {p}
      /\ acquired' = IF session.live THEN {} ELSE acquired \ {p}
      /\ session' = NoSession
      /\ UNCHANGED <<conn, linked, nextConfig, work, timers>>
  BY <1>0 DEF Clear, MapsInv
<1>2. WorkersInv'
  <2>1. work' = [v \in Workers |-> work'[v]] /\ \A v \in Workers : work'[v] = work[v]
    BY <1>0, <1>1 DEF WorkersInv
  <2>2. nextConfig <= nextConfig'
    BY <1>1
  <2>. QED
    BY <1>0, <1>1, <2>1, <2>2, WorkersStep
<1>3. MapsInv'
  <2>1. /\ configured' \in [Paths -> Nat] /\ \A q \in Paths : configured'[q] <= nextConfig'
        /\ pending' \in [Paths -> HeldTransports]
        /\ \A q \in Paths : pending'[q] # NoHold => q # p /\ pending'[q] = pending[q]
                                                    /\ configured'[q] = configured[q]
    BY <1>0, <1>1, NoHoldIsHeld DEF MapsInv
  <2>2. /\ remote' = [q \in Paths |-> remote'[q]]
        /\ acquired' \subseteq Paths
    BY Zenon, <1>0, <1>1 DEF MapsInv, Clear
  <2>. QED
    BY <1>0, <1>1, <2>1, <2>2, NoSessionIsSession DEF MapsInv
<1>4. FdInv'
  <2>1. fds' = fds \ {pending[q].fd : q \in {p}}
    BY <1>1
  <2>2. \A q \in Paths : pending'[q].fd = IF q \in {p} THEN 0 ELSE pending[q].fd
    BY <1>1, NoHoldIsHeld
  <2>. QED
    BY ZenonT(60), <1>0, <1>1, <2>1, <2>2, FdsClosePending
<1>5. ReservationsHaveOwners'
  <2>1. \A q \in pairing' : configured'[q] = configured[q]
    BY <1>0, <1>1 DEF MapsInv
  <2>2. acquired' = {}
    BY <1>0, <1>1 DEF ReservationsHaveOwners
  <2>. QED
    BY <1>0, <1>1, <2>1, <2>2, ReservationsStay
<1>. QED
  BY <1>2, <1>3, <1>4, <1>5 DEF IInv

(* An idle signal keeps the invariant.                                     *)
LEMMA HandleIdleStep ==
    ASSUME IInv, NEW p \in Paths, HandleIdle(p)
    PROVE  IInv'
<1>0. WorkersInv /\ MapsInv /\ FdInv /\ ReservationsHaveOwners
  BY DEF IInv
<1>1. /\ acquiring' \subseteq acquiring /\ pairing' \subseteq pairing
      /\ UNCHANGED <<conn, linked, configured, nextConfig, pending, work, timers, fds, remote>>
  BY DEF HandleIdle
<1>2. WorkersInv'
  BY <1>0, <1>1 DEF WorkersInv
<1>3. /\ session' \in [live : BOOLEAN, idle : SUBSET Paths]
      /\ acquired' \subseteq Paths
      /\ \A q \in acquired' : session'.live /\ q \notin session'.idle
  <2>1. session \in [live : BOOLEAN, idle : SUBSET Paths] /\ acquired \subseteq Paths
    BY <1>0 DEF MapsInv
  <2>2. \A q \in acquired : session.live /\ q \notin session.idle
    BY <1>0 DEF ReservationsHaveOwners
  <2>. QED
    BY <2>1, <2>2 DEF HandleIdle, NoSession
<1>4. MapsInv'
  BY <1>0, <1>1, <1>3 DEF MapsInv
<1>5. FdInv'
  BY <1>0, <1>1, FdsStay
<1>6. ReservationsHaveOwners'
  BY <1>0, <1>1, <1>3, ReservationsStay
<1>. QED
  BY <1>2, <1>4, <1>5, <1>6 DEF IInv

(* A session that ends, and a transport that BlueZ moves to idle, keep it. *)
LEMMA SessionStep ==
    ASSUME IInv, SessionEnds \/ \E p \in Paths : BlueZIdle(p)
    PROVE  IInv'
<1>0. WorkersInv /\ MapsInv /\ FdInv /\ ReservationsHaveOwners
  BY DEF IInv
<1>1. /\ UNCHANGED <<conn, linked, configured, nextConfig, acquiring, pairing, pending, work,
                      timers, fds>>
      /\ (acquired' = {} /\ session' = NoSession) \/ UNCHANGED <<acquired, session>>
      /\ remote' = [q \in Paths |-> remote'[q]]
  <2>1. CASE SessionEnds
    BY <2>1 DEF SessionEnds, GiveBack
  <2>2. CASE \E p \in Paths : BlueZIdle(p)
    BY Zenon, <1>0, <2>2 DEF BlueZIdle, maps, MapsInv
  <2>. QED
    BY <2>1, <2>2
<1>2. WorkersInv'
  BY <1>0, <1>1 DEF WorkersInv
<1>3. MapsInv'
  <2>1. session' \in [live : BOOLEAN, idle : SUBSET Paths] /\ acquired' \subseteq Paths
    BY <1>0, <1>1, NoSessionIsSession DEF MapsInv
  <2>. QED
    BY <1>0, <1>1, <2>1 DEF MapsInv
<1>4. FdInv'
  BY <1>0, <1>1, FdsStay
<1>5. ReservationsHaveOwners'
  <2>1. \A q \in acquired' : session'.live /\ q \notin session'.idle
    BY <1>0, <1>1 DEF ReservationsHaveOwners
  <2>. QED
    BY <1>0, <1>1, <2>1, ReservationsStay
<1>. QED
  BY <1>2, <1>3, <1>4, <1>5 DEF IInv

(* A new connection forgets every configuration and closes what is held;   *)
(* the goroutine that closed the old one has nothing left to release.      *)
LEMMA ForgetStep ==
    ASSUME IInv, Rebuild \/ \E w \in Workers : ReleaseFails(w)
    PROVE  IInv'
<1>0. WorkersInv /\ MapsInv /\ FdInv /\ ReservationsHaveOwners
  BY DEF IInv
<1>1. /\ conn' = conn + 1 /\ UNCHANGED <<linked, nextConfig, timers>>
      /\ configured' = [p \in Paths |-> 0]
      /\ acquiring' = {} /\ acquired' = {} /\ pairing' = {} /\ session' = NoSession
      /\ pending' = [p \in Paths |-> NoHold]
      /\ remote' = [p \in Paths |-> "gone"]
      /\ fds' = fds \ HeldFds(pending)
  BY DEF Rebuild, ReleaseFails, Forgets
<1>2. nextConfig \in Nat /\ conn \in Nat /\ nextConfig <= nextConfig'
  BY <1>0, <1>1 DEF MapsInv
<1>. DEFINE Kept ==
         /\ work' = [v \in Workers |-> work'[v]]
         /\ \A v \in Workers :
              /\ \/ work'[v] = work[v]
                 \/ IsWorker(work'[v], linked', conn', configured', nextConfig')
              /\ \A p \in Paths : work'[v].held[p].fd = work[v].held[p].fd
<1>3. Kept
  <2>1. CASE UNCHANGED work
    BY <1>0, <2>1 DEF WorkersInv
  <2>2. ASSUME NEW w \in Workers, ReleaseFails(w)
        PROVE  Kept
    <3>. DEFINE r == [Free EXCEPT !.pc = "exit", !.reserved = work[w].reserved]
    <3>1. work' = [work EXCEPT ![w] = r]
      BY Zenon, <2>2 DEF ReleaseFails, WorkerExits
    <3>2. work[w].reserved \in SUBSET Paths /\ \A p \in Paths : work[w].held[p].fd = 0
      BY <1>0, <2>2 DEF WorkersInv, IsWorker, Goroutines, ReleaseFails
    <3>3. Idle(r, "exit", work[w].reserved, {})
      BY Zenon, <3>2, IdleForms, FreeHoldsNothing, <1>2 DEF Goroutines
    <3>. HIDE DEF r
    <3>4. IsWorker(r, linked', conn', configured', nextConfig') /\ \A p \in Paths : r.held[p].fd = 0
      BY <1>1, <1>2, <3>3, IdleIsWorker
    <3>. QED
      BY ZenonT(60), <1>0, <3>1, <3>2, <3>4, WorkerMoves
  <2>. QED
    BY <2>1, <2>2 DEF Rebuild
<1>4. WorkersInv'
  BY <1>0, <1>1, <1>2, <1>3, WorkersStep
<1>5. MapsInv'
  BY <1>0, <1>1, <1>2, NoHoldIsHeld, NoSessionIsSession DEF MapsInv
<1>6. FdInv'
  <2>1. fds' = fds \ {pending[p].fd : p \in Paths}
    BY <1>0, <1>1 DEF HeldFds, FdInv
  <2>2. \A p \in Paths : pending'[p].fd = 0
    BY <1>1, NoHoldIsHeld
  <2>. QED
    BY <1>0, <1>3, <2>1, <2>2, FdsClosePending
<1>7. ReservationsHaveOwners'
  BY <1>1 DEF ReservationsHaveOwners
<1>. QED
  BY <1>4, <1>5, <1>6, <1>7 DEF IInv

(* A timer that finds nothing to expire keeps the invariant.               *)
LEMMA ExpireNothingStep ==
    ASSUME IInv, NEW t, ExpireNothing(t)
    PROVE  IInv'
<1>0. WorkersInv /\ MapsInv /\ FdInv /\ ReservationsHaveOwners
  BY DEF IInv
<1>1. timers' \subseteq timers /\ UNCHANGED <<conn, linked, maps, work, fds, blueZ>>
  BY DEF ExpireNothing
<1>2. WorkersInv' /\ FdInv' /\ ReservationsHaveOwners'
  BY <1>0, <1>1, FdsStay DEF maps, WorkersInv, ReservationsHaveOwners
<1>3. MapsInv'
  BY <1>0, <1>1 DEF MapsInv, maps, blueZ
<1>. QED
  BY <1>2, <1>3 DEF IInv

----------------------------------------------------------------------------
(* The steps of a goroutine that holds no descriptor.                      *)

(* What such a step keeps, whatever it does to the reservations.           *)
LEMMA IdleStep ==
    ASSUME IInv, NEW w \in Workers, work[w].pc \notin {"hold", "correlate"},
           NEW r, NEW pc, NEW R, NEW S, Idle(r, pc, R, S),
           \/ pc \in {"free", "start"} /\ R = {} /\ S = {}
           \/ pc = "exit" /\ S = {}
           \/ pc = "release",
           work' = [work EXCEPT ![w] = r],
           UNCHANGED <<conn, linked, configured, nextConfig, pending, fds>>
    PROVE  /\ WorkersInv' /\ FdInv'
           /\ work'[w] = r /\ \A v \in Workers : v # w => work'[v] = work[v]
           /\ \A v \in Workers : work[v].pc = "correlate" => work'[v] = work[v]
<1>0. WorkersInv /\ MapsInv /\ FdInv /\ nextConfig \in Nat
  BY Zenon DEF IInv, MapsInv
<1>1. IsWorker(r, linked, conn, configured, nextConfig) /\ \A p \in Paths : r.held[p].fd = 0
  BY <1>0, IdleIsWorker
<1>2. /\ work' = [v \in Workers |-> work'[v]] /\ work'[w] = r
      /\ \A v \in Workers : v # w => work'[v] = work[v]
  BY Zenon, <1>0, WorkerMoves
<1>3. WorkersInv'
  BY <1>0, <1>1, <1>2, WorkersStep
<1>4. \A p \in Paths : work[w].held[p].fd = 0
  BY Zenon, <1>0 DEF WorkersInv, IsWorker
<1>5. FdInv'
  BY Zenon, <1>0, <1>1, <1>2, <1>4, FdsStay
<1>. QED
  BY <1>2, <1>3, <1>5

(* A goroutine starts, or declines its path.                               *)
LEMMA StartStep ==
    ASSUME IInv, NEW w \in Workers,
           AcquireDeclines(w) \/ \E p \in Paths : BlueZPending(p, w)
    PROVE  IInv'
<1>0. WorkersInv /\ MapsInv /\ FdInv /\ ReservationsHaveOwners
  BY DEF IInv
<1>1. PICK p \in Paths : AcquireDeclines(w) \/ BlueZPending(p, w)
  BY DEF Paths
<1>. DEFINE r == IF AcquireDeclines(w) THEN Free ELSE [Free EXCEPT !.pc = "start", !.path = p]
            pc == IF AcquireDeclines(w) THEN "free" ELSE "start"
<1>2. /\ work' = [work EXCEPT ![w] = r] /\ work[w].pc \in {"free", "start"}
      /\ UNCHANGED <<conn, linked, maps, timers, fds>>
      /\ remote' = [q \in Paths |-> remote'[q]]
  BY Zenon, <1>0, <1>1 DEF AcquireDeclines, BlueZPending, blueZ, MapsInv
<1>3. Idle(r, pc, {}, {}) /\ pc \in {"free", "start"}
  <2>1. Idle(Free, "free", {}, {}) /\ Idle([Free EXCEPT !.pc = "start", !.path = p], "start", {}, {})
    BY Zenon, IdleForms, <1>0 DEF MapsInv
  <2>. QED
    BY <2>1
<1>. HIDE DEF r, pc
<1>4. work[w].reserved = {} /\ r.reserved = {}
  BY <1>0, <1>2, <1>3 DEF WorkersInv, IsWorker, Idle
<1>5. /\ WorkersInv' /\ FdInv'
      /\ work'[w] = r /\ \A v \in Workers : v # w => work'[v] = work[v]
      /\ \A v \in Workers : work[v].pc = "correlate" => work'[v] = work[v]
  BY Zenon, <1>2, <1>3, IdleStep DEF maps
<1>6. MapsInv'
  BY Zenon, <1>0, <1>2 DEF MapsInv, maps
<1>7. ReservationsHaveOwners'
  <2>1. \A v \in Workers : work'[v].reserved = work[v].reserved
    BY Zenon, <1>4, <1>5
  <2>2. \A q \in acquired' : session'.live /\ q \notin session'.idle
    BY <1>0, <1>2 DEF ReservationsHaveOwners, maps
  <2>. QED
    BY <1>0, <1>2, <1>5, <2>1, <2>2, ReservationsStay DEF maps
<1>. QED
  BY <1>5, <1>6, <1>7 DEF IInv

(* A goroutine goes on to its clean-up, or to releasing paths, without     *)
(* having held anything.                                                   *)
LEMMA GiveUpStep ==
    ASSUME IInv, NEW w \in Workers, work[w].pc \in {"try", "release"},
           NEW r, NEW S, 
           \/ r = [Free EXCEPT !.pc = "exit", !.reserved = work[w].reserved]
           \/ /\ S \in SUBSET Paths
              /\ r = [Free EXCEPT !.pc = "release", !.release = S,
                                  !.reserved = work[w].reserved, !.conn = work[w].conn],
           work' = [work EXCEPT ![w] = r],
           UNCHANGED <<conn, linked, maps, timers, fds>>,
           remote' = [q \in Paths |-> remote'[q]]
    PROVE  IInv'
<1>0. WorkersInv /\ MapsInv /\ FdInv /\ ReservationsHaveOwners
  BY DEF IInv
<1>1. work[w].reserved \in SUBSET Paths /\ work[w].conn \in Nat
  BY <1>0 DEF WorkersInv, IsWorker, Goroutines
<1>2. Idle(r, "exit", work[w].reserved, {}) \/ Idle(r, "release", work[w].reserved, S)
  <2>1. "sink" \in Paths /\ {} \in SUBSET Paths
    BY DEF Paths
  <2>2. /\ Idle([Free EXCEPT !.pc = "exit", !.reserved = work[w].reserved], "exit",
                work[w].reserved, {})
        /\ S \in SUBSET Paths => Idle([Free EXCEPT !.pc = "release", !.release = S,
                !.reserved = work[w].reserved, !.conn = work[w].conn], "release", work[w].reserved, S)
    BY Zenon, <1>1, <2>1, IdleForms
  <2>. QED
    BY <2>2
<1>3. /\ WorkersInv' /\ FdInv'
      /\ work'[w] = r /\ \A v \in Workers : v # w => work'[v] = work[v]
      /\ \A v \in Workers : work[v].pc = "correlate" => work'[v] = work[v]
  BY Zenon, <1>2, IdleStep DEF maps
<1>4. MapsInv'
  BY Zenon, <1>0 DEF MapsInv, maps
<1>5. ReservationsHaveOwners'
  <2>1. \A v \in Workers : work'[v].reserved = work[v].reserved
    BY <1>2, <1>3 DEF Idle
  <2>2. \A q \in acquired' : session'.live /\ q \notin session'.idle
    BY <1>0 DEF ReservationsHaveOwners, maps
  <2>. QED
    BY Zenon, <1>0, <1>3, <2>1, <2>2, ReservationsStay DEF maps
<1>. QED
  BY <1>3, <1>4, <1>5 DEF IInv

(* TryAcquire that fails, or whose result is refused at once.              *)
LEMMA TryFailsStep ==
    ASSUME IInv, NEW w \in Workers,
           \/ TryAcquireFails(w)
           \/ TryAcquire(w) /\ WorkerReleases(w, Free.held, {work[w].path})
    PROVE  IInv'
<1>0. WorkersInv /\ MapsInv /\ FdInv
  BY DEF IInv
<1>1. work[w].pc = "try" /\ UNCHANGED <<conn, linked, maps, timers>>
  BY Zenon DEF TryAcquireFails, TryAcquire
<1>2. work[w].path \in Paths
  BY Zenon, <1>0 DEF WorkersInv, IsWorker, Goroutines
<1>3. remote' = [q \in Paths |-> remote'[q]]
  BY <1>0 DEF TryAcquireFails, TryAcquire, MapsInv, blueZ
<1>4. fds' = fds
  BY FreeHoldsNothing DEF TryAcquireFails, WorkerReleases, HeldFds
<1>. DEFINE e == [Free EXCEPT !.pc = "exit", !.reserved = work[w].reserved]
            l == [Free EXCEPT !.pc = "release", !.release = {work[w].path},
                              !.reserved = work[w].reserved, !.conn = work[w].conn]
<1>5. work' = [work EXCEPT ![w] = e] \/ work' = [work EXCEPT ![w] = l]
  BY DEF TryAcquireFails, WorkerExits, WorkerReleases
<1>6. {work[w].path} \in SUBSET Paths
  BY <1>2
<1>. QED
  BY Zenon, <1>1, <1>3, <1>4, <1>5, <1>6, GiveUpStep

(* Changing fields of one goroutine replaces its record.                   *)
LEMMA FieldsOfWorker ==
    ASSUME WorkersInv, NEW w \in Workers, NEW x, NEW y, NEW z, NEW h
    PROVE  /\ [work EXCEPT ![w].release = z] = [work EXCEPT ![w] = [work[w] EXCEPT !.release = z]]
           /\ [work EXCEPT ![w].pc = x, ![w].held = h]
                 = [work EXCEPT ![w] = [work[w] EXCEPT !.pc = x, !.held = h]]
           /\ [work EXCEPT ![w].pc = x, ![w].reserved = y, ![w].conn = z, ![w].held = h]
                 = [work EXCEPT ![w] = [work[w] EXCEPT !.pc = x, !.reserved = y, !.conn = z, !.held = h]]
<1>1. work \in [Workers -> Goroutines]
  BY DEF WorkersInv, IsWorker
<1>. QED
  BY Zenon, <1>1 DEF Goroutines

(* releaseTransportPaths gives back one path after the other.              *)
LEMMA ReleaseStep ==
    ASSUME IInv, NEW w \in Workers, Release(w)
    PROVE  IInv'
<1>0. WorkersInv /\ MapsInv /\ FdInv /\ ReservationsHaveOwners
  BY DEF IInv
<1>1. work[w].pc = "release" /\ UNCHANGED <<conn, linked, maps, timers, fds>>
  BY DEF Release
<1>2. remote' = [q \in Paths |-> remote'[q]]
  BY DEF Release, GiveBack
<1>3. PICK p \in work[w].release :
          IF work[w].release = {p} THEN WorkerExits(w)
          ELSE work' = [work EXCEPT ![w].release = work[w].release \ {p}]
  BY DEF Release
<1>4. CASE WorkerExits(w)
  BY Zenon, <1>1, <1>2, <1>4, GiveUpStep DEF WorkerExits
<1>5. CASE work' = [work EXCEPT ![w].release = work[w].release \ {p}]
  <2>. DEFINE o == work[w]
              r == [o EXCEPT !.release = o.release \ {p}]
  <2>1. IsWorker(o, linked, conn, configured, nextConfig) /\ nextConfig \in Nat
    BY <1>0 DEF WorkersInv, MapsInv
  <2>2. work' = [work EXCEPT ![w] = r]
    BY Zenon, <1>0, <1>5, FieldsOfWorker
  <2>3. o \in Goroutines /\ o.release \in SUBSET Paths
    BY <2>1 DEF IsWorker, Goroutines
  <2>. HIDE DEF o
  <2>4. r \in Goroutines
    BY <2>3, OneField
  <2>5. /\ r.pc = o.pc /\ r.held = o.held /\ r.reserved = o.reserved /\ r.conn = o.conn
        /\ r.path = o.path
    BY <2>3 DEF Goroutines
  <2>6. o.pc = "release"
    BY Zenon, <1>1 DEF o
  <2>. HIDE DEF r
  <2>7. IsWorker(r, linked, conn, configured, nextConfig)
    BY <2>1, <2>4, <2>5, <2>6 DEF IsWorker
  <2>8. /\ work' = [v \in Workers |-> work'[v]] /\ work'[w] = r
        /\ \A v \in Workers : v # w => work'[v] = work[v]
    BY Zenon, <1>0, <2>2, WorkerMoves
  <2>9. \A v \in Workers : /\ work'[v].held = work[v].held /\ work'[v].reserved = work[v].reserved
                           /\ work'[v].pc = work[v].pc
    BY <2>5, <2>8 DEF o
  <2>10. WorkersInv'
    BY <1>0, <1>1, <2>1, <2>7, <2>8, WorkersStep DEF maps
  <2>11. FdInv'
    BY Zenon, <1>0, <1>1, <2>9, FdsStay DEF maps
  <2>12. MapsInv'
    BY Zenon, <1>0, <1>1, <1>2 DEF MapsInv, maps
  <2>13. ReservationsHaveOwners'
    <3>1. \A q \in acquired' : session'.live /\ q \notin session'.idle
      BY <1>0, <1>1 DEF ReservationsHaveOwners, maps
    <3>. QED
      BY Zenon, <1>0, <1>1, <2>9, <3>1, ReservationsStay DEF maps
  <2>. QED
    BY <2>10, <2>11, <2>12, <2>13 DEF IInv
<1>. QED
  BY <1>3, <1>4, <1>5

(* The deferred clean-up frees what the goroutine reserved.                *)
LEMMA ReturnStep ==
    ASSUME IInv, NEW w \in Workers, AcquireReturns(w)
    PROVE  IInv'
<1>0. WorkersInv /\ MapsInv /\ FdInv /\ ReservationsHaveOwners
  BY DEF IInv
<1>1. /\ work[w].pc = "exit" /\ work' = [work EXCEPT ![w] = Free]
      /\ acquiring' = acquiring \ work[w].reserved
      /\ UNCHANGED <<conn, linked, configured, nextConfig, acquired, pairing, pending, session,
                      timers, fds, remote>>
  BY DEF AcquireReturns, blueZ
<1>2. Idle(Free, "free", {}, {})
  BY FreeHoldsNothing DEF Idle
<1>3. /\ WorkersInv' /\ FdInv'
      /\ work'[w] = Free /\ \A v \in Workers : v # w => work'[v] = work[v]
      /\ \A v \in Workers : work[v].pc = "correlate" => work'[v] = work[v]
  BY Zenon, <1>1, <1>2, IdleStep
<1>4. MapsInv'
  BY Zenon, <1>0, <1>1 DEF MapsInv
<1>5. ReservationsHaveOwners'
  BY <1>0, <1>1, <1>3 DEF ReservationsHaveOwners
<1>. QED
  BY <1>3, <1>4, <1>5 DEF IInv

(* acquire reserves its paths under their present generations.             *)
LEMMA ReserveStep ==
    ASSUME IInv, NEW w \in Workers, AcquireReserves(w)
    PROVE  IInv'
<1>0. WorkersInv /\ MapsInv /\ FdInv /\ ReservationsHaveOwners
  BY DEF IInv
<1>. DEFINE o == work[w]
            C == Covered(o.path)
            h == [q \in Paths |-> IF q \in C THEN [fd |-> 0, generation |-> configured[q]] ELSE NoHold]
            r == [o EXCEPT !.pc = "try", !.reserved = C, !.conn = conn, !.held = h]
<1>1. /\ o.pc = "start" /\ \A q \in C : configured[q] # 0
      /\ acquiring' = acquiring \cup C
      /\ UNCHANGED <<conn, linked, configured, nextConfig, acquired, pairing, pending, session,
                      timers, fds, remote>>
  BY DEF AcquireReserves, blueZ
<1>2. work' = [work EXCEPT ![w] = r]
  BY ZenonT(60), <1>0, FieldsOfWorker DEF AcquireReserves
<1>3. /\ IsWorker(o, linked, conn, configured, nextConfig) /\ nextConfig \in Nat /\ conn \in Nat
      /\ configured \in [Paths -> Nat] /\ \A q \in Paths : configured[q] <= nextConfig
  BY <1>0 DEF WorkersInv, MapsInv
<1>4. o \in Goroutines /\ o.release = {} /\ o.reserved = {} /\ (\A q \in Paths : o.held[q].fd = 0)
  BY <1>1, <1>3 DEF IsWorker
<1>5. C \subseteq Paths /\ \A q \in Paths : q \in C <=> linked \/ q = o.path
  BY <1>4 DEF Covered, Goroutines
<1>. HIDE DEF o, C
<1>6. /\ h \in [Paths -> HeldTransports]
      /\ \A q \in Paths : /\ h[q].fd = 0 /\ h[q].generation <= nextConfig
                          /\ IF q \in C THEN h[q].generation = configured[q] ELSE h[q] = NoHold
  BY <1>3, NoHoldIsHeld DEF HeldTransports
<1>. HIDE DEF h
<1>7. r \in Goroutines
  BY Zenon, <1>3, <1>4, <1>5, <1>6, SeveralFields DEF Steps
<1>8. /\ r.pc = "try" /\ r.held = h /\ r.reserved = C /\ r.conn = conn
      /\ r.path = o.path /\ r.release = o.release
  BY Zenon, <1>4 DEF Goroutines
<1>. HIDE DEF r
<1>9. IsWorker(r, linked, conn, configured, nextConfig)
  BY <1>1, <1>4, <1>5, <1>6, <1>7, <1>8 DEF IsWorker
<1>10. /\ work' = [v \in Workers |-> work'[v]] /\ work'[w] = r
       /\ \A v \in Workers : v # w => work'[v] = work[v]
  BY Zenon, <1>0, <1>2, WorkerMoves
<1>11. WorkersInv'
  BY <1>0, <1>1, <1>3, <1>9, <1>10, WorkersStep
<1>12. FdInv'
  <2>1. \A v \in Workers, q \in Paths : work'[v].held[q].fd = work[v].held[q].fd
    BY ZenonT(60), <1>4, <1>6, <1>8, <1>10 DEF o
  <2>. QED
    BY Zenon, <1>0, <1>1, <2>1, FdsStay
<1>13. MapsInv'
  BY Zenon, <1>0, <1>1, <1>5 DEF MapsInv
<1>14. ReservationsHaveOwners'
  <2>1. \A p \in acquiring' : \E v \in Workers : p \in work'[v].reserved
    BY <1>0, <1>1, <1>4, <1>8, <1>10 DEF ReservationsHaveOwners, o
  <2>2. \A p \in pairing' : \E v \in Workers :
            work'[v].pc = "correlate" /\ work'[v].held[p].generation = configured'[p]
    BY <1>0, <1>1, <1>10 DEF ReservationsHaveOwners, o
  <2>. QED
    BY Zenon, <1>0, <1>1, <2>1, <2>2 DEF ReservationsHaveOwners
<1>. QED
  BY Zenon, <1>11, <1>12, <1>13, <1>14 DEF IInv

(* TryAcquire opens one descriptor, or two for a linked pair.              *)
LEMMA OpenStep ==
    ASSUME IInv, NEW w \in Workers, TryAcquire(w), ~WorkerReleases(w, Free.held, {work[w].path})
    PROVE  IInv'
<1>0. WorkersInv /\ MapsInv /\ FdInv /\ ReservationsHaveOwners
  BY Zenon DEF IInv
<1>. DEFINE o == work[w]
            C == Covered(o.path)
<1>. DEFINE Opened(new, number) ==
                /\ {number[q] : q \in C} = new
                /\ linked => number["sink"] < number["source"]
                /\ fds' = fds \cup new
                /\ work' = [work EXCEPT ![w].pc = "hold",
                               ![w].held = [q \in Paths |-> IF q \in C
                                  THEN [o.held[q] EXCEPT !.fd = number[q]] ELSE NoHold]]
<1>30. PICK new \in NewFds(Cardinality(C)) : \E number \in [C -> new] : Opened(new, number)
  BY DEF TryAcquire
<1>1. PICK number \in [C -> new] : Opened(new, number)
  BY Zenon, <1>30
<1>. DEFINE h == [q \in Paths |-> IF q \in C THEN [o.held[q] EXCEPT !.fd = number[q]] ELSE NoHold]
            r == [o EXCEPT !.pc = "hold", !.held = h]
<1>2. /\ o.pc = "try" /\ UNCHANGED <<conn, linked, maps, timers>>
      /\ remote' = [q \in Paths |-> remote'[q]]
  BY DEF TryAcquire
<1>3. work' = [work EXCEPT ![w] = r]
  BY ZenonT(60), <1>0, <1>1, FieldsOfWorker
<1>4. /\ IsWorker(o, linked, conn, configured, nextConfig) /\ nextConfig \in Nat
      /\ linked \in BOOLEAN
  BY <1>0 DEF WorkersInv, MapsInv
<1>5. /\ o \in Goroutines /\ o.release = {} /\ (\A q \in Paths : o.held[q].fd = 0)
      /\ \A q \in Paths : IF linked \/ q = o.path THEN o.held[q].generation # 0 ELSE o.held[q] = NoHold
  BY Zenon, <1>2, <1>4 DEF IsWorker
<1>6. C \subseteq Paths /\ (\A q \in Paths : q \in C <=> linked \/ q = o.path) /\ o.path \in Paths
  BY <1>5 DEF Covered, Goroutines
<1>7. new \subseteq Nat \ {0} /\ new \cap fds = {}
  BY <1>30, NewFdsAreNew
<1>. HIDE DEF o
<1>8. \A p, q \in C : number[p] = number[q] => p = q
  BY <1>1, <1>7 DEF Covered, Paths
<1>. HIDE DEF C
<1>9. /\ h \in [Paths -> HeldTransports]
      /\ \A q \in Paths : IF q \in C THEN h[q].fd = number[q] /\ h[q].generation = o.held[q].generation
                                     ELSE h[q] = NoHold
  BY <1>5, <1>7, NoHoldIsHeld DEF HeldTransports, Goroutines
<1>. HIDE DEF h
<1>10. r \in Goroutines
  BY Zenon, <1>5, <1>9, SeveralFields DEF Steps
<1>11. /\ r.pc = "hold" /\ r.held = h /\ r.reserved = o.reserved /\ r.conn = o.conn
       /\ r.path = o.path /\ r.release = o.release
  BY Zenon, <1>5 DEF Goroutines
<1>. HIDE DEF r
<1>12. \A q \in Paths : h[q].generation = o.held[q].generation
  BY <1>5, <1>6, <1>9, NoHoldIsHeld
<1>13. \A q \in C : h[q].fd # 0
  BY ZenonT(60), <1>6, <1>7, <1>9
<1>14. IsWorker(r, linked, conn, configured, nextConfig)
  BY <1>4, <1>5, <1>6, <1>9, <1>10, <1>11, <1>12, <1>13 DEF IsWorker
<1>15. /\ work' = [v \in Workers |-> work'[v]] /\ work'[w] = r
       /\ \A v \in Workers : v # w => work'[v] = work[v]
  BY Zenon, <1>0, <1>3, WorkerMoves
<1>16. WorkersInv'
  BY SMTT(60), <1>0, <1>2, <1>4, <1>14, <1>15, WorkersStep DEF maps
<1>17. FdInv'
  <2>3. \A q \in Paths : work[w].held[q].fd = 0 /\ work'[w].held[q].fd = h[q].fd
    BY <1>5, <1>11, <1>15 DEF o
  <2>4. \A q \in Paths : h[q].fd \in new \cup {0}
    BY <1>6, <1>7, <1>9, NoHoldIsHeld
  <2>5. \A f \in new : \E q \in Paths : h[q].fd = f
    BY <1>1, <1>6, <1>9
  <2>6. \A p, q \in Paths : h[p].fd # 0 /\ h[p].fd = h[q].fd => p = q
    BY <1>6, <1>8, <1>9, NoHoldIsHeld
  <2>7. \A p, q \in Paths : work'[w].held[p].fd # 0 /\ work'[w].held[p].fd = work'[w].held[q].fd
                                => p = q
    BY ZenonT(60), <2>3, <2>6
  <2>8. \A q \in Paths : work[w].held[q].fd = 0 /\ work'[w].held[q].fd \in new \cup {0}
    BY <2>3, <2>4
  <2>9. \A f \in new : \E q \in Paths : work'[w].held[q].fd = f
    BY Zenon, <2>3, <2>5
  <2>10. UNCHANGED pending /\ new \in SUBSET (Nat \ {0}) /\ fds' = fds \cup new
    BY Zenon, <1>1, <1>2, <1>7 DEF maps
  <2>. QED
    BY ONLY <1>0, <1>7, <1>15, <2>7, <2>8, <2>9, <2>10, w \in Workers, FdsOpen
<1>18. MapsInv'
  BY <1>0, <1>2 DEF MapsInv, maps
<1>19. ReservationsHaveOwners'
  <2>1. \A v \in Workers : /\ work'[v].reserved = work[v].reserved
                           /\ work[v].pc = "correlate" => work'[v] = work[v]
    BY <1>2, <1>11, <1>15 DEF o
  <2>2. \A q \in acquired' : session'.live /\ q \notin session'.idle
    BY <1>0, <1>2 DEF ReservationsHaveOwners, maps
  <2>. QED
    BY Zenon, <1>0, <1>2, <2>1, <2>2, ReservationsStay DEF maps
<1>. QED
  BY <1>16, <1>17, <1>18, <1>19 DEF IInv

----------------------------------------------------------------------------
(* The steps of a goroutine that holds descriptors.                        *)

(* It closes them and goes on to its clean-up, or to releasing paths.      *)
LEMMA CloseStep ==
    ASSUME IInv, NEW w \in Workers, NEW S \in SUBSET Paths, NEW r,
           \/ r = [Free EXCEPT !.pc = "exit", !.reserved = work[w].reserved]
           \/ r = [Free EXCEPT !.pc = "release", !.release = S,
                               !.reserved = work[w].reserved, !.conn = work[w].conn],
           work' = [work EXCEPT ![w] = r], fds' = fds \ HeldFds(work[w].held),
           UNCHANGED <<conn, linked, configured, nextConfig, pending>>
    PROVE  /\ WorkersInv' /\ FdInv'
           /\ work'[w].reserved = work[w].reserved
           /\ \A v \in Workers : v # w => work'[v] = work[v]
<1>0. WorkersInv /\ MapsInv /\ FdInv /\ nextConfig \in Nat
  BY DEF IInv, MapsInv
<1>1. work[w].reserved \in SUBSET Paths /\ work[w].conn \in Nat
  BY <1>0 DEF WorkersInv, IsWorker, Goroutines
<1>2. Idle(r, "exit", work[w].reserved, {}) \/ Idle(r, "release", work[w].reserved, S)
  <2>1. "sink" \in Paths
    BY DEF Paths
  <2>2. /\ Idle([Free EXCEPT !.pc = "exit", !.reserved = work[w].reserved], "exit",
                work[w].reserved, {})
        /\ Idle([Free EXCEPT !.pc = "release", !.release = S,
                !.reserved = work[w].reserved, !.conn = work[w].conn], "release", work[w].reserved, S)
    BY Zenon, <1>1, <2>1, IdleForms
  <2>. QED
    BY <2>2
<1>3. IsWorker(r, linked, conn, configured, nextConfig) /\ \A p \in Paths : r.held[p].fd = 0
  BY <1>0, <1>2, IdleIsWorker
<1>4. /\ work' = [v \in Workers |-> work'[v]] /\ work'[w] = r
      /\ \A v \in Workers : v # w => work'[v] = work[v]
  BY Zenon, <1>0, WorkerMoves
<1>5. WorkersInv'
  BY <1>0, <1>3, <1>4, WorkersStep
<1>6. FdInv'
  BY <1>0, <1>3, <1>4, FdsCloseHeld
<1>. QED
  BY Zenon, <1>2, <1>4, <1>5, <1>6 DEF Idle

(* A descriptor that is outdated, or not wanted, is closed.                *)
LEMMA HoldRefusedStep ==
    ASSUME IInv, NEW w \in Workers, HoldRefused(w)
    PROVE  IInv'
<1>0. WorkersInv /\ MapsInv /\ FdInv /\ ReservationsHaveOwners
  BY DEF IInv
<1>1. /\ work[w].pc = "hold" /\ WorkerReleases(w, work[w].held, {work[w].path})
      /\ UNCHANGED <<conn, linked, maps, timers, blueZ>>
  BY Zenon DEF HoldRefused
<1>2. {work[w].path} \in SUBSET Paths
  BY <1>0 DEF WorkersInv, IsWorker, Goroutines
<1>3. /\ WorkersInv' /\ FdInv'
      /\ work'[w].reserved = work[w].reserved
      /\ \A v \in Workers : v # w => work'[v] = work[v]
  BY Zenon, <1>1, <1>2, CloseStep DEF WorkerReleases, maps
<1>4. MapsInv'
  BY Zenon, <1>0, <1>1 DEF MapsInv, maps, blueZ
<1>5. ReservationsHaveOwners'
  <2>1. \A v \in Workers : /\ work'[v].reserved = work[v].reserved
                           /\ work[v].pc = "correlate" => work'[v] = work[v]
    BY Zenon, <1>1, <1>3
  <2>2. \A q \in acquired' : session'.live /\ q \notin session'.idle
    BY <1>0, <1>1 DEF ReservationsHaveOwners, maps
  <2>. QED
    BY Zenon, <1>0, <1>1, <2>1, <2>2, ReservationsStay DEF maps
<1>. QED
  BY Zenon, <1>3, <1>4, <1>5 DEF IInv

(* A pair that is given back or handed off is closed, and its reservation  *)
(* is freed; the pairs of other goroutines are other configurations.       *)
LEMMA PairStep ==
    ASSUME IInv, NEW w \in Workers, PairReturned(w) \/ PublishPair(w)
    PROVE  IInv'
<1>0. WorkersInv /\ MapsInv /\ FdInv /\ ReservationsHaveOwners
  BY DEF IInv
<1>. DEFINE S == {ReleasePath(q) : q \in Paths}
            e == [Free EXCEPT !.pc = "exit", !.reserved = work[w].reserved]
            l == [Free EXCEPT !.pc = "release", !.release = S,
                              !.reserved = work[w].reserved, !.conn = work[w].conn]
<1>1. /\ pairing' = {p \in pairing : work[w].held[p].generation # configured[p]}
      /\ fds' = fds \ HeldFds(work[w].held)
      /\ work' = [work EXCEPT ![w] = e] \/ work' = [work EXCEPT ![w] = l]
      /\ UNCHANGED <<conn, linked, configured, nextConfig, acquiring, pending, timers, remote>>
  BY Zenon DEF PairReturned, PublishPair, ClearPairing, WorkerReleases, WorkerExits, blueZ
<1>2. \/ UNCHANGED <<acquired, session>>
      \/ acquired' = Paths /\ session' = [live |-> TRUE, idle |-> {}]
  BY DEF PairReturned, PublishPair
<1>3. S \in SUBSET Paths
  BY DEF ReleasePath, Paths, Leader
<1>. HIDE DEF S
<1>4. /\ WorkersInv' /\ FdInv'
      /\ work'[w].reserved = work[w].reserved
      /\ \A v \in Workers : v # w => work'[v] = work[v]
  BY ZenonT(60), <1>1, <1>3, CloseStep
<1>5. MapsInv'
  <2>0. [live |-> TRUE, idle |-> {}] \in [live : BOOLEAN, idle : SUBSET Paths]
    OBVIOUS
  <2>1. session' \in [live : BOOLEAN, idle : SUBSET Paths] /\ acquired' \subseteq Paths
    BY Zenon, <1>0, <1>2, <2>0 DEF MapsInv
  <2>2. pairing' \subseteq Paths
    BY <1>0, <1>1 DEF MapsInv
  <2>. QED
    BY <1>0, <1>1, <2>1, <2>2 DEF MapsInv
<1>6. ReservationsHaveOwners'
  <2>1. \A p \in acquiring' : \E v \in Workers : p \in work'[v].reserved
    BY <1>0, <1>1, <1>4 DEF ReservationsHaveOwners
  <2>2. \A p \in pairing' : \E v \in Workers :
            work'[v].pc = "correlate" /\ work'[v].held[p].generation = configured'[p]
    BY <1>0, <1>1, <1>4 DEF ReservationsHaveOwners
  <2>3. \A p \in acquired' : session'.live /\ p \notin session'.idle
    BY <1>0, <1>2 DEF ReservationsHaveOwners
  <2>. QED
    BY <2>1, <2>2, <2>3 DEF ReservationsHaveOwners
<1>. QED
  BY <1>4, <1>5, <1>6 DEF IInv

(* An expired timer closes what is held and starts a goroutine to release  *)
(* its path.                                                               *)
LEMMA ExpirePendingStep ==
    ASSUME IInv, NEW w \in Workers, NEW t \in timers, ExpirePending(w, t)
    PROVE  IInv'
<1>0. WorkersInv /\ MapsInv /\ FdInv /\ ReservationsHaveOwners
  BY DEF IInv
<1>. DEFINE p == t.path
            S == {ReleasePath(p)}
            r == [Free EXCEPT !.pc = "release", !.conn = conn, !.release = S]
<1>1. /\ work[w].pc = "free" /\ work' = [work EXCEPT ![w] = r]
      /\ pending' = [pending EXCEPT ![p] = NoHold] /\ fds' = fds \ {pending[p].fd}
      /\ timers' \subseteq timers
      /\ UNCHANGED <<conn, linked, configured, nextConfig, acquiring, acquired, pairing, session,
                      remote>>
  BY DEF ExpirePending, blueZ
<1>2. p \in Paths /\ conn \in Nat /\ nextConfig \in Nat /\ pending \in [Paths -> HeldTransports]
  BY <1>0 DEF MapsInv
<1>. HIDE DEF p
<1>3. S \in SUBSET Paths
  BY <1>2 DEF ReleasePath, Paths, Leader
<1>. HIDE DEF S
<1>4. Idle(r, "release", {}, S)
  BY Zenon, <1>2, <1>3, IdleForms
<1>. HIDE DEF r
<1>5. IsWorker(r, linked, conn, configured, nextConfig) /\ \A q \in Paths : r.held[q].fd = 0
  BY <1>2, <1>4, IdleIsWorker
<1>6. /\ work' = [v \in Workers |-> work'[v]] /\ work'[w] = r
      /\ \A v \in Workers : v # w => work'[v] = work[v]
  BY Zenon, <1>0, <1>1, WorkerMoves
<1>7. WorkersInv'
  BY SMTT(60), <1>0, <1>1, <1>2, <1>5, <1>6, WorkersStep
<1>8. (\A q \in Paths : work[w].held[q].fd = 0) /\ work[w].reserved = {}
  BY <1>0, <1>1 DEF WorkersInv, IsWorker
<1>9. FdInv'
  <2>1. \A v \in Workers, q \in Paths : work'[v].held[q].fd = work[v].held[q].fd
    BY ZenonT(60), <1>5, <1>6, <1>8
  <2>2. fds' = fds \ {pending[q].fd : q \in {p}}
    BY <1>1
  <2>3. \A q \in Paths : pending'[q].fd = IF q \in {p} THEN 0 ELSE pending[q].fd
    BY Zenon, <1>1, <1>2, NoHoldIsHeld
  <2>. QED
    BY Zenon, <1>0, <1>2, <2>1, <2>2, <2>3, FdsClosePending
<1>10. MapsInv'
  <2>1. /\ pending' \in [Paths -> HeldTransports]
        /\ \A q \in Paths : pending'[q] # NoHold => pending'[q] = pending[q]
    BY ZenonT(60), <1>1, <1>2, NoHoldIsHeld
  <2>. QED
    BY <1>0, <1>1, <2>1 DEF MapsInv
<1>11. ReservationsHaveOwners'
  <2>1. \A v \in Workers : /\ work'[v].reserved = work[v].reserved
                           /\ work[v].pc = "correlate" => work'[v] = work[v]
    BY ZenonT(60), <1>1, <1>4, <1>6, <1>8 DEF Idle
  <2>2. \A q \in acquired' : session'.live /\ q \notin session'.idle
    BY ZenonT(60), <1>0, <1>1 DEF ReservationsHaveOwners
  <2>. QED
    BY <1>0, <1>1, <2>1, <2>2, ReservationsStay
<1>. QED
  BY <1>7, <1>9, <1>10, <1>11 DEF IInv

(* A current descriptor is held: it waits for its peer, or makes a pair    *)
(* that is given back or reserved.                                         *)
LEMMA HoldStep ==
    ASSUME IInv, NEW w \in Workers, Hold(w)
    PROVE  IInv'
<1>0. WorkersInv /\ MapsInv /\ FdInv /\ ReservationsHaveOwners
  BY DEF IInv
<1>. DEFINE o == work[w]
            C == Covered(o.path)
            all == [q \in Paths |-> IF q \in C THEN o.held[q] ELSE pending[q]]
            S == {ReleasePath(q) : q \in Paths}
            e == [Free EXCEPT !.pc = "exit", !.reserved = o.reserved]
            l == [Free EXCEPT !.pc = "release", !.release = S, !.reserved = o.reserved, !.conn = o.conn]
            r == [o EXCEPT !.pc = "correlate", !.held = all]
            waits == /\ pending' = all
                     /\ timers' = timers \cup {[path |-> o.path, generation |-> all[o.path].generation]}
                     /\ work' = [work EXCEPT ![w] = e] /\ UNCHANGED <<pairing, fds>>
            returns == /\ pending' = [q \in Paths |-> NoHold] /\ fds' = fds \ HeldFds(all)
                       /\ work' = [work EXCEPT ![w] = l] /\ UNCHANGED <<timers, pairing>>
            pairs == /\ pending' = [q \in Paths |-> NoHold] /\ pairing' = Paths
                     /\ \A q \in Paths : all[q] # NoHold
                     /\ work' = [work EXCEPT ![w] = r] /\ UNCHANGED <<timers, fds>>
<1>1. /\ o.pc = "hold" /\ ~Outdated(o.held) /\ \A q \in C : pending[q] = NoHold
      /\ UNCHANGED <<conn, linked, configured, nextConfig, acquiring, acquired, session, remote>>
  BY DEF Hold, blueZ
<1>2. waits \/ returns \/ pairs
  <2>1. [work EXCEPT ![w].pc = "correlate", ![w].held = all] = [work EXCEPT ![w] = r]
    BY ZenonT(60), <1>0, FieldsOfWorker
  <2>2. \/ WorkerExits(w) /\ waits
        \/ WorkerReleases(w, all, S) /\ pending' = [q \in Paths |-> NoHold] /\ UNCHANGED <<timers, pairing>>
        \/ /\ pending' = [q \in Paths |-> NoHold] /\ pairing' = Paths /\ UNCHANGED <<timers, fds>>
           /\ \A q \in Paths : all[q] # NoHold
           /\ work' = [work EXCEPT ![w].pc = "correlate", ![w].held = all]
    BY Zenon DEF Hold, WorkerExits
  <2>. QED
    BY Zenon, <2>1, <2>2 DEF WorkerReleases
<1>3. /\ IsWorker(o, linked, conn, configured, nextConfig) /\ nextConfig \in Nat
      /\ \A q \in Paths : configured[q] <= nextConfig
      /\ pending \in [Paths -> HeldTransports]
      /\ \A q \in Paths : pending[q] # NoHold =>
            pending[q].fd # 0 /\ pending[q].generation # 0 /\ pending[q].generation = configured[q]
  BY Zenon, <1>0 DEF WorkersInv, MapsInv
<1>4. /\ o \in Goroutines /\ o.release = {}
      /\ \A q \in Paths : IF linked \/ q = o.path THEN o.held[q].generation # 0 /\ o.held[q].fd # 0
                                                  ELSE o.held[q] = NoHold
  BY Zenon, <1>1, <1>3 DEF IsWorker
<1>5. /\ o.path \in Paths /\ o.reserved \in SUBSET Paths /\ o.conn \in Nat
      /\ o.held \in [Paths -> HeldTransports]
  BY <1>4 DEF Goroutines
<1>6. C \in SUBSET Paths /\ \A q \in Paths : q \in C <=> linked \/ q = o.path
  BY <1>5 DEF Covered
<1>7. S \in SUBSET Paths
  BY DEF ReleasePath, Paths, Leader
<1>. HIDE DEF o, C, S
<1>8. /\ \A q \in C : o.held[q].generation = configured[q] /\ o.held[q].generation # 0
      /\ \A q \in Paths \ C : o.held[q] = NoHold
  BY Zenon, <1>1, <1>4, <1>6 DEF Outdated
<1>9. /\ all \in [Paths -> HeldTransports]
      /\ \A q \in C : all[q] = o.held[q] /\ pending[q].fd = 0
      /\ \A q \in Paths \ C : all[q] = pending[q] /\ o.held[q].fd = 0
  BY ZenonT(60), <1>1, <1>3, <1>5, <1>6, <1>8, NoHoldIsHeld
<1>10. \A q \in Paths : all[q] # NoHold =>
            all[q].fd # 0 /\ all[q].generation # 0 /\ all[q].generation = configured[q]
  BY ZenonT(60), <1>3, <1>4, <1>6, <1>8, <1>9
<1>. HIDE DEF all
<1>11. /\ work' = [v \in Workers |-> work'[v]]
       /\ work'[w] = IF waits THEN e ELSE IF returns THEN l ELSE r
       /\ \A v \in Workers : v # w => work'[v] = work[v]
  BY <1>0, <1>2, WorkerMoves
<1>. DEFINE n == IF waits THEN e ELSE IF returns THEN l ELSE r
<1>12. waits \/ returns => /\ IsWorker(n, linked, conn, configured, nextConfig)
                           /\ n.reserved = o.reserved
                           /\ \A q \in Paths : n.held[q].fd = 0
  <2>1. "sink" \in Paths /\ {} \in SUBSET Paths
    BY DEF Paths
  <2>2. Idle(e, "exit", o.reserved, {}) /\ Idle(l, "release", o.reserved, S)
    BY ZenonT(60), <1>5, <1>7, <2>1, IdleForms
  <2>. HIDE DEF e, l
  <2>3. /\ IsWorker(e, linked, conn, configured, nextConfig) /\ \A q \in Paths : e.held[q].fd = 0
        /\ IsWorker(l, linked, conn, configured, nextConfig) /\ \A q \in Paths : l.held[q].fd = 0
    BY Zenon, <1>3, <2>2, IdleIsWorker
  <2>. HIDE DEF waits, returns
  <2>. QED
    BY <2>2, <2>3 DEF Idle
<1>13. pairs /\ ~waits /\ ~returns =>
           /\ IsWorker(n, linked, conn, configured, nextConfig)
           /\ n.reserved = o.reserved /\ n.held = all /\ n.pc = "correlate"
  <2>1. SUFFICES ASSUME \A q \in Paths : all[q] # NoHold
                 PROVE  /\ IsWorker(r, linked, conn, configured, nextConfig)
                        /\ r.reserved = o.reserved /\ r.held = all /\ r.pc = "correlate"
    BY <2>1
  <2>2. r \in Goroutines
    BY Zenon, <1>4, <1>9, SeveralFields DEF Steps
  <2>3. /\ r.pc = "correlate" /\ r.held = all /\ r.reserved = o.reserved /\ r.conn = o.conn
        /\ r.path = o.path /\ r.release = o.release
    BY <1>4 DEF Goroutines
  <2>4. o.conn = conn
    <3>1. o.conn # conn => \A q \in Paths :
              o.held[q].generation # 0 => o.held[q].generation # configured[q]
      BY ZenonT(60), <1>3 DEF IsWorker
    <3>. QED
      BY Zenon, <1>5, <1>6, <1>8, <3>1
  <2>. HIDE DEF r
  <2>5. \A q \in Paths : all[q].generation <= nextConfig
    BY <1>3, <1>10, <2>1
  <2>. QED
    BY ZenonT(60), <1>4, <1>10, <2>1, <2>2, <2>3, <2>4, <2>5 DEF IsWorker
<1>. HIDE DEF waits, returns, pairs, n
<1>14. /\ work'[w] = n /\ IsWorker(n, linked, conn, configured, nextConfig) /\ n.reserved = o.reserved
  BY <1>2, <1>11, <1>12, <1>13 DEF n
<1>15. WorkersInv'
  BY <1>0, <1>1, <1>3, <1>11, <1>14, WorkersStep
<1>16. FdInv'
  <2>0. /\ \A q \in C : pending[q].fd = 0 /\ all[q].fd = work[w].held[q].fd
        /\ \A q \in Paths \ C : work[w].held[q].fd = 0 /\ all[q].fd = pending[q].fd
    BY Zenon, <1>9 DEF o
  <2>pair. Pair(w, C, all)
    BY <2>0 DEF Pair
  <2>1. CASE waits
    <3>1. fds' = fds /\ pending' = all
      BY <2>1 DEF waits
    <3>2. \A q \in Paths : work'[w].held[q].fd = 0
      BY <1>12, <1>14, <2>1
    <3>. QED
      BY ZenonT(60), <1>0, <1>6, <1>11, <2>0, <3>1, <3>2, FdsMoveToPending
  <2>2. CASE returns
    <3>1. fds' = fds \ HeldFds(all) /\ (\A q \in Paths : pending'[q].fd = 0)
      BY Zenon, <2>2, NoHoldIsHeld DEF returns
    <3>2. \A q \in Paths : work'[w].held[q].fd = 0
      BY <1>12, <1>14, <2>2
    <3>. QED
      BY Zenon, <1>0, <1>6, <1>11, <2>pair, <3>1, <3>2, FdsTakePending
  <2>3. CASE pairs /\ ~waits /\ ~returns
    <3>1. fds' = fds /\ (\A q \in Paths : pending'[q].fd = 0)
      BY ZenonT(60), <2>3, NoHoldIsHeld DEF pairs
    <3>2. \A q \in Paths : work'[w].held[q].fd = all[q].fd
      BY Zenon, <1>13, <1>14, <2>3
    <3>. QED
      BY Zenon, <1>0, <1>6, <1>11, <2>pair, <3>1, <3>2, FdsTakePending
  <2>. QED
    BY ZenonT(60), <1>2, <2>1, <2>2, <2>3
<1>17. MapsInv'
  <2>1. /\ pending' = all \/ pending' = [q \in Paths |-> NoHold]
        /\ pairing' = pairing \/ pairing' = Paths
        /\ \A t \in timers' : t \in timers \/ t.path = o.path
    BY <1>2 DEF waits, returns, pairs
  <2>2. /\ pending' \in [Paths -> HeldTransports]
        /\ \A q \in Paths : pending'[q] # NoHold =>
            pending'[q].fd # 0 /\ pending'[q].generation # 0 /\ pending'[q].generation = configured[q]
    BY ZenonT(60), <1>9, <1>10, <2>1, NoHoldIsHeld
  <2>3. \A t \in timers' : t.path \in Paths
    BY ZenonT(60), <1>0, <1>5, <2>1 DEF MapsInv
  <2>. QED
    BY ZenonT(60), <1>0, <1>1, <2>1, <2>2, <2>3 DEF MapsInv
<1>18. ReservationsHaveOwners'
  <2>1. \A v \in Workers : /\ work'[v].reserved = work[v].reserved
                           /\ work[v].pc = "correlate" => work'[v] = work[v]
    BY ZenonT(60), <1>1, <1>11, <1>14 DEF o
  <2>2. \A q \in acquired' : session'.live /\ q \notin session'.idle
    BY Zenon, <1>0, <1>1 DEF ReservationsHaveOwners
  <2>3. CASE UNCHANGED pairing
    BY ZenonT(60), <1>0, <1>1, <2>1, <2>2, <2>3, ReservationsStay
  <2>4. CASE pairs /\ ~waits /\ ~returns
    <3>1. pairing' = Paths /\ \A q \in Paths : all[q] # NoHold
      BY Zenon, <2>4 DEF pairs
    <3>2. \A p \in pairing' : work'[w].pc = "correlate" /\ work'[w].held[p].generation = configured'[p]
      BY ZenonT(60), <1>1, <1>10, <1>13, <1>14, <2>4, <3>1
    <3>3. \A p \in acquiring' : \E v \in Workers : p \in work'[v].reserved
      BY <1>0, <1>1, <2>1 DEF ReservationsHaveOwners
    <3>. QED
      BY <2>2, <3>2, <3>3 DEF ReservationsHaveOwners
  <2>. QED
    BY <1>2, <2>3, <2>4 DEF waits, returns
<1>. QED
  BY Zenon, <1>15, <1>16, <1>17, <1>18 DEF IInv

----------------------------------------------------------------------------
(* The invariant and what follows from it.                                 *)

(* At the start nobody holds anything.                                     *)
LEMMA InitHolds == Init => IInv
<1>. SUFFICES ASSUME Init PROVE IInv
  BY Zenon
<1>1. MapsInv
  BY NoHoldIsHeld, NoSessionIsSession DEF Init, MapsInv
<1>2. WorkersInv
  <2>1. Idle(Free, "free", {}, {})
    BY FreeHoldsNothing DEF Idle
  <2>2. IsWorker(Free, linked, conn, configured, nextConfig)
    BY Zenon, <1>1, <2>1, IdleIsWorker DEF MapsInv
  <2>. QED
    BY Zenon, <2>2 DEF Init, WorkersInv
<1>3. FdInv
  <2>1. /\ \A p \in Paths : PendingFds[p] = 0
        /\ \A w \in Workers, p \in Paths : WorkerFds[w][p] = 0
    BY FreeHoldsNothing, NoHoldIsHeld DEF Init, PendingFds, WorkerFds
  <2>2. fds = {}
    BY Zenon DEF Init
  <2>. QED
    BY Zenon, <2>1, <2>2 DEF FdInv, Owned
<1>4. ReservationsHaveOwners
  BY DEF Init, ReservationsHaveOwners
<1>. QED
  BY <1>1, <1>2, <1>3, <1>4 DEF IInv

(* Every step keeps the invariant.                                         *)
LEMMA NextHolds == IInv /\ [Next]_vars => IInv'
<1>. SUFFICES ASSUME IInv, [Next]_vars PROVE IInv'
  BY ZenonT(60)
<1>1. CASE UNCHANGED vars
  BY <1>1 DEF vars, maps, blueZ, IInv, WorkersInv, MapsInv, FdInv, PendingFds, WorkerFds,
              ReservationsHaveOwners
<1>2. ASSUME NEW p \in Paths,
             \/ Configure(p) \/ Clear(p) \/ (\E w \in Workers : BlueZPending(p, w))
             \/ BlueZIdle(p) \/ HandleIdle(p)
      PROVE  IInv'
  BY Zenon, <1>2, ConfigureStep, ClearStep, StartStep, SessionStep, HandleIdleStep
<1>3. CASE Rebuild \/ SessionEnds
  BY Zenon, <1>3, ForgetStep, SessionStep
<1>4. ASSUME NEW w \in Workers, Work(w)
      PROVE  IInv'
  BY Zenon, <1>4, StartStep, ReserveStep, TryFailsStep, OpenStep, HoldRefusedStep, HoldStep,
     PairStep, ReleaseStep, ForgetStep, ReturnStep DEF Work
<1>5. ASSUME NEW t \in timers, Expire(t)
      PROVE  IInv'
  BY Zenon, <1>5, ExpireNothingStep, ExpirePendingStep DEF Expire
<1>. QED
  BY Zenon, <1>1, <1>2, <1>3, <1>4, <1>5 DEF Next

(* The invariant holds throughout.                                         *)
LEMMA Invariance == Spec => []IInv
BY InitHolds, NextHolds, PTL DEF Spec

(* A path that acquire treats as busy always has somebody who will free    *)
(* it, for any number of goroutines, configurations and connections.       *)
THEOREM ReservationsHaveOwnersAlways == Spec => []ReservationsHaveOwners
<1>1. IInv => ReservationsHaveOwners
  BY DEF IInv
<1>. QED
  BY <1>1, Invariance, PTL

(* The owners are as many as the descriptors.                              *)
LEMMA OneOwner == IInv => DescriptorsHaveOneOwner
<1>. SUFFICES ASSUME IInv PROVE DescriptorsHaveOneOwner
  OBVIOUS
<1>. DEFINE slots == ({"pending"} \X Paths) \cup ({"held"} \X (Workers \X Paths))
            fd(x) == IF x[1] = "pending" THEN pending[x[2]].fd ELSE work[x[2][1]].held[x[2][2]].fd
            used == {x \in slots : fd(x) # 0}
<1>0. FdInv /\ fds \subseteq Nat \ {0} /\ Owned(PendingFds, WorkerFds, fds)
  BY DEF IInv, FdInv
<1>1. /\ \A p \in Paths : PendingFds[p] = pending[p].fd
      /\ \A w \in Workers, p \in Paths : WorkerFds[w][p] = work[w].held[p].fd
  BY ZenonT(60) DEF PendingFds, WorkerFds
<1>2. ASSUME NEW x \in slots
      PROVE  \/ \E p \in Paths : x = <<"pending", p>> /\ fd(x) = PendingFds[p]
             \/ \E w \in Workers, p \in Paths : x = <<"held", <<w, p>>>> /\ fd(x) = WorkerFds[w][p]
  BY SMTT(60), <1>1
<1>3. /\ \A p \in Paths : <<"pending", p>> \in slots /\ fd(<<"pending", p>>) = PendingFds[p]
      /\ \A w \in Workers, p \in Paths :
             <<"held", <<w, p>>>> \in slots /\ fd(<<"held", <<w, p>>>>) = WorkerFds[w][p]
  BY ZenonT(60), <1>1
<1>. HIDE DEF fd, slots
<1>4. \A x \in used : fd(x) \in fds
  BY SMTT(60), <1>0, <1>2 DEF Owned
<1>5. ASSUME NEW n \in fds
      PROVE  \E x \in used : fd(x) = n
  <2>1. n # 0
    BY <1>0
  <2>2. CASE \E p \in Paths : PendingFds[p] = n
    BY Zenon, <1>3, <2>1, <2>2
  <2>3. CASE \E w \in Workers, p \in Paths : WorkerFds[w][p] = n
    BY ZenonT(60), <1>3, <2>1, <2>3
  <2>. QED
    BY <1>0, <2>2, <2>3 DEF Owned
<1>6. \A x, y \in used : fd(x) = fd(y) => x = y
  <2>. SUFFICES ASSUME NEW x \in used, NEW y \in used, fd(x) = fd(y) PROVE x = y
    OBVIOUS
  <2>1. fd(x) # 0 /\ x \in slots /\ y \in slots
    OBVIOUS
  <2>2. CASE \E p \in Paths : x = <<"pending", p>> /\ fd(x) = PendingFds[p]
    <3>1. PICK p \in Paths : x = <<"pending", p>> /\ fd(x) = PendingFds[p]
      BY Zenon, <2>2
    <3>2. \A w \in Workers, q \in Paths : fd(y) # WorkerFds[w][q]
      BY SMTT(60), <1>0, <2>1, <3>1 DEF Owned
    <3>3. PICK q \in Paths : y = <<"pending", q>> /\ fd(y) = PendingFds[q]
      BY Zenon, <1>2, <2>1, <3>2
    <3>4. p = q
      BY <1>0, <2>1, <3>1, <3>3 DEF Owned
    <3>. QED
      BY <3>1, <3>3, <3>4
  <2>3. CASE \E w \in Workers, p \in Paths : x = <<"held", <<w, p>>>> /\ fd(x) = WorkerFds[w][p]
    <3>1. PICK w \in Workers, p \in Paths : x = <<"held", <<w, p>>>> /\ fd(x) = WorkerFds[w][p]
      BY Zenon, <2>3
    <3>2. \A q \in Paths : fd(y) # PendingFds[q]
      BY <1>0, <2>1, <3>1 DEF Owned
    <3>3. PICK v \in Workers, q \in Paths : y = <<"held", <<v, q>>>> /\ fd(y) = WorkerFds[v][q]
      BY Zenon, <1>2, <2>1, <3>2
    <3>4. w = v /\ p = q
      BY <1>0, <2>1, <3>1, <3>3 DEF Owned
    <3>. QED
      BY <3>1, <3>3, <3>4
  <2>. QED
    BY <1>2, <2>1, <2>2, <2>3
<1>. HIDE DEF used
<1>7. {fd(x) : x \in used} = fds
  BY SMTT(60), <1>4, <1>5
<1>. QED
  BY Zenon, <1>6, <1>7 DEF DescriptorsHaveOneOwner, fd, slots, used

(* Every open transport descriptor always has exactly one owner: none      *)
(* leaks, and none is closed under somebody who still uses its number.     *)
THEOREM DescriptorsHaveOneOwnerAlways == Spec => []DescriptorsHaveOneOwner
BY OneOwner, Invariance, PTL

----------------------------------------------------------------------------
(* No acquired transport is dropped.                                       *)

(* What a goroutine holds or is about to release.                          *)
Gives(r, p) == r.held[p].fd # 0 \/ \E q \in r.release : p \in Covered(q)

Kept(p) == HasOwner(p)' \/ (session.live /\ ~session'.live)

(* An owner is the session, the pending map or a goroutine.                *)
LEMMA OwnerStays ==
    ASSUME NEW p, NEW w, HasOwner(p), UNCHANGED <<conn, linked>>,
           \A v \in Workers : v # w => work'[v] = work[v],
           pending[p] # NoHold => pending'[p] # NoHold \/ HasOwner(p)',
           w \in Workers /\ work[w].conn = conn /\ Gives(work[w], p) => HasOwner(p)'
    PROVE  Kept(p)
<1>1. CASE session.live
  BY Zenon, <1>1 DEF Kept, HasOwner
<1>2. CASE pending[p] # NoHold
  BY Zenon, <1>2 DEF Kept, HasOwner
<1>3. ASSUME NEW v \in Workers, work[v].conn = conn, Gives(work[v], p)
      PROVE  HasOwner(p)'
  <2>1. CASE v = w
    BY Zenon, <1>3, <2>1
  <2>2. CASE v # w
    BY Zenon, <1>3, <2>2 DEF HasOwner, Gives, Covered
  <2>. QED
    BY Zenon, <2>1, <2>2
<1>. QED
  BY ZenonT(60), <1>1, <1>2, <1>3 DEF HasOwner, Gives, Kept

(* A goroutine of this connection that holds or releases a path owns it.   *)
LEMMA GoroutineOwns ==
    ASSUME NEW p, NEW w \in Workers, work'[w].conn = conn', linked' = linked,
           Gives(work'[w], p)
    PROVE  HasOwner(p)' /\ Kept(p)
BY ZenonT(60) DEF Gives, HasOwner, Covered, Kept

(* Goroutines that are neither holding nor releasing.                      *)
LEMMA NothingToGive ==
    ASSUME WorkersInv, NEW w \in Workers, work[w].pc \in {"free", "start", "try", "exit"},
           NEW p \in Paths
    PROVE  ~Gives(work[w], p)
<1>1. IsWorker(work[w], linked, conn, configured, nextConfig)
  BY DEF WorkersInv
<1>. QED
  BY <1>1 DEF IsWorker, Gives

(* The leader of a linked pair stands for both paths.                      *)
LEMMA ReleaseCovers ==
    ASSUME NEW p \in Paths
    PROVE  p \in Covered(p) /\ p \in Covered(ReleasePath(p))
BY DEF Covered, ReleasePath

(* A goroutine that closed its descriptors releases on its connection.     *)
LEMMA ReleasingForm ==
    ASSUME WorkersInv, NEW w \in Workers, NEW S, NEW held, WorkerReleases(w, held, S)
    PROVE  /\ work'[w].conn = work[w].conn /\ work'[w].release = S
           /\ \A v \in Workers : v # w => work'[v] = work[v]
<1>. DEFINE r == [Free EXCEPT !.pc = "release", !.release = S,
                              !.reserved = work[w].reserved, !.conn = work[w].conn]
<1>1. r.conn = work[w].conn /\ r.release = S
  BY FreeHoldsNothing DEF Goroutines
<1>2. work' = [work EXCEPT ![w] = r]
  BY DEF WorkerReleases
<1>. HIDE DEF r
<1>3. work'[w] = r /\ \A v \in Workers : v # w => work'[v] = work[v]
  BY ZenonT(60), <1>2, WorkerMoves
<1>. QED
  BY <1>1, <1>3

(* Nor is anything dropped by a step that moves no goroutine.              *)
LEMMA OwnerStaysPut ==
    ASSUME NEW p, HasOwner(p), UNCHANGED <<conn, linked, work>>, pending'[p] = pending[p]
    PROVE  Kept(p)
BY DEF HasOwner, Kept, Covered

(* Steps of BlueZ, of its signals and of the broker's main loop.           *)
LEMMA SignalKeeps ==
    ASSUME IInv, NEW p \in Paths, remote'[p] = "active", remote[p] = "active" => HasOwner(p),
           \/ \E q \in Paths : \/ Configure(q) \/ Clear(q) \/ BlueZIdle(q) \/ HandleIdle(q)
                               \/ \E w \in Workers : BlueZPending(q, w)
           \/ SessionEnds \/ \E t \in timers : ExpireNothing(t)
    PROVE  Kept(p)
<1>0. WorkersInv /\ MapsInv
  BY Zenon DEF IInv
<1>1. ASSUME NEW q \in Paths, Configure(q) \/ Clear(q) \/ BlueZIdle(q) \/ HandleIdle(q)
      PROVE  Kept(p)
  <2>1. /\ UNCHANGED <<conn, linked, work>>
        /\ \/ p # q /\ pending'[p] = pending[p] /\ remote'[p] = remote[p]
           \/ pending'[p] = pending[p] /\ UNCHANGED remote
    BY ZenonT(60), <1>0, <1>1 DEF Configure, Clear, BlueZIdle, HandleIdle, maps, MapsInv
  <2>. QED
    BY Zenon, <2>1, OwnerStaysPut
<1>2. ASSUME NEW q \in Paths, NEW w \in Workers, BlueZPending(q, w)
      PROVE  Kept(p)
  <2>1. /\ UNCHANGED <<conn, linked, pending>> /\ work[w].pc = "free"
        /\ remote'[p] = remote[p]
    BY Zenon, <1>0, <1>2 DEF BlueZPending, maps, MapsInv
  <2>2. \A v \in Workers : v # w => work'[v] = work[v]
    BY ZenonT(60), <1>0, <1>2, WorkerMoves DEF BlueZPending
  <2>3. ~Gives(work[w], p)
    BY <1>0, <2>1, NothingToGive
  <2>. QED
    BY Zenon, <2>1, <2>2, <2>3, OwnerStays
<1>3. CASE SessionEnds
  BY ZenonT(60), <1>3, NoSessionIsSession DEF SessionEnds, Kept
<1>4. ASSUME NEW t \in timers, ExpireNothing(t)
      PROVE  Kept(p)
  <2>1. UNCHANGED <<conn, linked, work, pending, remote>>
    BY ZenonT(60), <1>4 DEF ExpireNothing, maps, blueZ
  <2>. QED
    BY <2>1, OwnerStaysPut
<1>. QED
  BY ZenonT(60), <1>1, <1>2, <1>3, <1>4

(* A goroutine that holds nothing drops nothing.                           *)
LEMMA QuietKeeps ==
    ASSUME IInv, NEW p \in Paths, remote'[p] = "active", remote[p] = "active" => HasOwner(p),
           NEW w \in Workers,
           \/ AcquireDeclines(w) \/ AcquireReserves(w) \/ TryAcquireFails(w) \/ AcquireReturns(w)
    PROVE  Kept(p)
<1>0. WorkersInv /\ MapsInv
  BY Zenon DEF IInv
<1>1. UNCHANGED <<conn, linked, pending, remote>> /\ work[w].pc \in {"start", "try", "exit"}
  BY ZenonT(60) DEF AcquireDeclines, AcquireReserves, TryAcquireFails, AcquireReturns, maps, blueZ
<1>2. \E r : work' = [work EXCEPT ![w] = r]
  <2>1. CASE AcquireReserves(w)
    <3>. DEFINE C == Covered(work[w].path)
                h == [q \in Paths |-> IF q \in C THEN [fd |-> 0, generation |-> configured[q]] ELSE NoHold]
    <3>1. work' = [work EXCEPT ![w].pc = "try", ![w].reserved = C, ![w].conn = conn, ![w].held = h]
      BY <2>1 DEF AcquireReserves
    <3>. HIDE DEF C, h
    <3>2. work' = [work EXCEPT ![w] = [work[w] EXCEPT !.pc = "try", !.reserved = C, !.conn = conn,
                                                      !.held = h]]
      BY ZenonT(60), <1>0, <3>1, FieldsOfWorker
    <3>. QED
      BY Zenon, <3>2
  <2>2. CASE ~AcquireReserves(w)
    BY <2>2 DEF AcquireDeclines, TryAcquireFails, AcquireReturns, WorkerExits
  <2>. QED
    BY <2>1, <2>2
<1>3. \A v \in Workers : v # w => work'[v] = work[v]
  BY Zenon, <1>0, <1>2, WorkerMoves
<1>4. ~Gives(work[w], p)
  BY <1>0, <1>1, NothingToGive
<1>. QED
  BY ZenonT(60), <1>1, <1>3, <1>4, OwnerStays

(* What TryAcquire returned is held by the goroutine, or released at once. *)
LEMMA TryKeeps ==
    ASSUME IInv, NEW p \in Paths, remote'[p] = "active", remote[p] = "active" => HasOwner(p),
           NEW w \in Workers, TryAcquire(w), IInv'
    PROVE  Kept(p)
<1>0. WorkersInv /\ MapsInv /\ WorkersInv'
  BY Zenon DEF IInv
<1>1. /\ UNCHANGED <<conn, linked, pending>> /\ work[w].pc = "try" /\ work[w].conn = conn
      /\ remote' = [q \in Paths |-> IF q \in Covered(work[w].path) THEN "active" ELSE remote[q]]
  BY SMTT(60) DEF TryAcquire, maps
<1>2. /\ work[w] \in Goroutines /\ work'[w] \in Goroutines
      /\ IsWorker(work'[w], linked', conn', configured', nextConfig')
      /\ work[w].path \in Paths /\ work[w].conn \in Nat
  BY Zenon, <1>0 DEF WorkersInv, IsWorker, Goroutines
<1>3. \/ WorkerReleases(w, Free.held, {work[w].path})
      \/ \E h : work' = [work EXCEPT ![w].pc = "hold", ![w].held = h]
  BY DEF TryAcquire
<1>4. CASE WorkerReleases(w, Free.held, {work[w].path})
  <2>1. /\ work'[w].conn = conn /\ work'[w].release = {work[w].path}
        /\ \A v \in Workers : v # w => work'[v] = work[v]
    BY ZenonT(60), <1>0, <1>1, <1>4, ReleasingForm
  <2>2. CASE p \in Covered(work[w].path)
    BY ZenonT(60), <1>1, <2>1, <2>2, GoroutineOwns DEF Gives
  <2>3. CASE p \notin Covered(work[w].path)
    BY ZenonT(60), <1>0, <1>1, <2>1, <2>3, NothingToGive, OwnerStays
  <2>. QED
    BY Zenon, <2>2, <2>3
<1>5. ASSUME NEW h, work' = [work EXCEPT ![w].pc = "hold", ![w].held = h]
      PROVE  Kept(p)
  <2>. DEFINE r == [work[w] EXCEPT !.pc = "hold", !.held = h]
  <2>1. work' = [work EXCEPT ![w] = r]
    BY ZenonT(60), <1>0, <1>5, FieldsOfWorker
  <2>2. r.pc = "hold" /\ r.conn = work[w].conn /\ r.path = work[w].path
    BY <1>2 DEF Goroutines
  <2>. HIDE DEF r
  <2>3. work'[w] = r /\ \A v \in Workers : v # w => work'[v] = work[v]
    BY Zenon, <1>0, <2>1, WorkerMoves
  <2>4. CASE p \in Covered(work[w].path)
    <3>1. work'[w].held[p].fd # 0
      BY ZenonT(60), <1>1, <1>2, <2>2, <2>3, <2>4 DEF IsWorker, Covered
    <3>. QED
      BY ZenonT(60), <1>1, <2>2, <2>3, <3>1, GoroutineOwns DEF Gives
  <2>5. CASE p \notin Covered(work[w].path)
    BY ZenonT(60), <1>0, <1>1, <2>3, <2>5, NothingToGive, OwnerStays
  <2>. QED
    BY Zenon, <2>4, <2>5
<1>. QED
  BY Zenon, <1>3, <1>4, <1>5

(* A refused descriptor is released.                                       *)
LEMMA RefusedKeeps ==
    ASSUME IInv, NEW p \in Paths, remote'[p] = "active", remote[p] = "active" => HasOwner(p),
           NEW w \in Workers, HoldRefused(w)
    PROVE  Kept(p)
<1>0. WorkersInv /\ MapsInv
  BY DEF IInv
<1>1. /\ UNCHANGED <<conn, linked, pending, remote>> /\ work[w].pc = "hold"
      /\ WorkerReleases(w, work[w].held, {work[w].path})
  BY ZenonT(60) DEF HoldRefused, maps, blueZ
<1>2. /\ IsWorker(work[w], linked, conn, configured, nextConfig)
      /\ work[w].path \in Paths /\ work[w].conn \in Nat
  BY <1>0 DEF WorkersInv, IsWorker, Goroutines
<1>3. /\ work'[w].conn = work[w].conn /\ work'[w].release = {work[w].path}
      /\ \A v \in Workers : v # w => work'[v] = work[v]
  BY Zenon, <1>0, <1>1, ReleasingForm
<1>4. work[w].conn = conn /\ Gives(work[w], p) => HasOwner(p)'
  <2>1. Gives(work[w], p) => p \in Covered(work[w].path)
    BY Zenon, <1>1, <1>2, NoHoldIsHeld DEF IsWorker, Gives, Covered
  <2>. QED
    BY Zenon, <1>1, <1>3, <2>1, GoroutineOwns DEF Gives
<1>. QED
  BY Zenon, <1>1, <1>3, <1>4, OwnerStays

(* A held descriptor waits as a pending one, or its pair is kept or        *)
(* released by the goroutine, whose connection is the present one.         *)
LEMMA HoldKeeps ==
    ASSUME IInv, NEW p \in Paths, remote'[p] = "active", remote[p] = "active" => HasOwner(p),
           NEW w \in Workers, Hold(w), IInv'
    PROVE  Kept(p)
<1>0. WorkersInv /\ MapsInv /\ WorkersInv'
  BY DEF IInv
<1>. DEFINE o == work[w]
            C == Covered(o.path)
            all == [q \in Paths |-> IF q \in C THEN o.held[q] ELSE pending[q]]
            S == {ReleasePath(q) : q \in Paths}
<1>1. /\ UNCHANGED <<conn, linked, remote, configured>> /\ o.pc = "hold" /\ ~Outdated(o.held)
      /\ \A q \in C : pending[q] = NoHold
  BY ZenonT(60) DEF Hold, blueZ
<1>2. \/ pending' = all /\ WorkerExits(w)
      \/ WorkerReleases(w, all, S)
      \/ work' = [work EXCEPT ![w].pc = "correlate", ![w].held = all]
  BY DEF Hold
<1>3. /\ IsWorker(o, linked, conn, configured, nextConfig) /\ o \in Goroutines
      /\ o.path \in Paths
      /\ IsWorker(work'[w], linked', conn', configured', nextConfig')
  BY ZenonT(60), <1>0 DEF WorkersInv, IsWorker, Goroutines
<1>4. \A q \in Paths : IF q \in C THEN o.held[q].generation # 0 /\ o.held[q].fd # 0
                                  ELSE o.held[q] = NoHold
  BY Zenon, <1>1, <1>3 DEF IsWorker, Covered
<1>5. o.conn = conn
  <2>1. o.path \in C
    BY Zenon, <1>3, ReleaseCovers
  <2>2. o.held[o.path].generation # 0 /\ o.held[o.path].generation = configured[o.path]
    BY Zenon, <1>1, <1>3, <1>4, <2>1 DEF Outdated
  <2>3. o.conn # conn => \A q \in Paths :
              o.held[q].generation # 0 => o.held[q].generation # configured[q]
    BY Zenon, <1>3 DEF IsWorker
  <2>. QED
    BY Zenon, <1>3, <2>2, <2>3
<1>6. CASE pending' = all /\ WorkerExits(w)
  <2>1. \A v \in Workers : v # w => work'[v] = work[v]
    BY Zenon, <1>0, <1>6, WorkerMoves DEF WorkerExits
  <2>2. CASE p \in C
    <3>1. pending'[p] # NoHold
      BY ZenonT(60), <1>4, <1>6, <2>2, NoHoldIsHeld
    <3>. QED
      BY ZenonT(60), <3>1 DEF Kept, HasOwner
  <2>3. CASE p \notin C
    <3>1. pending'[p] = pending[p] /\ o.held[p].fd = 0 /\ o.release = {}
      BY Zenon, <1>1, <1>3, <1>4, <1>6, <2>3, NoHoldIsHeld DEF IsWorker
    <3>2. ~Gives(work[w], p)
      BY Zenon, <3>1 DEF Gives
    <3>. QED
      BY Zenon, <1>1, <2>1, <3>1, <3>2, OwnerStays
  <2>. QED
    BY Zenon, <2>2, <2>3
<1>7. CASE WorkerReleases(w, all, S)
  <2>1. work'[w].conn = conn /\ work'[w].release = S
    BY Zenon, <1>0, <1>5, <1>7, ReleasingForm
  <2>2. \E q \in S : p \in Covered(q)
    BY ZenonT(60), ReleaseCovers
  <2>. QED
    BY Zenon, <1>1, <2>1, <2>2, GoroutineOwns DEF Gives
<1>8. CASE work' = [work EXCEPT ![w].pc = "correlate", ![w].held = all]
  <2>. DEFINE r == [o EXCEPT !.pc = "correlate", !.held = all]
  <2>1. work' = [work EXCEPT ![w] = r]
    BY ZenonT(60), <1>0, <1>8, FieldsOfWorker
  <2>2. r.pc = "correlate" /\ r.conn = o.conn
    BY <1>3 DEF Goroutines
  <2>. HIDE DEF r
  <2>3. work'[w] = r
    BY Zenon, <1>0, <2>1, WorkerMoves
  <2>4. work'[w].held[p].fd # 0
    BY Zenon, <1>3, <2>2, <2>3 DEF IsWorker
  <2>. QED
    BY ZenonT(60), <1>1, <1>5, <2>2, <2>3, <2>4, GoroutineOwns DEF Gives
<1>. QED
  BY ZenonT(60), <1>2, <1>6, <1>7, <1>8

(* A pair is released, or becomes the session.                             *)
LEMMA PairKeeps ==
    ASSUME IInv, NEW p \in Paths, remote'[p] = "active", remote[p] = "active" => HasOwner(p),
           NEW w \in Workers, PairReturned(w) \/ PublishPair(w)
    PROVE  Kept(p)
<1>0. WorkersInv
  BY Zenon DEF IInv
<1>1. CASE PublishPair(w)
  BY Zenon, <1>1 DEF PublishPair, Kept, HasOwner
<1>2. CASE PairReturned(w)
  <2>1. UNCHANGED <<conn, linked, pending, remote>>
    BY Zenon, <1>2 DEF PairReturned, blueZ
  <2>2. WorkerReleases(w, work[w].held, {ReleasePath(q) : q \in Paths})
    BY ZenonT(60), <1>2 DEF PairReturned
  <2>3. /\ work'[w].conn = work[w].conn /\ work'[w].release = {ReleasePath(q) : q \in Paths}
        /\ \A v \in Workers : v # w => work'[v] = work[v]
    BY ZenonT(60), <1>0, <2>2, ReleasingForm
  <2>4. Gives(work'[w], p)
    BY Zenon, <2>3, ReleaseCovers DEF Gives
  <2>5. work[w].conn = conn => HasOwner(p)'
    BY Zenon, <2>1, <2>3, <2>4, GoroutineOwns
  <2>. QED
    BY ZenonT(60), <2>1, <2>3, <2>5, OwnerStays
<1>. QED
  BY Zenon, <1>1, <1>2

(* What a timer takes from the pending map it releases.                    *)
LEMMA ExpireKeeps ==
    ASSUME IInv, NEW p \in Paths, remote'[p] = "active", remote[p] = "active" => HasOwner(p),
           NEW w \in Workers, NEW t \in timers, ExpirePending(w, t)
    PROVE  Kept(p)
<1>0. WorkersInv /\ MapsInv
  BY DEF IInv
<1>. DEFINE S == {ReleasePath(t.path)}
            r == [Free EXCEPT !.pc = "release", !.conn = conn, !.release = S]
<1>1. /\ UNCHANGED <<conn, linked, remote>> /\ work[w].pc = "free"
      /\ work' = [work EXCEPT ![w] = r] /\ pending' = [pending EXCEPT ![t.path] = NoHold]
  BY DEF ExpirePending, blueZ
<1>2. r.conn = conn /\ r.release = S
  BY FreeHoldsNothing DEF Goroutines
<1>. HIDE DEF r
<1>3. work'[w] = r /\ \A v \in Workers : v # w => work'[v] = work[v]
  BY ZenonT(60), <1>0, <1>1, WorkerMoves
<1>4. CASE p = t.path
  <2>1. Gives(work'[w], p)
    BY ZenonT(60), <1>2, <1>3, <1>4, ReleaseCovers DEF Gives
  <2>. QED
    BY ZenonT(60), <1>1, <1>2, <1>3, <2>1, GoroutineOwns
<1>5. CASE p # t.path
  <2>1. pending'[p] = pending[p]
    BY Zenon, <1>0, <1>1, <1>5 DEF MapsInv
  <2>2. ~Gives(work[w], p)
    BY Zenon, <1>0, <1>1, NothingToGive
  <2>. QED
    BY ZenonT(60), <1>1, <1>3, <2>1, <2>2, OwnerStays
<1>. QED
  BY ZenonT(60), <1>4, <1>5

(* A path leaves the list of a goroutine once BlueZ has it back.           *)
LEMMA ReleaseKeeps ==
    ASSUME IInv, NEW p \in Paths, remote'[p] = "active", remote[p] = "active" => HasOwner(p),
           NEW w \in Workers, Release(w)
    PROVE  Kept(p)
<1>0. WorkersInv /\ MapsInv
  BY DEF IInv
<1>1. UNCHANGED <<conn, linked, pending>> /\ work[w].pc = "release"
  BY DEF Release, maps
<1>2. PICK q \in work[w].release :
          /\ GiveBack(IF work[w].conn = conn THEN Covered(q) ELSE {})
          /\ IF work[w].release = {q} THEN WorkerExits(w)
             ELSE work' = [work EXCEPT ![w].release = work[w].release \ {q}]
  BY DEF Release
<1>3. remote[p] = "active" /\ (work[w].conn = conn => p \notin Covered(q))
  BY ZenonT(60), <1>2 DEF GiveBack
<1>4. /\ IsWorker(work[w], linked, conn, configured, nextConfig) /\ work[w] \in Goroutines
      /\ \A x \in Paths : work[w].held[x].fd = 0
  BY <1>0, <1>1 DEF WorkersInv, IsWorker
<1>5. CASE work[w].release = {q}
  <2>1. \A v \in Workers : v # w => work'[v] = work[v]
    BY ZenonT(60), <1>0, <1>2, <1>5, WorkerMoves DEF WorkerExits
  <2>2. work[w].conn = conn => ~Gives(work[w], p)
    BY Zenon, <1>3, <1>4, <1>5 DEF Gives
  <2>. QED
    BY Zenon, <1>1, <1>3, <2>1, <2>2, OwnerStays
<1>6. CASE work[w].release # {q}
  <2>. DEFINE r == [work[w] EXCEPT !.release = work[w].release \ {q}]
  <2>1. work' = [work EXCEPT ![w] = r]
    BY Zenon, <1>0, <1>2, <1>6, FieldsOfWorker
  <2>2. r.conn = work[w].conn /\ r.release = work[w].release \ {q}
    BY <1>4 DEF Goroutines
  <2>. HIDE DEF r
  <2>3. work'[w] = r /\ \A v \in Workers : v # w => work'[v] = work[v]
    BY Zenon, <1>0, <2>1, WorkerMoves
  <2>4. work[w].conn = conn /\ Gives(work[w], p) => Gives(work'[w], p)
    BY Zenon, <1>3, <1>4, <2>2, <2>3 DEF Gives
  <2>5. work[w].conn = conn /\ Gives(work[w], p) => HasOwner(p)'
    BY ZenonT(60), <1>1, <2>2, <2>3, <2>4, GoroutineOwns
  <2>. QED
    BY Zenon, <1>1, <1>3, <2>3, <2>5, OwnerStays
<1>. QED
  BY Zenon, <1>5, <1>6

(* A new connection has no transports.                                     *)
LEMMA ForgetKeeps ==
    ASSUME NEW p \in Paths, remote'[p] = "active"
    PROVE  ~Rebuild /\ \A w \in Workers : ~ReleaseFails(w)
BY Zenon DEF Rebuild, ReleaseFails, Forgets

(* However goroutines, timers, signals and reconnections interleave, the   *)
(* broker never drops a transport it has acquired without releasing it,    *)
(* except with the session it is part of.                                  *)
THEOREM DropsOnlyWithItsSessionAlways == Spec => DropsOnlyWithItsSession
<1>1. IInv /\ IInv' /\ [Next]_vars =>
          [\A p \in Paths : (remote'[p] = "active" /\ (remote[p] = "active" => HasOwner(p)))
              => (HasOwner(p)' \/ (session.live /\ ~session'.live))]_vars
  <2>. SUFFICES ASSUME IInv, IInv', Next, NEW p \in Paths,
                       remote'[p] = "active", remote[p] = "active" => HasOwner(p)
                PROVE  Kept(p)
    BY Zenon DEF Kept
  <2>1. CASE \E q \in Paths : \/ Configure(q) \/ Clear(q) \/ BlueZIdle(q) \/ HandleIdle(q)
                              \/ \E w \in Workers : BlueZPending(q, w)
    BY Zenon, <2>1, SignalKeeps
  <2>2. CASE Rebuild \/ SessionEnds
    BY Zenon, <2>2, SignalKeeps, ForgetKeeps
  <2>3. ASSUME NEW w \in Workers, Work(w)
        PROVE  Kept(p)
    BY Zenon, <2>3, QuietKeeps, TryKeeps, RefusedKeeps, HoldKeeps, PairKeeps, ReleaseKeeps,
       ForgetKeeps DEF Work
  <2>4. ASSUME NEW t \in timers, Expire(t)
        PROVE  Kept(p)
    BY Zenon, <2>4, SignalKeeps, ExpireKeeps DEF Expire
  <2>. QED
    BY ZenonT(60), <2>1, <2>2, <2>3, <2>4 DEF Next
<1>. QED
  BY <1>1, Invariance, PTL DEF Spec, DropsOnlyWithItsSession

============================================================================
