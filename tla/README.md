# A TLA+ verification of the Call Bridge LE Audio services

These modules model the two processes of this repository, `le-call-go` (LE Audio
media and cellular call control) and `sms-bridge` (MAP/MNS text messages). TLC
checks them on small instances, and TLAPS proves the safety properties of every
component for every instance. `PROJECT.json` lists the components, the runs, the source lines
behind each definition, the hazards and the theorems.

Paths below are relative to `src/`; `le-call-go` is `callbridge-le-call-go`, `sms-go` is
`callbridge-sms-go`.

## The system

`bluetoothd` owns the phone's LE link and Asterisk's `chan_mobile` carries the call.
Between them:

| Part | Source | State | Operations |
|---|---|---|---|
| Call store | `le-call-go/internal/gtbs/state.go` | calls, claims, caller numbers, sequence and token counters | Apply, ApplyIncomingCall, ClaimCall, queries |
| GTBS client | `.../gtbs/client.go`, `cmd/le-call-go/main.go` | connection, pending commands, originate slot | runOnce, handleSignal, handleControlResult, Command |
| Control server | `.../control/server.go` | one client descriptor, readiness | accept, receive, acknowledge, broadcasts |
| Advertising and handback | `sms-go/internal/bluez/broker.go`, `main.go` | advertisement, hold, rearm channel | runBlueZOnce, HoldAdvertisement, DropLEBearer, snapshot callback |
| Transport acquisition | `broker.go` | configured, acquiring, acquired, pairing, pending maps | configure, clear, acquire, expirePending, idle signals |
| Media session | `broker.go` | active session, its flags, leases | hand off, watch, normal end, release |
| Handoff server | `bluez/handoff.go` | client descriptor, last generations | Run, PublishPair, disconnect handler |
| SMS state file | `sms-go/internal/state/store.go` | seen handles, outbox, initialized flag | MarkSeen, AddOutbound, TakeOutbound, save, load |
| SMS delivery | `sms-go/internal/bridge/service.go` | loop position, event queue, wake channel | bootstrap, poll, processEvent, drainOutbound, enqueue |
| MAP session | `sms-go/internal/mapclient/session.go` | cached folder, the stream | gotoFolder, requests, replies, timeouts |
| HTTP commands | `bridge/http.go`, `bridge/service.go` | command channel, waiting handlers | submit, executeCommand |
| MNS server | `sms-go/internal/mns/server.go` | profile, connections, accumulated body, status flags | runOnce, NewConnection, RequestDisconnection, Release, handle |
| Endpoint negotiation | `bluez/lc3.go`, QoS functions of `broker.go`, `handoff.go` | configurations, the QoS BlueZ shows, proposals, pairs | SelectProperties, SetConfiguration, acquire's final check, PublishPair |

How they meet: GTBS signals change the call store; each change is a snapshot, which
goes to the control server and, through the callback of `main.go`, to the broker's hold
and drop of the link. A transport that becomes pending is acquired, paired with its
peer, correlated with the one live call's token and published by the handoff server; it
is then a media session until Asterisk, the phone, a lease or a link loss ends it. In
`sms-bridge` a notification or a poll names a message, which is fetched over the MAP
session, marked in the state file and delivered; HTTP requests fill the outbox or put
commands into the loop's channel.

What is hard here is concurrency: goroutines that meet under one mutex but hold
nothing across D-Bus calls, signals on separate connections, timers that fire late,
descriptor numbers that are reused, and restarts of `bluetoothd` or of the process.

## The modules

Each action is one critical section, one select case or one blocking call of the code,
so interleavings happen exactly where the code can be interrupted. Definitions named
`Mutant: ...` in their comment are deliberately wrong variants, used to show that a
property can fail; no specification uses them.

- **CallStore**. The store's methods run under one mutex, so each is an action. Both
  uint64 counters live on a circle of `MaxCounter` values that skips zero (and, for
  tokens, the seed). `issued` is a history variable.
- **GtbsClient** extends CallStore with the session goroutine, step by step from
  subscribing to serving, one command at a time, and the phone as an external actor
  whose signals queue up.
- **Handback** composes the broker's serve loop, the GTBS session with the snapshot
  callback, the goroutines that drop the link, and `bluetoothd`. A call is named by its
  token; GTBS is reduced to what it has reported.
- **SessionContract** is what a media session promises: it is handed off once, is
  released by at most one release, and ends once. **MediaSession** is the code: the
  watcher, the release with its retries and fallback, the normal-end timer, idle
  signals and rebuilds. `KeepsContract` states that it implements the contract under the
  mapping `Status`.
- **TransportAcquire** is `acquire` with a step for each stretch between unlocks, run by
  several workers over two paths that are linked (one CIS, the leader acquires for
  both) or not. Descriptors and BlueZ's ownership are explicit.
- **ControlServer** has the poll loop and the GTBS session's broadcasts as two
  processes, and a descriptor table that hands out the lowest free number.
- **HandoffServer** has the poll loop, the publisher, the clock that seeds generations,
  and restarts of the process.
- **StateStore** has memory, lookup set and disk; a save fails or replaces the file.
  **SmsDelivery** extends it with the delivery loop, HTTP enqueueing, notifications, the
  phone's inbox and crashes.
- **Negotiation** is the path of the stream's parameters: what SelectProperties answers
  to the phone's offer, what SetConfiguration stores (a QoS that is stale or not
  allocated yet passes), the check in acquire of what BlueZ shows at last, and the two
  validations of a pair, in `broker.go` and in `handoff.go`. Dictionaries are functions
  on the keys that are there; the layout of LTV bytes is left out, the numbers are the
  code's.
- **MapSession** has the stream as two queues, so that a reply that was given up on can
  still arrive. **MapCommands** extends it with the HTTP requests: a handler that gives
  up, the bounded channel that outlives a session, and the loop that takes commands.
- **Mns** has the profile's registration, a goroutine per connection, the status
  callbacks made outside the lock, and `handle` with reports in several packets, against
  a phone that dials, sends, repeats and hangs up. Profiles and connections are slots
  that are used over and over. `NumbersReused` says whether a closed descriptor's number
  may go to a new connection while a goroutine still reads it.

`MC*` modules hold the model values for TLC, `*Proofs` modules the theorems.

## The runs

All bounds are constants of the cfg files.

| Run | Checks | Bounds and why they are enough |
|---|---|---|
| `call_store` | token and claim invariants, renumbering | two indexes, circle of 7 from seed 5: both counters pass zero, and one index stays while the other is reused |
| `gtbs_client` | nothing is missed while subscribing and reading; pending entries and the originate slot | one index used by two successive calls, one command, one link loss, three queued signals |
| `handback` | advertising follows the bearer; a phone that is away finds its way back | two calls, one loss of range or restart of `bluetoothd`, two drop goroutines |
| `media_session` | refinement of SessionContract, release bookkeeping, classification of the end, sessions end and are forgotten | one unlinked session, every kind of packet, two release attempts, one packet in the socket |
| `negotiation` | selections are accepted, delays are the nearest allowed, the two validations agree, what is handed off is current | offers with each codec and each QoS limit around its boundary, delays of 0 and 1 µs and of 20, 40 and 60 ms, the maximum and one more; two codecs and four QoS dictionaries; three configurations; an MTU that fits one codec and not the other |
| `transport_acquire` | descriptor ownership, reservations, releases | two workers (symmetric), two paths, linked or not, two configurations, one rebuild |
| `control_server` | state, order, acknowledgements, service | two peers, so a number is reused; two snapshots; one command |
| `handoff_server` | generations, whole pairs, ends of sessions | three peers, one restart, six clock values |
| `sms_delivery` | at most one delivery, the baseline, the outbox, messages and texts are consumed | one old message, a listing of one, a seen list of two, a queue of one, two crashes, in three scenarios: two messages with notifications and deletions; three messages, so that eviction happens; two texts |
| `map_session` | the folder requests run in, answers to HTTP commands | one handle, two attempts, one reply behind; two requests and a channel of one |
| `mns` | acknowledged reports, the connected flag, reports get through | two profiles, two connections, reports of one and of two packets |

`sms_delivery` chooses its scenario in the initial state (`MCSpec`): inbound and outbound
traffic meet only in mapLoop, and the product of both is out of reach. The scenarios
restrict the environment only, never the loop.

Deadlock is not checked where the instance runs out of bounded inputs (calls, peers,
messages) and really stops; `call_store` and `map_session` check it. Every component
module states its type invariant (`TypeOK`; `ClientTypeOK`, `SessionTypeOK`,
`HandbackTypeOK` and `ControlTypeOK` in GtbsClient, MapSession, Handback and
ControlServer).

Eviction is safe when `MaxSeen >= 2 * PollMaxCount - 1`; the code has 4096 and at most 500.
It is checked without deletions on the phone, which can bring an evicted handle back.

Three further configurations ask the same questions of other instances, and pass:

- `MCMediaSessionTwo.cfg`: two successive linked sessions, so that goroutines of the first
  meet the second (`ReleasingMeansWorking`, `KeepsContract`);
- `MCTransportAcquireLive.cfg`: one worker and three configurations; under `FairSpec` a held
  transport is always resolved (`HeldTransportIsResolved`);
- `MCMnsLarge.cfg`: a report larger than the server accepts, which is refused in the middle
  (`handle` returns and the phone dials again), beside one that fits.

### Disagreements

`hold_outlives_call` shows that the code does something other than a comment says. The
hold of a call answered on the handset is released by a snapshot, but the drop that
goes with it has ended the session that makes snapshots; `PROJECT.json` quotes the line.

Eight more configurations, `Violates<Property>.cfg`, each make TLC produce a behaviour
that contradicts a comment or the repository's README. The comment above the property
quotes the line. Two on MCMns show what the code does where nothing is promised.

| Property | Module | What happens |
|---|---|---|
| `HeldAdvertisementStaysDown` | MCHandback | registering after a restart of `bluetoothd` ignores the hold |
| `DropsOncePerToken` | MCHandback | two handset calls make the link drop twice for one token |
| `ForgottenSessionEnds` | MCHandback | a GTBS session does not notice that `bluetoothd` forgot it |
| `OnlySentAcceptsCount` | MCGtbsClient | an Accept counts before it is sent, also when it fails |
| `IdentityBelongsToItsCall` | MCGtbsClient | an index that changes hands while no session is up keeps the previous caller's number |
| `OutgoingCallsAreOurs` | MCGtbsClient | calls dialled on the handset pass as this side's |
| `ReleasingSessionStaysVisible` | MCMediaSession | a new handoff replaces a session still being released |
| `FetchReturnsItsMessage` | MCMapSession | a fetch retried after a timeout takes the late reply for its own |
| `ServedConnectionIsShown` | MCMns | the callbacks of an ended and a new connection swap, and a served connection is shown as not connected |
| `AckedReportIsAccounted` | MCMns, `NumbersReused = TRUE` | closeAll closes a descriptor under its reader, the number goes to a new connection, two goroutines read one stream, and an acknowledged report is lost |

## Fairness

- A goroutine with a step to take takes it: weak fairness on `SessionStep`,
  `CommandStep`, `BrokerStep`, `DropRuns`, `Watch`, `Release`, `Work`, `Loop`, `Run`, `MapLoop`,
  `Goroutine`, `RegisterProfile`, `Unregister`.
  The Go scheduler is preemptive, and the calls made have timeouts or return.
- A Go `select` picks among ready cases at random: strong fairness on one case
  (`BrokerRearms`, `SelectWake`, `SelectPoll`).
- Timers fire: `LeaseRunsOut`, `NormalWaitOver`, `Expire`, `BackoffOver`.
- The watcher empties a socket that is filled at a bounded rate: strong fairness on its
  drained step.
- External actors are fair only where the code relies on them: the phone answers a
  write (`PhoneAnswers`), comes back when it is advertised to (`PhoneConnects`,
  `LinkBack`), dials the MNS server and sends every report in its turn (`Dial`,
  `PhoneConnects`, strong fairness on `PhonePuts`), a call ends (`CallEnds`), and a save or a bootstrap that is tried forever
  succeeds at some time (`SaveStep(TRUE)`, `Consume(TRUE)`).
- Losses, timeouts and releases have no fairness. `ReportsGetThrough` is stated for
  behaviours in which they stop at some time.

Negotiation and MapCommands have safety properties only and no fairness.

## Proofs

TLAPS checks every theorem below for all values of the constants that satisfy the named
assumptions of the modules. The bounds TLC needs (`MaxPeers`, `MaxConfigs`, `MaxCrashes`...)
stay in the specifications as constants and can be as large as one likes.

**GtbsClientProofs** about the call store, for every set of indexes within 1..255 and every counter width larger
than the number of indexes plus one: `TypeCorrect` (`Spec => []TypeOK`), `TokensIdentifyCalls`
(live calls have different tokens), `TokensStayRetired` (no token is given out twice),
`ClaimsStayWithTheirCall` (a claim names the live call at its index) and `NewsIsRenumbered`
(a changed snapshot has a changed number). The specification bounds behaviours with
`WithinOneLap`: the counter does not complete a lap of the circle, which for uint64 takes
2^64 calls. That live tokens differ is not inductive: a new token could equal one still
held. `TokenInv` adds that every live token is in `issued` and that every issued token lies
on the arc from the seed to the counter. The lemmas about `NthToken` show that the next
tokens lie beyond that arc and differ from each other, and that the arc only grows.

**GtbsClientProofs** about the client: `DisconnectClearsCommands` (nothing is pending outside a
session), `LossesStayInSight` (a lost link has its signal in the session's channel),
`StoreFollowsPhone` (an idle session has the phone's calls) and `ClientKeepsStore`
(`ClientSpec => Spec`: the composition only does to the store what CallStore allows, so the
five theorems above hold of it). The first is not inductive, because a command may register
after the session it belongs to was cleared: `PendingInv` says that while no session is up
only the command being executed, whose connection is closed, may be pending, so that it
fails and takes its entry back. The second is inductive once the signals are known to be a
sequence (`LossInv`). The third rests on `MatchInv`: once the session has subscribed, the
phone's latest value is the last call state waiting in the channel (`EndsAt`), or none waits
and it is the value just read or is in the store. Applying a value, taking the
first signal and a change on the phone each preserve it. `PhoneStatesAssumption` says that the
states between which the modelled phone moves are among `States`.

**MediaSessionProofs**, for any number of sessions and attempts: `ReleasingIsWorking`,
`SessionsKeepContract` (MediaSession implements SessionContract) and `NormalEndsAreNoHangups`. Every action is shown to
have one of six effects on the session variables (`Unseen`, `Begins`, `Starts`, `GivesUp`,
`Ends`, `Finishes`); every effect preserves `IInv` and is a step of the contract or a
stutter. `IInv` adds the types, that a session not made yet is fresh, and that a busy
release has an attempt number. For the
last, `EndInv` follows the end packet of a session: what its peer wrote is in the socket, or
the watcher has taken it and the session is marked, and the watcher comes to its judgement
only after the socket was empty. Marks are taken away only together with the session
(`MarksKept`).

The module also has **Handback**, for any number of calls, losses and restarts of `bluetoothd`:
`AdvertisingStaysRight` (`HandbackSpec => []AdvertisingFollowsBearer`). The property speaks of an
idle loop only; `BrokerInv` says what holds before: the last bearer signal waiting for the loop
tells how the bearer is now, and when none waits, what the loop registered agrees with the
bearer; an absent phone that is not advertised for is held or has a rearm request pending.

**TransportAcquireProofs**, for any set of goroutines, any number of configurations and
connections: `ReservationsHaveOwnersAlways`, `DescriptorsHaveOneOwnerAlways` and the action
property `DropsOnlyWithItsSessionAlways`. `WorkersInv` says what a goroutine holds at each point
of acquire, `MapsInv` that a transport held for its pair is of the present configuration,
`FdInv` that every open descriptor belongs to one entry of the pending map or of one
goroutine. For the action property, `OwnerStays` shows that an owner (the session, the pending
map, a goroutine) keeps a transport or passes it on, unless the session ends.

**PeerProofs** about Negotiation, for any offers, configurations, QoS dictionaries and MTUs:
`SelectionsAreAccepted`, `DelaysAreNearest`, `HandoffAgreesWithAcquire` and
`PublishedStaysCurrent`. The first two are about the operators alone. For the others
`IInv` follows a generation: everything that goes by the generation of a path has the
codec configured under it, what was read has passed the final check, and pairs were
validated. Assumed are `DelayAssumption` (40 ms is within the maximum) and `MapsAssumption`
(the dictionaries have the keys of the interface).

**PeerProofs** about ControlServer, for any number of peers, snapshots and commands:
`ClientsStayUpToDate` and `AcknowledgementsReachTheirSender`. `TableInv` ties descriptor numbers
to peers and `GotInv` says what the client has while a broadcast is half way.

**HandoffServerProofs**, for any number of peers and restarts: `GenerationsStayMonotonic`,
`SessionsStayWithTheirPeer` and `PairsStayWhole`. `GenInv` says that the newest generation seen
by any peer is either known to this process or older than the clock that seeds the
next one. `HolderInv` says that a session and its holder come and go together, `QueueInv`
that the peers waiting to be accepted differ and have received nothing.

**SmsDeliveryProofs**, for any messages, texts and crashes: `TextsGoOutAtMostOnce` and
`AnswersStayTrue`. `QueueInv` says that the outbox in memory is the one on disk, holds no text
twice and none that was taken, `SendInv` that only a taken text is sent and the one in hand
was not attempted yet, `AnswerInv` that an added text is in the outbox or taken.

For the inbox, `MessagesGoOutAtMostOnce` and `BaselineStaysSilent` state `InboundAtMostOnce` and
`BaselineIsNotNews` under the condition `arrived <= MaxSeen`: until more messages have arrived
than the store remembers, 4096 in the code. The condition is needed: a handle that was
evicted and is still in the inbox is news again when a late notification names it.
`SeenInv` says that the seen list has no handle twice and that memory, lookup and file agree;
`StartInv` that the first message is handed on only after the initialized flag is in the
file, because the same save wrote both; `DeliverInv` that what was handed on is in the seen
list, is not of the baseline, and that the message in hand has not reached the recipients
that are left. `HandlesMarked` shows that MarkSeenMany evicts nothing while the condition
holds. `MessagesAssumption` says that handles are numbered in order of arrival.

**MnsProofs**: `AcknowledgedIsNotLost` and `ShownIsThere`, both under the premise
`~NumbersReused`; with reuse the first is false (see Disagreements). `InStep` says that the
accumulated body of a connection is exactly the part of the phone's report that was read
so far, `ConnInv` relates the ends of a connection. Assumed are `ReportsAssumption` and
`SizeAssumption`.

**MapProofs** about MapSession and MapCommands, for any folders, messages, requests, attempts
and capacity of the channel: `RequestsReachTheirFolder` (`Spec => HandledInItsFolder`) and
`RawMessagesAreAnswered` (`Spec => RawAnswersAreTrue`). Both are action properties and follow
from `MapInvariant`, `Spec => []MapInv`.

- The session's part. `OpInv` says that the plan of an operation is a chain: each SetPath
  starts in the folder the one before leads to, and the last request is the one for the
  message. `FolderInv` says that, as long as no reply was given up on, one request at most is on
  its way, the phone is in the folder that request needs (`InSync`), and between two walks
  `currentPath` is unknown or the phone's folder (`PathTrue`). The last conjunct is what makes
  a walk that skips the cached part right, and what a SetPath that is refused could break.
  The lemmas `Walk`, `Joined`, `PlanParts` and `Attempted` show that gotoFolder's plan is such a
  chain for a path of any length.
- The commands' part. `QueueInv` says that a command is in the channel once, or running, or
  over; `PushInv` that a raw message has at most one PushMessage on its way, none before its
  command is begun and none after the phone has taken it; `AnswerInv` that an ok read in
  time is the answer to the message. A command whose handler has given up matters here: it stays in
  the channel and is skipped when it is taken (`ExecuteKeepsCommands`).

Assumed are `FoldersAssumption` (the two folders differ, and neither is the root or the unknown
path) and `RequestsAssumption` (no request is the value for none).

Only model-checked: all liveness properties, which the prover does not do; and what eviction from the seen list does to `InboundAtMostOnce`
and `BaselineIsNotNews`, which TLC checks in the scenario with more messages than the list
holds, where only polls find messages.

## Not modelled

- Message parsing and splitting (`message.go`), packet encodings and XML: pure text and byte
  functions without state, tested directly by the repository.
- `importLegacy` of the state file, a migration that runs once.
- The sink nudge, the AMI client and the media client: single calls without state. Their
  success or failure is a choice in the actions that use them.
- HTTP routing and authentication, configuration, logging, process start-up and the
  Android helper: wiring, or code that runs alone.
- Probe mode of the GTBS client and the characteristics its inventory looks for: the
  inventory is one step that succeeds or fails.
- The token a command result is published with: the result of an originate handled before
  the call state that shows the call carries token 0 (`gtbs/client.go:303`).
- `Release` of an advertisement by a running `bluetoothd` (`broker.go:634`): Handback has its
  restart only.
- The call token in the handoff: it is read before the pair is published. A call that ends
  in between is noticed by the watcher, which MediaSession has; TransportAcquire carries
  no tokens.
