---------------------------- MODULE Negotiation ----------------------------
(***************************************************************************)
(* What the media broker agrees on with the phone for the two transports   *)
(* of a call: SelectProperties, SetConfiguration, the final check of the   *)
(* allocated QoS in acquire (bluez/broker.go, bluez/lc3.go), and the check *)
(* of PublishPair (bluez/handoff.go).  D-Bus dictionaries are records that *)
(* may lack fields; bit masks are sets of bits; an operator that can fail  *)
(* returns a set, empty for an error.  A value of the wrong D-Bus type     *)
(* fails the same check as one out of range.  Descriptors, links, timers   *)
(* and reservations are the subject of TransportAcquire.                   *)
(***************************************************************************)
EXTENDS Integers, FiniteSets

CONSTANTS
    Offers,         \* what SelectProperties may be called with
    Configurations, \* the codec configurations SetConfiguration may be given
    QoSMaps,        \* the QoS dictionaries BlueZ may show for a transport
    MTUs,
    MaximumDelay,   \* 0x00ffffff microseconds
    PreferredDelay, \* 40000 microseconds
    MaxConfigs      \* bound on nextConfig

Paths == {"sink", "source"}
FrontLeft == 0          \* FrontLeftLocation, as a bit number
Unallocated == 255      \* a CIG or CIS not assigned yet

Preset(rate, duration, octets) == [rate |-> rate, duration |-> duration, octets |-> octets]

(* conversationalPresets, in order of preference.                          *)
Presets == << Preset(32, 10000, 80), Preset(32, 7500, 60), Preset(16, 7500, 30),
              Preset(24, 10000, 60), Preset(24, 7500, 45), Preset(16, 10000, 40) >>

QoSFields == {"CIG", "CIS", "Interval", "Framing", "PHY", "SDU", "Retransmissions",
              "Latency", "PresentationDelay", "TargetLatency"}

Has(map, key) == key \in DOMAIN map

With(map, key, value) ==
    [k \in DOMAIN map \cup {key} |-> IF k = key THEN value ELSE map[k]]

(* The value of a field when it is there and within bounds.                *)
Given(map, key, bounds) == Has(map, key) /\ map[key] \in bounds

Least(S) == CHOOSE x \in S : \A y \in S : x <= y

ASSUME DelayAssumption == MaximumDelay \in Nat /\ PreferredDelay \in 1..MaximumDelay

ASSUME MapsAssumption ==
    /\ \A o \in Offers : DOMAIN o \subseteq {"Capabilities", "ChannelAllocation", "Locations", "QoS"}
    /\ \A q \in QoSMaps : DOMAIN q \subseteq QoSFields

----------------------------------------------------------------------------
(* SelectProperties: the codec.                                            *)
SelectChannelAllocation(properties) ==
    LET key == IF Has(properties, "ChannelAllocation") THEN "ChannelAllocation" ELSE "Locations"
        locations == properties[key]
    IN IF ~Has(properties, key) THEN {FrontLeft}
       ELSE IF locations = {} THEN {}
       ELSE {IF FrontLeft \in locations THEN FrontLeft ELSE Least(locations)}

(* SelectConfigurationForAllocation with buildConfiguration.               *)
SelectConfiguration(capabilities, allocation) ==
    LET fits == {i \in DOMAIN Presets :
                    /\ Presets[i].rate \in capabilities.frequency
                    /\ Presets[i].duration \in capabilities.duration
                    /\ capabilities.minimum <= Presets[i].octets
                    /\ Presets[i].octets <= capabilities.maximum}
        best == Presets[Least(fits)]
    IN IF capabilities.mono /\ capabilities.minimum # 0 /\ fits # {}
       THEN {[rate |-> best.rate, duration |-> best.duration, octets |-> best.octets,
              allocation |-> {allocation}]}
       ELSE {}

(* The codec a configuration stands for.  One without an allocation is for *)
(* the front left; more than one frame block per SDU is refused.           *)
ParseConfiguration(configuration) ==
    LET allocation == IF Has(configuration, "allocation") THEN configuration.allocation
                      ELSE {FrontLeft}
    IN {[rate |-> Presets[i].rate, duration |-> Presets[i].duration,
         octets |-> Presets[i].octets, allocation |-> allocation] :
           i \in {j \in DOMAIN Presets :
                    /\ Presets[j] = Preset(configuration.rate, configuration.duration,
                                           configuration.octets)
                    /\ Has(configuration, "blocks") => configuration.blocks = 1
                    /\ \E location \in allocation : allocation = {location}}}

----------------------------------------------------------------------------
(* SelectProperties: the QoS.                                              *)
Clamp(x, low, high) == IF x < low THEN low ELSE IF x > high THEN high ELSE x

DelayBound(bounds, key, default) == IF Has(bounds, key) THEN bounds[key] ELSE default

(* Mutant: an absent preferred maximum of zero is taken at its word.       *)
SelectDelayZeroMaximum(bounds) ==
    LET minimum == DelayBound(bounds, "MinimumDelay", 1)
        maximum == DelayBound(bounds, "MaximumDelay", MaximumDelay)
        preferredMinimum == DelayBound(bounds, "PreferredMinimumDelay", 0)
        preferredMaximum == DelayBound(bounds, "PreferredMaximumDelay", MaximumDelay)
        low == IF preferredMinimum > minimum THEN preferredMinimum ELSE minimum
        high == IF preferredMaximum < maximum THEN preferredMaximum ELSE maximum
    IN IF /\ minimum \in 1..MaximumDelay /\ maximum \in 1..MaximumDelay
          /\ preferredMinimum \in 0..MaximumDelay /\ preferredMaximum \in 0..MaximumDelay
          /\ minimum <= maximum /\ low <= high
       THEN {Clamp(PreferredDelay, low, high)}
       ELSE {}

SelectPresentationDelay(bounds) ==
    LET minimum == DelayBound(bounds, "MinimumDelay", 1)
        maximum == DelayBound(bounds, "MaximumDelay", MaximumDelay)
        preferredMinimum == DelayBound(bounds, "PreferredMinimumDelay", 0)
        preferredMaximum == DelayBound(bounds, "PreferredMaximumDelay", 0)
        low == IF preferredMinimum > minimum THEN preferredMinimum ELSE minimum
        high == IF preferredMaximum # 0 /\ preferredMaximum < maximum
                THEN preferredMaximum ELSE maximum
    IN IF /\ minimum \in 1..MaximumDelay /\ maximum \in 1..MaximumDelay
          /\ preferredMinimum \in 0..MaximumDelay /\ preferredMaximum \in 0..MaximumDelay
          /\ minimum <= maximum /\ low <= high
       THEN {Clamp(PreferredDelay, low, high)}
       ELSE {}

Selected(codec, framing, retransmissions, latency, delay) ==
    [CIG |-> Unallocated, CIS |-> Unallocated, Interval |-> codec.duration,
     Framing |-> framing, PHY |-> {"2M"}, SDU |-> codec.octets,
     Retransmissions |-> retransmissions, Latency |-> latency,
     PresentationDelay |-> delay, TargetLatency |-> 2]

PresetLatency(codec) == IF codec.duration = 7500 THEN 8 ELSE 10

(* Mutant: the peer's retransmission preference is not bounded.            *)
SelectQoSUnbounded(bounds, codec) ==
    LET latency == PresetLatency(codec)
        framing == IF Has(bounds, "Framing") THEN bounds.Framing ELSE 0
        retransmissions == IF Has(bounds, "Retransmissions") THEN bounds.Retransmissions ELSE 2
    IN IF /\ framing \in 0..1
          /\ Has(bounds, "PHY") => "2M" \in bounds.PHY
          /\ Has(bounds, "MaximumLatency") => bounds.MaximumLatency >= latency
       THEN {Selected(codec, framing, retransmissions, latency, delay) :
                delay \in SelectPresentationDelay(bounds)}
       ELSE {}

SelectQoS(bounds, codec) ==
    LET latency == PresetLatency(codec)
        framing == IF Has(bounds, "Framing") THEN bounds.Framing ELSE 0
        retransmissions == IF Has(bounds, "Retransmissions") THEN bounds.Retransmissions ELSE 2
    IN IF /\ framing \in 0..1
          /\ Has(bounds, "PHY") => "2M" \in bounds.PHY
          /\ Has(bounds, "MaximumLatency") => bounds.MaximumLatency >= latency
          /\ retransmissions \in 1..13
       THEN {Selected(codec, framing, retransmissions, latency, delay) :
                delay \in SelectPresentationDelay(bounds)}
       ELSE {}

(* selectQoS(nil, codec), which cannot fail.                               *)
DefaultQoS(codec) == Selected(codec, 0, 2, PresetLatency(codec), PreferredDelay)

NoBounds == [k \in {} |-> 0]

SelectProperties(properties) ==
    LET bounds == IF Has(properties, "QoS") THEN properties.QoS ELSE NoBounds
        configurations ==
            UNION {SelectConfiguration(properties.Capabilities, allocation) :
                      allocation \in SelectChannelAllocation(properties)}
        Answers(configuration) ==
            UNION {{[configuration |-> configuration, qos |-> qos] :
                       qos \in SelectQoS(bounds, codec)} :
                      codec \in ParseConfiguration(configuration)}
    IN IF Has(properties, "Capabilities")
       THEN UNION {Answers(configuration) : configuration \in configurations}
       ELSE {}

----------------------------------------------------------------------------
(* The QoS BlueZ shows: parseConfiguredQoS.                                *)
ParseConfiguredQoS(qos, codec, final) ==
    IF /\ final => Given(qos, "CIG", 0..239) /\ Given(qos, "CIS", 0..239)
       /\ Given(qos, "Interval", {codec.duration})
       /\ Given(qos, "SDU", {codec.octets})
       /\ Given(qos, "Framing", 0..1)
       /\ Has(qos, "PHY") /\ "2M" \in qos.PHY
       /\ Given(qos, "Retransmissions", 1..13)
       /\ Given(qos, "Latency", 1..100)
       /\ Given(qos, "PresentationDelay", 1..MaximumDelay)
       /\ Given(qos, "TargetLatency", 1..3)
    THEN {[k \in QoSFields |-> IF Has(qos, k) THEN qos[k] ELSE Unallocated]}
    ELSE {}

SDUMismatch(qos, codec) ==
    Given(qos, "Interval", {codec.duration}) /\ ~Given(qos, "SDU", {codec.octets})

ParsePreliminaryConfiguredQoS(qos, codec) ==
    ParseConfiguredQoS(IF Has(qos, "TargetLatency") THEN qos
                       ELSE With(qos, "TargetLatency", DefaultQoS(codec).TargetLatency),
                       codec, FALSE)

ParseFinalTransportQoS(qos, codec, targetLatency) ==
    IF Has(qos, "TargetLatency") THEN ParseConfiguredQoS(qos, codec, TRUE)
    ELSE IF targetLatency \in 1..3
         THEN ParseConfiguredQoS(With(qos, "TargetLatency", targetLatency), codec, TRUE)
         ELSE {}

(* The SDU of the previous configuration: a preset of the same duration.   *)
BoundedStaleConfiguredSDU(qos, codec) ==
    /\ SDUMismatch(qos, codec) /\ Has(qos, "SDU")
    /\ \E i \in DOMAIN Presets :
           Presets[i].duration = codec.duration /\ Presets[i].octets = qos.SDU
    /\ ParsePreliminaryConfiguredQoS(qos, [codec EXCEPT !.octets = qos.SDU]) # {}

BoundedUnallocatedConfiguredQoS(qos, codec) ==
    /\ SDUMismatch(qos, codec) /\ Given(qos, "SDU", {0})
    /\ Given(qos, "CIG", {Unallocated}) /\ Given(qos, "CIS", {Unallocated})
    /\ ParsePreliminaryConfiguredQoS(With(qos, "SDU", codec.octets), codec) # {}

(* The QoS SetConfiguration stores, of which only TargetLatency is used    *)
(* again; shown is empty when BlueZ passes no QoS.                         *)
ConfiguredQoS(shown, codec) ==
    IF shown = {} THEN {DefaultQoS(codec)}
    ELSE UNION {LET parsed == ParsePreliminaryConfiguredQoS(qos, codec) IN
                IF \/ parsed # {}
                   \/ ~BoundedStaleConfiguredSDU(qos, codec)
                      /\ ~BoundedUnallocatedConfiguredQoS(qos, codec)
                THEN parsed ELSE {DefaultQoS(codec)} : qos \in shown}

----------------------------------------------------------------------------
(* PublishPair's checks of the two descriptors.  mtu is the one that       *)
(* matters: ReadMTU of the sink, WriteMTU of the source.                   *)
ValidateDescriptor(d) ==
    /\ \E i \in DOMAIN Presets : /\ Presets[i].rate = d.codec.rate
                                 /\ Presets[i].duration = d.codec.duration
                                 /\ Presets[i].octets = d.codec.octets
    /\ d.qos.Interval = d.codec.duration
    /\ \E location \in d.codec.allocation : d.codec.allocation = {location}
    /\ d.qos.Framing <= 1 /\ "2M" \in d.qos.PHY
    /\ d.qos.Retransmissions \in 1..13 /\ d.qos.TargetLatency \in 1..3
    /\ d.qos.CIG <= 239 /\ d.qos.CIS <= 239
    /\ d.qos.Latency \in 1..100 /\ d.qos.PresentationDelay \in 1..MaximumDelay
    /\ d.codec.octets <= d.mtu /\ d.mtu <= 4096

SameCodec(a, b) == a.rate = b.rate /\ a.duration = b.duration /\ a.octets = b.octets

ValidateDescriptorPair(sink, source) ==
    /\ SameCodec(sink.codec, source.codec)
    /\ \A k \in {"Interval", "Framing", "PHY", "CIG", "CIS"} : sink.qos[k] = source.qos[k]

(* Mutant: the PHYs of the two directions are not compared.                *)
ValidatePairAnyPHY(a, b) ==
    /\ SameCodec(a.codec, b.codec)
    /\ \A k \in {"CIG", "CIS", "Interval", "Framing"} : a.qos[k] = b.qos[k]

(* What acquire requires of two held transports.                           *)
ValidateTransportPair(a, b) ==
    /\ SameCodec(a.codec, b.codec)
    /\ \A k \in {"CIG", "CIS", "Interval", "Framing", "PHY"} : a.qos[k] = b.qos[k]

----------------------------------------------------------------------------
VARIABLES
    proposal,    \* a SelectProperties call and its answers, or {}
    configured,  \* path -> {} or {its configuration}
    nextConfig,
    shown,       \* path -> MediaTransport1.QoS in BlueZ, {} when there is none
    acquiring,   \* path -> the configurations its goroutines work with
    read,        \* path -> the transports as its goroutines have read them
    pending,     \* path -> {} or {the transport held for its peer}
    pairs,       \* the pairs that wait for their call token
    published    \* {} or {the pair handed off}, while its paths are acquired

vars == <<proposal, configured, nextConfig, shown, acquiring, read, pending, pairs, published>>

Nothing == [p \in Paths |-> {}]

(* BlueZ asks for a configuration before it configures a transport.        *)
Select(properties) ==
    /\ proposal = {} /\ nextConfig = 0
    /\ proposal' = {[properties |-> properties, answers |-> SelectProperties(properties)]}
    /\ UNCHANGED <<configured, nextConfig, shown, acquiring, read, pending, pairs, published>>

(* SetConfiguration and configure.  A configuration or QoS that is refused *)
(* changes nothing.                                                        *)
SetConfiguration(p, configuration, qos) ==
    /\ nextConfig < MaxConfigs
    /\ nextConfig' = nextConfig + 1
    /\ \E codec \in ParseConfiguration(configuration) : \E parsed \in ConfiguredQoS(qos, codec) :
           configured' = [configured EXCEPT ![p] =
               {[codec |-> codec, targetLatency |-> parsed.TargetLatency,
                 generation |-> nextConfig + 1]}]
    /\ shown' = [shown EXCEPT ![p] = qos]
    /\ pending' = [pending EXCEPT ![p] = {}]
    /\ proposal' = {} /\ published' = {}
    /\ UNCHANGED <<acquiring, read, pairs>>

ClearConfiguration(p) ==
    /\ configured[p] # {}
    /\ configured' = [configured EXCEPT ![p] = {}]
    /\ shown' = [shown EXCEPT ![p] = {}]
    /\ pending' = [pending EXCEPT ![p] = {}]
    /\ published' = {}
    /\ UNCHANGED <<proposal, nextConfig, acquiring, read, pairs>>

(* BlueZ allocates the stream, or changes what it shows of it.             *)
ShowQoS(p, qos) ==
    /\ configured[p] # {} /\ shown[p] # {qos}
    /\ shown' = [shown EXCEPT ![p] = {qos}]
    /\ UNCHANGED <<proposal, configured, nextConfig, acquiring, read, pending, pairs, published>>

Current(p, held) == \E config \in configured[p] : config.generation = held.generation

(* acquire takes the configuration of the path and calls TryAcquire, unless*)
(* the path is reserved.  A new configuration drops the reservation, and   *)
(* leaves the goroutine that made it to go on.                             *)
Acquire(p) ==
    /\ configured[p] # {} /\ published = {} /\ pending[p] = {}
    /\ configured[p] \cap acquiring[p] = {}
    /\ \A held \in read[p] : ~Current(p, held)
    /\ \A held \in pairs : ~Current(p, held[p])
    /\ acquiring' = [acquiring EXCEPT ![p] = @ \cup configured[p]]
    /\ UNCHANGED <<proposal, configured, nextConfig, shown, read, pending, pairs, published>>

(* readTransportDetails: the transport goes back to BlueZ unless its final *)
(* QoS fits the configuration acquire started from.                        *)
ReadTransportDetails(p, config, mtu) ==
    /\ config \in acquiring[p]
    /\ acquiring' = [acquiring EXCEPT ![p] = @ \ {config}]
    /\ read' = [read EXCEPT ![p] = @ \cup
           {[codec |-> config.codec, generation |-> config.generation,
             qos |-> qos, mtu |-> mtu] :
                qos \in UNION {ParseFinalTransportQoS(q, config.codec, config.targetLatency) :
                                  q \in shown[p]}}]
    /\ UNCHANGED <<proposal, configured, nextConfig, shown, pending, pairs, published>>

(* The transport is held, and paired when its peer is held already; a      *)
(* stale or second transport and an invalid pair go back to BlueZ.  The    *)
(* goroutine of a linked pair holds both transports at once.               *)
Hold(p, peer, held) ==
    /\ p # peer /\ held \in read[p]
    /\ read' = [read EXCEPT ![p] = @ \ {held}]
    /\ IF ~Current(p, held) \/ pending[p] # {} THEN UNCHANGED <<pending, pairs>>
       ELSE IF pending[peer] = {}
       THEN pending' = [pending EXCEPT ![p] = {held}] /\ UNCHANGED pairs
       ELSE /\ pending' = Nothing
            /\ pairs' = pairs \cup
                   {[q \in Paths |-> IF q = p THEN held ELSE other] :
                       other \in {o \in pending[peer] : ValidateTransportPair(held, o)}}
    /\ UNCHANGED <<proposal, configured, nextConfig, shown, acquiring, published>>

(* expirePending.                                                          *)
ExpirePending(p) ==
    /\ pending[p] # {}
    /\ pending' = [pending EXCEPT ![p] = {}]
    /\ UNCHANGED <<proposal, configured, nextConfig, shown, acquiring, read, pairs, published>>

(* Mutant: the pair is published as it was before the call token came.     *)
PairAlwaysCurrent(held) == TRUE

PairCurrent(held) == \A p \in Paths : Current(p, held[p])

(* With the call token: pairCurrentLocked and PublishPair.                 *)
PublishPair(held) ==
    /\ pairs' = pairs \ {held}
    /\ IF /\ PairCurrent(held)
          /\ ValidateDescriptorPair(held["sink"], held["source"])
          /\ \A p \in Paths : ValidateDescriptor(held[p])
       THEN published' = {held}
       ELSE UNCHANGED published
    /\ UNCHANGED <<proposal, configured, nextConfig, shown, acquiring, read, pending>>

(* No call token in time.                                                  *)
PairReturned(held) ==
    /\ pairs' = pairs \ {held}
    /\ UNCHANGED <<proposal, configured, nextConfig, shown, acquiring, read, pending, published>>

SessionEnds ==
    /\ published # {} /\ published' = {}
    /\ UNCHANGED <<proposal, configured, nextConfig, shown, acquiring, read, pending, pairs>>

Init ==
    /\ proposal = {} /\ configured = Nothing /\ nextConfig = 0 /\ shown = Nothing
    /\ acquiring = Nothing /\ read = Nothing /\ pending = Nothing
    /\ pairs = {} /\ published = {}

(* What BlueZ configures: what was selected, or what the phone chose.      *)
Answers == UNION {chosen.answers : chosen \in proposal}

Next ==
    \/ \E properties \in Offers : Select(properties)
    \/ \E p \in Paths :
          \/ \E answer \in Answers : SetConfiguration(p, answer.configuration, {answer.qos})
          \/ \E configuration \in Configurations :
                \E qos \in {{}} \cup {{q} : q \in QoSMaps} :
                    SetConfiguration(p, configuration, qos)
          \/ ClearConfiguration(p)
          \/ \E qos \in QoSMaps : ShowQoS(p, qos)
          \/ Acquire(p)
          \/ \E config \in acquiring[p], mtu \in MTUs : ReadTransportDetails(p, config, mtu)
          \/ \E peer \in Paths : \E held \in read[p] : Hold(p, peer, held)
          \/ ExpirePending(p)
    \/ \E held \in pairs : PublishPair(held) \/ PairReturned(held)
    \/ SessionEnds

Spec == Init /\ [][Next]_vars

----------------------------------------------------------------------------
(* Every variable keeps its type.                                          *)
TypeOK ==
    /\ nextConfig \in 0..MaxConfigs
    /\ \A p \in Paths :
          /\ \A config \in configured[p] \cup acquiring[p] :
                config.generation \in 1..nextConfig /\ config.targetLatency \in 1..3
          /\ \A held \in read[p] \cup pending[p] : DOMAIN held.qos = QoSFields
          /\ shown[p] = {} \/ configured[p] # {}
    /\ Cardinality(published) <= 1

(* What BlueZ 5.87 shows of a selected QoS.                                *)
WithoutTargetLatency(qos) == [k \in QoSFields \ {"TargetLatency"} |-> qos[k]]

StoredAsIs(qos, codec) ==
    /\ ConfiguredQoS({qos}, codec) = {qos}
    /\ ConfiguredQoS({WithoutTargetLatency(qos)}, codec) = {qos}

(* Whatever the phone offers, SetConfiguration accepts what                *)
(* SelectProperties answered and stores the QoS that was answered, whether *)
(* or not BlueZ repeats TargetLatency.                                     *)
SelectionIsAccepted ==
    \A answer \in Answers :
        \E codec \in ParseConfiguration(answer.configuration) : StoredAsIs(answer.qos, codec)

(* The presentation delays a phone allows and prefers; zero means that it  *)
(* has no preference.                                                      *)
WellFormed(bounds) ==
    /\ \A key \in {"MinimumDelay", "MaximumDelay"} :
           Has(bounds, key) => bounds[key] \in 1..MaximumDelay
    /\ \A key \in {"PreferredMinimumDelay", "PreferredMaximumDelay"} :
           Has(bounds, key) => bounds[key] \in 0..MaximumDelay
    /\ Has(bounds, "MinimumDelay") /\ Has(bounds, "MaximumDelay")
           => bounds.MinimumDelay <= bounds.MaximumDelay

Suits(delay, bounds) ==
    /\ delay \in 1..MaximumDelay
    /\ Has(bounds, "MinimumDelay") => bounds.MinimumDelay <= delay
    /\ Has(bounds, "MaximumDelay") => delay <= bounds.MaximumDelay
    /\ Has(bounds, "PreferredMinimumDelay") => bounds.PreferredMinimumDelay <= delay
    /\ Has(bounds, "PreferredMaximumDelay") =>
           bounds.PreferredMaximumDelay = 0 \/ delay <= bounds.PreferredMaximumDelay

Distance(x, y) == IF x < y THEN y - x ELSE x - y

(* The delays at which the choice could turn out differently.              *)
Candidates(bounds) ==
    {1, PreferredDelay, MaximumDelay}
        \cup {DelayBound(bounds, key, 1) : key \in {"MinimumDelay", "MaximumDelay",
                 "PreferredMinimumDelay", "PreferredMaximumDelay"}}

NearestSuits(bounds, delays) ==
    LET chosen == SelectPresentationDelay(bounds) IN
    /\ chosen = {} => \A delay \in delays : ~Suits(delay, bounds)
    /\ \A delay \in chosen :
          /\ Suits(delay, bounds)
          /\ \A other \in delays : Suits(other, bounds) =>
                Distance(delay, PreferredDelay) <= Distance(other, PreferredDelay)

(* The presentation delay that is selected suits the phone's limits and    *)
(* preferences, and no suitable delay is nearer to 40 ms; none is selected *)
(* only when none is suitable.                                             *)
SelectedDelayIsNearest ==
    \A chosen \in proposal :
        LET bounds == IF Has(chosen.properties, "QoS") THEN chosen.properties.QoS ELSE NoBounds
        IN WellFormed(bounds) => NearestSuits(bounds, Candidates(bounds))

(* acquire and PublishPair apply the same rules, in two files: a pair that *)
(* acquire accepts is refused by the handoff for its MTU only, so it is    *)
(* not acquired, refused and given back again and again.                   *)
HandoffTakesThePair ==
    \A held \in pairs :
        (\A p \in Paths : held[p].mtu \in held[p].codec.octets..4096)
            => /\ ValidateDescriptorPair(held["sink"], held["source"])
               /\ \A p \in Paths : ValidateDescriptor(held[p])

(* SetConfiguration lets a stale or unallocated QoS pass, and BlueZ may    *)
(* configure a transport anew while acquire works on it; still the session *)
(* Asterisk gets is one CIS, allocated, whose frames are those of the      *)
(* configuration both transports have now.                                 *)
PublishedIsCurrent ==
    \A held \in published : \A p \in Paths :
        /\ \E config \in configured[p] : config.codec = held[p].codec
        /\ held[p].qos.SDU = held["sink"].codec.octets
        /\ held[p].qos.Interval = held["sink"].codec.duration
        /\ \A id \in {"CIG", "CIS"} : held[p].qos[id] = held["sink"].qos[id]
                                      /\ held[p].qos[id] # Unallocated
============================================================================
