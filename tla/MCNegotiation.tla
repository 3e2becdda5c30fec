--------------------------- MODULE MCNegotiation ---------------------------
EXTENDS Negotiation

(* What a phone may offer: the codecs and a few locations on their own,    *)
(* and the limits on the QoS one or two at a time.                         *)
Capability(frequency, duration, minimum, maximum) ==
    [frequency |-> frequency, duration |-> duration, mono |-> TRUE,
     minimum |-> minimum, maximum |-> maximum]

AllCodecs == Capability({16, 24, 32}, {7500, 10000}, 30, 80)

Capabilities ==
    {AllCodecs, [AllCodecs EXCEPT !.mono = FALSE], [AllCodecs EXCEPT !.minimum = 0],
     Capability({48}, {10000}, 30, 80), Capability({32}, {7500}, 30, 80),
     Capability({16, 24}, {10000}, 40, 59), Capability({16, 24}, {10000}, 60, 60),
     Capability({16, 24, 32}, {7500}, 30, 45), Capability({32}, {10000}, 80, 30)}

Delays == {0, 1, 20000, 40000, 60000, MaximumDelay, MaximumDelay + 1}

One(key, values) == {[k \in {key} |-> v] : v \in values}

Two(a, b, values) ==
    {[k \in {a, b} |-> IF k = a THEN v[1] ELSE v[2]] : v \in values \X values}

Bounds ==
    {NoBounds} \cup One("Framing", 0..2) \cup One("PHY", {{}, {"1M"}, {"2M"}, {"1M", "2M"}})
    \cup One("MaximumLatency", {7, 8, 9, 10, 100}) \cup One("Retransmissions", {0, 1, 13, 14})
    \cup Two("MinimumDelay", "MaximumDelay", Delays)
    \cup Two("PreferredMinimumDelay", "PreferredMaximumDelay", Delays)
    \cup Two("MinimumDelay", "PreferredMaximumDelay", Delays)
    \cup Two("MaximumDelay", "PreferredMinimumDelay", Delays)

SomeOffers ==
    {NoBounds}
    \cup One("Capabilities", Capabilities)
    \cup {[Capabilities |-> AllCodecs, Locations |-> locations] : locations \in {{}, {0, 1}, {2, 5}}}
    \cup {[Capabilities |-> AllCodecs, ChannelAllocation |-> {1, 3}, Locations |-> {0}]}
    \cup {[Capabilities |-> c, QoS |-> b] :
             c \in {AllCodecs, Capability({32}, {7500}, 30, 80)}, b \in Bounds}

(* 32_2, 24_2 with the same frame duration, and one with two frame blocks. *)
SomeConfigurations ==
    {[rate |-> 32, duration |-> 10000, octets |-> 80],
     [rate |-> 24, duration |-> 10000, octets |-> 60, allocation |-> {1}],
     [rate |-> 32, duration |-> 10000, octets |-> 80, blocks |-> 2]}

(* The QoS of an allocated stream, and what may be different about it.     *)
Allocated(octets, cis, phy) ==
    [CIG |-> 0, CIS |-> cis, Interval |-> 10000, Framing |-> 0, PHY |-> phy, SDU |-> octets,
     Retransmissions |-> 2, Latency |-> 10, PresentationDelay |-> 40000]

SomeQoS ==
    {Allocated(60, 1, {"2M"}), Allocated(60, 1, {"1M", "2M"}),
     With(Allocated(80, 1, {"2M"}), "TargetLatency", 2),
     [Allocated(0, 255, {"2M"}) EXCEPT !.CIG = 255]}

(* Room for the frames of 24_2, one octet short for those of 32_2.         *)
SmallMTU == {79}
============================================================================
