--------------------------- MODULE MCSmsDelivery ---------------------------
EXTENDS SmsDelivery

CONSTANTS i1, i2

ThreeMessages == 1..3
NewMedia == {2}
TwoItems == {i1, i2}

(* Inbound and outbound traffic meet only in mapLoop.  One scenario has    *)
(* events and deletions, one has more messages than the store remembers,   *)
(* one has outbound texts and messages that only polls find.               *)
VARIABLE scenario

MCInit == Init /\ scenario \in {"deleted", "many", "outbound"}

MCNext ==
    /\ Next
    /\ scenario # "outbound" => handler' = handler
    /\ scenario # "deleted" => Len(events') <= Len(events) /\ Len(inbox') >= Len(inbox)
    /\ scenario # "many" => arrived' <= 2
    /\ UNCHANGED scenario

MCSpec == MCInit /\ [][MCNext]_<<vars, scenario>> /\ Fairness
============================================================================
