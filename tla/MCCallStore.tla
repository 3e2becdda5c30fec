---------------------------- MODULE MCCallStore ----------------------------
(* Model-checking instance of CallStore: two call indexes, the states that *)
(* the queries tell apart, and counters on a circle of seven values so     *)
(* that both of them step over zero within a run.                          *)
EXTENDS CallStore

MCIndex == {1, 2}
MCStates == {"Incoming", "Active"}
MCURIs == {"+82"}

============================================================================
