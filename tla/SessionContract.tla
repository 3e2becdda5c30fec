--------------------------- MODULE SessionContract ---------------------------
(***************************************************************************)
(* What the media broker promises about one handed-off transport session,  *)
(* whatever races to end it: sessions come one after the other, each is    *)
(* released at most once, and a session that has ended never comes back.   *)
(***************************************************************************)
EXTENDS Integers

CONSTANT Sessions

VARIABLE status   \* session -> "none", "live", "releasing", "stuck" or "ended"

ContractInit == status = [s \in Sessions |-> "none"]

(* A new session is handed off; the one before it, if any, is over.        *)
Begin(s) ==
    /\ status[s] = "none"
    /\ status' = [t \in Sessions |->
                    IF t = s THEN "live"
                    ELSE IF status[t] = "none" THEN "none" ELSE "ended"]

(* The one release of the session starts.                                  *)
StartRelease(s) ==
    /\ status[s] = "live"
    /\ status' = [status EXCEPT ![s] = "releasing"]

(* Release and fallback both failed: the session is kept, and not retried. *)
GiveUp(s) ==
    /\ status[s] = "releasing"
    /\ status' = [status EXCEPT ![s] = "stuck"]

End(s) ==
    /\ status[s] \in {"live", "releasing", "stuck"}
    /\ status' = [status EXCEPT ![s] = "ended"]

ContractNext == \E s \in Sessions : Begin(s) \/ StartRelease(s) \/ GiveUp(s) \/ End(s)

Contract == ContractInit /\ [][ContractNext]_status

============================================================================
