------------------------------- MODULE MCMns -------------------------------
EXTENDS Mns, TLC

CONSTANTS p1, p2, c1, c2, r1, r2

TwoProfiles == {p1, p2}
TwoConns == {c1, c2}
TwoReports == {r1, r2}
MixedSizes == (r1 :> 1) @@ (r2 :> 2)

(* The second report is larger than the server accepts.                    *)
OneTooLarge == (r1 :> 2) @@ (r2 :> 3)
============================================================================
