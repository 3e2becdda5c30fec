------------------------- MODULE MCTransportAcquire -------------------------
EXTENDS TransportAcquire, TLC

CONSTANTS w1, w2

OneWorker == {w1}
TwoWorkers == {w1, w2}
Symmetry == Permutations(Workers)

============================================================================
