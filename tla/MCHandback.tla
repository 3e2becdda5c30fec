----------------------------- MODULE MCHandback -----------------------------
EXTENDS Handback

OneCall == {4}
TwoCalls == {4, 5}

============================================================================
