--------------------------- MODULE MCMediaSession ---------------------------
EXTENDS MediaSession

OneSession == {1}
TwoSessions == {1, 2}
Linked == {"sink"}
Unlinked == {"sink", "source"}
NoPackets == {}
AllPackets == {"progress", "normalEnd", "otherIdentity", "garbage"}

============================================================================
