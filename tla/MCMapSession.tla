---------------------------- MODULE MCMapSession ----------------------------
EXTENDS MapCommands

InboxPath == <<"msg", "inbox">>
OutboxPath == <<"msg", "outbox">>
TwoHandles == {"a", "b"}
OneHandle == {"a"}
TwoRequests == {"q1", "q2"}
=============================================================================
