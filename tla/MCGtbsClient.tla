---------------------------- MODULE MCGtbsClient ----------------------------
EXTENDS GtbsClient

MCIndex == {1}
MCStates == {"Incoming", "Dialing", "Active"}
MCURIs == {"+82"}
MCCallerOf == <<"+82", "">>
MCOpcodes == {"Accept", "Terminate", "Originate"}

============================================================================
