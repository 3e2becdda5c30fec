SPECIFICATION Spec
CONSTANTS
    Index <- MCIndex
    States <- MCStates
    URIs <- MCURIs
    Seed = 5
    MaxCounter = 7
INVARIANT LiveTokensDistinct
INVARIANT ClaimsAreForLiveCalls
PROPERTY TokensAreNeverReissued
PROPERTY ChangedSnapshotIsRenumbered
