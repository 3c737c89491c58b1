CONSTANTS
    DIDs = {d1}
    Drafts <- CheckDrafts
    ClaimedStates = {"SURVIVED", "NARROWED", "FAILED", "UNRESOLVED"}
    MaxObjects = 1
    MaxLength = 1
SPECIFICATION Spec
INVARIANTS AcceptedStatesAreEarned HonestPairsVerify
