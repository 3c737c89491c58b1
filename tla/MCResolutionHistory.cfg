CONSTANTS
    DIDs = {d1}
    Drafts <- HistoryDrafts
    ClaimedStates = {"SURVIVED"}
    MaxObjects = 3
    MaxLength = 3
SPECIFICATION Spec
INVARIANTS TypeOK AcceptedIsOneHistory HeadFixesHistory HonestPairsVerify
PROPERTIES LoopKeepsContract
