CONSTANTS
    DIDs = {d1}
    Drafts <- HistoryDrafts
    ClaimedStates = {}
    MaxObjects = 3
    MaxLength = 3
SPECIFICATION Spec
INVARIANTS HonestLineagesVerify
