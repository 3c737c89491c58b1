CONSTANTS
    DIDs = {"d1"}
    Rlp1Drafts = {}
    Drafts <- EvidenceDrafts
    KeyLists <- SoleKey
    TransitionKeys <- NoKey
    SignerAdapters <- Present
    VerifierAdapters <- EvidenceVerifiers
    Evidence = {"e1"}
    Answers = {"VERIFIED", "None"}
    Collectors = {}
    ClaimedStates = {}
    Gates <- NoGates
    MaxObjects = 2
    MaxLength = 2
SPECIFICATION Spec
INVARIANTS RevisedLineageRecomputes
