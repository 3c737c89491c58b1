CONSTANTS
    DIDs = {"d1"}
    Rlp1Drafts = {}
    Drafts <- EvidenceDrafts
    KeyLists <- SoleKey
    TransitionKeys <- NoKey
    SignerAdapters <- Present
    VerifierAdapters <- EvidenceVerifiers
    Evidence = {"e1"}
    Answers = {"VERIFIED", "None", "unknown"}
    Collectors = {}
    ClaimedStates = {}
    Gates <- NoGates
    MaxObjects = 2
    MaxLength = 2
    MaxLineages = 2
SPECIFICATION FairHeadsSpec
INVARIANTS EvidenceIsWitnessed
PROPERTIES VerificationEnds HeadsCallEnds
