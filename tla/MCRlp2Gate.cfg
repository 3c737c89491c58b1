CONSTANTS
    DIDs = {"d1", "d2"}
    Rlp1Drafts = {}
    Drafts <- GateDrafts
    KeyLists <- GateKeys
    TransitionKeys <- NoKey
    SignerAdapters <- Present
    VerifierAdapters <- NoRecompute
    Evidence = {"e1"}
    Answers = {"True"}
    Collectors = {}
    ClaimedStates = {}
    Gates <- AllGates
    MaxObjects = 1
    MaxLength = 1
SPECIFICATION Spec
INVARIANTS TypeOK PermitIsJustified
PROPERTIES GateKeepsContract 
