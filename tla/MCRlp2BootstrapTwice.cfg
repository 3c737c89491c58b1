CONSTANTS
    DIDs = {"d1"}
    Rlp1Drafts <- BootstrapRlp1Drafts
    Drafts <- BootstrapDrafts
    KeyLists <- SoleKey
    TransitionKeys <- SoleKey
    SignerAdapters <- Present
    VerifierAdapters <- NoRecompute
    Evidence = {"e1"}
    Answers = {"True"}
    Collectors = {}
    ClaimedStates = {}
    Gates <- NoGates
    MaxObjects = 3
    MaxLength = 3
SPECIFICATION Spec
INVARIANTS BootstrapStaysUnresolved
