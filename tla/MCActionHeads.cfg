CONSTANTS
    DIDs = {"d1"}
    Rlp1Drafts <- HeadsRlp1Drafts
    Drafts <- HeadsDrafts
    KeyLists <- SoleKey
    TransitionKeys <- NoKey
    SignerAdapters <- Present
    VerifierAdapters <- HeadsVerifiers
    Evidence = {"e1"}
    Answers = {"VERIFIED", "False"}
    Collectors = {}
    ClaimedStates = {}
    Gates <- HeadsGates
    MaxObjects = 3
    MaxLength = 2
    MaxLineages = 2
SPECIFICATION HeadsSpec
INVARIANTS HeadsTypeOK ForksAreHeld SupersededIsHeld OneHeadOneVerdict DecidedOnOneIdentity
PROPERTIES GateKeepsContract
