CONSTANTS
    DIDs = {"d1", "d2"}
    Rlp1Drafts = {}
    Drafts <- AuthorityDrafts
    KeyLists <- AuthorityKeys
    TransitionKeys <- AuthorityTransitionKeys
    SignerAdapters <- Present
    VerifierAdapters <- NoRecompute
    Evidence = {"e1"}
    Answers = {"True"}
    Collectors = {"d2"}
    ClaimedStates = {"AUTHORIZED"}
    Gates <- NoGates
    MaxObjects = 3
    MaxLength = 3
SPECIFICATION Spec
INVARIANTS AuthorityIsEarned PolicyChangesAreConsented HeadFixesHistory
