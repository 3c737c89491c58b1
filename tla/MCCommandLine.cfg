CONSTANTS
    Rooms = {"room", "other-room"}
    Bodies = {"hello", "bye"}
    MaxSafeInteger = 9
    ROOM = "room"
    V2_ROOM = "room"
    Scenarios <- AllScenarios
    MaxCommands = 4
    MaxCrashes = 1
SPECIFICATION FairSpec
INVARIANTS TypeOK SeenStays CommitmentsOpen PartsAreExplained LayersAgree PassedBundlesStand AuditedReleasesStand
PROPERTIES PostedRecordsVerify CommandsEnd
CHECK_DEADLOCK FALSE
