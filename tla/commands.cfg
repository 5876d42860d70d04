\* Two commands for one engine that comes and goes.
SPECIFICATION FairSpec
CONSTANTS
    Commands = {c1, c2}
INVARIANTS TypeOK OnlyDeliveredActs RecordIsOutcome
PROPERTIES ActedOnOnce RecordSettles
