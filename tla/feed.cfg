\* Two rooms, a Signal Engine that always comes back.
SPECIFICATION FairSpec
CONSTANTS
    Engines = {e1, e2}
    Symbols = {y1, y2}
    MaxWire = 2
INVARIANTS TypeOK FeedMatchesRooms
PROPERTIES SoleSubscriber FeedRestored
CHECK_DEADLOCK FALSE
