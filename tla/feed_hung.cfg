\* A Signal Engine that stops reading and keeps its socket.
SPECIFICATION FairSpec
CONSTANTS
    Engines = {e1}
    Symbols = {y1}
    MaxWire = 2
PROPERTIES HungIsReplaced
CHECK_DEADLOCK FALSE
