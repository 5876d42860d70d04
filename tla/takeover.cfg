\* A connection that renames itself while its activation is in flight.
SPECIFICATION Spec
CONSTANTS
    None = None
    Sockets = {s1, s2}
    Engines = {e1, e2}
    Symbols = {y1}
    Sessions = {i1}
    Managers = {e2}
    Roamers = {s2}
    Handlers = {h1}
PROPERTIES TakeoverHoldsGrant
