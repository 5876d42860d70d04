\* Two sockets, one of which roams between two engine ids, one a manager's.
SPECIFICATION Spec
CONSTANTS
    None = None
    Sockets = {s1, s2}
    Engines = {e1, e2}
    Symbols = {y1}
    Sessions = {i1, i2}
    Managers = {e2}
    Roamers = {s2}
    Handlers = {h1, h2}
SYMMETRY Symmetry
INVARIANTS TypeOK IndexConsistent LicensedIsCurrent MembersAreConnected
    SessionsExclusive
PROPERTIES ReplacementIsClean LossMarksOffline OnlyLossMarksOffline MembershipKept
    SessionsClosed SpeaksForOne
