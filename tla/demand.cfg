\* Two dashboards that may be evicted, two users, an engine and a manager.
SPECIFICATION Spec
CONSTANTS
    Viewers = {v1, v2}
    Users = {u1, u2}
    Engines = {e1, m1}
    Managers = {m1}
    MaxAsks = 1
    None = None
SYMMETRY Symmetry
INVARIANTS TypeOK EngineKnowsDemand SignalEngineKnowsDemand WatchersOwn
