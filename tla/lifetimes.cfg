\* Units of 15 s: the intervals and limits of gateway.config.ts, but for a
\* registry that sweeps every 15 s, not 10, and rooms of 75 s, not an hour.
SPECIFICATION Spec
CONSTANTS
    None = None
    OfflineAfter = 6
    ConnectionsEvery = 2
    StaleAfter = 2
    RegistryOfflineAfter = 6
    RegistryEvery = 1
    DefaultTtl = 5
    RoomsEvery = 1
    HeartbeatEvery = 2
    Requests = {2}
    Terms = {0, 1, 4}
    Horizon = 9
INVARIANTS TypeOK ConnectionsEnd UnheardIsOffline BeatingIsNotStale
PROPERTIES BeatingKeepsRoom
