\* Two engines and a manager.
SPECIFICATION RoutingSpec
CONSTANTS
    None = None
    Engines = {e1, e2, m1}
    Managers = {m1}
SYMMETRY Symmetry
INVARIANTS RoutingTypeOK OnlyKeyHolderServed
