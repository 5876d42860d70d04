\* One device, two connections of its engine, two activations at a time.
SPECIFICATION Spec
CONSTANTS
    None = None
    Sockets = {s1, s2}
    Handlers = {h1, h2}
    Credentials = {c1, c2, c3, c4}
SYMMETRY Symmetry
INVARIANTS TypeOK HeldIsStored ReleasedIsOut
