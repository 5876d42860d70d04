\* Two customers, two deliveries at a time, three licenses for either.
SPECIFICATION Spec
CONSTANTS
    None = None
    ReadsFail = TRUE
    Customers = {u1, u2}
    Licenses = {l1, l2, l3}
    Handlers = {h1, h2}
SYMMETRY Symmetry
INVARIANTS TypeOK DuplicatesAccounted KeylessAccounted
