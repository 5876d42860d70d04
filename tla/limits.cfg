\* One key tried from two addresses, with two attempts under way.
SPECIFICATION Spec
CONSTANTS
    Window = 3
    MaxAge = 3
    Addresses = {a1, a2}
    Handlers = {h1, h2}
    AddressLimit = 3
    KeyLimit = 2
    MaxNow = 6
INVARIANTS TypeOK WindowsExact FailuresBounded
