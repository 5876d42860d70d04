\* Two deliveries for one purchase, and no request that fails to be read.
SPECIFICATION Spec
CONSTANTS
    None = None
    ReadsFail = FALSE
    Customers = {u1}
    Licenses = {l1, l2}
    Handlers = {h1, h2}
PROPERTIES NoDuplicateProvision
