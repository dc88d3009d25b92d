CONSTANTS
    Requests = {r1, r2}
    HeaderIds = {h1, h2}
    FreshIds = {f1, f2}
    None = None
SPECIFICATION Spec
INVARIANTS
    ContextIsOwn
