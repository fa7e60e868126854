SPECIFICATION Spec
CONSTANTS
    u1 = u1
    u2 = u2
    b1 = b1
    h1 = h1
    h2 = h2
    c1 = c1
    c2 = c2
    None = None
    Users = {u1, u2}
    Browsers = {b1}
    Handlers = {h1, h2}
    Life = 2
    MaxSessions = 2
    SessionFaults = {}
    Callbacks = {c1, c2}
    MaxFlows = 1
SYMMETRY Symmetric
CHECK_DEADLOCK FALSE
INVARIANTS SignedOutIsOut SpentOnce ConnectionsBelong
