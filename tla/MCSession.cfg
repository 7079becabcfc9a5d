SPECIFICATION Spec
CONSTANTS
    b1 = b1
    b2 = b2
    w1 = w1
    w2 = w2
    NoBrowser = NoBrowser
    Browsers = {b1, b2}
    Workers = {w1, w2}
    Expiry = 0
    NumTokens = 8
SYMMETRY Symmetry
INVARIANTS DeadTokenIsRefused BrowserKeepsInStep
