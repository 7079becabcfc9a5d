SPECIFICATION Spec
CONSTANTS
    Emails = {e1, e2}
    p1 = p1
    p2 = p2
    p3 = p3
    Passwords = {p1, p2, p3}
    Start <- MCStart
    Ids = {i1, i2}
    None = None
    Workers = {w1, w2}
    Builds = {1, 2}
    NodeCost = 1
    MaxStored = 2
SYMMETRY Symmetry
INVARIANTS PasswordStaysTheOwners AnsweredOwnTheirAccount
