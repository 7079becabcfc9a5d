SPECIFICATION Spec
CONSTANTS
    r1 = r1
    r2 = r2
    r3 = r3
    Requests <- MCRequests
    Limits <- MCLimits
    Window = 1
    MaxTime = 2
    MaxUntold = 2
SYMMETRY Symmetry
INVARIANT CountIsSound
PROPERTY OverlapNeededToErase
