SPECIFICATION Spec
CONSTANTS
    b1 = b1  b2 = b2  a1 = a1  a2 = a2
    Unrated = Unrated
    Book <- MCBook1
    Admin <- MCAdmin2
    MaxScans = 1
    Level = {0, 3, 4}
    MaxParts = 2
    MaxCrashes = 1
SYMMETRY Symmetry
INVARIANT ScansAreTrue
PROPERTY ImplementsLifecycle
