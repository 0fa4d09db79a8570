SPECIFICATION LiveSpec
CONSTANTS
    b1 = b1  b2 = b2  a1 = a1  a2 = a2
    Unrated = Unrated
    Book <- MCBook2
    Admin <- MCAdmin1
    MaxScans = 2
    Level = {0}
    MaxParts = 1
    MaxCrashes = 1
PROPERTY ScansEndInTurn
