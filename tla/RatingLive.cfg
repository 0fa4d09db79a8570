SPECIFICATION LiveSpec
CONSTANTS
    b1 = b1  b2 = b2  r1 = r1  r2 = r2  r3 = r3
    Worker = Worker  None = None
    Book <- MCBook2
    Req <- MCReq1
    Batch = 2
    RateGate = {TRUE}
    SafeBoots = {FALSE}
    MaxStops = 1
PROPERTIES QueuedIsServed EverythingIsRated
