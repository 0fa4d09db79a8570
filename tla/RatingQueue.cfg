SPECIFICATION Spec
CONSTANTS
    b1 = b1  b2 = b2  r1 = r1  r2 = r2  r3 = r3
    Worker = Worker  None = None
    Book <- MCBook2
    Req <- MCReq2
    Batch = 1
    RateGate = {TRUE, FALSE}
    SafeBoots = {TRUE, FALSE}
    MaxStops = 1
SYMMETRY Symmetry
INVARIANTS QueueKeepsItsBooks FlaggedIsQueued NoLostWakeup ProcessingHasOwner
