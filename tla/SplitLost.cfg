SPECIFICATION Spec
CONSTANTS
    box1 = box1  t1 = t1  r1 = r1  v1 = v1
    None = None
    Title <- MCTitle2
    BoxTitle <- MCBox
    Entry = {1}
    Fileless = {}
    Event <- MCEvent
    Req <- MCReq1
    MaxAsked = 2
    MaxEdits = 0
    MaxList = 1
    Id = {1, 2, 3}
PROPERTY SplitKeepsBooks
