SPECIFICATION LiveSpec
CONSTANTS
    box1 = box1  t1 = t1  r1 = r1  v1 = v1
    None = None
    Title <- MCTitle2
    BoxTitle = {}
    Entry = {1, 2}
    Fileless = {2}
    Event <- MCEvent
    Req <- MCReq1
    MaxAsked = 1
    MaxEdits = 2
    MaxList = 1
    Id = {1, 2, 3, 4, 5}
PROPERTIES FollowsCalibre
