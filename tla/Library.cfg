SPECIFICATION Spec
CONSTANTS
    box1 = box1  t1 = t1  r1 = r1  v1 = v1
    None = None
    Title <- MCTitle2
    BoxTitle <- MCBox
    Entry = {1}
    Fileless = {}
    Event <- MCEvent
    Req <- MCReq1
    MaxList = 1
    MaxAsked = 3
    MaxEdits = 1
    Id = {1, 2, 3, 4}
INVARIANT BooksKeepTheirRows
PROPERTY SyncMirrors
