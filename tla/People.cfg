SPECIFICATION MCSpec
CONSTANTS
    Req = {1, 2}
    MaxUser = 2
    Area = {"users"}
    Default = {}
    Sign = {1}
    Short = 2
    Remembered = {4, 8}
    RenewAfter = 4
    MaxClock = 12
    Visit = {1, 2}
    Tries = 2
    MaxShift = 2
    MaxLock = 3
    MaxWrong = 6
    ReaderBook = {b1, b2}
    Doc = {d1}
    Copies <- OneBook
    NoBook = NoBook
    MaxJobs = 1
    QueueBook = {b1}
    Shelf = {"koreader"}
    MaxMinute = 2
    WishBook = {b1}
    Person = {"p", "q"}
    Parent = {"x", "y"}
    MaxRows = 2
    MaxNotices = 2
    Reader = {"u"}
    Device = {"d", "e"}
    Notice = {"n"}
    MaxKeys = 2
    MaxGen = 2
INVARIANTS MainAdminSafe SignInsLast LockHolds ChoiceSurvives
PROPERTIES ReportsMoveOn RequestsAreKept PhonesAreServed
