SPECIFICATION Spec
CONSTANTS
    CleanEntry = {"e1"}
    Format = {"EPUB", "MOBI"}
    Epub = "EPUB"
    Cleaner = {"j1", "j2"}
    CalEntry = {"e1", "e2"}
    CalBook = {"b1", "b2"}
    CopyOf <- TwoCopies
    Elsewhere = {}
    Shared = {"e1"}
    User = {"u"}
    Req = {"r"}
    Batch = 1
    MaxRows = 2
    MaxNotices = 1
    ShelfBook = {"b"}
    Coll = {"c1", "c2"}
    Season = "season"
    None = "none"
    MaxIdeas = 1
    ListedBook = {"b1", "b2"}
    Weekly <- TwoLists
    Fallback = "o"
    Classics = "cl"
    Answers <- TwoAnswers
    Caller = {"loop", "admin"}
    Loop = "loop"
    Week = 2
    Daily = 1
    MaxDay = 1
INVARIANTS RejectedStaysOff DailyAllowance
PROPERTIES CleanupIsSafe RemovalIsSafe
