SPECIFICATION MCSpec
CONSTANTS
    Admin = {a1, a2}
    Crashes = 3
    Window = 4
    HealthyAt = 2
    MaxTime = 6
    MaxStarts = 5
    Titled = {1, 2}
    Theirs = {"numbered", "other"}
    Typed = {"other"}
    MaxChanges = 2
    Pusher = {1}
    Copy = {1, 2, 3, 4}
    CopyOf <- TwoBooks
    FilesOf <- TheFiles
    SizeOf <- TheSizes
    Remover = {1, 2}
    Batch = 1
    Headings = {"", "one"}
    MaxWords = 5
    MaxSections = 2
    Contexts = {0, 9}
    SystemTokens = 1
    LocalWordsPerPart = 4
    CloudWordsPerPart = 4
    minWordsPerPart = 3
    answerRoom = 2
    marginTokens = 1
    partTries = 2
    Around = 1
    Lists <- EventLists
    Sites <- EventSites
    maxMore = 6
    maxTotal = 4
    maxPage = 2
    Reach = 1
    MaxBooks = 4
    Saver = {1, 2}
    MaxConnectors = 2
INVARIANTS LoopsAreCaught WorkStartsOnce TidyingIsNeutral BestCopyStays BookIsReadWhole ListIsRead TunnelIsAsShown
CHECK_DEADLOCK FALSE
