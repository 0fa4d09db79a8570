SPECIFICATION Spec
CONSTANTS
    Item = {"nudity", "lgbtq"}
    Always = "lgbtq"
    Group = "group"
    Writer = {"ai", "mom"}
    Parent = {"mom"}
    Ages = {0, 2}
    FilterKey = {"k"}
    Words = {"w", "v"}
    Admin = {1, 2}
    MaxFlags = 2
    MaxIds = 2
    x1 = x1  x2 = x2  y = y
    Novel = {x1, x2, y}
    InSeries <- TwoInSeries
    Numbered <- Volumes
    By <- OneAuthor
    Peppers <- HotAndMild
    AlikeNovels <- TwoAlike
    OthersRead <- OneRead
    Said <- VotesAndLikes
    Allowed <- AllOrLess
    View = {"p"}
    Asker = {"worker"}
    StartsWith <- OneAI
    MaySave <- SettingsPages
    MaxSaves = 2
    LocalModel = {"m"}
    Listed = {}
    Checker = {"loop", "button"}
    LastVersion = 2
    Machine = {"main", "deep"}
    TestedModels <- OneEach
    Biggest = "n"
    Tester = {1, 2}
    Page = {"p"}
    MaxTests = 2
INVARIANTS FirstCheckHides SavedBeforeIsOffered RuledOutIsOut AsksAllThatWasSaved UpdatesAreTrue TestsLeaveTheirResult
