SPECIFICATION Spec
CONSTANTS
    s1 = s1
    s2 = s2
    k1 = k1
    w1 = w1
    w2 = w2
    \* Accounts
    Usernames = {"anna12"}
    ShortNames = {"anna12"}
    Passwords = {"old", "new"}
    Forms = {f1, f2}
    NoAccount = NoAccount
    MaxCodes = 3
    \* OnlinePlayers, AppFlows
    Sessions = {s1, s2}
    Areas = {0, 1, 2, 3}
    Away = Away
    MaxLogins = 3
    Clients = {k1}
    ClientOf <- MCClientOf
    Connections = {c1, c2}
    MaxFallback = 1
    \* Records, CapcomApp, LapRankings
    Users = {1, 2}
    Writers = {w1, w2}
    NoRecord = NoRecord
    MaxTime = 2
    MaxCommits = 3
    UserOf <- MCUserOf
    PageRows = 1
    NoPage = NoPage
    Laps = {0, 1, 2}
    NoAccountName = 0
    \* Directory
    Local = "local"
    Hosts = {"local", "east", "west"}
    LandCounts <- MCLandCounts
    MaxWorlds = 3
    PageSize = 2
    Unasked = Unasked
    \* Webhooks
    NoEvent = NoEvent
    MaxDay = 2
    MaxNews = 2
INVARIANTS
    AccountsSound
    FlowsSound
    RecordsSound
    ReportsSound
    DirectorySound
    WebhooksSound
PROPERTIES
    CompanionSteps
CHECK_DEADLOCK FALSE
