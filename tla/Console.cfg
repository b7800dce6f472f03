\* One part at a time: two tabs and two session tokens, two tabs with saved views, two files and
\* two clicks, two releases and two seeds.
CONSTANTS
    BrowserTabs = {b1, b2}
    PlaneTenants = {t1, t2}
    NoData = NoData
    MaxSessions = 2
    ViewTabs = {b1, b2}
    ViewNames = {x, y}
    MaxViewSaves = 3
    Missing = Missing
    Corrupt = Corrupt
    RecipientFiles = {f, g}
    Clicks = {c1, c2}
    NoFile = NoFile
    Releases = {r1, r2}
    Migrations <- MCMigrations
    Seeds = {s1, s2}
    Tenants = {t1, t2}
    Providers = {p1}
    Free = Free
    t1 = t1
    s1 = s1
    r1 = r1
SPECIFICATION Spec
INVARIANTS
    ShowsItsTenant
    ViewsKept
    SendsWhatWasShown
    DeploymentSound
PROPERTIES
    SignedOutTabsLeave
    ScriptsEnd
CHECK_DEADLOCK FALSE
