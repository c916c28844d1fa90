\* Two runs of the seeder, forced or not, beside atc-core's own start on a new file or
\* one of any earlier version; one death of either process at any await; one live call.
SPECIFICATION Spec
CONSTANTS
    Core = core
    Seeder = seeder
    ProdTables = {"orders", "customers"}
    SensitivePaths = {"secrets"}
    Teams <- MCTeams
    Settings <- MCSettings
    PerDay = 1
    MaxRuns = 2
    MaxDeaths = 1
    MaxLive = 1
INVARIANTS
    TypeOK
    SchemaIsReady
    HistoryIsWhole
    HistoryIsPlausible
PROPERTIES
    KeepsLiveAgents
    BaselineCoversFiles
