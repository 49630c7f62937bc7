SPECIFICATION PluginSpec
CONSTANTS
    Environments <- SomeEnvironments
    CommandLines <- SomeCommandLines
    Namespace <- Repository
    MaxRuns = 3
INVARIANTS
    PluginTypeOK
    OwnArchives
    ReportedIsFound
    FailedRunsDidNothing
PROPERTY SetupReturns
