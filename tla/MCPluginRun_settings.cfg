SPECIFICATION PluginSpec
CONSTANTS
    Environments <- SomeEnvironments
    CommandLines <- OnAzure
    Namespace <- Repository
    MaxRuns = 1
INVARIANT GivenIsUsed
