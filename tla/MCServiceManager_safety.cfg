CONSTANTS
    api = api
    mon = mon
    ospf = ospf
    Services <- MCServices
    Deps <- MCDeps
    Lookups <- MCDeps
    Servers = {api}
    BadBuilders = {ospf}
    Fallible = {mon}
    Configs <- MCConfigs
    FirstConfig <- MCServices
    NoConf = NoConf
    MaxConf = 1
    MaxGen = 2
    MaxCalls = 1
SPECIFICATION Spec
INVARIANTS OneGeneration SnapshotIsOneConfig LookupsAreCurrent
CHECK_DEADLOCK FALSE
