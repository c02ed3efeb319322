CONSTANTS
    api = api
    mon = mon
    ospf = ospf
    Services <- MCServices
    Deps <- MCDeps
    Lookups <- MCDeps
    Servers = {api}
    BadBuilders = {ospf}
    Fallible = {}
    Configs <- MCConfigs
    FirstConfig <- MCFirst
    NoConf = NoConf
    MaxConf = 1
    MaxGen = 2
    MaxCalls = 1
SPECIFICATION FairSpec
PROPERTIES ShutdownEndsUnlessStuck ConfigAppliedUnlessStuck
CHECK_DEADLOCK FALSE
