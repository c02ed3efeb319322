CONSTANTS
    api = api
    mon = mon
    ospf = ospf
    Services <- MCServices
    Deps <- MCDeps
    Lookups <- MCDeps
    Servers = {api}
    BadBuilders = {}
    Fallible = {}
    Configs <- MCSame
    FirstConfig <- MCServices
    NoConf = NoConf
    MaxConf = 1
    MaxGen = 2
    MaxCalls = 0
SPECIFICATION FairSpec
PROPERTIES ConfigApplied
CHECK_DEADLOCK FALSE
