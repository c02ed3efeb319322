CONSTANTS
    Settings <- MCSettings
    Limit <- MCLimit
    Default <- MCDefault
    Names <- MCNames
    Ids = {0, 1}
    IdOf <- MCIdOf
    BadId = BadId
    Backbone = 0
    Interfaces = {"en0", "en1"}
    Unset = Unset
    NotInt = NotInt
    Documents <- MCDocuments
    Bodies <- MCBodies
    Ages = {0, 900, 901, 1801, 3599, 3600}
    Seqs <- MCSeqs
    DamagedOctets = {0, 1, 128, 254, 255}
    Services = {api, mon, ospf, rip}
    ApiServer = api
    MaxDeps = 2
    DepLists <- MCDepLists
SPECIFICATION MCSpec
INVARIANTS DependencyOrder Complete VerdictIsDocument SettingsAreNearest ChecksumTellsDamage RecencyIsOrder
PROPERTIES Terminates
CHECK_DEADLOCK FALSE
