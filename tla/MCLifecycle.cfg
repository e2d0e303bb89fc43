\* Releases that do not come up at all, or not at every address.
CONSTANTS
    v1 = v1
    v2 = v2
    v3 = v3
    local = local
    addrA = addrA
    addrC = addrC
    Releases = {v1, v2, v3}
    Addresses = {local, addrA}
    Loopback = local
    Works <- MCWorks
    NoRelease = NoRelease
    NoAddress = NoAddress
    NoDb = NoDb
    NoBackup = NoBackup
    MaxChanges = 2
    MaxBackups = 2
    MaxFaults = 1
SPECIFICATION Spec
CHECK_DEADLOCK FALSE
INVARIANTS
    StaysHealthy
    FailedReinstates
    RunsInstalled
    NothingLost
