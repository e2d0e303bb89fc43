\* Does a failed reconfiguration leave the service as it was?
CONSTANTS
    v1 = v1
    v2 = v2
    v3 = v3
    local = local
    addrA = addrA
    addrC = addrC
    Releases = {v1}
    Addresses = {local, addrA, addrC}
    Loopback = local
    Works <- MCWorks
    NoRelease = NoRelease
    NoAddress = NoAddress
    NoDb = NoDb
    NoBackup = NoBackup
    MaxChanges = 0
    MaxBackups = 1
    MaxFaults = 0
SPECIFICATION Spec
CHECK_DEADLOCK FALSE
INVARIANTS
    FailedReconfigureRestores
