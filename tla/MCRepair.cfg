\* Does a repair restart the service?
CONSTANTS
    v1 = v1
    v2 = v2
    v3 = v3
    local = local
    addrA = addrA
    addrC = addrC
    Releases = {v1, v2}
    Addresses = {local}
    Loopback = local
    Works <- MCWorks
    NoRelease = NoRelease
    NoAddress = NoAddress
    NoDb = NoDb
    NoBackup = NoBackup
    MaxChanges = 0
    MaxBackups = 1
    MaxFaults = 1
SPECIFICATION Spec
CHECK_DEADLOCK FALSE
INVARIANTS
    RepairRestarts
