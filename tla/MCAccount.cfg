\* Two account requests at a time.
CONSTANTS
    Handlers = {c1, c2}
    Sessions = {s1, s2}
    Usernames = {u1, u2}
    Passwords = {w1, w2}
    Secrets = {t1, t2}
    Codes = {k1, k2}
    CodesPerSet = 1
    Attempts = 2
    NoSecret = NoSecret
    NoSession = NoSession
    Nothing = Nothing
SYMMETRY Symmetry
SPECIFICATION Spec
CHECK_DEADLOCK FALSE
INVARIANTS
    RecoveryCodeOnce
    CodesAsShown
    LastPasswordStands
    FailuresBounded
PROPERTIES
    ChangeEndsSessions
