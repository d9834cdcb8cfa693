SPECIFICATION AccountsSpec
CONSTANTS
    Users = {u1}
    Tokens = {k1, k2}
    Sessions = {s1, s2}
    Txns = {t1, t2}
    Passwords = {p1, p2}
    SeededUsers = {u1}
    CustomerIdle = 1
    AdminIdle = 2
    MaxLifetime = 2
    Nil = Nil
SYMMETRY AccountSymmetry
INVARIANTS
    OldSessionsOverlapped
    SessionsExpire
PROPERTIES
    DisabledAccountsDoNothing
    TokenInstallsOnce
    CredentialNeedsInbox
