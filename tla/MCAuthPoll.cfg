SPECIFICATION FairSpec
CONSTANTS
    c1 = c1
    c2 = c2
    t1 = t1
    t2 = t2
    t3 = t3
    NONE = NONE
    Calls = {c1, c2}
    Writers = {c1}
    Raising = {c2}
    Tickets = {t1, t2, t3}
    AuthModes = {"ticket", "token", "incomplete"}
    REQUEST_TIMEOUT = 1
    TICKET_LIFETIME = 1
    AUTH_RETRY_COOLDOWN = 2
    SERVER_LIFETIME = 3
INVARIANTS
    TypeOK
    LockHeldByLogin
    PairedCsrf
    NoExpiryRace
PROPERTIES
    ImplementsSharedTicket
    FailedLoginIsRemembered
    ErrorContract
    EveryCallReturns
