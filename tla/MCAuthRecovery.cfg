SPECIFICATION RecoverySpec
CONSTANTS
    c1 = c1
    c2 = c2
    t1 = t1
    t2 = t2
    t3 = t3
    NONE = NONE
    Calls = {c1, c2}
    Writers = {c1}
    Raising = {}
    Tickets = {t1, t2, t3}
    AuthModes = {"ticket"}
    REQUEST_TIMEOUT = 1
    TICKET_LIFETIME = 1
    AUTH_RETRY_COOLDOWN = 1
    SERVER_LIFETIME = 3
PROPERTY Recovers
