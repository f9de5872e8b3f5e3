\* One device, two requests side by side: logins, refreshes, revocations and
\* account operations.
SPECIFICATION Spec
CONSTANTS
    Devices = {d1}
    ReqIds = {r1, r2}
    None = None
    MaxRaw = 3
    MaxVersion = 2
    MaxWeb = 1
    Ops = {"login", "refresh", "logout", "password", "disable", "enable", "delete", "expire", "web_login", "web_logout", "legacy_disable"}
INVARIANTS TypeOK LiveSessionProvedPassword RefreshTokenSingleUse TokensEndWithPassword
PROPERTIES RevokedUntilLogin
SYMMETRY Symmetry
\* Nothing is left to do once the account is deleted.
CHECK_DEADLOCK FALSE
