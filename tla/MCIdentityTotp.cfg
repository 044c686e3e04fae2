\* Two logins, one challenge and two secrets; the other scenes are as small as
\* they can be.
SPECIFICATION IdentitySpec
CONSTANTS
    None = None
    Sessions = {b1}
    Tokens = {1}
    Requests = {a1}
    LoginHandlers = {a1, a2}
    Challenges = {1}
    Secrets = {b1, b2}
    Codes = {}
    Limit = 1
    RedisLimit = 1
    MaxClock = 1
    Users = {b1}
    Custom = {}
    Asked = {{"owner"}}
    Invitations = {i1}
    FirstInvitation = i1
    MembershipHandlers = {a1}
    SymmetricA = {a1, a2}
    SymmetricB = {b1, b2}
SYMMETRY Symmetry
INVARIANT TotpUsedOnce
CHECK_DEADLOCK FALSE
