\* The instance of MCApi.cfg: what an available file is worth.
SPECIFICATION SceneSpec
CONSTANTS
    None = None
    a1 = a1
    a2 = a2
    b1 = b1
    b2 = b2
    r3 = r3
    r4 = r4
    Sessions = {b1, b2}
    Tokens = {1, 2, 3, 4}
    Requests = {a1, a2, r3}
    LoginHandlers = {a1, a2}
    Challenges = {1}
    Secrets = {b1, b2}
    Codes = {k1}
    Limit = 1
    RedisLimit = 1
    MaxClock = 1
    Users = {b1, b2}
    Custom = {"auditor"}
    Asked = {{"owner"}, {"auditor"}}
    Invitations = {i1, i2}
    FirstInvitation = i1
    MembershipHandlers = {a1, a2}
    SymmetricA = {a1, a2}
    SymmetricB = {b1, b2}
    Deliveries = {a1, a2, r3, r4}
    KeyOf <- MCKeyOf
    BodyOf <- MCBodyOf
    SourceOf <- MCSourceOf
    Malformed = {"b3"}
    Workers = {b1, b2}
    ApiKeys = {k1}
    WebhookSecrets = {s1, s2, s3}
    IssueKeys = {i0}
    RotationKeys = {a1, a2}
    Administrators = {b1, b2}
    Events = {e1}
    MaxVersion = 3
    Files = {f1, f2}
    Harmful = {f2}
    UploadKeys = {a1, a2}
    Inspectors = {b1, b2}
    Assets = {r3}
    Rules = {r4}
    Policies = {p1}
    CatalogKeys = {a1, a2}
    Authors = {b1, b2}
    MaxItemVersion = 3
SYMMETRY Symmetry
VIEW View
INVARIANT AvailableIsSound
CHECK_DEADLOCK FALSE
