CONSTANTS
    Sessions = {s1, s2}
    Operators = {o1}
    SupportCalls = {c1, c2}
    Durations = {1}
    MaxDuration = 2
    MaxTime = 2
    NoSupportCall = NoSupportCall
    LoginCalls = {c1, c2}
    Links = {l1}
    MaxTokens = 3
    MaxChanges = 1
    MaxDays = 1
    Life = 0
    NoLoginCall = NoLoginCall
    Team = {a1, a2, a3}
    Staff = {e1, e2}
    Roles = {r1, r2}
    NoStaffCall = NoStaffCall
    GivenIds = {b1, b2}
    Slugs = {n0}
    Spares = {n1, n2}
    Emails = {f1, f2}
    NoLink = NoLink
    Hosts = {h1, h2}
    Slots = {x1, x2}
    Span = 2
    MaxKeys = 3
    MaxMoment = 2
    MaxFailures = 2
    CompanyOf <- MCCompanyOf
    Limit <- MCLimit
    NoRequest = NoRequest

SPECIFICATION AccessSpec

SYMMETRY Symmetry

CHECK_DEADLOCK FALSE

INVARIANTS
    TypesOK
    ConsentBehindWrites
    CredentialsSpent
    SomebodyInCharge
    LimitsKept

PROPERTIES
    EndedForGood
