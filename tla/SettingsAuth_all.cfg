SPECIFICATION Spec
CONSTANTS
    Installations = {i1, i2}
    Emails = {e1}
    Grants = {g1, g2}
    Challenges = {c1, c2, c3}
    Sessions = {s1, s2, s3}
    Calls = {t1, t2}
    Methods = {"operator", "install_callback"}
    ChallengeTtl = 2
    GrantTtls = {1, 2}
    MinGrantLeft = 1
    SessionTtl = 1
    KeepFor = 0
    MaxFailures = 2
    Cooldown = 0
    Hour = 2
    Day = 2
    HourlyRequests = 3
    DailyRequests = 3
    GrantRequests = 2
    HourlyFailures = 3
    MaxGeneration = 2
    MaxTime = 2
CONSTRAINT Explored
SYMMETRY Symmetry
CHECK_DEADLOCK FALSE
INVARIANTS
    NothingOutlivesInstallation
    OneOpenCode
    FailureLedger
    SpentOnce
PROPERTIES
    OnlyLateWritesRefused
    LoginUnambiguous
