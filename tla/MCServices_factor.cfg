INIT MCInit
NEXT MCNext
CONSTANTS
    Clients = {c1, c2}
    Names = {n1, n2}
    MaxProjects = 2
    MaxPlans = 3
    Editors = {c1, c2}
    Keys = {"A", "B"}
    Trades = {"S", "T"}
    Rank <- Strings
    MaxWrites = 3
    Planners = {c1, c2}
    Mondays = {0}
    LastDay = 1
    MaxPromises = 2
    Endpoints = {"sign_in", "upload"}
    Limit <- ShortAndLong
    Workers = {c1, c2}
    MaxTime = 4
    MaxHits = 3
    Browsers = {c1, c2}
    Orgs = {n1, n2}
    MaxFailedSignIns = 2
    Lockout = 1
    RecoveryCodes = 2
    MaxMinutes = 3
    MaxSecrets = 2
    MaxRefused = 5
    Visitors = {c1, c2}
    Tenants = {t1, t2}
    Emails = {"x"}
    Subjects = {"s1", "s2"}
    MaxUsers = 3
    Scenes = {"one request"}
INVARIANT FactorGuardsSessions
SYMMETRY Clones
CHECK_DEADLOCK FALSE
