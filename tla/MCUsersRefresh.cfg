\* A report interval of one minute, a users_refresh_interval of ten seconds.
CONSTANTS
    ReportInterval = 12
    FlushPeriod = 2
    Timeout = 2
    RefreshInterval = 2
    Horizon = 30
SPECIFICATION Spec
INVARIANT
    UsersAreRefreshedInTime
