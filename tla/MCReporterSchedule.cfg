CONSTANTS
    ReportInterval = 6
    FlushPeriod = 2
    Timeout = 2
    RefreshInterval = 60
    Horizon = 12
SPECIFICATION Spec
INVARIANTS
    TypeOK
    StopsInTime
    LogsAreFlushedInTime
PROPERTY
    ReportsRecur
