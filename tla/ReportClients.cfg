\* Two runs of a daily_summary job that somebody creates and two chats with up
\* to two tools each, scheduled fairly.
SPECIFICATION FairSpec
CONSTANTS
    Jobs = {"daily"}
    Daily = {"daily"}
    Seeded = {}
    Runs = {r1, r2}
    Chats = {x1, x2}
    MaxIterations = 1
    MaxCalls = 2
    None = None
INVARIANTS RunningJobHasRun AuditMatchesRuns OrderRespectsTime QuietChatsRecorded
PROPERTY RequestsEnd
CHECK_DEADLOCK FALSE
