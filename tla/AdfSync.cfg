\* Overlapping syncs with faults on a server with REPEATABLE READ, each of them
\* scheduled fairly.
SPECIFICATION FairSpec
CONSTANTS
    Syncs = {s1, s2, s3}
    Assets = {"pipeline", "dataset"}
    Payloads = {"v1", "v2"}
    Refs <- SingleRefs
    Calls <- ListCalls
    Databases = {"sqlite", "mysql", "mariadb"}
    Overlap = TRUE
    Faults = TRUE
    MaxDeploys = 2
    None = None
INVARIANTS PropertiesVersioned LockedLookupsSuffice
PROPERTIES ErrorMatchesStatus SucceededJobsKept ImplementsLedger SyncEnds
CHECK_DEADLOCK FALSE
