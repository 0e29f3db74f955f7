\* Overlapping syncs on MySQL and the version history.
SPECIFICATION Spec
CONSTANTS
    Syncs = {s1, s2, s3}
    Assets = {"pipeline", "dataset"}
    Payloads = {"v1", "v2"}
    Refs <- SingleRefs
    Calls <- ListCalls
    Databases = {"mysql"}
    Overlap = TRUE
    Faults = FALSE
    MaxDeploys = 1
    None = None

INVARIANT VersionsDistinct
CHECK_DEADLOCK FALSE
