\* The same with a pipeline whose activities read one dataset twice.
SPECIFICATION FairSpec
CONSTANTS
    Syncs = {s1}
    Assets = {"pipeline", "dataset"}
    Payloads = {"v1"}
    Refs <- RepeatedRefs
    Calls <- ListCalls
    Databases = {"mysql"}
    Overlap = FALSE
    Faults = FALSE
    MaxDeploys = 0
    None = None

PROPERTY SyncSucceeds
CHECK_DEADLOCK FALSE
