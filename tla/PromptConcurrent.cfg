\* Two requests at once, clients that may leave is_default out, one scene.
SPECIFICATION Spec
CONSTANTS
    Ids = {1, 2}
    Keys = {"lineage", "custom"}
    Scenes = {"lineageScene"}
    Contents = {"shipped"}
    Versions = {"v1", "v2"}
    Statuses = {"active"}
    Shipped <- OneScene
    Workers = {w1, w2}
    PartialUpdates = TRUE
    MaxStarts = 2
    None = None
SYMMETRY WorkerSymmetry
INVARIANTS TypeOK VersionRecorded HistoryHasOwner
PROPERTY BootstrapNormalizes
CHECK_DEADLOCK FALSE
