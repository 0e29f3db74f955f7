\* One request at a time from clients that always send is_default (the admin
\* page): the flags of two scenes, contents and their snapshots.
SPECIFICATION Spec
CONSTANTS
    Ids = {1, 2}
    Keys = {"lineage", "custom"}
    Scenes = {"lineageScene", "slaScene"}
    Contents = {"shipped", "edited"}
    Versions = {"v1", "v2"}
    Statuses = {"active"}
    Shipped <- OneScene
    Workers = {w1}
    PartialUpdates = FALSE
    MaxStarts = 2
    None = None
INVARIANTS OneDefaultPerScene SnapshotCurrent
PROPERTY PastVersionsFrozen
CHECK_DEADLOCK FALSE
