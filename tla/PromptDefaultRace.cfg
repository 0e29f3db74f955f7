\* Two requests at once, clients that always send is_default.
SPECIFICATION Spec
CONSTANTS
    Ids = {1, 2, 3}
    Keys = {"lineage", "sla", "custom"}
    Scenes = {"lineageScene", "slaScene"}
    Contents = {"shipped"}
    Versions = {"v1"}
    Statuses = {"draft", "active"}
    Shipped <- TwoScenes
    Workers = {w1, w2}
    PartialUpdates = FALSE
    MaxStarts = 2
    None = None
INVARIANT SceneUnambiguous
CHECK_DEADLOCK FALSE
