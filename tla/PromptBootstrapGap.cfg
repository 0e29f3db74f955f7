\* One request at a time and a restart after it.
SPECIFICATION Spec
CONSTANTS
    Ids = {1, 2, 3}
    Keys = {"lineage", "sla", "custom"}
    Scenes = {"lineageScene", "slaScene"}
    Contents = {"shipped"}
    Versions = {"v1"}
    Statuses = {"draft", "active"}
    Shipped <- TwoScenes
    Workers = {w1}
    PartialUpdates = FALSE
    MaxStarts = 2
    None = None
PROPERTY BootstrapCoversScenes
CHECK_DEADLOCK FALSE
