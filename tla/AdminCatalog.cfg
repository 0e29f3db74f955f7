\* What admins, syncs and five starts of the server make of the catalog.
SPECIFICATION CatalogSpec
CONSTANTS
    Ids = {1, 2, 3}
    Keys = {"lineage", "sla", "Lineage"}
    Scenes = {"lineageScene", "slaScene", "LineageScene"}
    Contents = {"shipped"}
    Versions = {"v1", "V1"}
    Statuses = {"active"}
    Shipped <- TwoScenes
    Workers = {w1}
    PartialUpdates = TRUE
    MaxStarts = 5
    None = None
    Tools = {"get_asset"}
    DefaultBindings <- Pairs
    Collate <- Collation
    MaxEdits = 2
    Memories = {1, 2}
    Texts = {"old", "new"}
    Channels = {telegram, slack}
    Clients = {c1, c2}
    MaxAudits = 2
    Absent = Absent
    Assets <- AssetIds
    SystemOf <- SystemNames
    DomainOf <- DomainNames
    NameOf <- AssetNames
    Fold <- LowerCase
    Batches <- Single
    BasicJobs = {"daily_summary", "refresh_runtime"}
    Topics = {"templates", "sources", "tools", "records"}
SYMMETRY RecordSymmetry
INVARIANTS BindingsCatchUp MemoriesAudited ChannelsAudited
PROPERTIES BindingsNormalized ChosenKept SecondDefaultMoved BootstrapSettles FailsOnlyOnAlikes TablesMatchAssets
CHECK_DEADLOCK FALSE
