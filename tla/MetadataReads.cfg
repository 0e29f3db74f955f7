\* One question at a time on both kinds of database, while the tables change.
SPECIFICATION FairSpec
CONSTANTS
    Assets <- AssetIds
    Names = {"orders", "q1", "q2", "q3", "q4", "q5", "q6"}
    Keys = {"orders", "q6"}
    Name <- NameOf
    QualifiedName <- QualifiedNameOf
    Deps = {1, 2, 3, 4, 5, 6, 7}
    Upstream <- UpstreamOf
    Downstream <- DownstreamOf
    Contents <- DepContents
    MaxDepth = 3
    MaxCommits = 2
    Apis = {3, 6}
    Impacts <- ImpactRows
    MaxReports = 1
    Domains = {"d1", "d2"}
    Customer = "d1"
    DayLength = 2
    Zones = {1}
    MaxTime = 2
    MaxLoads = 3
    NoRow = NoRow
INVARIANTS EdgesExact AnswerBetween NodesExplained ApisAccounted HealthUpToDate FailuresOfOneDay RedDomainsComplete FailuresExplained
PROPERTY QuestionsAnswered
CHECK_DEADLOCK FALSE
