SPECIFICATION AllSpec
CONSTANTS
    Width = 6
    Bases = {0, 32}
    VpcMasks = {1, 2}
    MaxTiers = 3
    MaxZones = 3
    SubnetMasks = {2, 3, 4, 5, 6}
    Accounts = {"home", "other"}
    Regions = {"east", "west"}
    Names = {"n1", "n2"}
    Masks = {"16"}
    Blocks = {"10.1.0.0"}
    None = "none"
    Profiles = {"default", "jobs"}
    Filters = {"parse", "rewrite", "kube", "custom"}
    FilterKind <- MCFilterKind
    Outputs = {"group", "stub", "stream", "hose", "search"}
    OutputKind <- MCOutputKind
    Parsers = {"json", "regex"}
    ParserName <- MCParserName
    DefaultFilter = "default-filter"
    DefaultOutput = "default-output"
    MaxFilters = 2
    MaxOutputs = 2
    Scrapes <- MCScrapes
    LogStack = "logs"
    OtherStacks = {"web"}
    LogAccounts = {"a", "b"}
    Home = "a"
    Buckets = {"b1", "b2"}
    KeyPrefixes = {"", "p/"}
    Formats <- MCFormats
    Fields = {"bytes", "action"}
    MaxCalls = 2
    Tables <- MCTables
    Values = {"one", "other"}
    ReceiverNames = {"team", "oncall"}
    IntervalNames = {"night"}
    RouteIds = {"a", "b"}
    RuleIds = {"r"}
    MaxTemplates = 1
CONSTRAINT FewCidrs
INVARIANTS
    SubnetsShareTheVpc
    RefusalsAreRight
    CidrsAreBacked
    BlocksHaveOneHolder
    ProfilesMayDeliver
    PodMetricsArrive
    LogsAreFound
    QueriesFindRows
    LogsMayBeDelivered
    EditsArrive
    DocumentIsClosed
PROPERTY RendersSafely
\* What has been written, laid out or refused has ended.
CHECK_DEADLOCK FALSE
