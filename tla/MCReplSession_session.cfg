\* Two switches and two questions, everything that may fail failing.
SPECIFICATION FairSpec
CONSTANTS
    shop = shop
    archive = archive
    orders = orders
    customers = customers
    items = items
    logs = logs
    select = select
    show = show
    drop = drop
    Conns <- ConnsValue
    NoConn = NoConn
    Tables <- TablesValue
    TablesOf <- TablesOfValue
    NoMetadata = NoMetadata
    Statements = {select, show, drop}
    NoSql = NoSql
    Approved <- ApprovedValue
    OptIn = {shop}
    PromptCap = 2
    NoSelection = NoSelection
    MaxUses = 2
    MaxQuestions = 2
INVARIANTS
    TypeOK
    CatalogIsCurrent
    SamplesOnlyAfterWarning
    OnlyAuditedSqlOrSamplesRun
    PinsAreInCatalog
    QuestionSeesSessionCatalog
    PinsReachThePrompt
    SelectionIsOfThisConnection
PROPERTIES
    PinsAreSpent
    QuestionEnds
CHECK_DEADLOCK FALSE
