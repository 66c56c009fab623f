\* What an empty catalog is taken to mean.
SPECIFICATION Spec
CONSTANTS
    shop = shop
    archive = archive
    orders = orders
    customers = customers
    items = items
    logs = logs
    select = select
    show = show
    drop = drop
    Conns <- ConnsValue
    NoConn = NoConn
    Tables <- TablesValue
    TablesOf <- TablesOfValue
    NoMetadata = NoMetadata
    Statements = {select, show, drop}
    NoSql = NoSql
    Approved <- ApprovedValue
    OptIn = {shop}
    PromptCap = 2
    NoSelection = NoSelection
    MaxUses = 1
    MaxQuestions = 1
INVARIANTS
    NoTablesMeansEmpty
CHECK_DEADLOCK FALSE
