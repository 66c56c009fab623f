SPECIFICATION Spec
CONSTANTS
    Atoms <- AtomsValue
    NoText = ""
    Lower <- LowerValue
    Cleaned <- CleanedValue
    Sources <- SourcesValue
    CatalogCaps <- CatalogCapsValue
    MaxFailures = 2
    Typings <- TypingsValue
    Scores <- ScoresValue
    PromptCaps <- PromptCapsValue
    MaxPins = 2
INVARIANTS
    TypeOK
    CatalogIsOfTheNamespace
    EveryTableIsAccountedFor
    EmptyMeansEmpty
    LinksAreKeysAsFiled
    SampleNamesTheTable
    PinsResolveToThemselves
    SelectionIsAsPromised
    BridgesGetRoom
    OneHopOnly
    BestMatchesFirst
CHECK_DEADLOCK FALSE
