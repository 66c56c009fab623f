SPECIFICATION Spec
CONSTANTS
    Atoms <- AtomsValue
    NoText = ""
    Lower <- LowerValue
    Cleaned <- CleanedValue
    Sources <- SearchPathSources
    CatalogCaps <- CatalogCapsValue
    MaxFailures = 0
    Typings <- TypingsValue
    Scores <- ScoresValue
    PromptCaps <- PromptCapsValue
    MaxPins = 2
INVARIANT LinksAreTheForeignKeys
CHECK_DEADLOCK FALSE
