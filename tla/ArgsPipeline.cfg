SPECIFICATION Spec
CONSTANTS
    Upper <- Words
    Lower <- Lowered
    Nearest <- Floats
    Inputs <- MCInputs
    Configs <- MCConfigs
    CustomResults <- MCCustomResults
    NoArgs <- Empty
    IsMap <- isArgsMap
    Decoded <- decoded
    HasJSON <- Marshals
    Placeholders <- findInvalidArgs
    Transformed <- applyArgsTransformer
    Renamed <- applyFieldMap
    Valid <- validateSchema
CHECK_DEADLOCK FALSE
INVARIANTS
    ArgumentsArrive
    PlaceholdersStayOut
    BadFieldsAreTheCallers
    SentConforms
