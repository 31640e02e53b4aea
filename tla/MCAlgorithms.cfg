CONSTANTS
    RefParts <- SomeRefs
    Hash = 0
    KiKit = 2
    PowerLibs <- PowerOnly
    MaxAssets = 2
    ValueLess <- SmallLess
    NoPart = NoPart
    SnippetRunes = 3
    InFootprint <- Fits
    Prices <- SomePrices
    Junk <- SomeJunk
    Long <- SomeLong
    SupplierKey <- SomeKeys
    Major <- SomeMajor
    TypeSaid <- SomeTypes
    UnmappedMarker = "unmapped"
    StartsWith <- SomePrefix
    ReadsAs <- SomeReadings
    ListCap = 3
    FoundCap = 2
    LowCap = 2
SPECIFICATION Spec
INVARIANTS BillsMatched ToolsUnderstood ModelsHeard LabelsPrinted PartsUnderstood
\* A question is asked once.
CHECK_DEADLOCK FALSE
