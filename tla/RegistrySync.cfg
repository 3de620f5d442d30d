SPECIFICATION Spec
CONSTANTS
    NoBlock = NoBlock
    NoRow = NoRow
    NOperators = 2
    NKeys = 3
    FinalityWaits = TRUE
    Blocks <- MCBlocks
    Parent <- MCParent
    Number <- MCNumber
    Ancestors <- MCAncestors
    OpCount <- MCOpCount
    Operator <- MCOperator
    SigningKey <- MCSigningKey
    Rewards <- MCRewards
    Keys <- MCKeys
INVARIANTS
    TypeOK
    TablesMatchContract
    SkippedKeysUnchanged
PROPERTIES
    MirrorSpec
