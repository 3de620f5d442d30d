SPECIFICATION FairSpec
CONSTANTS
    NoBlock = NoBlock
    NoRow = NoRow
    Missing = Missing
    NModules = 4
    MaxBlocksOverlap = 3
    Blocks <- MCBlocks
    Parent <- MCParent
    Number <- MCNumber
    Ancestors <- MCAncestors
    Addresses <- MCAddresses
    Types <- MCTypes
    STAKING_MODULE_TYPE <- MCKnownTypes
    TypeOf <- MCTypeOf
    ModuleCount <- MCModuleCount
    Address <- MCAddress
    Nonce <- MCNonce
    Keyset <- MCKeyset
    Names <- MCNames
    Topics <- MCTopics
    Known <- MCKnown
INVARIANTS
    TypeOK
    ModuleRowFaithful
    LastChangedIdentifiesKeys
    SnapshotNamesFaithful
PROPERTIES
    SnapshotsSpec
    EventuallyCaughtUp
