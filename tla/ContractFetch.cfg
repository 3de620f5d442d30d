SPECIFICATION Spec
CONSTANTS
    b1 = b1
    b2 = b2
    none = none
    registry = registry
    Blocks <- MCBlocks
    OperatorsAt <- MCOperatorsAt
    None <- none
    KEYS_LENGTH <- MCKeysLength
    SIGNATURE_LENGTH <- MCSignatureLength
    MetaRegistry <- registry
    REGISTRY_OPERATORS_BATCH_SIZE = 2
    KeysBatchSize = 2
INVARIANTS
    TypeOK
    FailsOnlyByFault
PROPERTIES
    ReadsWholeOrNothing
    RoundEnds
