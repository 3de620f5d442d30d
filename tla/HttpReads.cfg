\* One client and every kind of handler beside three commits of the keys job, with weak fairness of handlers and idle timers.
SPECIFICATION FairSpec
CONSTANTS
    Clients = {"c1"}
    Modules = {"curated", "csm"}
    Served = {"keys", "operatorsKeys", "v2", "pubkey", "moduleOperator", "findModuleKeys", "grouped"}
    MaxSnapshot = 3
    ModulesAt <- ModulesIn
    RowCount <- Found
INVARIANTS
    TypeOK
    CompleteRepliesAreSnapshots
    StreamedRowsBelongToMeta
    GroupedKeysNotOlder
PROPERTY
    StreamsEnd
