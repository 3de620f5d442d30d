\* Every endpoint, for every way of writing its parameters, before and after two commits.
SPECIFICATION Spec
CONSTANTS
    Addresses = {"curated", "csm", "other"}
    ZeroAddress = "zero"
    Pubkeys = {"p1", "p2", "p3"}
    Absent = Absent
    BadRequest = BadRequest
    Blocks = {"b1", "b2"}
    NoBlock = "none"
    Null = Null
    MaxInt = 2
    Snapshots <- Committed
    ModuleIdTexts <- ModuleIdTextsMC
    NumberInputs <- NumberTextsMC
    AddressInputs <- AddressListsMC
    PubkeyInputs <- PubkeyTexts
    PubkeysInputs <- PubkeyListsMC
INVARIANTS
    TypeOK
    EmptyServesNothing
    ReadsAgree
    FiltersSplit
    ModuleNamedAnyhow
