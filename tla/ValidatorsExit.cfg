\* Exit lists and the status beside the two update jobs; five keys, three blocks, every pair of parameters.
SPECIFICATION Spec
CONSTANTS
    k1 = k1
    k2 = k2
    k3 = k3
    k4 = k4
    k5 = k5
    None = None
    MaxBlock = 3
    Pubkeys = {k1, k2, k3, k4, k5}
    Index <- MCIndex
    KeysAt <- KeysIn
    UsedAt <- UsedIn
    ExitableAt <- ExitableIn
    ModuleSince = 2
    Percents = {0, 25, 34, 100, 150}
    Amounts = {0, 2, 9}
INVARIANT TypeOK
INVARIANT ExitListIsOldest
INVARIANT MetaDeterminesReply
INVARIANT StatusIsOneMoment
