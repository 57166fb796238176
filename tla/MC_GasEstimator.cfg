\* Estimation with a configured gas cap: every fee form, allowance below,
\* within and above uint64, calls that succeed late, revert or error.
CONSTANTS
    NoGas = NoGas
    NoValue = NoValue
    W = 5
    TxGas = 3
    ArgsGasValues = {2, 5, 31}
    FeeCapValues = {0, 2}
    Balances = {8, 80}
    Values = {2, 8}
    GasCapFlags = {6, 12}
    Intrinsics = {3, 4}
    Needs = {4, 5, 9}
    L1Costs = {5, 60}
    BaseFees = {2}
SPECIFICATION GasSpec
INVARIANT GasTypeOK
INVARIANT EstimateIsLeastSufficient
PROPERTY EstimateTerminates
