\* No configured gas cap (GasLocalExecutionCapFlag = 0) and a caller gas
\* limit at the top of uint64, for calls that keep failing.
CONSTANTS
    NoGas = NoGas
    NoValue = NoValue
    W = 5
    TxGas = 3
    ArgsGasValues = {31}
    FeeCapValues = {0}
    Balances = {8}
    Values = {2}
    GasCapFlags = {0}
    Intrinsics = {3}
    Needs = {3, 20}
    L1Costs = {4}
    BaseFees = {2}
SPECIFICATION GasSpec
PROPERTY EstimateTerminates
