\* A failing mempool ingest between StoreExecutedBatch and OnBatchExecuted.
CONSTANTS
    g = g  a1 = a1  a2 = a2  a3 = a3  b1 = b1  b2 = b2
    NoBlock = NoBlock
    NoSeq = NoSeq
    Blocks <- MC_Blocks
    Parent <- MC_Parent
    Height <- MC_Height
    L1Proof <- MC_L1Proof
    GenesisSeqNo = 1
    MaxSeq = 3
    InOrder = FALSE
    XChainCanFail = TRUE
    StoreCanFail = FALSE
    Faults = {"ingest"}
INIT Init
NEXT Next
INVARIANT RegistryTracksExecuted
\* Inputs are bounded and a panic halts the enclave.
CHECK_DEADLOCK FALSE
