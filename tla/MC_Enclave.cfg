\* Safety of the composed core: out-of-order L1 delivery, every storage
\* fault except a failing mempool ingest, and a failing mempool start.
CONSTANTS
    g = g  a1 = a1  a2 = a2  a3 = a3  b1 = b1  b2 = b2
    NoBlock = NoBlock
    NoSeq = NoSeq
    Blocks <- MC_Blocks
    Parent <- MC_Parent
    Height <- MC_Height
    L1Proof <- MC_L1Proof
    GenesisSeqNo = 1
    MaxSeq = 4
    InOrder = FALSE
    XChainCanFail = TRUE
    StoreCanFail = FALSE
    Faults = {"genesis", "fetchBlock", "wasExecuted", "execute", "store", "mempoolStart"}
INIT Init
NEXT Next
INVARIANT TypeOK
INVARIANT StoredChainConnected
INVARIANT IngestionAsReference
PROPERTY ImplementsBatchExecution
INVARIANT RegistryTracksExecuted
\* Inputs are bounded: once every block and batch is in, or after a panic,
\* the enclave waits for input that the model does not produce.
CHECK_DEADLOCK FALSE
