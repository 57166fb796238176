\* Progress of the walk: in-order L1 delivery (the host feeds the chain
\* parent first), every storage fault including a failing mempool ingest.
CONSTANTS
    g = g  a1 = a1  a2 = a2  a3 = a3  b1 = b1  b2 = b2
    NoBlock = NoBlock
    NoSeq = NoSeq
    Blocks <- MC_Blocks
    Parent <- MC_Parent
    Height <- MC_Height
    L1Proof <- MC_L1Proof
    GenesisSeqNo = 1
    MaxSeq = 3
    InOrder = TRUE
    XChainCanFail = FALSE
    StoreCanFail = FALSE
    Faults = {"genesis", "fetchBlock", "wasExecuted", "execute", "store", "ingest"}
SPECIFICATION Spec
PROPERTY BatchesEventuallyExecuted
\* Inputs are bounded: once every block and batch is in, the enclave waits
\* for input that the model does not produce.
CHECK_DEADLOCK FALSE
