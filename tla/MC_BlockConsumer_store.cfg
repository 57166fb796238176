\* StoreBlock fails and line 68 ignores it; the host resends the block.
\* Are a block's cross-chain messages still stored at most once?
CONSTANTS
    g = g  a1 = a1  a2 = a2  b1 = b1  b2 = b2
    NoBlock = NoBlock
    Blocks <- MC_Blocks
    Parent <- MC_Parent
    Height <- MC_Height
    InOrder = TRUE
    XChainCanFail = FALSE
    StoreCanFail = TRUE
INIT ConsumerInit
NEXT ConsumerNext
INVARIANT ExtractedAtMostOnce
\* Inputs are bounded: once every block is stored the consumer waits for
\* blocks the model does not produce.
CHECK_DEADLOCK FALSE
