\* Out-of-order delivery (spec 5 says it is tolerated): does the consumer ever panic?
CONSTANTS
    g = g  a1 = a1  a2 = a2  b1 = b1  b2 = b2
    NoBlock = NoBlock
    Blocks <- MC_Blocks
    Parent <- MC_Parent
    Height <- MC_Height
    InOrder = FALSE
    XChainCanFail = TRUE
    StoreCanFail = FALSE
INIT ConsumerInit
NEXT ConsumerNext
INVARIANT NoPanic
