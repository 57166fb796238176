\* Two concurrent callers sharing the pool index.
CONSTANTS
    Procs = {p1, p2}
    N = 2
    K = 2
    HashSeqs <- MC_HashSeqs
    Responses <- MC_Responses
    SlotFnCanFail = TRUE
INIT BeaconInit
NEXT BeaconNext
INVARIANT NoPanic
