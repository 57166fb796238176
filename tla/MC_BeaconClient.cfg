\* One caller and a pool of three beacon nodes: the response checks and the
\* failover. Two callers sharing the pool index are the race run
\* (MC_BeaconClient_race.cfg).
CONSTANTS
    Procs = {p1}
    N = 3
    K = 2
    HashSeqs <- MC_HashSeqs
    Responses <- MC_Responses
    SlotFnCanFail = TRUE
INIT BeaconInit
NEXT BeaconNext
INVARIANT FailoverTriesEveryClient
INVARIANT BeaconTypeOK
INVARIANT BlobsMatchRequest
