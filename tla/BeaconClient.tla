---------------------------- MODULE BeaconClient ----------------------------
(***************************************************************************)
(* The L1 beacon client (go/ethadapter/beacon_client.go): FetchBlobs by    *)
(* concurrent callers over one L1BeaconClient.                             *)
(*                                                                         *)
(* A call computes the slot with the time-to-slot function. That function  *)
(* is built once, under initLock, from the beacon genesis and the config   *)
(* spec. The call then asks the pool of sidecar fetchers in turn,          *)
(* beginning at the pool's current index and moving the index on after     *)
(* every error. The sidecars it gets are filtered and ordered by the       *)
(* requested hashes, and checked by blobsFromSidecars.                     *)
(*                                                                         *)
(* ClientPool.index is shared and has no lock. Get reads it, and           *)
(* MoveToNext does a load and a store (index += 1), a compare with the     *)
(* length and a store of 0, so each of those is a separate step.           *)
(*                                                                         *)
(* A sidecar is identified by its blob index. The slot's blobs are         *)
(* 0..K-1. A beacon node answers with some of them, in some order, and     *)
(* some of its sidecars may carry a commitment that does not hash to the   *)
(* requested versioned hash, or a proof that does not verify ("bad").      *)
(***************************************************************************)
EXTENDS Naturals, Sequences, SequencesExt

CONSTANTS
    Procs,      \* goroutines calling FetchBlobs
    N,          \* pool length: the primary client and its fallbacks
    K,          \* blobs in the slot
    HashSeqs,   \* the IndexedBlobHash sequences callers request (by index)
    Responses,  \* the sidecar index sequences a beacon node may answer with
    SlotFnCanFail  \* BeaconGenesis / ConfigSpec may fail or give 0 s per slot

Clients == 0..(N - 1)
BlobIdx == 0..(K - 1)

ASSUME N \in Nat \ {0}
ASSUME \A r \in Responses : IsInjective(r) /\ ToSet(r) \subseteq BlobIdx
ASSUME SlotFnCanFail \in BOOLEAN

VARIABLES
    index,    \* ClientPool.index
    slotFn,   \* L1BeaconClient.timeToSlotFn is set
    pc,       \* pc[p]: where caller p is
    req,      \* req[p]: [hashes, early] the hashes and whether the block precedes genesis
    i,        \* i[p]: fetchSidecars loop counter
    tmp,      \* tmp[p]: the index loaded by p.index += 1
    f,        \* f[p]: the client Get returned
    tried,    \* tried[p][k]: the client p asked on iteration k (history)
    resp,     \* resp[p]: [data, bad] the successful response
    result,   \* result[p]: what FetchBlobs returned
    panicked  \* an index out of range panic ended the process

beaconVars == <<index, slotFn, pc, req, i, tmp, f, tried, resp, result, panicked>>

Requests == [hashes: HashSeqs, early: BOOLEAN]

\* A response: the sidecars in the order sent, and those with a bad commitment.
Answers == UNION {{[data |-> r, bad |-> b] : b \in SUBSET ToSet(r)} : r \in Responses}

Ok(blobs) == [kind |-> "ok", blobs |-> blobs]
Err(kind) == [kind |-> kind]
None == [kind |-> "none"]

(***************************************************************************)
(* GetBlobSidecars after the fetch, then blobsFromSidecars: for every      *)
(* requested hash, the first sidecar with its index, in hash order. Then   *)
(* the count check, and per position the order check and the commitment   *)
(* and proof check.                                                        *)
(***************************************************************************)
\* Mutant: the sidecars kept in the order the node sent them.
FilterByResponse(hashes, data) ==
    SelectSeq(data, LAMBDA d : \E j \in 1..Len(hashes) : hashes[j] = d)

FilterByHashes(hashes, data) ==
    SelectSeq(hashes, LAMBDA h : \E j \in 1..Len(data) : data[j] = h)

BlobsFromSidecars(scs, hashes, bad) ==
    LET failing == {j \in 1..Len(hashes) : scs[j] # hashes[j] \/ scs[j] \in bad}
    IN  IF Len(scs) # Len(hashes) THEN Err("mismatch")
        ELSE IF failing = {} THEN Ok(scs)
        ELSE IF scs[Min(failing)] # hashes[Min(failing)] THEN Err("order")
        ELSE Err("hash")

CheckSidecars(hashes, answer) ==
    LET scs == FilterByHashes(hashes, answer.data)
    IN  IF Len(hashes) # Len(scs) THEN Err("count")
        ELSE BlobsFromSidecars(scs, hashes, answer.bad)

Return(p, r) ==
    /\ result' = [result EXCEPT ![p] = r]
    /\ pc' = [pc EXCEPT ![p] = "done"]

-----------------------------------------------------------------------------
(***************************************************************************)
(* FetchBlobs / GetBlobSidecars: no hashes, no work.                       *)
(***************************************************************************)
Start(p) ==
    /\ pc[p] = "start"
    /\ IF req[p].hashes = <<>>
       THEN Return(p, Ok(<<>>))
       ELSE pc' = [pc EXCEPT ![p] = "slot"] /\ UNCHANGED result
    /\ UNCHANGED <<index, slotFn, req, i, tmp, f, tried, resp, panicked>>

(***************************************************************************)
(* GetTimeToSlotFn, whole under initLock, and the call of the function:    *)
(* the cached function, or genesis and config fetched and the function     *)
(* built. Then a block time before genesis is an error.                    *)
(***************************************************************************)
GetSlot(p) ==
    /\ pc[p] = "slot"
    /\ \/ /\ SlotFnCanFail /\ ~slotFn
          /\ Return(p, Err("slotFn"))
          /\ UNCHANGED slotFn
       \/ /\ slotFn' = TRUE
          /\ IF req[p].early
             THEN Return(p, Err("time"))
             ELSE pc' = [pc EXCEPT ![p] = "get"] /\ UNCHANGED result
    /\ UNCHANGED <<index, req, i, tmp, f, tried, resp, panicked>>

\* Mutant: the loop runs while i <= len(clients), one attempt too many.
GetLoopInclusive(p) ==
    /\ pc[p] = "get"
    /\ ~panicked
    /\ IF i[p] > N
       THEN Return(p, Err("fetch")) /\ UNCHANGED <<f, tried, panicked>>
       ELSE IF index \notin Clients
       THEN panicked' = TRUE /\ UNCHANGED <<pc, result, f, tried>>
       ELSE /\ f' = [f EXCEPT ![p] = index]
            /\ tried' = [tried EXCEPT ![p] = SubSeq(@, 1, i[p]) \o <<index>>]
            /\ pc' = [pc EXCEPT ![p] = "call"]
            /\ UNCHANGED <<result, panicked>>
    /\ UNCHANGED <<index, slotFn, req, i, tmp, resp>>

(***************************************************************************)
(* fetchSidecars: the loop test and Get. Reading clients[index] with       *)
(* index = len panics.                                                     *)
(***************************************************************************)
Get(p) ==
    /\ pc[p] = "get"
    /\ ~panicked
    /\ IF i[p] >= N
       THEN Return(p, Err("fetch")) /\ UNCHANGED <<f, tried, panicked>>
       ELSE IF index \notin Clients
       THEN panicked' = TRUE /\ UNCHANGED <<pc, result, f, tried>>
       ELSE /\ f' = [f EXCEPT ![p] = index]
            /\ tried' = [tried EXCEPT ![p] = SubSeq(@, 1, i[p]) \o <<index>>]
            /\ pc' = [pc EXCEPT ![p] = "call"]
            /\ UNCHANGED <<result, panicked>>
    /\ UNCHANGED <<index, slotFn, req, i, tmp, resp>>

(***************************************************************************)
(* BeaconBlobSideCars on the client: request() fails (transport, a status  *)
(* other than 200, a body that does not decode), or the node answers. The  *)
(* client sends no indices. A beacon node answers with any of its          *)
(* sidecars, in any order.                                                 *)
(***************************************************************************)
Call(p) ==
    /\ pc[p] = "call"
    /\ ~panicked
    /\ \/ pc' = [pc EXCEPT ![p] = "mvLoad"] /\ UNCHANGED resp
       \/ \E a \in Answers :
             /\ resp' = [resp EXCEPT ![p] = a]
             /\ pc' = [pc EXCEPT ![p] = "check"]
    /\ UNCHANGED <<index, slotFn, req, i, tmp, f, tried, result, panicked>>

(***************************************************************************)
(* MoveToNext: p.index += 1 (a load and a store), then the wrap-around    *)
(* (a compare and a store of 0). The loop's i++ follows.                   *)
(***************************************************************************)
MoveLoad(p) ==
    /\ pc[p] = "mvLoad"
    /\ ~panicked
    /\ tmp' = [tmp EXCEPT ![p] = index]
    /\ pc' = [pc EXCEPT ![p] = "mvStore"]
    /\ UNCHANGED <<index, slotFn, req, i, f, tried, resp, result, panicked>>

MoveStore(p) ==
    /\ pc[p] = "mvStore"
    /\ ~panicked
    /\ index' = tmp[p] + 1
    /\ pc' = [pc EXCEPT ![p] = "mvWrap"]
    /\ UNCHANGED <<slotFn, req, i, tmp, f, tried, resp, result, panicked>>

\* Mutant: the wrap-around one client early.
MoveWrapEarly(p) ==
    /\ pc[p] = "mvWrap"
    /\ ~panicked
    /\ IF index = N - 1
       THEN pc' = [pc EXCEPT ![p] = "mvReset"] /\ UNCHANGED i
       ELSE pc' = [pc EXCEPT ![p] = "get"] /\ i' = [i EXCEPT ![p] = @ + 1]
    /\ UNCHANGED <<index, slotFn, req, tmp, f, tried, resp, result, panicked>>

\* if p.index == len(p.clients): the compare; i++ when it is false.
MoveWrap(p) ==
    /\ pc[p] = "mvWrap"
    /\ ~panicked
    /\ IF index = N
       THEN pc' = [pc EXCEPT ![p] = "mvReset"] /\ UNCHANGED i
       ELSE pc' = [pc EXCEPT ![p] = "get"] /\ i' = [i EXCEPT ![p] = @ + 1]
    /\ UNCHANGED <<index, slotFn, req, tmp, f, tried, resp, result, panicked>>

\* p.index = 0, and the loop's i++.
MoveReset(p) ==
    /\ pc[p] = "mvReset"
    /\ ~panicked
    /\ index' = 0
    /\ i' = [i EXCEPT ![p] = @ + 1]
    /\ pc' = [pc EXCEPT ![p] = "get"]
    /\ UNCHANGED <<slotFn, req, tmp, f, tried, resp, result, panicked>>

\* The response is filtered, counted and checked.
Check(p) ==
    /\ pc[p] = "check"
    /\ ~panicked
    /\ Return(p, CheckSidecars(req[p].hashes, resp[p]))
    /\ UNCHANGED <<index, slotFn, req, i, tmp, f, tried, resp, panicked>>

\* Every caller has returned, or the process panicked.
Finished ==
    /\ panicked \/ \A p \in Procs : pc[p] = "done"
    /\ UNCHANGED beaconVars

BeaconInit ==
    /\ index = 0
    /\ slotFn = FALSE
    /\ pc = [p \in Procs |-> "start"]
    /\ req \in [Procs -> Requests]
    /\ i = [p \in Procs |-> 0]
    /\ tmp = [p \in Procs |-> 0]
    /\ f = [p \in Procs |-> 0]
    /\ tried = [p \in Procs |-> <<>>]
    /\ resp = [p \in Procs |-> [data |-> <<>>, bad |-> {}]]
    /\ result = [p \in Procs |-> None]
    /\ panicked = FALSE

\* One step of the goroutine running FetchBlobs for p.
CallerStep(p) ==
    /\ \/ Start(p) \/ GetSlot(p) \/ Get(p) \/ Call(p)
       \/ MoveLoad(p) \/ MoveStore(p) \/ MoveWrap(p) \/ MoveReset(p) \/ Check(p)

BeaconNext ==
    \/ \E p \in Procs : CallerStep(p)
    \/ Finished

-----------------------------------------------------------------------------
BeaconTypeOK ==
    /\ index \in Nat
    /\ slotFn \in BOOLEAN
    /\ \A p \in Procs :
        /\ pc[p] \in {"start", "slot", "get", "call", "mvLoad", "mvStore",
                      "mvWrap", "mvReset", "check", "done"}
        /\ req[p] \in Requests
        /\ i[p] \in 0..N
        /\ f[p] \in Clients
        /\ resp[p] \in Answers \cup {[data |-> <<>>, bad |-> {}]}
    /\ panicked \in BOOLEAN

(***************************************************************************)
(* The reference for a fetched response: every requested blob must be in  *)
(* the response and carry the requested commitment and a valid proof.     *)
(* Then the blobs come back exactly in request order, whatever order the   *)
(* node sent them in.                                                      *)
(***************************************************************************)
Expected(hashes, answer) ==
    IF ~(ToSet(hashes) \subseteq ToSet(answer.data)) THEN Err("count")
    ELSE IF ToSet(hashes) \cap answer.bad # {} THEN Err("hash")
    ELSE Ok(hashes)

(***************************************************************************)
(* FetchBlobs on a response returns what the reference says: the filter   *)
(* in GetBlobSidecars and the checks in blobsFromSidecars together accept  *)
(* exactly the complete, valid responses, in any order, and return the     *)
(* blobs in the order of the request.                                      *)
(***************************************************************************)
BlobsMatchRequest ==
    \A p \in Procs :
        pc[p] = "done" /\ result[p].kind \notin {"fetch", "slotFn", "time"}
        /\ req[p].hashes # <<>>
        => result[p] = Expected(req[p].hashes, resp[p])

(***************************************************************************)
(* fetchSidecars fails only after it has asked every client in the pool    *)
(* once: the round-robin failover of spec 5 covers the whole pool.         *)
(***************************************************************************)
FailoverTriesEveryClient ==
    \A p \in Procs :
        result[p].kind = "fetch" => Len(tried[p]) = N /\ ToSet(tried[p]) = Clients

(***************************************************************************)
(* Concurrent FetchBlobs calls never crash the process. ClientPool.Get     *)
(* reads clients[index], and so it relies on index < len.                  *)
(***************************************************************************)
NoPanic == ~panicked

=============================================================================
