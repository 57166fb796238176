----------------------------- MODULE Validator -----------------------------
(***************************************************************************)
(* The validator node type's batch execution (go/enclave/nodetype/         *)
(* validator.go), with the storage and batch registry it calls.            *)
(*                                                                         *)
(* ExecuteStoredBatches fetches the canonical stored batches that are not *)
(* executed, from the registry's head sequence number on, and walks them  *)
(* in ascending sequence order: a genesis batch goes through              *)
(* handleGenesis, every batch through executionPrerequisites, and a batch *)
(* that passes is executed, stored as executed, fed to the mempool's      *)
(* virtual chain and announced to the registry.  Any error ends the walk. *)
(* The enclave serialises its core under one lock, so the walk is a       *)
(* sequence of steps nothing else interleaves with; loop.pc says where in *)
(* the walk it is and loop.todo what is left of the fetched list.         *)
(*                                                                         *)
(* A batch is identified by its sequence number: the sequencer's          *)
(* canonical chain has one batch per number, each the parent of the next. *)
(***************************************************************************)
EXTENDS Naturals, Sequences, FiniteSets

CONSTANTS
    GenesisSeqNo, \* common.L2GenesisSeqNo: sequence number of the genesis batch
    MaxSeq,       \* the last batch the sequencer produces in the model
    L1Proof,      \* L1Proof[s]: the L1 block batch s was produced against
    NoSeq,        \* the registry's nil head
    Faults        \* the calls that may fail with a system error

Seqs == GenesisSeqNo..MaxSeq

FaultKinds ==
    {"genesis", "fetchBlock", "wasExecuted", "execute", "store", "ingest", "mempoolStart"}

ASSUME GenesisSeqNo \in Nat /\ MaxSeq \in Nat /\ GenesisSeqNo <= MaxSeq
ASSUME NoSeq \notin Seqs
ASSUME Faults \subseteq FaultKinds

VARIABLES
    l1Stored,       \* storage: L1 blocks stored (written by the block consumer)
    storedBatches,  \* storage: canonical batches received from the sequencer
    executed,       \* storage: batches stored as executed (StoreExecutedBatch)
    regHead,        \* registry: HeadBatchSeq, NoSeq while nil
    mempoolRunning, \* mempool.Running()
    loop            \* ExecuteStoredBatches: [pc, todo]

validatorVars == <<storedBatches, executed, regHead, mempoolRunning, loop>>

IsGenesis(s) == s = GenesisSeqNo

\* The parent hash of batch s names batch s - 1; genesis has none.
ParentOf(s) == s - 1

\* storage.BatchWasExecuted
BatchWasExecuted(s) == s \in executed

(***************************************************************************)
(* storage.FetchCanonicalUnexecutedBatches(from): the stored canonical    *)
(* batches from sequence number from on that are not executed, ascending. *)
(***************************************************************************)
CanonicalUnexecuted(from) ==
    LET S == {s \in storedBatches \ executed : s >= from}
    IN  [i \in 1..Cardinality(S) |->
            CHOOSE s \in S : Cardinality({t \in S : t < s}) = i - 1]

(***************************************************************************)
(* BatchRegistry.OnBatchExecuted: the head advances to the batch when it *)
(* is the genesis or its parent is the current head.                      *)
(***************************************************************************)
\* Mutant: the head set to the parent's number (off by one).
OnBatchExecutedParent(s) ==
    regHead' = IF IsGenesis(s) \/ (regHead # NoSeq /\ ParentOf(s) = regHead)
               THEN ParentOf(s) ELSE regHead

OnBatchExecuted(s) ==
    regHead' = IF IsGenesis(s) \/ (regHead # NoSeq /\ ParentOf(s) = regHead)
               THEN s ELSE regHead

\* startMempool's condition: not running, and the head is past genesis + 1.
MempoolStarts(head) ==
    ~mempoolRunning /\ head # NoSeq /\ head > GenesisSeqNo + 1

\* startMempool, evaluated against the registry head seen by the caller.
StartMempool(head) ==
    mempoolRunning' = (mempoolRunning \/ MempoolStarts(head))

Idle == [pc |-> "idle", todo |-> <<>>]

\* The walk moves on to the first batch of list, or ends when it is empty.
Walk(list) ==
    loop' = IF list = <<>> THEN Idle
            ELSE [pc |-> IF IsGenesis(Head(list)) THEN "genesis" ELSE "prereq",
                  todo |-> list]

\* The batch the walk is at.
Current == Head(loop.todo)

\* An error returned from ExecuteStoredBatches ends the walk.
Abort == loop' = Idle

-----------------------------------------------------------------------------
(***************************************************************************)
(* The sequencer's batch s reaches the validator and is stored as         *)
(* canonical; batches arrive over P2P in any order.                       *)
(***************************************************************************)
ReceiveBatch(s) ==
    /\ loop.pc = "idle"
    /\ s \notin storedBatches
    /\ storedBatches' = storedBatches \cup {s}
    /\ UNCHANGED <<l1Stored, executed, regHead, mempoolRunning, loop>>

(***************************************************************************)
(* ExecuteStoredBatches, up to the loop: a nil head reads as the genesis *)
(* sequence number, ErrNotFound (nothing to do) returns, otherwise the    *)
(* mempool may start and the walk begins.                                 *)
(***************************************************************************)
\* Mutant: a nil head read as "after genesis".
ExecuteStoredBatchesSkipHead ==
    LET from  == IF regHead = NoSeq THEN GenesisSeqNo + 1 ELSE regHead
        list  == CanonicalUnexecuted(from)
    IN  /\ loop.pc = "idle"
        /\ list # <<>>
        /\ StartMempool(regHead)
        /\ Walk(list)
        /\ UNCHANGED <<l1Stored, storedBatches, executed, regHead>>

ExecuteStoredBatches ==
    LET from  == IF regHead = NoSeq THEN GenesisSeqNo ELSE regHead
        list  == CanonicalUnexecuted(from)
    IN  /\ loop.pc = "idle"
        /\ list # <<>>
        /\ StartMempool(regHead)
        /\ Walk(list)
        /\ UNCHANGED <<l1Stored, storedBatches, executed, regHead>>

(***************************************************************************)
(* mempool.Start fails in startMempool, which panics: the enclave process *)
(* ends, and with it the walk and block ingestion.                        *)
(***************************************************************************)
ExecuteStoredBatchesPanics ==
    LET from == IF regHead = NoSeq THEN GenesisSeqNo ELSE regHead
    IN  /\ loop.pc = "idle"
        /\ "mempoolStart" \in Faults
        /\ CanonicalUnexecuted(from) # <<>>
        /\ MempoolStarts(regHead)
        /\ loop' = [pc |-> "panicked", todo |-> <<>>]
        /\ UNCHANGED <<l1Stored, storedBatches, executed, regHead, mempoolRunning>>

(***************************************************************************)
(* handleGenesis: the genesis state is recreated and compared with the   *)
(* batch, stored as executed and announced to the registry.  No L1Proof  *)
(* or parent check comes first; the walk goes on to                      *)
(* executionPrerequisites for the same batch.                            *)
(***************************************************************************)
HandleGenesis ==
    /\ loop.pc = "genesis"
    /\ executed' = executed \cup {Current}
    /\ OnBatchExecuted(Current)
    /\ loop' = [loop EXCEPT !.pc = "prereq"]
    /\ UNCHANGED <<l1Stored, storedBatches, mempoolRunning>>

\* CreateGenesisState fails, the hash differs, or StoreExecutedBatch fails.
HandleGenesisFails ==
    /\ loop.pc = "genesis"
    /\ "genesis" \in Faults
    /\ Abort
    /\ UNCHANGED <<l1Stored, storedBatches, executed, regHead, mempoolRunning>>

(***************************************************************************)
(* executionPrerequisites and the branch on its result.  FetchBlock of   *)
(* the L1Proof block answering ErrNotFound is returned as an error; the  *)
(* parent's execution status decides between executing and skipping.    *)
(***************************************************************************)
\* Mutant: the parent's execution status not checked.
CheckPrerequisitesNoParent ==
    LET s == Current
    IN  /\ loop.pc = "prereq"
        /\ IF L1Proof[s] \notin l1Stored
           THEN Abort
           ELSE loop' = [loop EXCEPT !.pc = "execute"]
        /\ UNCHANGED <<l1Stored, storedBatches, executed, regHead, mempoolRunning>>

CheckPrerequisites ==
    LET s == Current
    IN  /\ loop.pc = "prereq"
        /\ IF L1Proof[s] \notin l1Stored
           THEN Abort
           ELSE IF BatchWasExecuted(ParentOf(s))
           THEN loop' = [loop EXCEPT !.pc = "execute"]
           ELSE Walk(Tail(loop.todo))
        /\ UNCHANGED <<l1Stored, storedBatches, executed, regHead, mempoolRunning>>

(***************************************************************************)
(* The storage errors of executionPrerequisites: a FetchBlock error other *)
(* than ErrNotFound leaves block nil, so the batch is skipped and the     *)
(* walk goes on; a BatchWasExecuted error is returned.                    *)
(***************************************************************************)
CheckPrerequisitesFails ==
    /\ loop.pc = "prereq"
    /\ \/ "fetchBlock" \in Faults /\ Walk(Tail(loop.todo))
       \/ "wasExecuted" \in Faults /\ Abort
    /\ UNCHANGED <<l1Stored, storedBatches, executed, regHead, mempoolRunning>>

(***************************************************************************)
(* ExecuteBatch, StoreExecutedBatch, mempool.Chain.IngestNewBlock and    *)
(* OnBatchExecuted, in that order; an error from any of the first three  *)
(* ends the walk with what was already written left in place.            *)
(***************************************************************************)
\* Mutant: the registry not told of the executed batch.
ExecuteBatchNoNotify ==
    /\ loop.pc = "execute"
    /\ executed' = executed \cup {Current}
    /\ Walk(Tail(loop.todo))
    /\ UNCHANGED <<l1Stored, storedBatches, regHead, mempoolRunning>>

ExecuteBatch ==
    /\ loop.pc = "execute"
    /\ executed' = executed \cup {Current}
    /\ OnBatchExecuted(Current)
    /\ Walk(Tail(loop.todo))
    /\ UNCHANGED <<l1Stored, storedBatches, mempoolRunning>>

ExecuteBatchFails ==
    /\ loop.pc = "execute"
    /\ \/ ("execute" \in Faults \/ "store" \in Faults) /\ UNCHANGED executed
       \/ "ingest" \in Faults /\ executed' = executed \cup {Current}
    /\ Abort
    /\ UNCHANGED <<l1Stored, storedBatches, regHead, mempoolRunning>>

ValidatorInit ==
    /\ storedBatches = {}
    /\ executed = {}
    /\ regHead = NoSeq
    /\ mempoolRunning = FALSE
    /\ loop = Idle

ValidatorNext ==
    \/ \E s \in Seqs : ReceiveBatch(s)
    \/ ExecuteStoredBatches
    \/ ExecuteStoredBatchesPanics
    \/ HandleGenesis
    \/ HandleGenesisFails
    \/ CheckPrerequisites
    \/ CheckPrerequisitesFails
    \/ ExecuteBatch
    \/ ExecuteBatchFails
=============================================================================
