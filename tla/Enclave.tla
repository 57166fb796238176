------------------------------ MODULE Enclave ------------------------------
(***************************************************************************)
(* The validator enclave's core: the L1 block consumer and the batch      *)
(* execution walk over one storage, serialised by the enclave lock.       *)
(* The consumer writes the L1 blocks the walk's executionPrerequisites    *)
(* reads; a consumer step is only taken while no walk is in progress, and *)
(* nothing runs after the consumer or startMempool panicked.              *)
(***************************************************************************)
EXTENDS BlockConsumer, Sequences

CONSTANTS GenesisSeqNo, MaxSeq, L1Proof, NoSeq, Faults

VARIABLES storedBatches, executed, regHead, mempoolRunning, loop

V == INSTANCE Validator WITH l1Stored <- stored

validatorVars == <<storedBatches, executed, regHead, mempoolRunning, loop>>

vars == <<consumerVars, validatorVars>>

ASSUME L1Proof \in [V!Seqs -> Blocks]

Init == ConsumerInit /\ V!ValidatorInit

\* A block ingestion (SubmitL1Block) takes the enclave lock.
ConsumerStep ==
    /\ loop.pc = "idle"
    /\ ConsumerNext
    /\ UNCHANGED validatorVars

ValidatorStep ==
    /\ ~panicked
    /\ V!ValidatorNext
    /\ UNCHANGED <<l1Head, xchain, poisoned, panicked>>

Next == ConsumerStep \/ ValidatorStep

(***************************************************************************)
(* The walk runs to completion once started (it holds the lock and makes *)
(* synchronous calls).  A call that keeps being retried for the same     *)
(* batch eventually succeeds: system errors are transient.               *)
(* ExecuteStoredBatches is retried on every L1 block, which arrives      *)
(* forever.                                                               *)
(***************************************************************************)
WalkStepAt(A, s) == ValidatorStep /\ A /\ loop.todo # <<>> /\ V!Current = s

Fairness ==
    /\ WF_vars(ValidatorStep /\ V!ExecuteStoredBatches)
    /\ \A s \in V!Seqs :
        /\ SF_vars(WalkStepAt(V!HandleGenesis, s))
        /\ SF_vars(WalkStepAt(V!CheckPrerequisites, s))
        /\ SF_vars(WalkStepAt(V!ExecuteBatch, s))

Spec == Init /\ [][Next]_vars /\ Fairness

-----------------------------------------------------------------------------
TypeOK ==
    /\ ConsumerTypeOK
    /\ storedBatches \subseteq V!Seqs
    /\ executed \subseteq storedBatches
    /\ regHead \in V!Seqs \cup {NoSeq}
    /\ mempoolRunning \in BOOLEAN
    /\ loop.pc \in {"idle", "genesis", "prereq", "execute", "panicked"}
    /\ loop.todo \in Seq(storedBatches)

MaxExecuted == CHOOSE s \in executed : \A t \in executed : t <= s

\* The executed batches as the abstract execution sees them.
Abs == INSTANCE BatchExecution
           WITH l1Blocks <- stored, batches <- storedBatches, executed <- executed

(***************************************************************************)
(* The composed core implements BatchExecution: every step that marks a   *)
(* batch executed marks exactly the batch after the last executed one,     *)
(* that batch is stored and so is its L1Proof block (genesis excepted).    *)
(* Out-of-order batches and L1 blocks, walks cut short by errors and the   *)
(* skip of a batch whose FetchBlock failed must not break this (spec 5:    *)
(* batches are executed strictly in ascending SequencerOrderNo).          *)
(***************************************************************************)
ImplementsBatchExecution == Abs!AbsSpec

(***************************************************************************)
(* Between walks, the registry's head batch sequence is the highest      *)
(* executed batch: StoreExecutedBatch and OnBatchExecuted happen         *)
(* together (spec 5: "both must occur in the same critical section").    *)
(***************************************************************************)
RegistryTracksExecuted ==
    loop.pc = "idle" =>
        regHead = IF executed = {} THEN NoSeq ELSE MaxExecuted

(***************************************************************************)
(* A batch whose own and whose predecessors' batches and L1Proof blocks  *)
(* are all stored is eventually executed: triggers keep retrying from    *)
(* the registry head and prerequisites never wait on anything else.     *)
(***************************************************************************)
Executable(s) ==
    \A t \in GenesisSeqNo..s : t \in storedBatches /\ L1Proof[t] \in stored

BatchesEventuallyExecuted ==
    \A s \in V!Seqs : Executable(s) ~> s \in executed
=============================================================================
