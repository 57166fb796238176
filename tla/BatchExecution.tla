--------------------------- MODULE BatchExecution ---------------------------
(***************************************************************************)
(* What the validator's batch execution promises, without the walk        *)
(* (spec 4.7 and 5): batches are executed one at a time, strictly in       *)
(* ascending sequence order, and a batch is executed only once it is       *)
(* stored and its L1Proof block is stored. The genesis batch is the        *)
(* exception: handleGenesis executes it before any L1Proof check.          *)
(* L1 blocks and batches arrive in any order and are never removed.        *)
(***************************************************************************)
EXTENDS Naturals, FiniteSets

CONSTANTS
    GenesisSeqNo, \* the sequence number of the genesis batch
    L1Proof       \* L1Proof[s]: the L1 block batch s was produced against

VARIABLES
    l1Blocks,  \* the stored L1 blocks
    batches,   \* the stored canonical batches
    executed   \* the batches stored as executed

absVars == <<l1Blocks, batches, executed>>

\* The batch after the last executed one: the only one that may execute next.
NextSeq == GenesisSeqNo + Cardinality(executed)

\* The canExecute branch of ExecuteStoredBatches, seen from outside the walk.
Execute ==
    /\ NextSeq \in batches
    /\ NextSeq = GenesisSeqNo \/ L1Proof[NextSeq] \in l1Blocks
    /\ executed' = executed \cup {NextSeq}
    /\ UNCHANGED <<l1Blocks, batches>>

\* A block or a batch is stored.
Arrive ==
    /\ l1Blocks \subseteq l1Blocks'
    /\ batches \subseteq batches'
    /\ UNCHANGED executed

AbsInit ==
    /\ l1Blocks = {}
    /\ batches = {}
    /\ executed = {}

AbsSpec == AbsInit /\ [][Execute \/ Arrive]_absVars
=============================================================================
