--------------------------- MODULE BlockConsumer ---------------------------
(***************************************************************************)
(* The enclave's L1 block consumer (go/enclave/components/consumer.go).   *)
(*                                                                         *)
(* ConsumeBlock takes an L1 block from the host, rejects it if it is      *)
(* already stored, classifies it against the current L1 head              *)
(* (pre-genesis / happy path / fork, the latter through the least common  *)
(* ancestor walk over stored blocks), stores it, moves the L1 head when   *)
(* the host flags it as latest, and then extracts the inbound cross-chain *)
(* messages of non-pre-genesis blocks, which can fail and poison the      *)
(* block after it was stored.                                             *)
(*                                                                         *)
(* The L1 block tree is a constant: every block the L1 can ever show the  *)
(* enclave, with its parent and height.  Storage is the set of stored     *)
(* blocks plus the head pointer.                                          *)
(***************************************************************************)
EXTENDS Naturals, FiniteSets, Bags, BagsExt

CONSTANTS
    Blocks,       \* every L1 block the host may deliver (model values)
    Parent,       \* Parent[b]: the parent of b, NoBlock for the L1 root
    Height,       \* Height[b]: the L1 height of b
    NoBlock,      \* "not found" / nil block
    InOrder,      \* TRUE: the host only delivers a block whose parent is stored
    XChainCanFail, \* TRUE: StoreCrossChainMessages may fail for a block
    StoreCanFail   \* TRUE: StoreBlock and UpdateL1Head may fail (spec 4.2)

ASSUME NoBlock \notin Blocks
ASSUME Parent \in [Blocks -> Blocks \cup {NoBlock}]
ASSUME Height \in [Blocks -> Nat]
ASSUME \A b \in Blocks : Parent[b] # NoBlock => Height[b] = Height[Parent[b]] + 1
ASSUME InOrder \in BOOLEAN /\ XChainCanFail \in BOOLEAN /\ StoreCanFail \in BOOLEAN

VARIABLES
    stored,    \* storage: the L1 blocks stored by StoreBlock
    l1Head,    \* storage: the L1 head set by UpdateL1Head, NoBlock before
    xchain,    \* bag: one copy of b per StoreCrossChainMessages(b) that succeeded
    poisoned,  \* blocks stored but whose message extraction failed
    panicked   \* the enclave process panicked inside ConsumeBlock

consumerVars == <<stored, l1Head, xchain, poisoned, panicked>>

(***************************************************************************)
(* gethutil.LCA, walked over the blocks in storage: the deeper block      *)
(* steps to its parent first, then both step in lockstep.  The block      *)
(* being ingested is in hand, its ancestors must be fetched from          *)
(* storage; a missing ancestor is an error, modelled as NoBlock.          *)
(***************************************************************************)
RECURSIVE LCA(_, _, _)
LCA(x, y, st) ==
    LET px == Parent[x]
        py == Parent[y]
    IN  IF x = y THEN x
        ELSE IF Height[x] > Height[y]
             THEN IF px \in st THEN LCA(px, y, st) ELSE NoBlock
        ELSE IF Height[y] > Height[x]
             THEN IF py \in st THEN LCA(x, py, st) ELSE NoBlock
        ELSE IF px \in st /\ py \in st THEN LCA(px, py, st) ELSE NoBlock

(***************************************************************************)
(* ingestBlock: the classification of block b against the stored head,   *)
(* the record BlockIngestionType; found is FALSE when the LCA walk fails  *)
(* (ErrBlockAncestorNotFound).                                            *)
(***************************************************************************)
Ingestion(found, preGenesis, fork) ==
    [found |-> found, preGenesis |-> preGenesis, fork |-> fork]

\* Mutant: a failed LCA walk read as a fork instead of an error.
IngestBlockNoLCACheck(b) ==
    IF l1Head = NoBlock
    THEN Ingestion(TRUE, TRUE, FALSE)
    ELSE IF Parent[b] = l1Head
    THEN Ingestion(TRUE, FALSE, FALSE)
    ELSE Ingestion(TRUE, FALSE, TRUE)

\* Mutant: the fork test counts an LCA at the head's height as a fork.
IngestBlockForkAtHead(b) ==
    IF l1Head = NoBlock
    THEN Ingestion(TRUE, TRUE, FALSE)
    ELSE IF Parent[b] = l1Head
    THEN Ingestion(TRUE, FALSE, FALSE)
    ELSE LET lca == LCA(b, l1Head, stored)
         IN  IF lca = NoBlock THEN Ingestion(FALSE, FALSE, FALSE)
             ELSE Ingestion(TRUE, FALSE, Height[lca] <= Height[l1Head])

IngestBlock(b) ==
    IF l1Head = NoBlock
    THEN Ingestion(TRUE, TRUE, FALSE)
    ELSE IF Parent[b] = l1Head
    THEN Ingestion(TRUE, FALSE, FALSE)
    ELSE LET lca == LCA(b, l1Head, stored)
         IN  IF lca = NoBlock THEN Ingestion(FALSE, FALSE, FALSE)
             ELSE Ingestion(TRUE, FALSE, Height[lca] < Height[l1Head])

\* The blocks the host can hand to ConsumeBlock in this state, stored
\* ones included: the host resends blocks after a restart or a failure.
Deliverable ==
    {b \in Blocks : ~InOrder \/ stored = {} \/ Parent[b] \in stored}

(***************************************************************************)
(* tryAndInsertBlock followed by StoreCrossChainMessages: the whole of   *)
(* ConsumeBlock for a block not yet stored (a stored one is rejected     *)
(* with ErrBlockAlreadyProcessed before any write).                      *)
(* When the LCA walk fails, the trace call on line 91 dereferences the   *)
(* nil lcaBlock before ErrBlockAncestorNotFound can be returned: the     *)
(* enclave panics.                                                       *)
(***************************************************************************)
\* Mutant: messages extracted before the insertion check, for a block
\* that is then never stored.
ConsumeBlockAncestorNotFoundXChainFirst(b) ==
    /\ ~panicked
    /\ b \in Deliverable
    /\ b \notin stored
    /\ ~IngestBlock(b).found
    /\ panicked' = TRUE
    /\ xchain' = BagAdd(xchain, b)
    /\ UNCHANGED <<stored, l1Head, poisoned>>

ConsumeBlockAncestorNotFound(b) ==
    /\ ~panicked
    /\ b \in Deliverable
    /\ b \notin stored
    /\ ~IngestBlock(b).found
    /\ panicked' = TRUE
    /\ UNCHANGED <<stored, l1Head, xchain, poisoned>>

(***************************************************************************)
(* StoreBlock and UpdateL1Head on lines 68-71: their results are not     *)
(* looked at, so a failed write goes unnoticed and ConsumeBlock carries  *)
(* on as if it had happened.                                             *)
(***************************************************************************)
StoreBlock(b) ==
    \/ stored' = stored \cup {b}
    \/ StoreCanFail /\ UNCHANGED stored

UpdateL1Head(b, isLatest) ==
    IF isLatest
    THEN \/ l1Head' = b
         \/ StoreCanFail /\ UNCHANGED l1Head
    ELSE UNCHANGED l1Head

ConsumeBlock(b, isLatest) ==
    /\ ~panicked
    /\ b \in Deliverable
    /\ b \notin stored
    /\ IngestBlock(b).found
    /\ StoreBlock(b)
    /\ UpdateL1Head(b, isLatest)
    /\ IF IngestBlock(b).preGenesis
       THEN UNCHANGED <<xchain, poisoned>>
       ELSE \/ xchain' = BagAdd(xchain, b) /\ UNCHANGED poisoned
            \/ XChainCanFail /\ poisoned' = poisoned \cup {b} /\ UNCHANGED xchain
    /\ UNCHANGED panicked

ConsumerInit ==
    /\ stored = {}
    /\ l1Head = NoBlock
    /\ xchain = EmptyBag
    /\ poisoned = {}
    /\ panicked = FALSE

ConsumerNext ==
    \E b \in Blocks :
        \/ ConsumeBlockAncestorNotFound(b)
        \/ \E isLatest \in BOOLEAN : ConsumeBlock(b, isLatest)

ConsumerSpec == ConsumerInit /\ [][ConsumerNext]_consumerVars

-----------------------------------------------------------------------------
ConsumerTypeOK ==
    /\ stored \subseteq Blocks
    /\ l1Head \in Blocks \cup {NoBlock}
    /\ IsABag(xchain) /\ BagToSet(xchain) \subseteq Blocks
    /\ poisoned \subseteq Blocks
    /\ panicked \in BOOLEAN

(***************************************************************************)
(* Every block the consumer accepted after the L1 head existed hangs off  *)
(* the stored chain: its parent is stored too.  The LCA walk of later    *)
(* ingestions and the validator's L1Proof look-ups rely on this; it      *)
(* takes the head check, the LCA walk and its failure path together to   *)
(* keep it.                                                               *)
(***************************************************************************)
StoredChainConnected ==
    \A b \in BagToSet(xchain) \cup poisoned : Parent[b] \in stored

(***************************************************************************)
(* The consumer never panics: a block whose ancestry is not in storage   *)
(* is rejected with ErrBlockAncestorNotFound, as spec 4.3 step 4 and the *)
(* comment "Do not store the block if the L1 chain insertion failed"     *)
(* say.                                                                  *)
(***************************************************************************)
NoPanic == ~panicked

(***************************************************************************)
(* The inbound messages of an L1 block are stored at most once, and never  *)
(* for a block whose extraction failed (spec 4.3 step 7: the failure is    *)
(* permanent; spec 8 property 7: a second ConsumeBlock of a block is       *)
(* rejected as BlockAlreadyProcessed). The only guard is the FetchBlock    *)
(* of tryAndInsertBlock, so it holds only if the block was really stored:  *)
(* a StoreBlock failure that line 68 ignores lets a resent block through.  *)
(***************************************************************************)
ExtractedAtMostOnce ==
    \A b \in BagToSet(xchain) : CopiesIn(b, xchain) = 1 /\ b \notin poisoned

\* b and its ancestors in the L1 tree.
RECURSIVE ChainOf(_)
ChainOf(b) == {b} \cup (IF Parent[b] = NoBlock THEN {} ELSE ChainOf(Parent[b]))

\* The deepest block on both chains.
TrueLCA(x, y) ==
    CHOOSE c \in ChainOf(x) \cap ChainOf(y) :
        \A d \in ChainOf(x) \cap ChainOf(y) : Height[d] <= Height[c]

\* The blocks from x (excluded) down to its ancestor c (included) are stored.
PathStored(x, c) ==
    \A d \in ChainOf(x) \ {x} : Height[d] >= Height[c] => d \in stored

(***************************************************************************)
(* ingestBlock agrees with the L1 tree (spec 4.3 steps 4-5, scenario S3):  *)
(* for a block whose parent is not the head, the ancestor walk succeeds    *)
(* exactly when both chains are stored down to their true common           *)
(* ancestor, and then the block is a fork exactly when the head is not     *)
(* one of its ancestors. Storage with gaps, a head moved back by an        *)
(* isLatest older block, and blocks stored while no head existed all       *)
(* reach this check.                                                       *)
(***************************************************************************)
IngestionAsReference ==
    \A b \in Blocks \ stored :
        (l1Head # NoBlock /\ Parent[b] # l1Head) =>
            LET c == TrueLCA(b, l1Head)
            IN  /\ IngestBlock(b).found <=> PathStored(b, c) /\ PathStored(l1Head, c)
                /\ IngestBlock(b).found =>
                       (IngestBlock(b).fork <=> l1Head \notin ChainOf(b))
=============================================================================
