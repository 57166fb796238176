---------------------------- MODULE MC_Enclave ----------------------------
(* The L1 tree g <- a1 <- a2 <- a3, g <- b1 <- b2 and a sequencer chain  *)
(* of up to four batches: the genesis and batch 2 are produced against a1, *)
(* batch 3 against the fork block b2 and batch 4 against a3, so a batch's  *)
(* L1Proof block may arrive before or after the batch and may end up off   *)
(* the L1 head's chain. The branches differ in depth, so the ancestor walk *)
(* steps the deeper side first and then both in lockstep.                 *)
EXTENDS Enclave

CONSTANTS g, a1, a2, a3, b1, b2

MC_Blocks == {g, a1, a2, a3, b1, b2}
MC_Parent == [b \in MC_Blocks |->
                CASE b = g -> NoBlock
                  [] b \in {a1, b1} -> g
                  [] b = a2 -> a1
                  [] b = a3 -> a2
                  [] b = b2 -> b1]
MC_Height == [b \in MC_Blocks |->
                CASE b = g -> 0
                  [] b \in {a1, b1} -> 1
                  [] b \in {a2, b2} -> 2
                  [] b = a3 -> 3]
MC_L1Proof == [s \in 1..MaxSeq |->
                 CASE s \in {1, 2} -> a1 [] s = 3 -> b2 [] s = 4 -> a3]
=============================================================================
