-------------------------- MODULE MC_BlockConsumer --------------------------
(* An L1 tree with a fork at the root: g <- a1 <- a2 and g <- b1 <- b2.   *)
EXTENDS BlockConsumer

CONSTANTS g, a1, a2, b1, b2

MC_Blocks == {g, a1, a2, b1, b2}
MC_Parent == [b \in MC_Blocks |->
                CASE b = g -> NoBlock
                  [] b \in {a1, b1} -> g
                  [] b = a2 -> a1
                  [] b = b2 -> b1]
MC_Height == [b \in MC_Blocks |->
                CASE b = g -> 0
                  [] b \in {a1, b1} -> 1
                  [] b \in {a2, b2} -> 2]
=============================================================================
