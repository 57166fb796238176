-------------------------- MODULE MC_RPCEncryption --------------------------
(* Two accounts, one transaction of each. *)
EXTENDS RPCEncryption

CONSTANTS alice, bob, tx1, tx2

MC_Owner == [o \in {tx1, tx2} |-> IF o = tx1 THEN alice ELSE bob]
==============================================================================
