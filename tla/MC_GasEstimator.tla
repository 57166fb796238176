--------------------------- MODULE MC_GasEstimator ---------------------------
(* 5-bit uint64 and a TxGas of 3: room for several search iterations below *)
(* a cap, allowances under and over the word, exact and inexact divisions. *)
EXTENDS GasEstimator
==============================================================================
