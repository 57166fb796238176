--------------------------- MODULE MC_BeaconClient ---------------------------
(* A slot with two blobs. Nodes may answer with every subset in any order. *)
(* Requests may be empty, single, out of index order, or repeat an index.  *)
EXTENDS BeaconClient

MC_HashSeqs == {<<>>, <<1>>, <<1, 0>>, <<0, 0>>}

MC_Responses == {<<>>, <<0>>, <<1>>, <<0, 1>>, <<1, 0>>}
==============================================================================
