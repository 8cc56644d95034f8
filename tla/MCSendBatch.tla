--------------------------- MODULE MCSendBatch ---------------------------
(* One batch of whole packets for TLC.                                      *)
EXTENDS SendBatch

whole == [v6 |-> FALSE, pieces |-> 0]
WholeBatches == {<<whole, whole, whole>>}
=============================================================================
