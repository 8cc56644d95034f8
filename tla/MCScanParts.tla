--------------------------- MODULE MCScanParts ---------------------------
(* Small instances of the parts of a scan for TLC: four targets of the four *)
(* kinds, and batches of whole packets, of IPv6 and of fragments.           *)
EXTENDS ScanParts

IpsModel == <<"lan1", "self", "far", "six">>

whole == [v6 |-> FALSE, pieces |-> 0]
whole6 == [v6 |-> TRUE, pieces |-> 0]
cut2 == [v6 |-> FALSE, pieces |-> 2]
MixedBatches == {<<whole6, cut2, whole>>, <<cut2, whole>>, <<whole, whole>>}
=============================================================================
