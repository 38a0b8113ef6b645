--------------------------- MODULE MCMessageCache ---------------------------
(* Instances of MessageCache for TLC.                                      *)
EXTENDS MessageCache, TLC

CONSTANTS k1, k2

TwoKeys == {k1, k2}
OneKey == {k1}
Times2 == 1..2
Times3 == 1..3

(* The two keys share a shard among four and eight shards, not among five   *)
(* and ten.                                                                *)
Hashes == (k1 :> 3) @@ (k2 :> 11)
OneHash == [k \in OneKey |-> 7]
=============================================================================
