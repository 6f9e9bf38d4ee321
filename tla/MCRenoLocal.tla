--------------------------- MODULE MCRenoLocal ---------------------------
(* Constants of RenoLocal for TLC: where each key hashes to. *)
EXTENDS RenoLocal

CONSTANTS k1, k2, k3, v1, v2, empty

(* Two keys in the first bucket, the third in the last of the home buckets. *)
LastHome == [k \in Keys \cup {EmptyKey} |-> IF k = k3 THEN IndexNum - 1 ELSE 0]

(* BOUND: k1 is inserted with two values, so that a line of it may hide    *)
(* another with a different value; the other keys with one.                *)
OneKeyTwoValues == \A l \in Lines : dline[l].value = v2 => dline[l].key = k1
==========================================================================
