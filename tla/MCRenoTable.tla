--------------------------- MODULE MCRenoTable ---------------------------
(* Constants of RenoTable for TLC: where each key hashes to. *)
EXTENDS RenoClaims, TLC

CONSTANTS k1, k2, k3, c1, c2, v1, v2, empty

(* All keys in one bucket; one key per bucket. *)
OneHome  == [k \in Keys \cup {EmptyKey} |-> 0]
OwnHome  == [k \in Keys \cup {EmptyKey} |->
               IF k = k1 \/ IndexNum = 1 THEN 0
               ELSE IF k = k2 \/ IndexNum = 2 THEN 1 ELSE 2]

(* BOUND: k1 is updated with two values, deleted (client_del's "null" is   *)
(* v1) and sought; k2 is upserted with one value and fills the buckets.    *)
(* Searches, whose properties do not look at values, are followed while    *)
(* the table holds one value.                                              *)
OneKeyUpdated ==
  \A c \in Clients :
    /\ req[c].key = k2 => req[c].valid # DELETE
    /\ req[c].key = k2 \/ req[c].valid = DELETE => req[c].value = v1
    /\ pc[c] \in {"scan", "return"} => \A l \in Lines : dline[l].value # v2

ClientSymmetry == Permutations(Clients)
===========================================================================
