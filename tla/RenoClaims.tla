---------------------------- MODULE RenoClaims ----------------------------
(***************************************************************************)
(* What comments of the code say of the table and the code does not do.    *)
(* Each claim is refuted by a run of its own.                              *)
(***************************************************************************)
EXTENDS RenoTableMap

(* "2. lock remote bucket" (api.cpp:560): the slot a client locked is its  *)
(* own until it has written it.                                            *)
WriterHoldsSlot == \A c \in Clients : pc[c] = "write" => c \in fresh

(* "if possible, lock one free slot using llock" (api.cpp:308): relocate   *)
(* takes a free slot, not one that a client was granted.                   *)
RelocSlotFree ==
  spc = "copy" => \A c \in fresh : Home[req[c].key] = neighbour =>
                                     grant[c].slot # target

(* "no free slot in this bucket, please retry later" (api.cpp:588): a full *)
(* bucket has a free slot some time later.                                 *)
RetryLater == \A b \in Buckets : ~HasFree(b) ~> HasFree(b)

(* "UPSERT (combination of INSERT and UPDATE, similar to SET in Memcached  *)
(* and Redis)" (storage.h:53): with one client, the search that follows    *)
(* an upsert returns the value that the upsert stored.                     *)
ReadYourWrite ==
  \A c \in Clients : pc[c] = "return" => Answer(c) = Lookup(req[c].key)
===========================================================================
