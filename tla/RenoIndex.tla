---------------------------- MODULE RenoIndex ----------------------------
(***************************************************************************)
(* The index word of a bucket (storage.h): one 64-bit word that holds a    *)
(* bitmap of committed slots, a count of free slots, a lock count bumped   *)
(* by the server (llock) and a lock count bumped by remote clients with    *)
(* RDMA fetch-and-add (rlock).  A lock count names slots: the k-th remote  *)
(* lock owns the k-th free slot from the left, the k-th local lock the     *)
(* k-th free slot from the right.  This module holds the arithmetic of     *)
(* that word; bitmaps are sets of occupied slots.                          *)
(***************************************************************************)
EXTENDS Integers, FiniteSets

CONSTANTS
  LineNum,   \* LINE_NUM_PER_BUCKET: the slots of a bucket (8 in the code)
  UintMod    \* 2^32: where the unsigned arithmetic of the code wraps

ASSUME LineNumAssumption == LineNum \in 1..8   \* the bitmap is one byte
ASSUME UintModAssumption == UintMod \in Nat \ {0}

Slots  == 0..(LineNum - 1)
NoSlot == -1                                   \* target_slot = -1

(* The bytes of the index word wrap at 2^8. *)
Byte(x) == x % 256

(* The slots whose bit is clear, in the order of the scan. *)
Free(bits)          == Slots \ bits
FreeBefore(bits, s) == {t \in Free(bits) : t < s}
FreeAfter(bits, s)  == {t \in Free(bits) : t > s}

(* The scan of client_write: skip k free bits from the left, take the next.*)
FromLeft(bits, k) ==
  IF \E s \in Free(bits) : Cardinality(FreeBefore(bits, s)) = k
    THEN CHOOSE s \in Free(bits) : Cardinality(FreeBefore(bits, s)) = k
    ELSE NoSlot

(* The scan of findRelocateSlot: the k-th free bit from the right. *)
FromRight(bits, k) ==
  IF \E s \in Free(bits) : Cardinality(FreeAfter(bits, s)) = k - 1
    THEN CHOOSE s \in Free(bits) : Cardinality(FreeAfter(bits, s)) = k - 1
    ELSE NoSlot

(* uint8 - uint8 is an int, and int - uint32 is unsigned: a bucket with    *)
(* more locks than free slots seems to have about 2^32 slots left.         *)
SlotsLeft(free, local, remote) == (free - local - remote) % UintMod

(* The MIN of (freecount - llock, an int) and rlock, compared as unsigned. *)
RemoteLocks(free, local, remote) ==
  IF (free - local) % UintMod < remote THEN (free - local) % UintMod ELSE remote
===========================================================================
