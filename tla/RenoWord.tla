----------------------------- MODULE RenoWord -----------------------------
(***************************************************************************)
(* The index word of one bucket as what it is: one integer.  Clients add 1 *)
(* to the whole of it (ib.cpp:335), the server stores single bytes of it   *)
(* and shifts and masks its bitmap.  rlock is the lowest field, so a count *)
(* that wraps carries into llock; UintMod, 2^32 in the code, is small here *)
(* for the count to come round.  RenoIndex and RenoTable keep the fields   *)
(* apart: this module shows for how long that is right.                    *)
(***************************************************************************)
EXTENDS RenoIndex

CONSTANT MaxLocks   \* BOUND: fetch-and-adds between two passes

ASSUME WordAssumption == UintMod > 2 * LineNum /\ MaxLocks \in Nat

VARIABLES
  word,        \* the index word
  srv,         \* the server: idle, probed, undo, or store (end of a pass)
  tmp,         \* the copy deal_pending works on
  announced,   \* a client has announced the bucket
  locks,       \* history: fetch-and-adds since the last pass
  llocks,      \* history: local locks in force
  taken,       \* history: slots granted to clients since the last pass
  regrant,     \* history: one of them was granted twice
  placed,      \* history: slots that relocate has filled since the last pass
  wrapped      \* history: the locks of a round have added up to UintMod

history == <<locks, llocks, taken, regrant, placed, wrapped>>
vars == <<word, srv, tmp, announced, history>>

---------------------------------------------------------------------------
(* The fields: from the right rlock, llock, freecount, bitmap.  The byte   *)
(* pendingmap, between the last two, is never used.                        *)
LlockUnit  == UintMod
FreeUnit   == UintMod * 256
BitmapUnit == UintMod * 65536

Rlock(w)     == w % UintMod
Llock(w)     == (w \div LlockUnit) % 256
Freecount(w) == (w \div FreeUnit) % 256
Bitmap(w)    == (w \div BitmapUnit) % 256

(* x >> i of an int keeps its sign.                                        *)
ShiftRight(x, i) == x \div <<1, 2, 4, 8, 16, 32, 64, 128>>[i + 1]

(* Bit i of a byte is BIT_FLAG >> i, the first slot has the highest.       *)
BitFlag(i) == ShiftRight(128, i)
Bits(byte) == {i \in 0..7 : (byte \div BitFlag(i)) % 2 = 1}
Num(bits)  == LET bit(i) == IF i \in bits THEN BitFlag(i) ELSE 0
              IN  bit(0) + bit(1) + bit(2) + bit(3) + bit(4) + bit(5) + bit(6) + bit(7)
Or(a, b)   == Num(Bits(a) \cup Bits(b))
And(a, b)  == Num(Bits(a) \cap Bits(b))

(* ~BIT_FLAG >> i: the complement is an int, -129, so the shift keeps the  *)
(* sign, and of the lowest byte only bit i is clear.                       *)
BugKeepMask(i) == ShiftRight(127, i)     \* as if the complement were a byte
KeepMask(i)    == ShiftRight(-129, i) % 256

Put(w, unit, byte) == w + ((byte - ((w \div unit) % 256)) * unit)

Commit(w, i) == Put(Put(w, BitmapUnit, Or(Bitmap(w), BitFlag(i))),
                    FreeUnit, Byte(Freecount(w) - 1))
Clear(w, i)  == Put(Put(w, BitmapUnit, And(Bitmap(w), KeepMask(i))),
                    FreeUnit, Byte(Freecount(w) + 1))

Init ==
  /\ word = LineNum * FreeUnit           \* index_init
  /\ srv = "idle" /\ tmp = 0 /\ announced = FALSE
  /\ locks = 0 /\ llocks = 0 /\ taken = {} /\ regrant = FALSE /\ placed = {}
  /\ wrapped = FALSE

(* One lock more, of either kind. *)
Counted == wrapped' = (wrapped \/ locks + llocks + 1 >= UintMod)

---------------------------------------------------------------------------
(* client_write, from the word that its fetch-and-add returns.             *)
HasFree(w) == Freecount(w) > (Llock(w) + Rlock(w)) % UintMod
IsLast(w)  == SlotsLeft(Freecount(w), Llock(w), Rlock(w)) <= 1

(* skipcount is an int: a count beyond 2^31 is negative and skips nothing. *)
BugSkipCount(w) == IF Rlock(w) = 0 THEN 0 ELSE Rlock(w) - 1
SkipCount(w)    == IF Rlock(w) < UintMod \div 2 THEN Rlock(w) ELSE 0
Target(w)       == FromLeft(Bits(Bitmap(w)), SkipCount(w))

Added(w) == (w + 1) % (BitmapUnit * 256)

FetchAndAdd ==
  /\ locks < MaxLocks
  /\ word' = Added(word) /\ locks' = locks + 1 /\ Counted

LockRefused ==
  /\ ~HasFree(word) \/ Target(word) = NoSlot
  /\ FetchAndAdd
  /\ UNCHANGED <<srv, tmp, announced, llocks, taken, regrant, placed>>

(* The call that takes the last slot announces the bucket, unless its      *)
(* client fails before.                                                    *)
LockGranted ==
  /\ HasFree(word) /\ Target(word) # NoSlot
  /\ FetchAndAdd
  /\ taken' = taken \cup {Target(word)}
  /\ regrant' = (regrant \/ Target(word) \in taken)
  /\ \/ UNCHANGED announced
     \/ IsLast(word) /\ announced' = TRUE
  /\ UNCHANGED <<srv, tmp, llocks, placed>>

---------------------------------------------------------------------------
(* relocate, when this bucket is the neighbour of the one it relieves.     *)
Probe ==
  /\ srv = "idle"
  /\ SlotsLeft(Freecount(word), Llock(word), Rlock(word)) > 2
  /\ srv' = "probed"
  /\ UNCHANGED <<word, tmp, announced, history>>

LocalLock ==
  /\ srv = "probed"
  /\ LET lock == Byte(Llock(word) + 1)
         slot == FromRight(Bits(Bitmap(word)), lock)
     IN  /\ word' = Put(word, LlockUnit, lock)
         /\ srv' = IF slot = NoSlot THEN "undo" ELSE "idle"
         /\ placed' = placed \cup ({slot} \ {NoSlot})
  /\ llocks' = llocks + 1 /\ UNCHANGED locks /\ Counted
  /\ UNCHANGED <<tmp, announced, taken, regrant>>

(* The bug: the lock is kept. *)
BugUndo ==
  /\ srv = "undo" /\ srv' = "idle"
  /\ llocks' = llocks - 1
  /\ UNCHANGED <<word, tmp, announced, locks, taken, regrant, placed, wrapped>>

Undo ==
  /\ srv = "undo" /\ srv' = "idle"
  /\ word' = Put(word, LlockUnit, Byte(Llock(word) - 1))
  /\ llocks' = llocks - 1
  /\ UNCHANGED <<tmp, announced, locks, taken, regrant, placed, wrapped>>

---------------------------------------------------------------------------
(* deal_pending.  What it finds in the lines is free here: which of the    *)
(* remotely locked slots hold an UPSERT, which lines are still VALID, and  *)
(* which ones relocate moves to other buckets when less than 2 are free.   *)
RemoteSlots(w) ==
  {s \in Slots \ Bits(Bitmap(w)) :
     Cardinality(FreeBefore(Bits(Bitmap(w)), s))
       < RemoteLocks(Freecount(w), Llock(w), Rlock(w))}
LocalSlots(w) ==
  {s \in Slots \ Bits(Bitmap(w)) :
     Cardinality(FreeAfter(Bits(Bitmap(w)), s)) < Llock(w)}

(* A loop of the pass over the slots, which stores the bits of some.       *)
CommitAll(w, slots) ==
  LET scan[n \in 0..LineNum] ==
        IF n = 0 THEN w
        ELSE IF n - 1 \in slots THEN Commit(scan[n - 1], n - 1) ELSE scan[n - 1]
  IN  scan[LineNum]
ClearAll(w, slots) ==
  LET scan[n \in 0..LineNum] ==
        IF n = 0 THEN w
        ELSE IF n - 1 \in slots THEN Clear(scan[n - 1], n - 1) ELSE scan[n - 1]
  IN  scan[LineNum]

DealPending ==
  /\ srv = "idle" /\ announced
  /\ \E pending \in SUBSET (RemoteSlots(word) \cap taken),
        valid   \in SUBSET (placed \cup Bits(Bitmap(word))) :
       LET local == LocalSlots(word) \cap (valid \cup pending)
           dead  == Bits(Bitmap(word)) \ valid
           dealt == ClearAll(CommitAll(CommitAll(word, pending), local), dead)
           live  == Bits(Bitmap(dealt))
       IN  \E moved \in SUBSET live :
             /\ Cardinality(moved) <= (IF Freecount(dealt) < 2 THEN 2 ELSE 0)
             /\ tmp' = ClearAll(dealt, moved)
  /\ srv' = "store" /\ announced' = FALSE
  /\ UNCHANGED <<word, history>>

IndexStore ==
  /\ srv = "store" /\ srv' = "idle"
  /\ word' = (tmp \div FreeUnit) * FreeUnit         \* llock = 0, rlock = 0
  /\ tmp' = 0
  /\ locks' = 0 /\ llocks' = 0 /\ taken' = {} /\ regrant' = FALSE /\ placed' = {}
  /\ UNCHANGED <<announced, wrapped>>

Next == \/ LockRefused \/ LockGranted
        \/ Probe \/ LocalLock \/ Undo
        \/ DealPending \/ IndexStore

Spec == Init /\ [][Next]_vars

---------------------------------------------------------------------------
(* Until the locks of one round, between two passes, add up to 2^32, llock *)
(* counts the server's and rlock the clients': no carry joins the fields.  *)
(* This is what "overflow problem can be avoided" (storage.h:66) rests on. *)
FieldsApart == ~wrapped => Llock(word) = llocks /\ Rlock(word) = locks

(* Until then no slot is granted twice between two passes, refused calls   *)
(* and locks taken back included (api.cpp:589-604): from then on ranks are *)
(* granted again although nobody has tidied the slots they name.           *)
GrantsApart == ~wrapped => ~regrant

(* Until then every pass (its masks are ints, freecount is counted apart   *)
(* from the bits, api.cpp:366-458) leaves freecount the number of clear    *)
(* bits; after it a slot can hold a remote and a local lock, and is then   *)
(* counted twice.                                                          *)
FreeCountExact ==
  ~wrapped => Freecount(word) = LineNum - Cardinality(Bits(Bitmap(word)))
===========================================================================
