-------------------------- MODULE RenoIndexProofs --------------------------
(***************************************************************************)
(* Facts about the arithmetic of the index word.                           *)
(***************************************************************************)
EXTENDS RenoIndex, FiniteSetTheorems, WellFoundedInduction, TLAPS

(* A byte of the index word (storage.h:62-66) stays one when it is bumped  *)
(* or decremented.                                                         *)
LEMMA ByteStep == \A x \in 0..255 : Byte(x + 1) \in 0..255 /\ Byte(x - 1) \in 0..255
  BY DEF Byte

(* The two scans for a free slot, from the left (api.cpp:594-604) and from *)
(* the right (api.cpp:266-276), return a slot or -1.                       *)
LEMMA FromLeftType ==
  ASSUME NEW bits, NEW k PROVE FromLeft(bits, k) \in Slots \cup {NoSlot}
  BY DEF FromLeft, Free

LEMMA FromRightType ==
  ASSUME NEW bits, NEW k PROVE FromRight(bits, k) \in Slots \cup {NoSlot}
  BY DEF FromRight, Free

(* The slot found from the left is free, and k free slots come before it.  *)
LEMMA FromLeftRank ==
  ASSUME NEW bits, NEW k, FromLeft(bits, k) # NoSlot
  PROVE  /\ FromLeft(bits, k) \in Free(bits)
         /\ Cardinality(FreeBefore(bits, FromLeft(bits, k))) = k
  BY DEF FromLeft

(* Fewer free slots come before a slot than a bucket has slots.            *)
LEMMA RankBound ==
  ASSUME NEW bits, NEW s \in Free(bits)
  PROVE  Cardinality(FreeBefore(bits, s)) \in 0..(LineNum - 1)
<1> s \in Slots /\ s \in Int
  BY LineNumAssumption DEF Free, Slots
<1>1. FreeBefore(bits, s) \in SUBSET (0..(s - 1))
  BY LineNumAssumption DEF FreeBefore, Free, Slots
<1>2. IsFiniteSet(0..(s - 1)) /\ Cardinality(0..(s - 1)) = s
  <2>1. /\ IsFiniteSet(0..(s - 1))
        /\ Cardinality(0..(s - 1)) = IF 0 > s - 1 THEN 0 ELSE (s - 1) - 0 + 1
    BY FS_Interval
  <2> QED BY <2>1, LineNumAssumption DEF Slots
<1>3. IsFiniteSet(FreeBefore(bits, s)) /\ Cardinality(FreeBefore(bits, s)) <= s
  BY <1>1, <1>2, FS_Subset
<1>4. Cardinality(FreeBefore(bits, s)) \in Nat
  BY <1>3, FS_CardinalityType
<1> QED BY <1>3, <1>4, LineNumAssumption DEF Slots

(* The number of remote locks deal_pending works off (api.cpp:352) never   *)
(* exceeds the remote lock count.                                          *)
LEMMA RemoteLocksType ==
  ASSUME NEW free \in Int, NEW local \in Int, NEW remote \in Nat
  PROVE  RemoteLocks(free, local, remote) \in 0..remote
<1>1. (free - local) % UintMod \in 0..(UintMod - 1)
  BY UintModAssumption
<1> QED BY <1>1, UintModAssumption DEF RemoteLocks

(* Nor more than the free slots that the local locks leave, when there are *)
(* as many.                                                                *)
LEMMA RemoteLocksBound ==
  ASSUME NEW free \in Nat, NEW local \in Nat, NEW remote \in Nat,
         local <= free, free < UintMod
  PROVE  RemoteLocks(free, local, remote) <= free - local
<1>1. free - local \in 0..(UintMod - 1)
  BY UintModAssumption
<1>2. (free - local) % UintMod = free - local
  BY <1>1, UintModAssumption
<1> QED BY <1>1, <1>2 DEF RemoteLocks

---------------------------------------------------------------------------
(* Counting the free slots of a bucket. *)
(* A set of naturals that is not empty has a least member. *)
LEMMA NatMin ==
  ASSUME NEW T \in SUBSET Nat, T # {}
  PROVE  \E x \in T : \A y \in T : x <= y
<1>1. PICK x \in T : \A y \in T : ~ (<<y, x>> \in OpToRel(<, Nat))
  BY NatLessThanWellFounded, WFMin
<1>2. \A y \in T : ~ (y < x)
  BY <1>1 DEF OpToRel
<1> QED BY <1>2

LEMMA FreeCounts ==
  ASSUME NEW bits
  PROVE  /\ IsFiniteSet(Free(bits)) /\ Cardinality(Free(bits)) \in 0..LineNum
         /\ \A T \in SUBSET Free(bits) :
              /\ IsFiniteSet(T) /\ Cardinality(T) \in Nat
              /\ Cardinality(T) <= Cardinality(Free(bits))
<1>1. IsFiniteSet(Slots) /\ Cardinality(Slots) = LineNum
  <2>1. /\ IsFiniteSet(0..(LineNum - 1))
        /\ Cardinality(0..(LineNum - 1)) =
             IF 0 > LineNum - 1 THEN 0 ELSE (LineNum - 1) - 0 + 1
    BY LineNumAssumption, FS_Interval
  <2> QED BY <2>1, LineNumAssumption DEF Slots
<1>2. Free(bits) \in SUBSET Slots
  BY DEF Free
<1>3. IsFiniteSet(Free(bits)) /\ Cardinality(Free(bits)) <= LineNum
  BY <1>1, <1>2, FS_Subset
<1>4. Cardinality(Free(bits)) \in Nat
  BY <1>3, FS_CardinalityType
<1>5. ASSUME NEW T \in SUBSET Free(bits)
      PROVE  /\ IsFiniteSet(T) /\ Cardinality(T) \in Nat
             /\ Cardinality(T) <= Cardinality(Free(bits))
  BY <1>3, FS_Subset, FS_CardinalityType
<1> QED BY <1>3, <1>4, <1>5, LineNumAssumption

(* A bit that is set, or cleared, changes the count by one. *)
LEMMA FreeSet ==
  ASSUME NEW bits, NEW s \in Slots, s \notin bits
  PROVE  Cardinality(Free(bits \cup {s})) = Cardinality(Free(bits)) - 1
<1>1. Free(bits \cup {s}) = Free(bits) \ {s} /\ s \in Free(bits)
  BY DEF Free
<1> QED BY <1>1, FreeCounts, FS_RemoveElement

LEMMA FreeCleared ==
  ASSUME NEW bits, NEW s \in Slots, s \in bits
  PROVE  Cardinality(Free(bits \ {s})) = Cardinality(Free(bits)) + 1
<1>1. Free(bits \ {s}) = Free(bits) \cup {s} /\ s \notin Free(bits)
  BY DEF Free
<1> QED BY <1>1, FreeCounts, FS_AddElement

(* The free slots on either side of a scan, as it moves on by one slot.    *)
LEMMA FreeBeforeStep ==
  ASSUME NEW bits, NEW s \in Slots
  PROVE  Cardinality(FreeBefore(bits, s + 1)) =
           Cardinality(FreeBefore(bits, s)) + (IF s \in bits THEN 0 ELSE 1)
<1>1. \A t \in Free(bits) : t \in Int /\ s \in Int
  BY LineNumAssumption DEF Free, Slots
<1>2. FreeBefore(bits, s + 1) = FreeBefore(bits, s) \cup ({s} \ bits)
  BY <1>1 DEF FreeBefore, Free
<1>3. IsFiniteSet(FreeBefore(bits, s)) /\ Cardinality(FreeBefore(bits, s)) \in Nat
  BY FreeCounts DEF FreeBefore
<1>4. s \notin FreeBefore(bits, s)
  BY <1>1 DEF FreeBefore
<1>5. CASE s \in bits
  <2>1. FreeBefore(bits, s + 1) = FreeBefore(bits, s)
    BY <1>2, <1>5
  <2> QED BY <1>3, <1>5, <2>1
<1>6. CASE s \notin bits
  <2>1. FreeBefore(bits, s + 1) = FreeBefore(bits, s) \cup {s}
    BY <1>2, <1>6
  <2> QED BY <1>3, <1>4, <1>6, <2>1, FS_AddElement
<1> QED BY <1>5, <1>6

LEMMA FreeAfterStep ==
  ASSUME NEW bits, NEW s \in Slots
  PROVE  Cardinality(FreeAfter(bits, s - 1)) =
           Cardinality(FreeAfter(bits, s)) + (IF s \in bits THEN 0 ELSE 1)
<1>1. \A t \in Free(bits) : t \in Int /\ s \in Int
  BY LineNumAssumption DEF Free, Slots
<1>2. FreeAfter(bits, s - 1) = FreeAfter(bits, s) \cup ({s} \ bits)
  BY <1>1 DEF FreeAfter, Free
<1>3. IsFiniteSet(FreeAfter(bits, s)) /\ Cardinality(FreeAfter(bits, s)) \in Nat
  BY FreeCounts DEF FreeAfter
<1>4. s \notin FreeAfter(bits, s)
  BY <1>1 DEF FreeAfter
<1>5. CASE s \in bits
  <2>1. FreeAfter(bits, s - 1) = FreeAfter(bits, s)
    BY <1>2, <1>5
  <2> QED BY <1>3, <1>5, <2>1
<1>6. CASE s \notin bits
  <2>1. FreeAfter(bits, s - 1) = FreeAfter(bits, s) \cup {s}
    BY <1>2, <1>6
  <2> QED BY <1>3, <1>4, <1>6, <2>1, FS_AddElement
<1> QED BY <1>5, <1>6

(* Fewer free slots come after a free slot than there are, and the further *)
(* left a place is, the more come after it.                                *)
LEMMA FreeAfterBound ==
  ASSUME NEW bits
  PROVE  /\ \A s \in Free(bits) : Cardinality(FreeAfter(bits, s)) < Cardinality(Free(bits))
         /\ \A s : Cardinality(FreeAfter(bits, s)) \in Nat
         /\ \A s, t \in Int : s <= t =>
              Cardinality(FreeAfter(bits, t)) <= Cardinality(FreeAfter(bits, s))
<1>1. ASSUME NEW s \in Free(bits)
      PROVE  Cardinality(FreeAfter(bits, s)) < Cardinality(Free(bits))
  <2>1. s \in Int
    BY LineNumAssumption DEF Free, Slots
  <2>2. FreeAfter(bits, s) \in SUBSET (Free(bits) \ {s})
    BY <2>1 DEF FreeAfter
  <2>3. /\ IsFiniteSet(Free(bits) \ {s})
        /\ Cardinality(Free(bits) \ {s}) = Cardinality(Free(bits)) - 1
    BY FreeCounts, FS_RemoveElement
  <2>4. Cardinality(FreeAfter(bits, s)) <= Cardinality(Free(bits)) - 1
    BY <2>2, <2>3, FS_Subset
  <2>5. Cardinality(FreeAfter(bits, s)) \in Nat /\ Cardinality(Free(bits)) \in Nat
    BY <2>2, FreeCounts
  <2> QED BY <2>4, <2>5
<1>2. ASSUME NEW s PROVE Cardinality(FreeAfter(bits, s)) \in Nat
  BY FreeCounts DEF FreeAfter
<1>3. ASSUME NEW s \in Int, NEW t \in Int, s <= t
      PROVE  Cardinality(FreeAfter(bits, t)) <= Cardinality(FreeAfter(bits, s))
  <2>1. \A u \in Free(bits) : u \in Int
    BY LineNumAssumption DEF Free, Slots
  <2>2. FreeAfter(bits, t) \in SUBSET FreeAfter(bits, s)
    BY <1>3, <2>1 DEF FreeAfter
  <2>3. IsFiniteSet(FreeAfter(bits, s))
    BY FreeCounts DEF FreeAfter
  <2> QED BY <2>2, <2>3, FS_Subset
<1> QED BY <1>1, <1>2, <1>3

(* The free slots before a place and those from it on are all. *)
LEMMA FreeSplit ==
  ASSUME NEW bits, NEW s \in Int
  PROVE  Cardinality(FreeBefore(bits, s)) + Cardinality(FreeAfter(bits, s - 1))
           = Cardinality(Free(bits))
<1>1. \A t \in Free(bits) : t \in Int
  BY LineNumAssumption DEF Free, Slots
<1>2. /\ FreeBefore(bits, s) \cup FreeAfter(bits, s - 1) = Free(bits)
      /\ FreeBefore(bits, s) \cap FreeAfter(bits, s - 1) = {}
  BY <1>1 DEF FreeBefore, FreeAfter
<1>3. IsFiniteSet(FreeBefore(bits, s)) /\ IsFiniteSet(FreeAfter(bits, s - 1))
  BY FreeCounts DEF FreeBefore, FreeAfter
<1>4. /\ Cardinality(FreeBefore(bits, s)) \in Nat
      /\ Cardinality(FreeAfter(bits, s - 1)) \in Nat
  BY FreeCounts DEF FreeBefore, FreeAfter
<1>5. Cardinality(Free(bits)) =
        Cardinality(FreeBefore(bits, s)) + Cardinality(FreeAfter(bits, s - 1))
          - Cardinality({})
  BY <1>2, <1>3, FS_Union
<1>6. Cardinality({}) = 0
  BY FS_EmptySet
<1> QED BY <1>4, <1>5, <1>6

(* Every rank below the number of free slots is the rank of one of them:   *)
(* of those after which no more than k come, the first has k after it; the *)
(* next free slot on its left would be one too if fewer came after it.     *)
LEMMA RankedFromRight ==
  ASSUME NEW bits, NEW k \in Nat, k < Cardinality(Free(bits))
  PROVE  \E s \in Free(bits) : Cardinality(FreeAfter(bits, s)) = k
<1> DEFINE After(s) == Cardinality(FreeAfter(bits, s))
           T == {s \in (-1)..(LineNum - 1) : After(s) <= k}
<1>1. \A t \in Free(bits) : t \in 0..(LineNum - 1)
  BY LineNumAssumption DEF Free, Slots
<1>2. LineNum - 1 \in T
  <2>1. FreeAfter(bits, LineNum - 1) = {}
    BY <1>1, LineNumAssumption DEF FreeAfter
  <2>2. After(LineNum - 1) = 0
    BY <2>1, FS_EmptySet
  <2> QED BY <2>2, LineNumAssumption
<1>3. PICK s \in T : \A t \in T : s <= t
  <2> DEFINE U == {t + 1 : t \in T}
  <2>1. U \in SUBSET Nat /\ U # {}
    BY <1>2, LineNumAssumption
  <2>2. PICK x \in U : \A y \in U : x <= y
    BY <2>1, NatMin
  <2>3. PICK s \in T : x = s + 1
    BY <2>2
  <2>4. \A t \in T : s + 1 <= t + 1 /\ t \in Int /\ s \in Int
    BY <2>2, <2>3, LineNumAssumption
  <2>5. \A t \in T : s <= t
    BY <2>4
  <2> QED BY <2>5
<1>4. After(s) \in Nat /\ After(s) <= k /\ s \in -1..(LineNum - 1)
  BY FreeAfterBound
<1>5. s # -1
  <2>1. FreeAfter(bits, -1) = Free(bits)
    BY <1>1, LineNumAssumption DEF FreeAfter
  <2>2. Cardinality(Free(bits)) \in Nat
    BY FreeCounts
  <2> QED BY <1>4, <2>1, <2>2
<1>6. s \in Slots /\ s - 1 \in (-1)..(LineNum - 1)
  BY <1>4, <1>5, LineNumAssumption DEF Slots
<1>7. After(s - 1) > k
  <2>1. s - 1 \notin T
    BY <1>3, <1>6
  <2>2. After(s - 1) \in Nat
    BY FreeAfterBound
  <2> QED BY <1>6, <2>1, <2>2
<1>8. After(s - 1) = After(s) + (IF s \in bits THEN 0 ELSE 1)
  BY <1>6, FreeAfterStep
<1> HIDE DEF After, T
<1>9. s \notin bits /\ After(s) = k
  BY <1>4, <1>7, <1>8
<1> QED BY <1>6, <1>9 DEF Free, After

LEMMA RankedFromLeft ==
  ASSUME NEW bits, NEW k \in Nat, k < Cardinality(Free(bits))
  PROVE  \E s \in Free(bits) : Cardinality(FreeBefore(bits, s)) = k
<1> DEFINE n == Cardinality(Free(bits))
<1>1. n \in Nat
  BY FreeCounts
<1>2. PICK s \in Free(bits) : Cardinality(FreeAfter(bits, s)) = n - 1 - k
  <2>1. n - 1 - k \in Nat /\ n - 1 - k < n
    BY <1>1
  <2> QED BY <2>1, RankedFromRight
<1>3. s \in Slots /\ s \in Int /\ s \notin bits
  BY LineNumAssumption DEF Free, Slots
<1>4. Cardinality(FreeAfter(bits, s - 1)) = n - 1 - k + 1
  BY <1>2, <1>3, FreeAfterStep
<1>5. Cardinality(FreeBefore(bits, s)) + Cardinality(FreeAfter(bits, s - 1)) = n
  BY <1>3, FreeSplit
<1>6. Cardinality(FreeBefore(bits, s)) \in Nat
  BY FreeCounts DEF FreeBefore
<1> QED BY <1>1, <1>4, <1>5, <1>6

(* So both scans find a slot as long as they count no further than there   *)
(* are free slots, and otherwise the one from the right finds none.        *)
LEMMA FromLeftFinds ==
  ASSUME NEW bits, NEW k \in Nat, k < Cardinality(Free(bits))
  PROVE  FromLeft(bits, k) \in Free(bits) /\ FromLeft(bits, k) # NoSlot
<1>1. FromLeft(bits, k) \in Free(bits)
  BY RankedFromLeft DEF FromLeft
<1> QED BY <1>1, LineNumAssumption DEF Free, Slots, NoSlot

LEMMA FromRightFinds ==
  ASSUME NEW bits, NEW k \in Nat
  PROVE  IF k < Cardinality(Free(bits))
           THEN /\ FromRight(bits, k + 1) \in Free(bits)
                /\ FromRight(bits, k + 1) # NoSlot
                /\ Cardinality(FreeAfter(bits, FromRight(bits, k + 1))) = k
           ELSE FromRight(bits, k + 1) = NoSlot
<1>1. k + 1 - 1 = k
  OBVIOUS
<1>2. CASE k < Cardinality(Free(bits))
  <2>1. \E s \in Free(bits) : Cardinality(FreeAfter(bits, s)) = k
    BY <1>2, RankedFromRight
  <2>2. /\ FromRight(bits, k + 1) \in Free(bits)
        /\ Cardinality(FreeAfter(bits, FromRight(bits, k + 1))) = k
    BY <1>1, <2>1 DEF FromRight
  <2>3. FromRight(bits, k + 1) # NoSlot
    BY <2>2, LineNumAssumption DEF Free, Slots, NoSlot
  <2> QED BY <1>2, <2>2, <2>3
<1>3. CASE ~(k < Cardinality(Free(bits)))
  <2>1. \A s \in Free(bits) : Cardinality(FreeAfter(bits, s)) # k
    BY <1>3, FreeAfterBound
  <2> QED BY <1>1, <1>3, <2>1 DEF FromRight
<1> QED BY <1>2, <1>3
(* The count of a copy of the bitmap, kept in a byte, goes with its bits.  *)
LEMMA CountedCopy ==
  ASSUME NEW bits, NEW s \in Slots
  PROVE  LET n == Cardinality(Free(bits)) IN
           /\ s \notin bits => Byte(n - 1) = Cardinality(Free(bits \cup {s}))
           /\ s \in bits => Byte(n + 1) = Cardinality(Free(bits \ {s}))
<1> DEFINE n == Cardinality(Free(bits))
<1>1. /\ n \in 0..LineNum /\ Cardinality(Free(bits \cup {s})) \in 0..LineNum
      /\ Cardinality(Free(bits \ {s})) \in 0..LineNum
  BY FreeCounts
<1>2. s \notin bits => Cardinality(Free(bits \cup {s})) = n - 1
  BY FreeSet
<1>3. s \in bits => Cardinality(Free(bits \ {s})) = n + 1
  BY FreeCleared
<1>4. \A x \in 0..LineNum : Byte(x) = x
  BY LineNumAssumption DEF Byte
<1> QED BY <1>1, <1>2, <1>3, <1>4
===========================================================================
