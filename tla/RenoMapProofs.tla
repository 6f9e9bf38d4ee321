--------------------------- MODULE RenoMapProofs ---------------------------
(***************************************************************************)
(* The table as a map, when one client uses it (run late_write shows what  *)
(* two do to each other's slots) and relocate locks a slot of a neighbour  *)
(* only while there is one (run reloc_slot shows that the code does not    *)
(* ensure it), for any number of home buckets, keys, values, slots and     *)
(* neighbours and any opcodes: a key has one VALID line, every step of     *)
(* RenoTable is a step of RenoMap or invisible there, and a search torn    *)
(* across a pass of the server finds a key that is in the map, unless      *)
(* relocate moves a line back in its group, behind the reader.             *)
(***************************************************************************)
EXTENDS RenoTableMap, RenoCountProofs, SequenceTheorems

USE LineNumAssumption, TableAssumption DEF Slots, NoSlot, Buckets

OneUser == \A c, d \in Clients : c = d

(* What LocksWithRoom says of a step. *)
RoomToLock == LockNeighbour => HasFree(neighbour)

---------------------------------------------------------------------------
(* What a search would find in lines f. *)
PendingIn(f, k) == {s \in Slots : /\ f[<<Home[k], s>>].key = k
                                  /\ f[<<Home[k], s>>].valid \in {UPSERT, DELETE}}
HitsIn(f, k)    == {l \in Lines : f[l].key = k /\ f[l].valid = VALID}
LastOf(slots)   == CHOOSE s \in slots : \A t \in slots : t <= s
Stored(line)    == IF line.valid = DELETE THEN NoValue ELSE line.value
LookupIn(f, k)  ==
  IF PendingIn(f, k) # {} THEN Stored(f[<<Home[k], LastOf(PendingIn(f, k))>>])
    ELSE IF HitsIn(f, k) = {} THEN NoValue
    ELSE f[FirstOf(HitsIn(f, k))].value

(* No VALID line is outside the group of its key. *)
Group(k)     == Home[k]..(Home[k] + BucketNum - 1)
GroupedIn(f) == \A l \in Lines : f[l].valid = VALID => l[1] \in Group(f[l].key)
InGroup      == GroupedIn(dline)

LEMMA LineFacts ==
  /\ \A k \in Keys \cup {EmptyKey} :
       Home[k] \in Buckets /\ Home[k] \in HomeBuckets /\ Home[k] \in Group(k)
  /\ \A l \in Lines : l[1] \in Buckets /\ l[2] \in Slots /\ l = <<l[1], l[2]>>
  /\ \A b \in Buckets, s \in Slots : <<b, s>> \in Lines
  /\ NoLine \notin Lines
<1>1. \A k \in Keys \cup {EmptyKey} : Home[k] \in 0..(IndexNum - 1)
  OBVIOUS
<1>2. \A h \in 0..(IndexNum - 1) : h \in Buckets /\ h \in HomeBuckets /\ h \in h..(h + BucketNum - 1)
  BY DEF HomeBuckets
<1> QED BY <1>1, <1>2 DEF Lines, NoLine, Group

(* The first of some lines is one of them. *)
LEMMA FirstOfLines ==
  ASSUME NEW hits \in SUBSET Lines, hits # {}
  PROVE  FirstOf(hits) \in hits /\ FirstOf(hits) # NoLine
<1>1. \E l \in hits : \A m \in hits : Precedes(l, m)
  BY FirstLine
<1> QED BY <1>1, LineFacts DEF FirstOf

LEMMA LookupIsIn ==
  ASSUME NEW k \in Keys
  PROVE  /\ GroupedIn(dline) => Lookup(k) = LookupIn(dline, k)
         /\ GroupedIn(dline') => Lookup(k)' = LookupIn(dline', k)
<1>1. ASSUME GroupedIn(dline)
      PROVE  SearchOld(k) = IF HitsIn(dline, k) = {} THEN NoLine ELSE FirstOf(HitsIn(dline, k))
  <2>1. HitsIn(dline, k) =
          {l \in Lines : /\ l[1] \in Home[k]..(Home[k] + BucketNum - 1)
                         /\ dline[l].key = k /\ dline[l].valid = VALID}
    BY <1>1 DEF HitsIn, GroupedIn, Group
  <2> QED BY <2>1 DEF SearchOld, FirstOf
<1>2. ASSUME GroupedIn(dline')
      PROVE  SearchOld(k)' = IF HitsIn(dline', k) = {} THEN NoLine ELSE FirstOf(HitsIn(dline', k))
  <2>1. HitsIn(dline', k) =
          {l \in Lines : /\ l[1] \in Home[k]..(Home[k] + BucketNum - 1)
                         /\ dline'[l].key = k /\ dline'[l].valid = VALID}
    BY <1>2 DEF HitsIn, GroupedIn, Group
  <2> QED BY <2>1 DEF SearchOld, FirstOf
<1>3. HitsIn(dline, k) \in SUBSET Lines /\ HitsIn(dline', k) \in SUBSET Lines
  BY DEF HitsIn
<1>4. PendingSlots(k) = PendingIn(dline, k) /\ PendingSlots(k)' = PendingIn(dline', k)
  BY DEF PendingSlots, PendingIn
<1>5. ASSUME GroupedIn(dline) PROVE Lookup(k) = LookupIn(dline, k)
  BY <1>1, <1>3, <1>4, <1>5, FirstOfLines DEF Lookup, LookupIn, LastOf, Stored
<1>6. ASSUME GroupedIn(dline') PROVE Lookup(k)' = LookupIn(dline', k)
  BY <1>2, <1>3, <1>4, <1>6, FirstOfLines DEF Lookup, LookupIn, LastOf, Stored
<1> QED BY <1>5, <1>6

(* A set of slots that is not empty has a last one.                        *)
LEMMA LastSlot ==
  ASSUME NEW slots \in SUBSET Slots, slots # {}
  PROVE  LastOf(slots) \in slots /\ \A t \in slots : t <= LastOf(slots)
<1> DEFINE T == {LineNum - s : s \in slots}
<1>1. T \in SUBSET Nat /\ T # {}
  OBVIOUS
<1>2. PICK x \in T : \A y \in T : x <= y
  BY <1>1, NatMin
<1>3. PICK s \in slots : x = LineNum - s
  BY <1>2
<1>4. \A t \in slots : s \in Int /\ t \in Int
  OBVIOUS
<1>5. \A t \in slots : LineNum - s <= LineNum - t
  BY <1>2, <1>3
<1>6. \A t \in slots : t <= s
  BY <1>4, <1>5
<1> QED BY <1>6 DEF LastOf

(* The last pending line decides; without one, the VALID lines.            *)
LEMMA LookupPending ==
  ASSUME NEW f, NEW k, NEW s \in PendingIn(f, k), \A t \in PendingIn(f, k) : t <= s
  PROVE  LookupIn(f, k) = Stored(f[<<Home[k], s>>])
<1>1. PendingIn(f, k) \in SUBSET Slots /\ PendingIn(f, k) # {}
  BY DEF PendingIn
<1>2. /\ LastOf(PendingIn(f, k)) \in PendingIn(f, k)
      /\ \A t \in PendingIn(f, k) : t <= LastOf(PendingIn(f, k))
  BY <1>1, LastSlot
<1>3. LastOf(PendingIn(f, k)) = s
  <2>1. s \in Int /\ LastOf(PendingIn(f, k)) \in Int
    BY <1>1, <1>2
  <2>2. s <= LastOf(PendingIn(f, k)) /\ LastOf(PendingIn(f, k)) <= s
    BY <1>2
  <2> QED BY <2>1, <2>2
<1> QED BY <1>1, <1>3 DEF LookupIn

LEMMA LookupValid ==
  ASSUME NEW f, NEW k, PendingIn(f, k) = {}, NEW l \in HitsIn(f, k),
         \A m \in HitsIn(f, k) : f[m].value = f[l].value
  PROVE  LookupIn(f, k) = f[l].value
<1>1. HitsIn(f, k) \in SUBSET Lines
  BY DEF HitsIn
<1>2. FirstOf(HitsIn(f, k)) \in HitsIn(f, k)
  BY <1>1, FirstOfLines
<1> QED BY <1>2 DEF LookupIn

LEMMA LookupNone ==
  ASSUME NEW f, NEW k, PendingIn(f, k) = {}, HitsIn(f, k) = {}
  PROVE  LookupIn(f, k) = NoValue
  BY DEF LookupIn

(* The same lines, as far as a search for the key looks at them.           *)
LEMMA LookupSame ==
  ASSUME NEW f, NEW g, NEW k,
         PendingIn(g, k) = PendingIn(f, k),
         \A s \in PendingIn(f, k) : Stored(g[<<Home[k], s>>]) = Stored(f[<<Home[k], s>>]),
         PendingIn(f, k) = {} => /\ HitsIn(g, k) = HitsIn(f, k)
                                 /\ \A l \in HitsIn(f, k) : g[l].value = f[l].value
  PROVE  LookupIn(g, k) = LookupIn(f, k)
<1>1. CASE PendingIn(f, k) # {}
  <2>1. PendingIn(f, k) \in SUBSET Slots
    BY DEF PendingIn
  <2>2. LastOf(PendingIn(f, k)) \in PendingIn(f, k)
    BY <1>1, <2>1, LastSlot
  <2> QED BY <1>1, <2>2 DEF LookupIn
<1>2. CASE PendingIn(f, k) = {} /\ HitsIn(f, k) = {}
  BY <1>2 DEF LookupIn
<1>3. CASE PendingIn(f, k) = {} /\ HitsIn(f, k) # {}
  <2>1. HitsIn(f, k) \in SUBSET Lines
    BY DEF HitsIn
  <2>2. FirstOf(HitsIn(f, k)) \in HitsIn(f, k)
    BY <1>3, <2>1, FirstOfLines
  <2> QED BY <1>3, <2>2 DEF LookupIn
<1> QED BY <1>1, <1>2, <1>3

---------------------------------------------------------------------------
(* What a step does to the lines, when it assigns one valid byte.          *)
OnlyValid(l, v) ==
  \A m \in Lines : /\ dline'[m].key = dline[m].key
                   /\ dline'[m].value = dline[m].value
                   /\ dline'[m].valid = IF m = l THEN v ELSE dline[m].valid

LEMMA ValidAssigned ==
  ASSUME LineType, NEW l, NEW v, dline' = [dline EXCEPT ![l].valid = v]
  PROVE  OnlyValid(l, v)
<1> SUFFICES ASSUME NEW m \in Lines
             PROVE  /\ dline'[m].key = dline[m].key
                    /\ dline'[m].value = dline[m].value
                    /\ dline'[m].valid = IF m = l THEN v ELSE dline[m].valid
  BY DEF OnlyValid
<1>1. dline[m] \in DataLine /\ DOMAIN dline = Lines
  BY DEF LineType
<1>2. CASE m = l
  <2>1. dline'[m] = [dline[m] EXCEPT !.valid = v]
    BY <1>1, <1>2
  <2> QED BY <1>1, <1>2, <2>1 DEF DataLine
<1>3. CASE m # l
  <2>1. dline'[m] = dline[m]
    BY <1>1, <1>3
  <2> QED BY <1>3, <2>1
<1> QED BY <1>2, <1>3

(* search_old: a VALID line of the key, if there is one. *)
LEMMA OldLine ==
  ASSUME InGroup, NEW k
  PROVE  IF HitsIn(dline, k) = {} THEN SearchOld(k) = NoLine
                                  ELSE SearchOld(k) \in HitsIn(dline, k)
<1>1. HitsIn(dline, k) =
        {l \in Lines : /\ l[1] \in Home[k]..(Home[k] + BucketNum - 1)
                       /\ dline[l].key = k /\ dline[l].valid = VALID}
  BY DEF HitsIn, InGroup, GroupedIn, Group
<1>2. HitsIn(dline, k) # {} => FirstOf(HitsIn(dline, k)) \in HitsIn(dline, k)
  <2>1. HitsIn(dline, k) \in SUBSET Lines
    BY DEF HitsIn
  <2> QED BY <2>1, FirstOfLines
<1>3. SearchOld(k) = IF HitsIn(dline, k) = {} THEN NoLine ELSE FirstOf(HitsIn(dline, k))
  BY <1>1 DEF SearchOld, FirstOf
<1> QED BY <1>2, <1>3

---------------------------------------------------------------------------
(* The inductive invariant.  Pending lines of a bucket hold slots of the   *)
(* ranks locked so far, so a new one is always the last, and a pass        *)
(* commits them from the first.                                            *)
Pending(b, s) == dline[<<b, s>>].valid \in {UPSERT, DELETE}
Rank(b, s)    == Cardinality(FreeBefore(bitmap[b], s))

(* The server has not been told to tidy the bucket. *)
Unheard(b) == ~Tidied(b) /\ \A n \in 1..Len(arrived) : ~Queued(n, b)

(* A slot whose rank is locked, and which no local lock names.             *)
Owned(b, s) == Rank(b, s) < rlock[b] /\ Rank(b, s) + llock[b] < freecount[b]

(* A granted slot comes after all that pends in its bucket, which the      *)
(* server does not touch before the write has landed.                      *)
Sends(c, b) ==
  /\ Unheard(b)
  /\ req[c].key \in Keys /\ req[c].value \in Values /\ req[c].valid \in {UPSERT, DELETE}
  /\ grant[c].slot \in Free(bitmap[b]) /\ Owned(b, grant[c].slot)
  /\ \A s \in Slots : Pending(b, s) => s < grant[c].slot

Writing == \A c \in Clients : pc[c] = "write" => Sends(c, Home[req[c].key])

(* Step 1 of a pass, which goes from the left until it has used up the     *)
(* locks, reaches every pending line of its bucket.                        *)
Reached(b, s) == spc \in {"remote", "commit"} /\ s >= i /\ Rank(b, s) < Rank(b, i) + rlockReal

PendingAt(b, s) ==
  /\ s \notin bitmap[b] /\ Home[dline[<<b, s>>].key] = b
  /\ IF Copied /\ b = off THEN Reached(b, s) ELSE Owned(b, s)

PendingRanks == \A b \in Buckets, s \in Slots : Pending(b, s) => PendingAt(b, s)

(* What a pass knows of the lines it is about to change. *)
Moving ==
  /\ spc = "commit" =>
       /\ dline[<<off, i>>].valid = opcode /\ opcode # 0
       /\ \A l \in Lines : dline[l].valid = VALID => dline[l].key # dline[<<off, i>>].key
  /\ spc \in {"probe", "lock", "copy", "validate", "drop"} =>
       Valid(off, i) /\ hashOff = Home[dline[<<off, i>>].key]
  /\ spc \in {"copy", "validate"} => dline[<<neighbour, target>>].valid = 0
  /\ spc \in {"validate", "drop"} =>
       /\ dline[<<neighbour, target>>].key = dline[<<off, i>>].key
       /\ dline[<<neighbour, target>>].value = dline[<<off, i>>].value
  /\ spc = "drop" => Valid(neighbour, target) /\ target \in Slots

KeyOnce ==
  \A l, m \in Lines :
    dline[l].valid = VALID /\ dline[m].valid = VALID /\ dline[l].key = dline[m].key =>
      l = m \/ (spc = "drop" /\ {l, m} = {<<off, i>>, <<neighbour, target>>})

MapInv == /\ HonestInv /\ AnnounceInv /\ InGroup /\ Writing
          /\ PendingRanks /\ Moving /\ KeyOnce

LEMMA MapInit == Init => MapInv
<1> SUFFICES ASSUME Init PROVE MapInv
  OBVIOUS
<1>1. HonestInv /\ AnnounceInv
  BY HonestInit, AnnounceInit
<1>2. InGroup /\ PendingRanks
  BY LineFacts DEF InGroup, GroupedIn, PendingRanks, Pending, Init, BlankLine, VALID, UPSERT, DELETE
<1>3. Writing /\ Moving /\ KeyOnce
  BY DEF Writing, Moving, KeyOnce, Init, BlankLine, VALID
<1> QED BY <1>1, <1>2, <1>3 DEF MapInv

(* Whoever is to the right has at least the rank. *)
LEMMA RankGrows ==
  ASSUME NEW bits
  PROVE  /\ \A s : Cardinality(FreeBefore(bits, s)) \in Nat
         /\ \A s, t \in Int : s <= t =>
              Cardinality(FreeBefore(bits, s)) <= Cardinality(FreeBefore(bits, t))
<1>1. ASSUME NEW s PROVE Cardinality(FreeBefore(bits, s)) \in Nat
  BY FreeCounts DEF FreeBefore
<1>2. ASSUME NEW s \in Int, NEW t \in Int, s <= t
      PROVE  Cardinality(FreeBefore(bits, s)) <= Cardinality(FreeBefore(bits, t))
  <2>1. \A u \in Free(bits) : u \in Int
    BY DEF Free
  <2>2. FreeBefore(bits, s) \in SUBSET FreeBefore(bits, t)
    BY <1>2, <2>1 DEF FreeBefore
  <2>3. IsFiniteSet(FreeBefore(bits, t))
    BY FreeCounts DEF FreeBefore
  <2> QED BY <2>2, <2>3, FS_Subset
<1> QED BY <1>1, <1>2

(* The types that the steps below need. *)
BucketType(b) ==
  /\ bitmap[b] \in SUBSET Slots
  /\ freecount[b] \in 0..255 /\ llock[b] \in 0..255 /\ rlock[b] \in 0..MaxRlock
  /\ Cardinality(Free(bitmap[b])) \in 0..LineNum
  /\ llock[b] <= freecount[b] /\ freecount[b] <= Cardinality(Free(bitmap[b]))

LEMMA MapTypes ==
  ASSUME MapInv
  PROVE  /\ CoverInv /\ HonestInv /\ AnnounceInv /\ InGroup /\ Writing
         /\ PendingRanks /\ Moving /\ KeyOnce
         /\ TypeInv /\ TypeOK /\ IndexType /\ LineType /\ ClientType
         /\ LockBounds /\ ValidCovered /\ CountsBelow /\ NeighbourType
         /\ \A l \in Lines : dline[l] \in DataLine
         /\ \A b \in Buckets : BucketType(b)
         /\ off \in Buckets /\ rlockReal \in 0..MaxRlock /\ i \in -1..LineNum
<1>1. /\ HonestInv /\ AnnounceInv /\ CoverInv /\ InGroup /\ Writing
      /\ PendingRanks /\ Moving /\ KeyOnce
  BY DEF MapInv, HonestInv
<1>2. /\ TypeInv /\ TypeOK /\ IndexType /\ LineType /\ ClientType
      /\ LockBounds /\ ValidCovered /\ CountsBelow
  BY <1>1 DEF HonestInv, CoverInv, TypeInv, TypeOK
<1>3. NeighbourType
  BY <1>2, NeighbourInTable
<1>4. \A l \in Lines : dline[l] \in DataLine
  BY <1>2 DEF LineType
<1>5. ASSUME NEW b \in Buckets PROVE BucketType(b)
  <2>1. /\ bitmap[b] \in SUBSET Slots /\ freecount[b] \in 0..255
        /\ llock[b] \in 0..255 /\ rlock[b] \in 0..MaxRlock
    BY <1>2, IndexTypes
  <2>2. llock[b] <= freecount[b] /\ freecount[b] <= Cardinality(Free(bitmap[b]))
    BY <1>2 DEF CountsBelow
  <2> QED BY <2>1, <2>2, FreeCounts DEF BucketType
<1>6. off \in Buckets /\ rlockReal \in 0..MaxRlock /\ i \in -1..LineNum
  BY <1>2 DEF TypeOK, DealType, ControlType
<1> QED BY <1>1, <1>2, <1>3, <1>4, <1>5, <1>6

LEMMA LocalRank ==
  ASSUME NEW b, NEW t \in LocallyLocked(b)
  PROVE  Cardinality(FreeAfter(bitmap[b], t)) < llock[b]
BY Zenon DEF LocallyLocked

(* Counted from the left and from the right. *)
LEMMA RankedTwice ==
  ASSUME NEW bits, NEW s \in Free(bits)
  PROVE  /\ Cardinality(FreeBefore(bits, s)) \in Nat /\ Cardinality(FreeAfter(bits, s)) \in Nat
         /\ Cardinality(FreeBefore(bits, s)) + Cardinality(FreeAfter(bits, s)) + 1
              = Cardinality(Free(bits))
<1>1. s \in Slots /\ s \in Int /\ s \notin bits
  BY DEF Free
<1>2. Cardinality(FreeBefore(bits, s)) + Cardinality(FreeAfter(bits, s - 1))
        = Cardinality(Free(bits))
  BY <1>1, FreeSplit
<1>3. Cardinality(FreeAfter(bits, s - 1)) = Cardinality(FreeAfter(bits, s)) + 1
  BY <1>1, FreeAfterStep
<1>4. Cardinality(FreeBefore(bits, s)) \in Nat /\ Cardinality(FreeAfter(bits, s)) \in Nat
  BY RankGrows, FreeAfterBound
<1> QED BY <1>2, <1>3, <1>4

(* The remote and the local locks of a bucket name different slots. *)
LEMMA OwnedIsNotLocal ==
  ASSUME MapInv, NEW b \in Buckets, NEW s \in Free(bitmap[b]), Owned(b, s)
  PROVE  s \notin LocallyLocked(b)
<1> DEFINE r == Rank(b, s)
           a == Cardinality(FreeAfter(bitmap[b], s))
           n == Cardinality(Free(bitmap[b]))
           f == freecount[b]
           k == llock[b]
<1>1. r \in Nat /\ a \in Nat /\ r + a + 1 = n
  BY RankedTwice DEF Rank
<1>2. r + k < f /\ f <= n /\ k \in 0..255 /\ f \in 0..255
  BY MapTypes DEF BucketType, Owned
<1>3. ~(a < k)
  <2> HIDE DEF r, a, n, f, k
  <2> QED BY <1>1, <1>2
<1> QED BY <1>3, LocalRank

(* The locked slots of a bucket with free slots end before the next one.   *)
LEMMA LockLeavesOwned ==
  ASSUME MapInv, LockNeighbour, HasFree(neighbour), NEW s, Owned(neighbour, s)
  PROVE  /\ neighbour \in Buckets /\ llock'[neighbour] = llock[neighbour] + 1
         /\ Byte(llock[neighbour] + 1) = llock[neighbour] + 1
         /\ Rank(neighbour, s) + (llock[neighbour] + 1) < freecount[neighbour]
<1> DEFINE b == neighbour
<1>1. b \in Buckets /\ BucketType(b)
  BY MapTypes DEF NeighbourType, LockNeighbour
<1>2. freecount[b] > llock[b] + rlock[b]
  BY DEF HasFree
<1>3. llock[b] \in Nat /\ freecount[b] \in 0..255 /\ rlock[b] \in Nat
  BY <1>1 DEF BucketType
<1>4. Rank(b, s) \in Nat
  BY RankGrows DEF Rank
<1>5. Rank(b, s) < rlock[b]
  BY DEF Owned
<1>6. Rank(b, s) + (llock[b] + 1) < freecount[b]
  <2> HIDE DEF b
  <2> QED BY <1>2, <1>3, <1>4, <1>5
<1>7. Byte(llock[b] + 1) = llock[b] + 1
  <2> HIDE DEF b
  <2>1. llock[b] + 1 \in 0..255
    BY SMTT(30), <1>3, <1>4, <1>6
  <2> QED BY <2>1 DEF Byte
<1>8. llock' = [llock EXCEPT ![b] = Byte(llock[b] + 1)]
  BY DEF LockNeighbour
<1>9. llock'[b] = Byte(llock[b] + 1)
  <2>1. DOMAIN llock = Buckets
    BY MapTypes DEF IndexType
  <2> HIDE DEF b
  <2> QED BY <1>1, <1>8, <2>1
<1> QED BY <1>1, <1>6, <1>7, <1>9

---------------------------------------------------------------------------
(* The lines of the table after each step of the server that writes one.   *)
LEMMA RetireLines ==
  ASSUME MapInv, RemoteRetire
  PROVE  /\ off \in Buckets /\ i \in Slots /\ <<off, i>> \in Lines /\ Pending(off, i)
         /\ \A m \in Lines :
              /\ dline'[m].key = dline[m].key /\ dline'[m].value = dline[m].value
              /\ dline'[m].valid =
                   IF dline[m].valid = VALID /\ dline[m].key = dline[<<off, i>>].key
                     THEN 0 ELSE dline[m].valid
<1>0. LineType /\ TypeInv /\ off \in Buckets /\ InGroup /\ KeyOnce
  BY MapTypes
<1>1. i \in Slots /\ <<off, i>> \in Lines /\ Pending(off, i)
  <2>1. i \in Slots
    BY <1>0 DEF RemoteRetire, TypeInv, LoopsInRange
  <2> QED BY <1>0, <2>1, LineFacts DEF RemoteRetire, Pending
<1> DEFINE k == dline[<<off, i>>].key
           l == SearchOld(k)
<1>2. dline' = IF l = NoLine THEN dline ELSE [dline EXCEPT ![l].valid = 0]
  BY <1>1 DEF RemoteRetire
<1>3. IF HitsIn(dline, k) = {} THEN l = NoLine ELSE l \in HitsIn(dline, k)
  BY <1>0, OldLine
<1>4. CASE HitsIn(dline, k) = {}
  BY <1>0, <1>1, <1>2, <1>3, <1>4 DEF HitsIn
<1>5. CASE HitsIn(dline, k) # {}
  <2>1. l \in Lines /\ dline[l].valid = VALID /\ dline[l].key = k /\ l # NoLine
    BY <1>3, <1>5, LineFacts DEF HitsIn
  <2>2. OnlyValid(l, 0)
    <3> HIDE DEF l
    <3> QED BY <1>0, <1>2, <2>1, ValidAssigned
  <2>3. spc # "drop"
    BY DEF RemoteRetire
  <2>4. \A m \in Lines : dline[m].valid = VALID /\ dline[m].key = k => m = l
    <3> HIDE DEF l, k
    <3> QED BY <1>0, <2>1, <2>3 DEF KeyOnce
  <2> HIDE DEF l
  <2> QED BY <1>0, <1>1, <2>1, <2>2, <2>4 DEF OnlyValid
<1> QED BY <1>4, <1>5

LEMMA CommitLines ==
  ASSUME MapInv, CommitUpsert \/ CommitDelete
  PROVE  /\ off \in Buckets /\ i \in Slots /\ <<off, i>> \in Lines
         /\ Pending(off, i) /\ dline[<<off, i>>].valid = opcode
         /\ Home[dline[<<off, i>>].key] = off
         /\ \A l \in Lines : dline[l].valid = VALID => dline[l].key # dline[<<off, i>>].key
         /\ CommitUpsert => opcode = UPSERT /\ OnlyValid(<<off, i>>, VALID)
         /\ CommitDelete => opcode = DELETE /\ OnlyValid(<<off, i>>, 0)
         /\ spc = "commit" /\ spc' = "remote" /\ i' = i + 1 /\ rlockReal' = rlockReal - 1
<1>0. spc = "commit" /\ LineType /\ TypeInv /\ off \in Buckets /\ Moving /\ PendingRanks
  BY MapTypes DEF CommitUpsert, CommitDelete
<1>1. /\ dline[<<off, i>>].valid = opcode
      /\ \A l \in Lines : dline[l].valid = VALID => dline[l].key # dline[<<off, i>>].key
  BY <1>0 DEF Moving
<1>2. i \in Slots /\ <<off, i>> \in Lines
  BY <1>0, LineFacts DEF TypeInv, LoopsInRange
<1>3. Pending(off, i)
  BY <1>1 DEF Pending, CommitUpsert, CommitDelete
<1>4. Home[dline[<<off, i>>].key] = off
  BY <1>0, <1>2, <1>3 DEF PendingRanks, PendingAt
<1>5. CASE CommitUpsert
  <2>1. OnlyValid(<<off, i>>, VALID)
    BY <1>0, <1>5, ValidAssigned DEF CommitUpsert
  <2> QED BY <1>0, <1>1, <1>2, <1>3, <1>4, <1>5, <2>1
          DEF CommitUpsert, CommitDelete, NextRemote, UPSERT, DELETE
<1>6. CASE CommitDelete
  <2>1. OnlyValid(<<off, i>>, 0)
    BY <1>0, <1>6, ValidAssigned DEF CommitDelete
  <2> QED BY <1>0, <1>1, <1>2, <1>3, <1>4, <1>6, <2>1
          DEF CommitUpsert, CommitDelete, NextRemote, UPSERT, DELETE
<1> QED BY <1>5, <1>6

(* Relocation works between two lines of the table. *)
LEMMA MovedLines ==
  ASSUME MapInv, spc \in {"copy", "validate", "drop"}
  PROVE  /\ off \in Buckets /\ i \in Slots /\ Valid(off, i)
         /\ hashOff = Home[dline[<<off, i>>].key]
         /\ neighbour \in Buckets /\ neighbour # off /\ target \in Slots
         /\ <<off, i>> \in Lines /\ <<neighbour, target>> \in Lines
         /\ <<off, i>> # <<neighbour, target>>
<1>0. TypeInv /\ LockBounds /\ Moving /\ NeighbourType /\ off \in Buckets
  BY MapTypes
<1>1. i \in Slots /\ Valid(off, i) /\ hashOff = Home[dline[<<off, i>>].key]
  BY <1>0 DEF TypeInv, LoopsInRange, Moving
<1>2. neighbour \in Buckets /\ neighbour # off
  BY <1>0 DEF NeighbourType, LockBounds
<1>3. target \in Slots
  <2>1. CASE spc = "drop"
    BY <1>0, <2>1 DEF Moving
  <2>2. CASE spc \in {"copy", "validate"}
    BY <1>0, <2>2 DEF LockBounds, LocallyLocked, Free
  <2> QED BY <2>1, <2>2
<1> QED BY <1>0, <1>1, <1>2, <1>3, LineFacts

LEMMA CopyLines ==
  ASSUME MapInv, CopyLine
  PROVE  /\ dline[<<neighbour, target>>].valid = 0
         /\ \A m \in Lines :
              /\ dline'[m].valid = dline[m].valid
              /\ m # <<neighbour, target>> => dline'[m] = dline[m]
              /\ m = <<neighbour, target>> =>
                   /\ dline'[m].key = dline[<<off, i>>].key
                   /\ dline'[m].value = dline[<<off, i>>].value
<1> DEFINE n == <<neighbour, target>>
<1>0. LineType /\ Moving /\ \A l \in Lines : dline[l] \in DataLine
  BY MapTypes
<1>1. n \in Lines /\ <<off, i>> \in Lines
  BY MovedLines DEF CopyLine
<1>2. dline' = [dline EXCEPT ![n].key = dline[<<off, i>>].key,
                             ![n].value = dline[<<off, i>>].value]
  BY DEF CopyLine
<1>3. dline[n].valid = 0
  BY <1>0 DEF Moving, CopyLine
<1>4. \A m \in Lines : m # n => dline'[m] = dline[m]
  <2> HIDE DEF n
  <2> QED BY <1>0, <1>2 DEF LineType
<1>5. /\ dline'[n].valid = dline[n].valid
      /\ dline'[n].key = dline[<<off, i>>].key /\ dline'[n].value = dline[<<off, i>>].value
  <2> HIDE DEF n
  <2> QED BY <1>0, <1>1, <1>2 DEF LineType, DataLine
<1> QED BY <1>3, <1>4, <1>5

LEMMA ValidateLines ==
  ASSUME MapInv, ValidateCopy PROVE OnlyValid(<<neighbour, target>>, VALID)
<1>1. dline' = [dline EXCEPT ![<<neighbour, target>>].valid = VALID]
  BY DEF ValidateCopy
<1> QED BY <1>1, MapTypes, ValidAssigned

LEMMA DropLines ==
  ASSUME MapInv, DropOriginal PROVE OnlyValid(<<off, i>>, 0)
<1>1. dline' = [dline EXCEPT ![<<off, i>>].valid = 0]
  BY DEF DropOriginal
<1> QED BY <1>1, MapTypes, ValidAssigned

LEMMA ServerLines ==
  ASSUME Server
  PROVE  \/ UNCHANGED dline /\ ~RemoteRetire
         \/ RemoteRetire \/ CommitUpsert \/ CommitDelete
         \/ CopyLine \/ ValidateCopy \/ DropOriginal
  BY DEF Server, PollRecv, PostRecv, Deal, DealBegin, RemoteSkip,
         RemoteDone, LocalSlot, LocalDone, ScanSlot, ScanDone, IndexStore,
         Relocate, RelocPick, RelocSkip, RelocDone, ProbeRoom, ProbeNext, ProbeEnd,
         LockNeighbour, UnlockNeighbour, RemoteRetire

(* The server makes no line pending, and leaves the key of one that is.    *)
LEMMA PendingShrinks ==
  ASSUME MapInv, Server, NEW b \in Buckets, NEW s \in Slots, Pending(b, s)'
  PROVE  Pending(b, s) /\ dline'[<<b, s>>].key = dline[<<b, s>>].key
<1> DEFINE l == <<b, s>>
<1>0. l \in Lines /\ dline'[l].valid \in {UPSERT, DELETE}
  BY LineFacts DEF Pending
<1> SUFFICES dline[l].valid \in {UPSERT, DELETE} /\ dline'[l].key = dline[l].key
  BY DEF Pending
<1> HIDE DEF l
<1>1. CASE UNCHANGED dline
  BY <1>0, <1>1
<1>2. CASE RemoteRetire
  BY <1>0, <1>2, RetireLines DEF UPSERT, DELETE
<1>3. CASE CommitUpsert \/ CommitDelete
  BY <1>0, <1>3, CommitLines DEF OnlyValid, VALID, UPSERT, DELETE
<1>4. CASE CopyLine
  BY <1>0, <1>4, CopyLines DEF UPSERT, DELETE
<1>5. CASE ValidateCopy
  BY <1>0, <1>5, ValidateLines DEF OnlyValid, VALID, UPSERT, DELETE
<1>6. CASE DropOriginal
  BY <1>0, <1>6, DropLines DEF OnlyValid, UPSERT, DELETE
<1> QED BY <1>1, <1>2, <1>3, <1>4, <1>5, <1>6, ServerLines

---------------------------------------------------------------------------
(* The server keeps each part of the invariant. *)
LEMMA GroupServer ==
  ASSUME MapInv, Server PROVE InGroup'
<1>0. InGroup
  BY MapTypes
<1> SUFFICES ASSUME NEW l \in Lines, dline'[l].valid = VALID
             PROVE  l[1] \in Group(dline'[l].key)
  BY DEF InGroup, GroupedIn
<1>1. dline[l].valid = VALID => l[1] \in Group(dline[l].key)
  BY <1>0 DEF InGroup, GroupedIn
<1>2. CASE UNCHANGED dline
  BY <1>1, <1>2
<1>3. CASE RemoteRetire
  BY <1>1, <1>3, RetireLines DEF VALID
<1>4. CASE CommitUpsert \/ CommitDelete
  <2>1. /\ dline'[l].key = dline[l].key
        /\ l = <<off, i>> \/ dline[l].valid = VALID
    BY <1>4, CommitLines DEF OnlyValid, VALID
  <2>2. <<off, i>>[1] \in Group(dline[<<off, i>>].key)
    <3>1. /\ dline[<<off, i>>].key \in Keys \cup {EmptyKey}
          /\ Home[dline[<<off, i>>].key] = off
      BY <1>4, CommitLines, MapTypes DEF DataLine
    <3> QED BY <3>1, LineFacts
  <2> QED BY <1>1, <2>1, <2>2
<1>5. CASE CopyLine
  BY <1>1, <1>5, CopyLines DEF VALID
<1>6. CASE ValidateCopy
  <2> DEFINE n == <<neighbour, target>>
             o == <<off, i>>
  <2>1. /\ dline'[l].key = dline[l].key
        /\ l = n \/ dline[l].valid = VALID
    BY <1>6, ValidateLines DEF OnlyValid
  <2>2. dline[n].key = dline[o].key /\ hashOff = Home[dline[o].key]
    BY <1>6, MapTypes DEF Moving, ValidateCopy
  <2>3. j \in 0..(BucketNum - 1) /\ hashOff \in 0..(IndexNum - 1)
    BY <1>6, MapTypes DEF TypeInv, TypeOK, RelocType, LoopsInRange, ValidateCopy
  <2>4. neighbour \in hashOff..(hashOff + BucketNum - 1)
    BY <2>3 DEF neighbour
  <2>5. n[1] \in Group(dline[n].key)
    BY <2>2, <2>4 DEF Group
  <2> QED BY <1>1, <2>1, <2>5
<1>7. CASE DropOriginal
  BY <1>1, <1>7, DropLines DEF OnlyValid, VALID
<1> QED BY <1>2, <1>3, <1>4, <1>5, <1>6, <1>7, ServerLines

(* Only the reset of its bucket ends a lock. *)
LEMMA OwnedServer ==
  ASSUME MapInv, Server, RoomToLock, NEW b \in Buckets, ~(IndexStore /\ b = off),
         NEW s, Owned(b, s)
  PROVE  bitmap'[b] = bitmap[b] /\ Owned(b, s)'
<1>0. IndexType /\ BucketType(b) /\ LockBounds /\ NeighbourType /\ CountsBelow
  BY MapTypes
<1>1. /\ bitmap'[b] = bitmap[b] /\ freecount'[b] = freecount[b] /\ rlock'[b] = rlock[b]
      /\ llock'[b] = llock[b] \/ LockNeighbour \/ UnlockNeighbour
  <2>1. CASE IndexStore
    BY <1>0, <2>1 DEF IndexStore, IndexType
  <2>2. CASE PollRecv
    BY <2>2 DEF PollRecv, indexVars
  <2>3. CASE ~PollRecv /\ ~IndexStore
    BY <2>3, PassLeaves
  <2> QED BY <2>1, <2>2, <2>3
<1>2. Rank(b, s)' = Rank(b, s)
  BY <1>1 DEF Rank
<1>3. Rank(b, s) < rlock[b] /\ Rank(b, s) + llock[b] < freecount[b]
  BY DEF Owned
<1>4. Rank(b, s) + llock'[b] < freecount[b]
  <2>1. CASE llock'[b] = llock[b]
    BY <1>3, <2>1
  <2>2. CASE LockNeighbour
    <3>1. CASE b = neighbour
      BY <2>2, <3>1, LockLeavesOwned DEF RoomToLock
    <3>2. CASE b # neighbour
      <4>1. llock'[b] = llock[b]
        BY <2>2, <3>2, LockStep, MapTypes
      <4> QED BY <1>3, <4>1
    <3> QED BY <3>1, <3>2
  <2>3. CASE UnlockNeighbour
    <3> SUFFICES FALSE
      OBVIOUS
    <3>1. neighbour \in Buckets
      BY <1>0, <2>3 DEF NeighbourType, UnlockNeighbour
    <3>2. llock[neighbour] = Cardinality(Free(bitmap[neighbour])) + 1
      BY <1>0, <2>3 DEF LockBounds, UnlockNeighbour
    <3>3. BucketType(neighbour)
      BY <3>1, MapTypes
    <3> QED BY <3>2, <3>3 DEF BucketType
  <2> QED BY <1>1, <2>1, <2>2, <2>3
<1> QED BY <1>1, <1>2, <1>3, <1>4 DEF Owned

(* Nor does the server come to hear of a bucket other than from its queue. *)
LEMMA UnheardServer ==
  ASSUME MapInv, Server, NEW b, Unheard(b)
  PROVE  Unheard(b)' /\ ~(IndexStore /\ b = off)
<1>0. arrived \in Seq(Buckets)
  BY MapTypes DEF TypeOK, QueueType
<1>1. ~(IndexStore /\ b = off)
  BY DEF Unheard, Tidied, IndexStore
<1>2. CASE PollRecv
  <2>1. arrived # <<>> /\ off' = Head(arrived) /\ arrived' = Tail(arrived)
    BY <1>2 DEF PollRecv
  <2>2. /\ Len(arrived) \in Nat \ {0} /\ Len(arrived') = Len(arrived) - 1
        /\ off' = arrived[1] /\ 1 \in 1..Len(arrived)
        /\ \A n \in 1..Len(arrived') : arrived'[n] = arrived[n + 1] /\ n + 1 \in 1..Len(arrived)
    <3>1. /\ Len(arrived) \in Nat \ {0} /\ Len(arrived') = Len(arrived) - 1
          /\ off' = arrived[1]
          /\ \A n \in 1..Len(arrived') : arrived'[n] = arrived[n + 1]
      BY <1>0, <2>1
    <3> QED BY <3>1
  <2>3. \A n \in 1..Len(arrived) : arrived[n] # b
    BY DEF Unheard, Queued
  <2> QED BY <1>1, <2>2, <2>3 DEF Unheard, Tidied, Queued
<1>3. CASE IndexStore
  BY <1>1, <1>3 DEF Unheard, Tidied, Queued, IndexStore
<1>4. CASE ~PollRecv /\ ~IndexStore
  <2>1. spc # "poll" /\ UNCHANGED <<arrived, off>>
    BY <1>4, PassLeaves
  <2> QED BY <1>1, <2>1 DEF Unheard, Tidied, Queued
<1> QED BY <1>2, <1>3, <1>4

LEMMA WritingServer ==
  ASSUME MapInv, Server, RoomToLock PROVE Writing'
<1>0. Writing /\ ClientType /\ UNCHANGED <<pc, req, grant>>
  BY MapTypes, ServerLeaves
<1> SUFFICES ASSUME NEW c \in Clients, pc[c] = "write"
             PROVE  Sends(c, Home[req[c].key])'
  BY <1>0 DEF Writing
<1> DEFINE b == Home[req[c].key]
           s == grant[c].slot
<1>1. /\ Unheard(b)
      /\ req[c].key \in Keys /\ req[c].value \in Values /\ req[c].valid \in {UPSERT, DELETE}
      /\ s \in Free(bitmap[b]) /\ Owned(b, s)
      /\ \A t \in Slots : Pending(b, t) => t < s
  BY <1>0 DEF Writing, Sends
<1>2. b \in Buckets /\ b' = b /\ s' = s
  BY <1>0, <1>1, LineFacts
<1>3. Unheard(b)' /\ ~(IndexStore /\ b = off)
  <2> HIDE DEF b
  <2> QED BY <1>1, <1>2, UnheardServer
<1>4. bitmap'[b] = bitmap[b] /\ Owned(b, s)'
  <2> HIDE DEF b, s
  <2> QED BY <1>1, <1>2, <1>3, OwnedServer
<1>5. \A t \in Slots : Pending(b, t)' => Pending(b, t)
  <2> HIDE DEF b
  <2> QED BY <1>2, PendingShrinks
<1> QED BY <1>0, <1>1, <1>2, <1>3, <1>4, <1>5 DEF Sends

(* deal_pending makes its copy: the locked slots are those step 1 reaches. *)
LEMMA RanksBegin ==
  ASSUME MapInv, DealBegin, NEW s \in Slots, Owned(off, s)
  PROVE  Reached(off, s)'
<1> DEFINE f == freecount[off]
           k == llock[off]
           r == rlock[off]
           x == Rank(off, s)
<1>0. off \in Buckets /\ BucketType(off) /\ spc' = "remote" /\ i' = 0
      /\ UNCHANGED <<off, bitmap>> /\ rlockReal' = RemoteLocks(f, k, r)
  BY MapTypes DEF DealBegin, indexVars
<1>1. f \in 0..255 /\ k \in 0..255 /\ r \in 0..MaxRlock /\ k <= f
  BY <1>0 DEF BucketType
<1>2. x \in Nat /\ Rank(off, 0) \in Nat /\ x < r /\ x + k < f
  BY RankGrows DEF Rank, Owned
<1> HIDE DEF f, k, r, x
<1>3. f - k \in 0..255
  BY <1>1
<1>4. f - k \in 0..(UintMod - 1)
  <2>1. UintMod \in Nat /\ MaxRlock \in Nat /\ UintMod > 2 * 255 + MaxRlock
    BY UintModAssumption
  <2> QED BY <1>3, <2>1
<1>5. (f - k) % UintMod = f - k
  BY <1>4, UintModAssumption
<1>6. rlockReal' = IF f - k < r THEN f - k ELSE r
  BY <1>0, <1>5 DEF RemoteLocks
<1>7. x < rlockReal' /\ rlockReal' \in Nat
  <2>1. x < f - k
    BY <1>1, <1>2
  <2>2. f - k \in Nat /\ r \in Nat
    BY <1>1, <1>3
  <2> QED BY <1>2, <1>6, <2>1, <2>2
<1>8. x < Rank(off, 0) + rlockReal'
  BY <1>2, <1>7
<1>9. Rank(off, s)' = x /\ Rank(off, i)' = Rank(off, 0)
  BY <1>0 DEF Rank, x
<1>10. s >= 0
  OBVIOUS
<1> QED BY <1>0, <1>8, <1>9, <1>10 DEF Reached

(* Step 1: what it reached and did not touch, it still reaches. *)
LEMMA RanksRemote ==
  ASSUME MapInv, Server, Copied, NEW s \in Slots, Pending(off, s), PendingAt(off, s),
         dline'[<<off, s>>].valid \in {UPSERT, DELETE}
  PROVE  off' = off /\ bitmap' = bitmap /\ Reached(off, s)' /\ Copied'
<1>0. /\ off \in Buckets /\ PendingRanks /\ rlockReal \in 0..MaxRlock /\ i \in -1..LineNum
      /\ TypeInv /\ MaxRlock \in Nat
  BY MapTypes
<1>1. /\ spc \in {"remote", "commit"} /\ s >= i /\ s \notin bitmap[off]
      /\ Rank(off, s) < Rank(off, i) + rlockReal
  BY DEF PendingAt, Reached
<1>2. /\ \A t : Rank(off, t) \in Nat
      /\ \A t, u \in Int : t <= u => Rank(off, t) <= Rank(off, u)
  BY RankGrows DEF Rank
<1>3. i \in 0..LineNum /\ s \in Int /\ i \in Int
  BY <1>0, <1>1 DEF TypeInv, LoopsInRange
<1>4. CASE RemoteDone
  <2>1. spc = "remote" /\ (i = LineNum \/ rlockReal = 0)
    BY <1>4 DEF RemoteDone
  <2>2. i # LineNum
    BY <1>1, <1>3
  <2>3. rlockReal = 0
    BY <2>1, <2>2
  <2>4. Rank(off, i) <= Rank(off, s) /\ Rank(off, i) \in Nat /\ Rank(off, s) \in Nat
    BY <1>1, <1>2, <1>3
  <2> QED BY <1>1, <2>3, <2>4
<1>5. CASE RemoteRetire
  <2>1. /\ spc' = "commit" /\ UNCHANGED <<bitmap, i, rlockReal, off>>
    BY <1>5 DEF RemoteRetire, indexVars
  <2>2. Rank(off, s)' = Rank(off, s) /\ Rank(off, i)' = Rank(off, i)
    BY <2>1 DEF Rank
  <2> QED BY <1>1, <2>1, <2>2 DEF Reached, Copied
<1>6. ASSUME i \in Slots, spc' = "remote", i' = i + 1, UNCHANGED <<off, bitmap>>, s # i,
             \/ i \in bitmap[off] /\ rlockReal' = rlockReal
             \/ i \notin bitmap[off] /\ rlockReal' = rlockReal - 1
      PROVE  Reached(off, s)'
  <2>1. Rank(off, s)' = Rank(off, s) /\ Rank(off, i)' = Rank(off, i + 1)
    BY <1>6 DEF Rank
  <2>2. Rank(off, i + 1) = Rank(off, i) + (IF i \in bitmap[off] THEN 0 ELSE 1)
    BY <1>6, FreeBeforeStep DEF Rank
  <2>3. Rank(off, i) \in Nat /\ Rank(off, s) \in Nat /\ rlockReal \in Int
    BY <1>0, <1>2
  <2>4. s >= i + 1
    BY <1>1, <1>3, <1>6
  <2>5. Rank(off, s) < Rank(off, i + 1) + rlockReal'
    <3>1. CASE i \in bitmap[off]
      BY <1>1, <1>6, <2>2, <2>3, <3>1
    <3>2. CASE i \notin bitmap[off]
      BY <1>1, <1>6, <2>2, <2>3, <3>2
    <3> QED BY <3>1, <3>2
  <2> QED BY <1>6, <2>1, <2>4, <2>5 DEF Reached
<1>7. CASE RemoteSkip
  <2>1. /\ spc = "remote" /\ spc' = "remote" /\ i < LineNum /\ i' = i + 1
        /\ UNCHANGED <<bitmap, off>>
        /\ \/ i \in bitmap[off] /\ rlockReal' = rlockReal
           \/ i \notin bitmap[off] /\ ~Pending(off, i) /\ rlockReal' = rlockReal - 1
    BY <1>7 DEF RemoteSkip, Pending, indexVars
  <2>2. i \in Slots
    BY <1>3, <2>1
  <2>3. s # i
    BY <1>1, <2>1
  <2> QED BY <1>6, <2>1, <2>2, <2>3 DEF Copied
<1>8. CASE CommitUpsert \/ CommitDelete
  <2>1. /\ spc' = "remote" /\ i \in Slots /\ Pending(off, i) /\ <<off, i>> \in Lines
        /\ i' = i + 1 /\ rlockReal' = rlockReal - 1
    BY <1>8, CommitLines
  <2>2. UNCHANGED <<bitmap, off>>
    BY <1>8 DEF CommitUpsert, CommitDelete, NextRemote, indexVars
  <2>3. dline'[<<off, i>>].valid \notin {UPSERT, DELETE}
    BY <1>8, <2>1, CommitLines DEF OnlyValid, VALID, UPSERT, DELETE
  <2>4. s # i
    BY <2>3
  <2>5. i \notin bitmap[off]
    BY <1>0, <2>1 DEF PendingRanks, PendingAt
  <2> QED BY <1>6, <2>1, <2>2, <2>4, <2>5 DEF Copied
<1> QED BY <1>1, <1>4, <1>5, <1>7, <1>8
        DEF Server, PollRecv, PostRecv, Deal, DealBegin, Relocate, LocalSlot, LocalDone,
            ScanSlot, ScanDone, IndexStore, RelocPick, RelocSkip, RelocDone, ProbeRoom,
            ProbeNext, ProbeEnd, LockNeighbour, UnlockNeighbour, CopyLine, ValidateCopy,
            DropOriginal

LEMMA RanksServer ==
  ASSUME MapInv, Server, RoomToLock PROVE PendingRanks'
<1> SUFFICES ASSUME NEW b \in Buckets, NEW s \in Slots, Pending(b, s)'
             PROVE  PendingAt(b, s)'
  BY DEF PendingRanks
<1>1. Pending(b, s) /\ dline'[<<b, s>>].key = dline[<<b, s>>].key
  BY PendingShrinks
<1>2. PendingAt(b, s)
  BY <1>1, MapTypes DEF PendingRanks
<1>3. s \notin bitmap[b] /\ Home[dline[<<b, s>>].key] = b
  BY <1>2 DEF PendingAt
<1>4. CASE Copied /\ b = off
  <2>1. off' = off /\ bitmap' = bitmap /\ Reached(off, s)' /\ Copied'
    <3>1. dline'[<<off, s>>].valid \in {UPSERT, DELETE}
      BY <1>4 DEF Pending
    <3> QED BY <1>1, <1>2, <1>4, <3>1, RanksRemote
  <2>2. Reached(b, s)'
    BY <1>4, <2>1 DEF Reached, Rank
  <2> QED BY <1>1, <1>3, <1>4, <2>1, <2>2 DEF PendingAt
<1>5. CASE ~(Copied /\ b = off) /\ DealBegin /\ b = off
  <2>1. Owned(off, s)
    BY <1>2, <1>5 DEF PendingAt
  <2>2. Reached(off, s)'
    BY <1>5, <2>1, RanksBegin
  <2>3. off' = off /\ bitmap' = bitmap /\ Copied'
    BY <1>5 DEF DealBegin, Copied, indexVars
  <2> QED BY <1>1, <1>3, <1>5, <2>2, <2>3 DEF PendingAt
<1>6. CASE ~(Copied /\ b = off) /\ ~(DealBegin /\ b = off)
  <2>1. Owned(b, s)
    BY <1>2, <1>6 DEF PendingAt
  <2>2. ~(IndexStore /\ b = off)
    BY <1>6 DEF IndexStore, Copied
  <2>3. bitmap'[b] = bitmap[b] /\ Owned(b, s)'
    BY <2>1, <2>2, OwnedServer
  <2>4. ~(Copied' /\ b = off')
    <3> SUFFICES ASSUME Copied', b = off' PROVE FALSE
      OBVIOUS
    <3>1. ~PollRecv /\ ~PostRecv /\ ~IndexStore
      BY DEF PollRecv, PostRecv, IndexStore, Copied
    <3>2. off' = off
      BY <3>1, PassLeaves
    <3>3. Copied \/ DealBegin
      BY <3>1 DEF Copied, Server, Deal, Relocate, RemoteSkip, RemoteRetire, CommitUpsert,
           CommitDelete, RemoteDone, LocalSlot, LocalDone, ScanSlot, ScanDone, RelocPick,
           RelocSkip, RelocDone, ProbeRoom, ProbeNext, ProbeEnd, LockNeighbour,
           UnlockNeighbour, CopyLine, ValidateCopy, DropOriginal
    <3> QED BY <1>6, <3>2, <3>3
  <2> QED BY <1>1, <1>3, <2>3, <2>4 DEF PendingAt
<1> QED BY <1>4, <1>5, <1>6

(* findRelocateSlot names a dead slot, one that was neither committed nor  *)
(* locked: its local rank is the next one, and what remote locks own ends  *)
(* before that while the bucket still has a free slot.                     *)
LEMMA TargetDead ==
  ASSUME MapInv, LockNeighbour, HasFree(neighbour), spc' = "copy"
  PROVE  /\ neighbour \in Buckets /\ target' \in Slots
         /\ dline[<<neighbour, target'>>].valid = 0
<1> DEFINE b == neighbour
           k == llock[b]
           n == Cardinality(Free(bitmap[b]))
           f == freecount[b]
           r == rlock[b]
<1>0. /\ LockBounds /\ ValidCovered /\ PendingRanks /\ b \in Buckets /\ BucketType(b)
      /\ b # off
  BY MapTypes DEF NeighbourType, LockNeighbour, LockBounds
<1>1. k \in 0..255 /\ n \in 0..LineNum /\ f \in 0..255 /\ r \in 0..MaxRlock /\ f <= n
      /\ f > k + r /\ MaxRlock \in Nat
  BY <1>0 DEF BucketType, HasFree
<1>2. k + 1 \in 0..255 /\ k \in Nat /\ k < n
  <2> HIDE DEF b, k, n, f, r
  <2> QED BY <1>1
<1>3. target' = FromRight(bitmap[b], k + 1) /\ target' # NoSlot
  <2>1. Byte(k + 1) = k + 1
    <3> HIDE DEF b, k
    <3> QED BY <1>2 DEF Byte
  <2> QED BY <2>1 DEF LockNeighbour, RelocSlot
<1>4. /\ target' \in Free(bitmap[b])
      /\ Cardinality(FreeAfter(bitmap[b], target')) = k
  <2> HIDE DEF k
  <2> QED BY <1>2, <1>3, FromRightFinds DEF k
<1>5. target' \in Slots /\ target' \notin bitmap[b] /\ <<b, target'>> \in Lines
  BY <1>0, <1>4, LineFacts DEF Free
<1>6. dline[<<b, target'>>].valid # VALID
  <2>1. ~(k < k)
    BY <1>1
  <2>2. target' \notin LocallyLocked(b)
    BY <1>4, <2>1, LocalRank
  <2> QED BY <1>0, <1>5, <2>2 DEF ValidCovered
<1>7. ~Pending(b, target')
  <2> SUFFICES ASSUME Pending(b, target') PROVE FALSE
    OBVIOUS
  <2> DEFINE x == Rank(b, target')
  <2>1. x < r
    BY <1>0, <1>5 DEF PendingRanks, PendingAt, Owned
  <2>2. x \in Nat /\ x + k + 1 = n
    BY <1>4, RankedTwice DEF Rank
  <2> HIDE DEF x, b, k, n, f, r
  <2> QED BY <1>1, <2>1, <2>2
<1>8. dline[<<b, target'>>].valid \in 0..3
  BY <1>5, MapTypes DEF DataLine
<1> QED BY <1>0, <1>5, <1>6, <1>7, <1>8 DEF Pending, VALID, UPSERT, DELETE

LEMMA MovingServer ==
  ASSUME MapInv, Server, RoomToLock PROVE Moving'
<1>0. /\ Moving /\ TypeInv
      /\ (\A b \in Buckets, s \in Slots : <<b, s>> \in Lines)
      /\ (\A l \in Lines : dline[l] \in DataLine)
      /\ off \in Buckets
  BY MapTypes, LineFacts
<1>1. CASE RemoteRetire
  <2>1. i \in Slots /\ Pending(off, i) /\ <<off, i>> \in Lines
    BY <1>0, <1>1, RetireLines
  <2>2. spc' = "commit" /\ i' = i /\ off' = off /\ opcode' = dline[<<off, i>>].valid
    BY <1>1, <2>1 DEF RemoteRetire
  <2>3. /\ dline'[<<off, i>>].valid = dline[<<off, i>>].valid
        /\ dline'[<<off, i>>].key = dline[<<off, i>>].key
    BY <1>1, <2>1, RetireLines DEF Pending, VALID, UPSERT, DELETE
  <2>4. \A l \in Lines : dline'[l].valid = VALID => dline'[l].key # dline[<<off, i>>].key
    BY <1>1, RetireLines DEF VALID
  <2>5. opcode' # 0
    BY <2>1, <2>2 DEF Pending, UPSERT, DELETE
  <2> QED BY <2>2, <2>3, <2>4, <2>5 DEF Moving
<1>2. CASE RelocPick
  <2>1. /\ spc' = "probe" /\ UNCHANGED <<dline, i, off>> /\ Valid(off, i)
        /\ hashOff' = Home[dline[<<off, i>>].key]
    BY <1>2 DEF RelocPick, Valid, dealVars
  <2> QED BY <2>1 DEF Moving, Valid
<1>3. CASE ProbeRoom \/ ProbeNext
  <2>1. spc' \in {"probe", "lock"} /\ UNCHANGED <<dline, i, off, hashOff>> /\ spc = "probe"
    BY <1>3 DEF ProbeRoom, ProbeNext, dealVars, relocVars
  <2> QED BY <1>0, <2>1 DEF Moving, Valid
<1>4. CASE LockNeighbour
  <2>1. /\ spc' \in {"copy", "unlock"} /\ UNCHANGED <<dline, i, off, hashOff, j>> /\ spc = "lock"
    BY <1>4 DEF LockNeighbour, dealVars
  <2>2. spc' = "copy" => dline[<<neighbour, target'>>].valid = 0
    BY <1>4, TargetDead DEF RoomToLock
  <2> QED BY <1>0, <2>1, <2>2 DEF Moving, Valid, neighbour
<1>5. CASE CopyLine
  <2>1. /\ neighbour \in Buckets /\ neighbour # off /\ target \in Slots /\ i \in Slots
        /\ <<neighbour, target>> \in Lines /\ <<off, i>> \in Lines
    BY <1>5, MovedLines DEF CopyLine
  <2>2. spc = "copy" /\ spc' = "validate" /\ UNCHANGED <<i, off, hashOff, j, target>>
    BY <1>5 DEF CopyLine, relocVars, dealVars
  <2>3. neighbour' = neighbour
    BY <2>2 DEF neighbour
  <2>4. /\ dline'[<<off, i>>] = dline[<<off, i>>]
        /\ dline'[<<neighbour, target>>].valid = 0
        /\ dline'[<<neighbour, target>>].key = dline[<<off, i>>].key
        /\ dline'[<<neighbour, target>>].value = dline[<<off, i>>].value
    BY <1>5, <2>1, CopyLines
  <2>5. Valid(off, i) /\ hashOff = Home[dline[<<off, i>>].key]
    BY <1>0, <2>2 DEF Moving
  <2> QED BY <2>2, <2>3, <2>4, <2>5 DEF Moving, Valid, VALID
<1>6. CASE ValidateCopy
  <2>1. /\ neighbour \in Buckets /\ neighbour # off /\ target \in Slots /\ i \in Slots
        /\ <<neighbour, target>> \in Lines /\ <<off, i>> \in Lines
    BY <1>6, MovedLines DEF ValidateCopy
  <2>2. spc = "validate" /\ spc' = "drop" /\ UNCHANGED <<i, off, hashOff, j, target>>
    BY <1>6 DEF ValidateCopy, relocVars, dealVars
  <2>3. neighbour' = neighbour
    BY <2>2 DEF neighbour
  <2>4. /\ dline'[<<off, i>>].key = dline[<<off, i>>].key
        /\ dline'[<<off, i>>].value = dline[<<off, i>>].value
        /\ dline'[<<off, i>>].valid = dline[<<off, i>>].valid
        /\ dline'[<<neighbour, target>>].valid = VALID
        /\ dline'[<<neighbour, target>>].key = dline[<<neighbour, target>>].key
        /\ dline'[<<neighbour, target>>].value = dline[<<neighbour, target>>].value
    BY <1>6, <2>1, ValidateLines DEF OnlyValid
  <2>5. /\ Valid(off, i) /\ hashOff = Home[dline[<<off, i>>].key]
        /\ dline[<<neighbour, target>>].key = dline[<<off, i>>].key
        /\ dline[<<neighbour, target>>].value = dline[<<off, i>>].value
    BY <1>0, <2>2 DEF Moving
  <2> QED BY <2>1, <2>2, <2>3, <2>4, <2>5 DEF Moving, Valid
<1>7. CASE ~RemoteRetire /\ ~RelocPick /\ ~ProbeRoom /\ ~ProbeNext /\ ~LockNeighbour
           /\ ~CopyLine /\ ~ValidateCopy
  <2>1. spc' \notin {"commit", "probe", "lock", "copy", "validate", "drop"}
    BY <1>7 DEF Server, PollRecv, PostRecv, Deal, DealBegin, RemoteSkip,
         CommitUpsert, CommitDelete, NextRemote, RemoteDone, LocalSlot, LocalDone,
         ScanSlot, ScanDone, IndexStore, Relocate, RelocSkip, RelocDone, ProbeEnd,
         UnlockNeighbour, DropOriginal
  <2> QED BY <2>1 DEF Moving
<1> QED BY <1>1, <1>2, <1>3, <1>4, <1>5, <1>6, <1>7

LEMMA KeyOnceServer ==
  ASSUME MapInv, Server PROVE KeyOnce'
<1>0. KeyOnce
  BY DEF MapInv
<1>1. CASE UNCHANGED dline
  <2>1. spc # "drop"
    <3> SUFFICES ASSUME spc = "drop" PROVE FALSE
      OBVIOUS
    <3>1. DropOriginal
      BY DEF Server, PollRecv, PostRecv, Deal, DealBegin, RemoteSkip, RemoteRetire,
         CommitUpsert, CommitDelete, RemoteDone, LocalSlot, LocalDone, ScanSlot,
         ScanDone, IndexStore, Relocate, RelocPick, RelocSkip, RelocDone, ProbeRoom,
         ProbeNext, ProbeEnd, LockNeighbour, UnlockNeighbour, CopyLine, ValidateCopy
    <3>2. <<off, i>> \in Lines /\ Valid(off, i)
      BY <3>1, MovedLines DEF DropOriginal
    <3>3. dline'[<<off, i>>].valid = 0
      BY <3>1, <3>2, DropLines DEF OnlyValid
    <3> QED BY <1>1, <3>2, <3>3 DEF Valid, VALID
  <2> QED BY <1>0, <1>1, <2>1 DEF KeyOnce
<1>2. CASE RemoteRetire
  <2>1. spc # "drop"
    BY <1>2 DEF RemoteRetire
  <2>2. \A l \in Lines : /\ dline'[l].valid = VALID => dline[l].valid = VALID
                         /\ dline'[l].key = dline[l].key
    BY <1>2, RetireLines DEF VALID
  <2> QED BY <1>0, <2>1, <2>2 DEF KeyOnce
<1>3. CASE CommitUpsert \/ CommitDelete
  <2>1. /\ spc # "drop"
        /\ \A l \in Lines : dline[l].valid = VALID => dline[l].key # dline[<<off, i>>].key
    BY <1>3, CommitLines
  <2>2. \A l \in Lines :
          /\ dline'[l].key = dline[l].key
          /\ dline'[l].valid = VALID => dline[l].valid = VALID \/ l = <<off, i>>
    BY <1>3, CommitLines DEF OnlyValid, VALID
  <2> QED BY <1>0, <2>1, <2>2 DEF KeyOnce
<1>4. CASE CopyLine
  <2>1. \A l \in Lines : dline'[l].valid = VALID =>
          dline[l].valid = VALID /\ dline'[l].key = dline[l].key
    BY <1>4, CopyLines DEF VALID
  <2>2. spc # "drop"
    BY <1>4 DEF CopyLine
  <2> QED BY <1>0, <2>1, <2>2 DEF KeyOnce
<1>5. CASE ValidateCopy
  <2> DEFINE n == <<neighbour, target>>
             o == <<off, i>>
  <2>1. /\ n \in Lines /\ o \in Lines /\ dline[o].valid = VALID
        /\ dline[n].key = dline[o].key /\ spc # "drop" /\ spc' = "drop"
        /\ n' = n /\ o' = o
    BY <1>5, MovedLines DEF MapInv, Moving, ValidateCopy, Valid, relocVars, dealVars, neighbour
  <2>2. \A l \in Lines : /\ dline'[l].key = dline[l].key
                         /\ dline'[l].valid = VALID /\ l # n => dline[l].valid = VALID
    BY <1>5, ValidateLines DEF OnlyValid
  <2> SUFFICES ASSUME NEW l \in Lines, NEW m \in Lines,
                      dline'[l].valid = VALID, dline'[m].valid = VALID,
                      dline'[l].key = dline'[m].key, l # m
               PROVE  {l, m} = {o, n}
    BY <2>1 DEF KeyOnce
  <2>3. \A x, y \in Lines : dline[x].valid = VALID /\ dline[y].valid = VALID
                              /\ dline[x].key = dline[y].key => x = y
    BY <1>0, <2>1 DEF KeyOnce
  <2> HIDE DEF n, o
  <2>4. l = n \/ m = n
    BY <2>2, <2>3
  <2>5. l = n => m = o
    BY <2>1, <2>2, <2>3
  <2>6. m = n => l = o
    BY <2>1, <2>2, <2>3
  <2> QED BY <2>4, <2>5, <2>6
<1>6. CASE DropOriginal
  <2>1. <<off, i>> \in Lines
    BY <1>6, MovedLines DEF DropOriginal
  <2>2. \A l \in Lines : /\ dline'[l].key = dline[l].key
                         /\ dline'[l].valid = VALID => dline[l].valid = VALID /\ l # <<off, i>>
    BY <1>6, DropLines DEF OnlyValid, VALID
  <2>3. \A l, m : {l, m} = {<<off, i>>, <<neighbour, target>>} => l = <<off, i>> \/ m = <<off, i>>
    OBVIOUS
  <2> QED BY <1>0, <2>2, <2>3 DEF KeyOnce
<1> QED BY <1>1, <1>2, <1>3, <1>4, <1>5, <1>6, ServerLines

---------------------------------------------------------------------------
(* Steps of the client.  A lock count that grows takes nothing away. *)
LEMMA PendingKept ==
  ASSUME MapInv, UNCHANGED <<bitmap, freecount, llock, spc, i, dealVars>>,
         \A b \in Buckets : rlock[b] <= rlock'[b] /\ rlock'[b] \in Int,
         NEW b \in Buckets, NEW s \in Slots
  PROVE  /\ Rank(b, s)' = Rank(b, s) /\ (Owned(b, s) => Owned(b, s)')
         /\ PendingAt(b, s) /\ dline'[<<b, s>>].key = dline[<<b, s>>].key => PendingAt(b, s)'
<1>1. UNCHANGED <<off, rlockReal>>
  BY DEF dealVars
<1>2. Rank(b, s)' = Rank(b, s) /\ Rank(b, i)' = Rank(b, i) /\ (Copied' <=> Copied)
  BY DEF Rank, Copied
<1>3. Rank(b, s) \in Nat /\ rlock[b] \in Nat
  <2>1. rlock[b] \in 0..MaxRlock /\ MaxRlock \in Nat
    BY MapTypes DEF BucketType
  <2> QED BY <2>1, RankGrows DEF Rank
<1>4. Owned(b, s) => Owned(b, s)'
  <2>1. Rank(b, s) < rlock[b] => Rank(b, s) < rlock'[b]
    BY <1>3
  <2> QED BY <1>2, <2>1 DEF Owned
<1>5. Reached(b, s) => Reached(b, s)'
  BY <1>1, <1>2 DEF Reached
<1> QED BY <1>1, <1>2, <1>4, <1>5 DEF PendingAt

(* A client that is not writing afterwards and touches no line: a lock     *)
(* that was refused, a step of a search, a failure.                        *)
LEMMA MapKept ==
  ASSUME MapInv,
         UNCHANGED <<bitmap, freecount, llock, dline, spc, i, dealVars, relocVars>>,
         \A b \in Buckets : rlock[b] <= rlock'[b] /\ rlock'[b] \in Int,
         \A c \in Clients : pc'[c] # "write"
  PROVE  InGroup' /\ Writing' /\ PendingRanks' /\ Moving' /\ KeyOnce'
<1>0. InGroup /\ PendingRanks /\ Moving /\ KeyOnce
  BY MapTypes
<1>1. UNCHANGED <<off, opcode, hashOff, j, target, neighbour>>
  BY DEF dealVars, relocVars, neighbour
<1>2. InGroup' /\ Writing'
  BY <1>0 DEF InGroup, Writing
<1>3. PendingRanks'
  <2> SUFFICES ASSUME NEW b \in Buckets, NEW s \in Slots, Pending(b, s)'
               PROVE  PendingAt(b, s)'
    BY DEF PendingRanks
  <2>1. PendingAt(b, s)
    BY <1>0 DEF PendingRanks, Pending
  <2> QED BY <2>1, PendingKept
<1>4. Moving'
  BY <1>0, <1>1 DEF Moving, Valid
<1>5. KeyOnce'
  BY <1>0, <1>1 DEF KeyOnce
<1> QED BY <1>2, <1>3, <1>4, <1>5

(* client_write is granted a slot: the last of those that pend or will, in *)
(* a bucket that nobody has announced.                                     *)
LEMMA MapGranted ==
  ASSUME OneUser, MapInv, NEW c \in Clients, NEW k \in Keys, NEW v \in Values,
         NEW op \in Opcodes, LockGranted(c, k, v, op)
  PROVE  InGroup' /\ Writing' /\ PendingRanks' /\ Moving' /\ KeyOnce'
<1> DEFINE h == Home[k]
<1>a. PICK s : s = GrantSlot(h)
  OBVIOUS
<1>0. /\ InGroup /\ PendingRanks /\ Moving /\ KeyOnce /\ AnnounceInv
      /\ IndexType /\ ClientType /\ h \in Buckets /\ BucketType(h) /\ MaxRlock \in Nat
      /\ (\A d \in Clients : d = c)
  BY MapTypes, LineFacts DEF OneUser
<1>1. /\ pc[c] = "idle" /\ HasFree(h) /\ s # NoSlot /\ FetchAndAdd(h)
      /\ UNCHANGED <<bitmap, freecount, llock, dline, arrived, spc, i, dealVars, relocVars>>
      /\ pc' = [pc EXCEPT ![c] = "write"]
      /\ req' = [req EXCEPT ![c] = [key |-> k, value |-> v, valid |-> op]]
      /\ grant' = [grant EXCEPT ![c] = [slot |-> s, last |-> IsLast(h)]]
  BY <1>a DEF LockGranted, queueVars
<1>2. /\ req'[c] = [key |-> k, value |-> v, valid |-> op]
      /\ grant'[c].slot = s
  BY <1>0, <1>1 DEF ClientType
<1>3. s \in Free(bitmap[h]) /\ Rank(h, s) = rlock[h] /\ s \in Slots /\ s \notin bitmap[h]
  <2>1. s \in Free(bitmap[h]) /\ Rank(h, s) = rlock[h]
    BY <1>a, <1>1, FromLeftRank DEF GrantSlot, Rank
  <2> QED BY <2>1 DEF Free
<1>4. Unheard(h)
  BY <1>0, <1>1 DEF AnnounceInv, AnnouncedIsFull, Announced, Unheard
<1>5. \A b \in Buckets : rlock[b] <= rlock'[b] /\ rlock'[b] \in Int
  <2>1. \A b \in Buckets : rlock[b] <= rlock'[b]
    BY <1>0, <1>1, FetchAndAddCounts
  <2>2. rlock' \in [Buckets -> 0..MaxRlock]
    BY <1>0, <1>1, FetchAndAddType DEF IndexType
  <2>3. \A b \in Buckets : rlock'[b] \in 0..MaxRlock
    BY <2>2
  <2> QED BY <1>0, <2>1, <2>3
<1>6. rlock'[h] = rlock[h] + 1
  <2>1. Rank(h, s) \in 0..(LineNum - 1)
    BY <1>3, RankBound DEF Rank
  <2>2. rlock[h] < MaxRlock
    BY <1>3, <2>1
  <2> QED BY <1>0, <1>1, <2>2, FetchAndAddCounts
<1>7. Owned(h, s)'
  <2>1. Rank(h, s)' = rlock[h]
    BY <1>1, <1>3 DEF Rank
  <2>2. freecount[h] > llock[h] + rlock[h] /\ rlock[h] \in Nat /\ llock[h] \in Nat
        /\ freecount[h] \in Nat
    BY <1>0, <1>1 DEF HasFree, BucketType
  <2>3. rlock[h] < rlock'[h] /\ rlock[h] + llock[h] < freecount[h]
    BY <1>6, <2>2
  <2> QED BY <1>1, <2>1, <2>3 DEF Owned
<1>8. \A t \in Slots : Pending(h, t) => t < s
  <2> SUFFICES ASSUME NEW t \in Slots, Pending(h, t) PROVE t < s
    OBVIOUS
  <2>1. Rank(h, t) < rlock[h]
    <3>1. ~(Copied /\ h = off)
      BY <1>4 DEF Unheard, Tidied, Copied
    <3>2. PendingAt(h, t)
      BY <1>0 DEF PendingRanks
    <3> QED BY <3>1, <3>2 DEF PendingAt, Owned
  <2>2. s \in Int /\ t \in Int
    BY <1>3
  <2>3. Rank(h, s) \in Nat /\ Rank(h, t) \in Nat /\ (s <= t => Rank(h, s) <= Rank(h, t))
    BY <2>2, RankGrows DEF Rank
  <2> HIDE DEF h
  <2>4. ~(s <= t)
    BY <1>3, <2>1, <2>3
  <2> QED BY <2>2, <2>4
<1>9. Writing'
  <2> SUFFICES Sends(c, h)'
    BY <1>0, <1>2 DEF Writing, Sends, Unheard, Tidied, Queued, Owned, Rank, Pending
  <2>1. Unheard(h)'
    BY <1>1, <1>4 DEF Unheard, Tidied, Queued, dealVars
  <2>2. \A t \in Slots : Pending(h, t)' <=> Pending(h, t)
    BY <1>1 DEF Pending
  <2>3. Owned(h, grant[c].slot)'
    BY <1>2, <1>7 DEF Owned, Rank
  <2>4. /\ req'[c].key \in Keys /\ req'[c].value \in Values
        /\ req'[c].valid \in {UPSERT, DELETE}
    BY <1>2
  <2> QED BY <1>1, <1>2, <1>3, <1>8, <2>1, <2>2, <2>3, <2>4 DEF Sends
<1>10. PendingRanks'
  <2> SUFFICES ASSUME NEW b \in Buckets, NEW t \in Slots, Pending(b, t)'
               PROVE  PendingAt(b, t)'
    BY DEF PendingRanks
  <2>1. PendingAt(b, t) /\ dline'[<<b, t>>].key = dline[<<b, t>>].key
    BY <1>0, <1>1 DEF PendingRanks, Pending
  <2> QED BY <1>1, <1>5, <2>1, PendingKept
<1>11. InGroup' /\ Moving' /\ KeyOnce'
  <2>1. UNCHANGED <<off, opcode, hashOff, j, target, neighbour>>
    BY <1>1 DEF dealVars, relocVars, neighbour
  <2>2. InGroup'
    BY <1>0, <1>1 DEF InGroup
  <2>3. Moving'
    BY <1>0, <1>1, <2>1 DEF Moving, Valid
  <2>4. KeyOnce'
    BY <1>0, <1>1, <2>1 DEF KeyOnce
  <2> QED BY <2>2, <2>3, <2>4
<1> QED BY <1>9, <1>10, <1>11

(* The granted slot holds a dead line until the write lands in it. *)
LEMMA WriteLines ==
  ASSUME OneUser, MapInv, NEW c \in Clients, Write(c) \/ WriteNotify(c),
         NEW h, h = Home[req[c].key], NEW s, s = grant[c].slot
  PROVE  /\ pc[c] = "write" /\ Sends(c, h) /\ h \in Buckets
         /\ s \in Slots /\ s \notin bitmap[h] /\ <<h, s>> \in Lines
         /\ s \notin LocallyLocked(h)
         /\ dline[<<h, s>>].valid = 0 /\ dline'[<<h, s>>] = req[c]
         /\ \A m \in Lines : m # <<h, s>> => dline'[m] = dline[m]
         /\ (\A d \in Clients : pc'[d] = "idle")
         /\ UNCHANGED <<indexVars, spc, i, dealVars, relocVars>>
<1>0. /\ ClientType /\ LineType /\ ValidCovered /\ Writing
      /\ (\A l \in Lines : dline[l] \in DataLine)
      /\ (\A d \in Clients : d = c)
  BY MapTypes DEF OneUser
<1>1. pc[c] = "write" /\ EndWrite(c)
  BY DEF Write, WriteNotify
<1>2. Sends(c, h)
  BY <1>0, <1>1 DEF Writing
<1>3. /\ h \in Buckets /\ s \in Free(bitmap[h]) /\ Owned(h, s) /\ Unheard(h)
      /\ \A t \in Slots : Pending(h, t) => t < s
  BY <1>2, LineFacts DEF Sends
<1>4. s \in Slots /\ s \notin bitmap[h] /\ <<h, s>> \in Lines /\ s \notin LocallyLocked(h)
  BY <1>3, LineFacts, OwnedIsNotLocal DEF Free
<1>5. dline' = [dline EXCEPT ![<<h, s>>] = req[c]]
  BY <1>1 DEF EndWrite
<1>6. dline[<<h, s>>].valid = 0
  <2>1. ~Pending(h, s)
    <3>1. ~(s < s)
      BY <1>4
    <3> QED BY <1>3, <1>4, <3>1
  <2>2. dline[<<h, s>>].valid # VALID
    <3>1. ~(Dealing /\ h = off)
      BY <1>3 DEF Unheard, Tidied, Dealing
    <3> QED BY <1>0, <1>3, <1>4, <3>1 DEF ValidCovered
  <2>3. dline[<<h, s>>].valid \in 0..3
    BY <1>0, <1>4 DEF DataLine
  <2> QED BY <2>1, <2>2, <2>3 DEF Pending, VALID, UPSERT, DELETE
<1>7. dline'[<<h, s>>] = req[c] /\ \A m \in Lines : m # <<h, s>> => dline'[m] = dline[m]
  BY <1>0, <1>4, <1>5 DEF LineType
<1>8. \A d \in Clients : pc'[d] = "idle"
  BY <1>0, <1>1 DEF EndWrite, ClientType
<1>9. UNCHANGED <<indexVars, spc, i, dealVars, relocVars>>
  BY <1>1 DEF EndWrite
<1> QED BY <1>1, <1>2, <1>3, <1>4, <1>6, <1>7, <1>8, <1>9

LEMMA MapWritten ==
  ASSUME OneUser, MapInv, NEW c \in Clients, Write(c) \/ WriteNotify(c)
  PROVE  InGroup' /\ Writing' /\ PendingRanks' /\ Moving' /\ KeyOnce'
<1>a. PICK h, s : h = Home[req[c].key] /\ s = grant[c].slot
  OBVIOUS
<1> DEFINE n == <<h, s>>
<1>0. /\ InGroup /\ PendingRanks /\ Moving /\ KeyOnce /\ LockBounds /\ TypeInv
      /\ off \in Buckets /\ (\A b \in Buckets, t \in Slots : <<b, t>> \in Lines)
      /\ (\A b \in Buckets : rlock[b] \in Int) /\ MaxRlock \in Nat
  <2>1. \A b \in Buckets : BucketType(b)
    BY MapTypes
  <2> QED BY <2>1, MapTypes, LineFacts DEF BucketType
<1>1. /\ h \in Buckets /\ s \in Slots /\ s \notin bitmap[h] /\ n \in Lines
      /\ s \notin LocallyLocked(h) /\ Owned(h, s) /\ Unheard(h)
      /\ req[c].valid \in {UPSERT, DELETE}
      /\ dline[n].valid = 0 /\ dline'[n] = req[c]
      /\ (\A m \in Lines : m # n => dline'[m] = dline[m])
      /\ (\A d \in Clients : pc'[d] = "idle")
      /\ UNCHANGED <<bitmap, freecount, llock, rlock, spc, i, dealVars, relocVars>>
  BY <1>a, WriteLines DEF Sends, indexVars
<1>2. UNCHANGED <<off, opcode, hashOff, j, target, neighbour>>
  BY <1>1 DEF dealVars, relocVars, neighbour
<1>3. \A l \in Lines : dline'[l].valid = VALID => l # n /\ dline'[l] = dline[l]
  BY <1>1 DEF VALID, UPSERT, DELETE
<1>4. InGroup' /\ Writing'
  BY <1>0, <1>1, <1>3 DEF InGroup, GroupedIn, Writing
<1>5. PendingRanks'
  <2> SUFFICES ASSUME NEW b \in Buckets, NEW t \in Slots, Pending(b, t)'
               PROVE  PendingAt(b, t)'
    BY DEF PendingRanks
  <2>1. CASE <<b, t>> = n
    <3>1. b = h /\ t = s
      BY <2>1
    <3>2. Owned(h, s)' /\ ~(Copied' /\ h = off')
      BY <1>0, <1>1, <1>2, PendingKept DEF Unheard, Tidied, Copied
    <3>3. bitmap'[h] = bitmap[h] /\ Home[dline'[n].key] = h
      BY <1>a, <1>1
    <3> QED BY <1>1, <3>1, <3>2, <3>3 DEF PendingAt
  <2>2. CASE <<b, t>> # n
    <3>1. dline'[<<b, t>>] = dline[<<b, t>>]
      BY <1>0, <1>1, <2>2
    <3>2. PendingAt(b, t)
      BY <1>0, <3>1 DEF PendingRanks, Pending
    <3>3. \A a \in Buckets : rlock[a] <= rlock'[a] /\ rlock'[a] \in Int
      BY <1>0, <1>1
    <3>4. PendingAt(b, t) /\ dline'[<<b, t>>].key = dline[<<b, t>>].key
      BY <3>1, <3>2
    <3>5. UNCHANGED <<bitmap, freecount, llock, spc, i, dealVars>>
      BY <1>1
    <3> HIDE DEF n
    <3> QED BY <3>3, <3>4, <3>5, PendingKept
  <2> QED BY <2>1, <2>2
<1>6. Moving'
  <2>1. spc # "poll" => h # off
    BY <1>1 DEF Unheard, Tidied
  <2>2. spc \in {"commit", "probe", "lock", "copy", "validate", "drop"} =>
          dline'[<<off, i>>] = dline[<<off, i>>]
    <3> SUFFICES ASSUME spc \in {"commit", "probe", "lock", "copy", "validate", "drop"}
                 PROVE  dline'[<<off, i>>] = dline[<<off, i>>]
      OBVIOUS
    <3>1. <<off, i>> \in Lines /\ <<off, i>> # n
      BY <1>0, <2>1 DEF TypeInv, LoopsInRange
    <3> QED BY <1>1, <3>1
  <2>3. spc \in {"copy", "validate", "drop"} =>
          dline'[<<neighbour, target>>] = dline[<<neighbour, target>>]
    <3> SUFFICES ASSUME spc \in {"copy", "validate", "drop"}
                 PROVE  dline'[<<neighbour, target>>] = dline[<<neighbour, target>>]
      OBVIOUS
    <3>1. <<neighbour, target>> \in Lines
      BY MovedLines
    <3>2. <<neighbour, target>> # n
      <4>1. CASE spc = "drop"
        BY <1>0, <1>1, <4>1 DEF Moving, Valid, VALID
      <4>2. CASE spc \in {"copy", "validate"}
        BY <1>0, <1>1, <4>2 DEF LockBounds
      <4> QED BY <4>1, <4>2
    <3> QED BY <1>1, <3>1, <3>2
  <2> HIDE DEF n
  <2> QED BY <1>0, <1>1, <1>2, <1>3, <2>2, <2>3 DEF Moving, Valid
<1>7. KeyOnce'
  BY <1>0, <1>1, <1>2, <1>3 DEF KeyOnce
<1> QED BY <1>4, <1>5, <1>6, <1>7

LEMMA MapClient ==
  ASSUME OneUser, MapInv, NEW c \in Clients, Client(c)
  PROVE  InGroup' /\ Writing' /\ PendingRanks' /\ Moving' /\ KeyOnce'
<1>0. ClientType /\ IndexType /\ (\A d \in Clients : d = c) /\ MaxRlock \in Nat
  BY MapTypes DEF OneUser
<1>1. CASE \E k \in Keys, v \in Values, op \in Opcodes : LockGranted(c, k, v, op)
  BY <1>1, MapGranted
<1>2. CASE Write(c) \/ WriteNotify(c)
  BY <1>2, MapWritten
<1>3. CASE /\ ~\E k \in Keys, v \in Values, op \in Opcodes : LockGranted(c, k, v, op)
           /\ ~Write(c) /\ ~WriteNotify(c)
  <2>1. UNCHANGED <<bitmap, freecount, llock, spc, i, dealVars, relocVars>>
    BY ClientLeaves
  <2>2. dline' = dline
    BY <1>3 DEF Client, LockRefused, StartSearch, ScanHome, ScanNeighbour,
         ScanBucketEnd, EndSearch, Break, CallFlushed, vars
  <2>3. \A d \in Clients : pc'[d] # "write"
    <3>1. pc'[c] # "write"
      BY <1>0, <1>3 DEF ClientType, Client, LockRefused, StartSearch, ScanHome,
         ScanNeighbour, ScanBucketEnd, EndSearch, Break, CallFlushed, vars, clientVars
    <3> QED BY <1>0, <3>1
  <2>4. \A b \in Buckets : rlock[b] <= rlock'[b] /\ rlock'[b] \in Int
    <3>1. CASE \E k \in Keys : LockRefused(c, k)
      <4>1. PICK k \in Keys : FetchAndAdd(Home[k]) /\ Home[k] \in Buckets
        BY <3>1, LineFacts DEF LockRefused
      <4>2. rlock' \in [Buckets -> 0..MaxRlock] /\ \A b \in Buckets : rlock[b] <= rlock'[b]
        BY <1>0, <4>1, FetchAndAddType, FetchAndAddCounts DEF IndexType
      <4>3. \A b \in Buckets : rlock'[b] \in 0..MaxRlock
        BY <4>2
      <4> QED BY <1>0, <4>2, <4>3
    <3>2. CASE rlock' = rlock
      <4>1. \A b \in Buckets : rlock[b] \in 0..MaxRlock
        BY <1>0 DEF IndexType
      <4> QED BY <1>0, <3>2, <4>1
    <3> QED BY <1>3, <3>1, <3>2 DEF Client, StartSearch, ScanHome, ScanNeighbour,
         ScanBucketEnd, EndSearch, Break, CallFlushed, vars, indexVars
  <2> QED BY <2>1, <2>2, <2>3, <2>4, MapKept
<1> QED BY <1>1, <1>2, <1>3

LEMMA MapStutter ==
  ASSUME MapInv, UNCHANGED vars
  PROVE  InGroup' /\ Writing' /\ PendingRanks' /\ Moving' /\ KeyOnce'
<1>0. InGroup /\ Writing /\ PendingRanks /\ Moving /\ KeyOnce
  BY MapTypes
<1>1. UNCHANGED <<bitmap, freecount, llock, rlock, dline, arrived, pc, req, grant, spc, i,
                  off, rlockReal, opcode, hashOff, j, target, neighbour>>
  BY DEF vars, indexVars, queueVars, clientVars, dealVars, relocVars, neighbour
<1>2. InGroup' /\ Moving' /\ KeyOnce'
  BY <1>0, <1>1 DEF InGroup, Moving, KeyOnce, Valid
<1>3. PendingRanks'
  <2> SUFFICES ASSUME NEW b \in Buckets, NEW s \in Slots, Pending(b, s)'
               PROVE  PendingAt(b, s)'
    BY DEF PendingRanks
  <2>1. PendingAt(b, s)
    BY <1>0, <1>1 DEF PendingRanks, Pending
  <2> QED BY <1>1, <2>1 DEF PendingAt, Reached, Owned, Rank, Copied
<1>4. Writing'
  <2> SUFFICES ASSUME NEW c \in Clients, pc'[c] = "write" PROVE Sends(c, Home[req[c].key])'
    BY DEF Writing
  <2>1. Sends(c, Home[req[c].key])
    BY <1>0, <1>1 DEF Writing
  <2> QED BY <1>1, <2>1 DEF Sends, Unheard, Tidied, Queued, Owned, Rank, Pending
<1> QED BY <1>2, <1>3, <1>4

LEMMA MapNext == ASSUME OneUser, MapInv, [Next]_vars, [RoomToLock]_vars PROVE MapInv'
<1>0. HonestInv /\ AnnounceInv
  BY DEF MapInv
<1>1. HonestInv'
  BY <1>0, HonestNext DEF RoomToLock
<1>2. AnnounceInv'
  <2>1. FreeCountBelow'
    BY <1>1 DEF HonestInv, CountsBelow, FreeCountBelow
  <2> QED BY <1>0, <2>1, AnnounceNext
<1>3. InGroup' /\ Writing' /\ PendingRanks' /\ Moving' /\ KeyOnce'
  <2>1. CASE UNCHANGED vars
    BY <2>1, MapStutter
  <2>2. CASE Server /\ RoomToLock
    BY <2>2, GroupServer, WritingServer, RanksServer, MovingServer, KeyOnceServer
  <2>3. CASE \E c \in Clients : Client(c)
    BY <2>3, MapClient
  <2> QED BY <2>1, <2>2, <2>3 DEF Next
<1> QED BY <1>1, <1>2, <1>3 DEF MapInv

LEMMA MapHolds == ASSUME OneUser PROVE Spec /\ LocksWithRoom => []MapInv
<1>1. Init => MapInv
  BY MapInit
<1>2. MapInv /\ [Next]_vars /\ [LockNeighbour => HasFree(neighbour)]_vars => MapInv'
  BY MapNext DEF RoomToLock
<1> QED BY <1>1, <1>2, PTL DEF Spec, LocksWithRoom

---------------------------------------------------------------------------
(* A key has one VALID line, whatever the client upserts and deletes and   *)
(* wherever the server is: search_old retires the line of the key before   *)
(* a pending one is committed (api.cpp:371-411), and relocate makes its    *)
(* copy valid before it drops the original, the one moment in which there  *)
(* are two (api.cpp:314-337).                                              *)
THEOREM KeysHaveOneLine ==
  ASSUME \A c, d \in Clients : c = d PROVE Spec /\ LocksWithRoom => []KeyUnique
<1>0. OneUser
  BY DEF OneUser
<1>1. MapInv => KeyUnique
  <2> SUFFICES ASSUME MapInv, NEW k \in Keys
               PROVE  Cardinality(ValidLines(k)) <= (IF spc = "drop" THEN 2 ELSE 1)
    BY DEF KeyUnique
  <2> DEFINE V == ValidLines(k)
             o == <<off, i>>
             n == <<neighbour, target>>
  <2>1. \A l, m \in V : l = m \/ (spc = "drop" /\ {l, m} = {o, n})
    BY DEF MapInv, KeyOnce, ValidLines
  <2>2. /\ Cardinality({}) = 0 /\ \A x : Cardinality({x}) = 1
        /\ \A x, y : IsFiniteSet({x, y}) /\ Cardinality({x, y}) <= 2
    <3>1. Cardinality({}) = 0 /\ \A x : IsFiniteSet({x}) /\ Cardinality({x}) = 1
      BY FS_EmptySet, FS_Singleton
    <3>2. ASSUME NEW x, NEW y PROVE IsFiniteSet({x, y}) /\ Cardinality({x, y}) <= 2
      <4>1. {x, y} = {x} \cup {y} /\ IsFiniteSet({x}) /\ Cardinality({x}) = 1
        BY <3>1
      <4>2. CASE y \in {x}
        <5>1. {x, y} = {x}
          BY <4>1, <4>2
        <5>2. IsFiniteSet({x, y}) /\ Cardinality({x, y}) = 1
          BY <3>1, <5>1
        <5> QED BY <5>2
      <4>3. CASE y \notin {x}
        <5>1. /\ IsFiniteSet({x} \cup {y})
              /\ Cardinality({x} \cup {y}) = Cardinality({x}) + 1
          BY <4>1, <4>3, FS_AddElement, Zenon
        <5>2. IsFiniteSet({x, y}) /\ Cardinality({x, y}) = 1 + 1
          BY <4>1, <5>1
        <5> QED BY <5>2
      <4> QED BY <4>2, <4>3
    <3> QED BY <3>1, <3>2
  <2> HIDE DEF V, o, n
  <2>3. CASE V = {}
    BY <2>2, <2>3 DEF V
  <2>4. ASSUME NEW x \in V PROVE Cardinality(V) <= (IF spc = "drop" THEN 2 ELSE 1)
    <3>1. CASE V = {x}
      <4>1. Cardinality(V) = 1
        BY <2>2, <3>1
      <4> QED BY <4>1
    <3>2. CASE V # {x}
      <4>1. PICK y \in V : y # x
        BY <2>4, <3>2
      <4>2. spc = "drop" /\ {x, y} = {o, n}
        BY <2>1, <2>4, <4>1
      <4>3. V \subseteq {o, n}
        BY <2>1, <2>4, <4>2
      <4>4. Cardinality(V) <= Cardinality({o, n}) /\ Cardinality(V) \in Nat
            /\ Cardinality({o, n}) \in Nat
        BY <2>2, <4>3, FS_Subset, FS_CardinalityType
      <4>5. Cardinality({o, n}) <= 2
        BY <2>2
      <4> QED BY <4>2, <4>4, <4>5
    <3> QED BY <3>1, <3>2
  <2> QED BY <2>3, <2>4 DEF V
<1>2. Spec /\ LocksWithRoom => []MapInv
  BY <1>0, MapHolds
<1> QED BY <1>1, <1>2, PTL

---------------------------------------------------------------------------
(* What a search would find, after each step that writes a line.           *)
LEMMA RetireLookup ==
  ASSUME MapInv, RemoteRetire, NEW k \in Keys
  PROVE  LookupIn(dline', k) = LookupIn(dline, k)
<1>a. PICK o : o = <<off, i>>
  OBVIOUS
<1>b. PICK h : h = Home[k]
  OBVIOUS
<1>0. \A s \in Slots : <<h, s>> \in Lines
  BY <1>b, LineFacts
<1>1. /\ i \in Slots /\ off \in Buckets /\ Pending(off, i)
      /\ \A m \in Lines :
           /\ dline'[m].key = dline[m].key /\ dline'[m].value = dline[m].value
           /\ dline'[m].valid = IF dline[m].valid = VALID /\ dline[m].key = dline[o].key
                                  THEN 0 ELSE dline[m].valid
  BY <1>a, RetireLines
<1>2. PendingIn(dline', k) = PendingIn(dline, k)
  BY <1>b, <1>0, <1>1 DEF PendingIn, VALID, UPSERT, DELETE
<1>3. \A s \in PendingIn(dline, k) : Stored(dline'[<<h, s>>]) = Stored(dline[<<h, s>>])
  <2> SUFFICES ASSUME NEW s \in PendingIn(dline, k)
               PROVE  Stored(dline'[<<h, s>>]) = Stored(dline[<<h, s>>])
    OBVIOUS
  <2>1. <<h, s>> \in Lines /\ dline[<<h, s>>].valid # VALID
    BY <1>b, <1>0 DEF PendingIn, VALID, UPSERT, DELETE
  <2>2. /\ dline'[<<h, s>>].valid = dline[<<h, s>>].valid
        /\ dline'[<<h, s>>].value = dline[<<h, s>>].value
    BY <1>1, <2>1
  <2> QED BY <2>2 DEF Stored
<1>4. CASE k = dline[o].key
  <2>1. h = off
    BY <1>a, <1>b, <1>1, <1>4, MapTypes DEF PendingRanks, PendingAt
  <2>2. i \in PendingIn(dline, k)
    BY <1>a, <1>b, <1>1, <1>4, <2>1 DEF PendingIn, Pending
  <2> QED BY <1>b, <1>2, <1>3, <2>2, LookupSame
<1>5. CASE k # dline[o].key
  <2>1. HitsIn(dline', k) = HitsIn(dline, k)
    BY <1>1, <1>5 DEF HitsIn
  <2>2. \A l \in HitsIn(dline, k) : dline'[l].value = dline[l].value
    BY <1>1 DEF HitsIn
  <2> QED BY <1>b, <1>2, <1>3, <2>1, <2>2, LookupSame
<1> QED BY <1>4, <1>5

LEMMA CommitLookup ==
  ASSUME MapInv, CommitUpsert \/ CommitDelete, NEW k \in Keys
  PROVE  LookupIn(dline', k) = LookupIn(dline, k)
<1>a. PICK o, h, P : o = <<off, i>> /\ h = Home[k] /\ P = PendingIn(dline, k)
  OBVIOUS
<1>b. PICK v : v = IF CommitUpsert THEN VALID ELSE 0
  OBVIOUS
<1>0. \A s \in Slots : <<h, s>> \in Lines
  BY <1>a, LineFacts
<1>1. /\ i \in Slots /\ off \in Buckets /\ Pending(off, i) /\ o \in Lines
      /\ Home[dline[o].key] = off
      /\ \A l \in Lines : dline[l].valid = VALID => dline[l].key # dline[o].key
      /\ OnlyValid(o, v) /\ v \in {0, VALID}
      /\ (v = VALID => dline[o].valid = UPSERT)
      /\ (v = 0 => dline[o].valid = DELETE)
  <2>1. CommitUpsert => dline[o].valid = UPSERT /\ OnlyValid(o, VALID)
    BY <1>a, CommitLines
  <2>2. CommitDelete => dline[o].valid = DELETE /\ OnlyValid(o, 0)
    BY <1>a, CommitLines
  <2> QED BY <1>a, <1>b, <2>1, <2>2, CommitLines DEF VALID
<1>2. \A s \in Slots : /\ dline'[<<h, s>>].key = dline[<<h, s>>].key
                       /\ dline'[<<h, s>>].value = dline[<<h, s>>].value
                       /\ dline'[<<h, s>>].valid =
                            IF h = off /\ s = i THEN v ELSE dline[<<h, s>>].valid
  <2>1. \A s \in Slots : <<h, s>> = o <=> h = off /\ s = i
    BY <1>a
  <2> QED BY <1>0, <1>1, <2>1 DEF OnlyValid
<1>3. v \notin {UPSERT, DELETE}
  BY <1>1 DEF VALID, UPSERT, DELETE
<1>4. CASE k # dline[o].key
  <2>1. ~(h = off /\ i \in P)
    BY <1>a, <1>4 DEF PendingIn
  <2>2. PendingIn(dline', k) = P
    <3>1. \A s \in Slots : h = off /\ s = i => dline[<<h, s>>].key # k
      BY <1>a, <1>4
    <3> QED BY <1>a, <1>2, <3>1 DEF PendingIn
  <2>3. \A s \in P : Stored(dline'[<<h, s>>]) = Stored(dline[<<h, s>>])
    <3>1. P \in SUBSET Slots
      BY <1>a DEF PendingIn
    <3> QED BY <1>2, <2>1, <3>1 DEF Stored
  <2>4. HitsIn(dline', k) = HitsIn(dline, k)
    <3>1. \A l \in Lines : /\ dline'[l].key = dline[l].key
                           /\ l # o => dline'[l].valid = dline[l].valid
      BY <1>1 DEF OnlyValid
    <3> QED BY <1>4, <3>1 DEF HitsIn
  <2>5. \A l \in HitsIn(dline, k) : dline'[l].value = dline[l].value
    BY <1>1 DEF HitsIn, OnlyValid
  <2> QED BY <1>a, <2>2, <2>3, <2>4, <2>5, LookupSame
<1>5. ASSUME k = dline[o].key
      PROVE  /\ h = off /\ o = <<h, i>> /\ i \in P /\ PendingIn(dline', k) = P \ {i}
             /\ \A s \in P : s # i => Stored(dline'[<<h, s>>]) = Stored(dline[<<h, s>>])
  <2>1. h = off /\ o = <<h, i>>
    BY <1>a, <1>1, <1>5
  <2>2. i \in P
    BY <1>a, <1>1, <1>5, <2>1 DEF PendingIn, Pending
  <2>3. PendingIn(dline', k) = P \ {i}
    BY <1>a, <1>2, <1>3, <2>1 DEF PendingIn
  <2>4. P \in SUBSET Slots
    BY <1>a DEF PendingIn
  <2> QED BY <1>2, <2>1, <2>2, <2>3, <2>4 DEF Stored
<1>6. CASE k = dline[o].key /\ P = {i}
  <2>1. LookupIn(dline, k) = Stored(dline[o])
    <3>1. i <= i
      BY <1>1
    <3>2. i \in P /\ \A t \in P : t <= i
      BY <1>6, <3>1
    <3> QED BY <1>a, <1>5, <1>6, <3>2, LookupPending
  <2>2. PendingIn(dline', k) = {}
    BY <1>5, <1>6
  <2>3. /\ dline'[o].key = k /\ dline'[o].value = dline[o].value /\ dline'[o].valid = v
        /\ \A l \in Lines : dline'[l].key = dline[l].key
        /\ \A l \in Lines : l # o => dline'[l].valid = dline[l].valid
    BY <1>1, <1>6 DEF OnlyValid
  <2>4. CASE v = VALID
    <3>1. HitsIn(dline', k) = {o}
      BY <1>1, <1>6, <2>3, <2>4 DEF HitsIn
    <3>2. LookupIn(dline', k) = dline'[o].value
      BY <2>2, <3>1, LookupValid
    <3> QED BY <1>1, <2>1, <2>3, <2>4, <3>2 DEF Stored, UPSERT, DELETE
  <2>5. CASE v = 0
    <3>1. HitsIn(dline', k) = {}
      BY <1>1, <1>6, <2>3, <2>5 DEF HitsIn, VALID
    <3>2. LookupIn(dline', k) = NoValue
      BY <2>2, <3>1, LookupNone
    <3> QED BY <1>1, <2>1, <2>5, <3>2 DEF Stored
  <2> QED BY <1>1, <2>4, <2>5
<1>7. CASE k = dline[o].key /\ P # {i}
  <2>1. i \in P /\ P \in SUBSET Slots /\ h = off
    BY <1>a, <1>5, <1>7 DEF PendingIn
  <2>2. PICK t \in P : t # i
    BY <1>7, <2>1
  <2>3. LastOf(P) \in P /\ \A s \in P : s <= LastOf(P)
    BY <2>1, LastSlot
  <2>4. t >= i
    <3>1. spc = "commit" /\ Copied
      BY CommitLines DEF Copied
    <3>2. Pending(off, t) /\ t \in Slots
      BY <1>a, <2>1, <2>2 DEF PendingIn, Pending
    <3>3. PendingAt(off, t)
      BY <1>1, <3>2, MapTypes DEF PendingRanks
    <3> QED BY <3>1, <3>3 DEF PendingAt, Reached
  <2>5. LastOf(P) # i
    <3>1. t <= LastOf(P) /\ t \in Int /\ i \in Int
      BY <2>1, <2>2, <2>3
    <3> QED BY <2>2, <2>4, <3>1
  <2>6. LookupIn(dline, k) = Stored(dline[<<h, LastOf(P)>>])
    BY <1>a, <2>3, LookupPending
  <2>7. LookupIn(dline', k) = Stored(dline'[<<h, LastOf(P)>>])
    <3>1. /\ LastOf(P) \in PendingIn(dline', k)
          /\ \A s \in PendingIn(dline', k) : s <= LastOf(P)
      BY <1>5, <1>7, <2>3, <2>5
    <3> QED BY <1>a, <3>1, LookupPending
  <2> QED BY <1>5, <1>7, <2>3, <2>5, <2>6, <2>7
<1> QED BY <1>4, <1>6, <1>7

LEMMA CopyLookup ==
  ASSUME MapInv, CopyLine, NEW k \in Keys
  PROVE  LookupIn(dline', k) = LookupIn(dline, k)
<1>a. PICK n, h : n = <<neighbour, target>> /\ h = Home[k]
  OBVIOUS
<1>0. \A s \in Slots : <<h, s>> \in Lines
  BY <1>a, LineFacts
<1>1. /\ n \in Lines /\ dline[n].valid = 0
      /\ \A m \in Lines : /\ dline'[m].valid = dline[m].valid
                          /\ m # n => dline'[m] = dline[m]
  BY <1>a, CopyLines, MovedLines DEF CopyLine
<1>2. \A m \in Lines : dline[m].valid # 0 => dline'[m] = dline[m]
  BY <1>1
<1>3. PendingIn(dline', k) = PendingIn(dline, k)
  BY <1>a, <1>0, <1>1, <1>2 DEF PendingIn, UPSERT, DELETE
<1>4. HitsIn(dline', k) = HitsIn(dline, k)
  BY <1>1, <1>2 DEF HitsIn, VALID
<1>5. \A s \in PendingIn(dline, k) : Stored(dline'[<<h, s>>]) = Stored(dline[<<h, s>>])
  BY <1>a, <1>0, <1>2 DEF PendingIn, UPSERT, DELETE
<1>6. \A l \in HitsIn(dline, k) : dline'[l].value = dline[l].value
  BY <1>2 DEF HitsIn, VALID
<1> QED BY <1>a, <1>3, <1>4, <1>5, <1>6, LookupSame

(* While relocate works, only the key that it moves could look different;  *)
(* the two lines of that key hold the same value.                          *)
LEMMA MoveLookup ==
  ASSUME MapInv, ValidateCopy \/ DropOriginal, NEW k \in Keys
  PROVE  LookupIn(dline', k) = LookupIn(dline, k)
<1>a. PICK n, o, h : n = <<neighbour, target>> /\ o = <<off, i>> /\ h = Home[k]
  OBVIOUS
<1>0. \A s \in Slots : <<h, s>> \in Lines
  BY <1>a, LineFacts
<1>1. /\ n \in Lines /\ o \in Lines /\ n # o
      /\ dline[o].valid = VALID
      /\ dline[n].key = dline[o].key /\ dline[n].value = dline[o].value
      /\ (spc = "drop" => dline[n].valid = VALID)
      /\ (spc = "validate" => dline[n].valid = 0)
  BY <1>a, MovedLines DEF MapInv, Moving, ValidateCopy, DropOriginal, Valid
<1>2. /\ \A m \in Lines : /\ dline'[m].key = dline[m].key
                          /\ dline'[m].value = dline[m].value
                          /\ m \notin {o, n} => dline'[m].valid = dline[m].valid
      /\ \A m \in {o, n} : dline[m].valid \in {0, VALID} /\ dline'[m].valid \in {0, VALID}
      /\ dline[o].valid = VALID /\ dline'[n].valid = VALID
  <2>1. CASE ValidateCopy
    <3>1. OnlyValid(n, VALID) /\ spc = "validate"
      BY <1>a, <2>1, ValidateLines DEF ValidateCopy
    <3> QED BY <1>1, <3>1 DEF OnlyValid
  <2>2. CASE DropOriginal
    <3>1. OnlyValid(o, 0) /\ spc = "drop"
      BY <1>a, <2>2, DropLines DEF DropOriginal
    <3> QED BY <1>1, <3>1 DEF OnlyValid
  <2> QED BY <2>1, <2>2
<1>3. PendingIn(dline', k) = PendingIn(dline, k)
  <2>1. \A m \in Lines : /\ dline'[m].key = dline[m].key
                         /\ dline'[m].valid \in {UPSERT, DELETE} <=>
                              dline[m].valid \in {UPSERT, DELETE}
    BY <1>2 DEF VALID, UPSERT, DELETE
  <2> QED BY <1>a, <1>0, <2>1 DEF PendingIn
<1>4. \A s \in PendingIn(dline, k) : Stored(dline'[<<h, s>>]) = Stored(dline[<<h, s>>])
  <2>1. \A m \in Lines : dline[m].valid \in {UPSERT, DELETE} =>
          dline'[m].valid = dline[m].valid /\ dline'[m].value = dline[m].value
    BY <1>2 DEF VALID, UPSERT, DELETE
  <2> QED BY <1>a, <1>0, <2>1 DEF PendingIn, Stored
<1>5. CASE k # dline[o].key
  <2>1. HitsIn(dline', k) = HitsIn(dline, k)
    BY <1>1, <1>2, <1>5 DEF HitsIn
  <2>2. \A l \in HitsIn(dline, k) : dline'[l].value = dline[l].value
    BY <1>2 DEF HitsIn
  <2> QED BY <1>a, <1>3, <1>4, <2>1, <2>2, LookupSame
<1>6. CASE PendingIn(dline, k) # {}
  BY <1>a, <1>3, <1>4, <1>6, LookupSame
<1>7. CASE k = dline[o].key /\ PendingIn(dline, k) = {}
  <2>1. \A l \in HitsIn(dline, k) : l \in {o, n}
    <3>1. \A l \in HitsIn(dline, k) : l = o \/ {l, o} = {o, n}
      BY <1>a, <1>1, <1>7 DEF MapInv, KeyOnce, HitsIn
    <3> QED BY <3>1
  <2>2. \A l \in HitsIn(dline', k) : l \in {o, n}
    <3>1. \A l \in HitsIn(dline', k) : l \notin {o, n} => l \in HitsIn(dline, k)
      BY <1>2 DEF HitsIn
    <3> QED BY <2>1, <3>1
  <2>3. \A l \in {o, n} : dline[l].value = dline[o].value /\ dline'[l].value = dline[o].value
    BY <1>1, <1>2
  <2>4. o \in HitsIn(dline, k) /\ n \in HitsIn(dline', k)
    BY <1>1, <1>2, <1>7 DEF HitsIn
  <2>5. LookupIn(dline, k) = dline[o].value
    <3>1. \A m \in HitsIn(dline, k) : dline[m].value = dline[o].value
      BY <2>1, <2>3
    <3> QED BY <1>7, <2>4, <3>1, LookupValid
  <2>6. LookupIn(dline', k) = dline'[n].value /\ dline'[n].value = dline[o].value
    <3>1. /\ \A m \in HitsIn(dline', k) : dline'[m].value = dline'[n].value
          /\ dline'[n].value = dline[o].value
      BY <2>2, <2>3
    <3>2. PendingIn(dline', k) = {}
      BY <1>3, <1>7
    <3> QED BY <2>4, <3>1, <3>2, LookupValid
  <2> QED BY <2>5, <2>6
<1> QED BY <1>5, <1>6, <1>7

(* The server moves, retires and commits lines, and no search tells.       *)
LEMMA ServerLookup ==
  ASSUME MapInv, Server, NEW k \in Keys
  PROVE  LookupIn(dline', k) = LookupIn(dline, k)
<1>1. CASE dline' = dline
  BY <1>1
<1> QED BY <1>1, ServerLines, RetireLookup, CommitLookup, CopyLookup, MoveLookup

(* A write that lands is what a search for its key finds from then on.     *)
LEMMA WriteLookup ==
  ASSUME OneUser, MapInv, NEW c \in Clients, Write(c) \/ WriteNotify(c), NEW k \in Keys
  PROVE  LookupIn(dline', k) = IF k = req[c].key THEN Stored(req[c]) ELSE LookupIn(dline, k)
<1>a. PICK h, s : h = Home[req[c].key] /\ s = grant[c].slot
  OBVIOUS
<1>b. PICK n, g : n = <<h, s>> /\ g = Home[k]
  OBVIOUS
<1>0. \A t \in Slots : <<g, t>> \in Lines
  BY <1>b, LineFacts
<1>1. /\ pc[c] = "write" /\ Sends(c, h) /\ h \in Buckets
      /\ s \in Slots /\ s \notin bitmap[h] /\ n \in Lines
      /\ dline[n].valid = 0 /\ dline'[n] = req[c]
      /\ \A m \in Lines : m # n => dline'[m] = dline[m]
  BY <1>a, <1>b, WriteLines
<1>2. /\ req[c].valid \in {UPSERT, DELETE}
      /\ \A t \in Slots : Pending(h, t) => t < s
  BY <1>a, <1>1 DEF Sends
<1>3. CASE k = req[c].key
  <2>0. g = h /\ n = <<g, s>>
    BY <1>a, <1>b, <1>3
  <2>1. s \in PendingIn(dline', k)
    BY <1>b, <1>1, <1>2, <1>3, <2>0 DEF PendingIn
  <2>2. \A t \in PendingIn(dline', k) : t <= s
    <3> SUFFICES ASSUME NEW t \in Slots, t # s, t \in PendingIn(dline', k)
                 PROVE  t <= s
      BY <1>1 DEF PendingIn
    <3>1. Pending(h, t)
      <4>1. <<h, t>> \in Lines /\ <<h, t>> # n
        BY <1>0, <2>0
      <4> QED BY <1>b, <1>1, <2>0, <4>1 DEF PendingIn, Pending
    <3>2. t < s /\ t \in Int /\ s \in Int
      BY <1>1, <1>2, <3>1
    <3> QED BY <3>2
  <2>3. LookupIn(dline', k) = Stored(dline'[<<g, s>>])
    BY <1>b, <2>1, <2>2, LookupPending
  <2> QED BY <1>1, <1>3, <2>0, <2>3
<1>4. CASE k # req[c].key
  <2>1. \A t \in Slots : <<g, t>> \in Lines /\ (<<g, t>> # n => dline'[<<g, t>>] = dline[<<g, t>>])
    BY <1>0, <1>1
  <2>2. /\ \A t \in PendingIn(dline, k) : <<g, t>> # n
        /\ \A t \in PendingIn(dline', k) : <<g, t>> # n
    BY <1>b, <1>1, <1>4 DEF PendingIn, UPSERT, DELETE
  <2>3. PendingIn(dline', k) = PendingIn(dline, k)
    BY <1>b, <2>1, <2>2 DEF PendingIn
  <2>4. HitsIn(dline', k) = HitsIn(dline, k)
    <3>1. dline'[n].valid # VALID /\ dline[n].valid # VALID
      BY <1>1, <1>2 DEF VALID, UPSERT, DELETE
    <3> QED BY <1>1, <3>1 DEF HitsIn
  <2>5. \A t \in PendingIn(dline, k) : Stored(dline'[<<g, t>>]) = Stored(dline[<<g, t>>])
    <3>1. PendingIn(dline, k) \in SUBSET Slots
      BY DEF PendingIn
    <3> QED BY <2>1, <2>2, <3>1
  <2>6. \A l \in HitsIn(dline, k) : dline'[l].value = dline[l].value
    BY <1>1 DEF HitsIn, VALID
  <2> QED BY <1>b, <1>4, <2>3, <2>4, <2>5, <2>6, LookupSame
<1> QED BY <1>3, <1>4

---------------------------------------------------------------------------
(* The map that the table implements, and the steps it takes. *)
MapStore  == [k \in Keys |-> Lookup(k)]
MapCall   == [c \in Clients |-> InFlight(c)]
MapFailed == {c \in Clients : pc[c] = "broken"}

LEMMA StoreSteps ==
  ASSUME InGroup, InGroup'
  PROVE  /\ (\A k \in Keys : LookupIn(dline', k) = LookupIn(dline, k)) => UNCHANGED MapStore
         /\ UNCHANGED dline => UNCHANGED MapStore
<1>1. ASSUME NEW k \in Keys
      PROVE  Lookup(k) = LookupIn(dline, k) /\ Lookup(k)' = LookupIn(dline', k)
  <2>1. GroupedIn(dline) /\ GroupedIn(dline')
    BY DEF InGroup, GroupedIn
  <2> QED BY <2>1, LookupIsIn
<1>2. (\A k \in Keys : LookupIn(dline', k) = LookupIn(dline, k)) => UNCHANGED MapStore
  BY <1>1 DEF MapStore
<1> QED BY <1>2

LEMMA MapInitial == ASSUME Init PROVE Map!Init
<1>1. \A k \in Keys : Lookup(k) = NoValue
  <2> SUFFICES ASSUME NEW k \in Keys PROVE Lookup(k) = NoValue
    OBVIOUS
  <2>1. \A l \in Lines : dline[l].valid = 0
    BY DEF Init, BlankLine
  <2>2. \A s \in Slots : <<Home[k], s>> \in Lines
    BY LineFacts
  <2>3. PendingIn(dline, k) = {} /\ HitsIn(dline, k) = {} /\ GroupedIn(dline)
    BY <2>1, <2>2 DEF PendingIn, HitsIn, GroupedIn, VALID, UPSERT, DELETE
  <2> QED BY <2>3, LookupNone, LookupIsIn
<1>2. \A c \in Clients : InFlight(c) = <<>> /\ pc[c] # "broken"
  BY DEF Init, InFlight
<1> QED BY <1>1, <1>2 DEF Map!Init, Map!NoCall

(* The write of a client takes effect: the map holds what it wrote. *)
LEMMA WriteApplies ==
  ASSUME OneUser, MapInv, InGroup', NEW c \in Clients, Write(c) \/ WriteNotify(c)
  PROVE  Map!Apply(c)
<1>0. \A d \in Clients : d = c
  BY DEF OneUser
<1>1. /\ pc[c] = "write" /\ (\A d \in Clients : pc'[d] = "idle")
      /\ Sends(c, Home[req[c].key])
  BY WriteLines
<1>2. req[c].key \in Keys /\ req[c].value \in Values /\ req[c].valid \in {UPSERT, DELETE}
  BY <1>1 DEF Sends
<1>3. InFlight(c) = <<req[c].key, Stored(req[c])>> /\ InFlight(c)' = <<>>
  BY <1>1 DEF InFlight, Stored
<1>4. MapCall[c] # Map!NoCall
  <2>1. \A x, y : <<x, y>> # <<>>
    OBVIOUS
  <2> QED BY <1>3, <2>1 DEF MapCall, Map!NoCall
<1>5. MapCall' = [MapCall EXCEPT ![c] = Map!NoCall]
  BY <1>0, <1>3 DEF MapCall, Map!NoCall
<1>6. MapStore' = [MapStore EXCEPT ![MapCall[c][1]] = MapCall[c][2]]
  <2>1. \A k \in Keys : Lookup(k)' = IF k = req[c].key THEN Stored(req[c]) ELSE Lookup(k)
    <3> SUFFICES ASSUME NEW k \in Keys
                 PROVE  Lookup(k)' = IF k = req[c].key THEN Stored(req[c]) ELSE Lookup(k)
      OBVIOUS
    <3>1. GroupedIn(dline) /\ GroupedIn(dline')
      BY MapTypes DEF InGroup, GroupedIn
    <3>2. Lookup(k) = LookupIn(dline, k) /\ Lookup(k)' = LookupIn(dline', k)
      BY <3>1, LookupIsIn
    <3>3. LookupIn(dline', k) = IF k = req[c].key THEN Stored(req[c]) ELSE LookupIn(dline, k)
      BY WriteLookup
    <3> QED BY <3>2, <3>3
  <2>2. MapCall[c][1] = req[c].key /\ MapCall[c][2] = Stored(req[c])
    BY <1>3 DEF MapCall
  <2> QED BY <1>2, <2>1, <2>2 DEF MapStore
<1>7. c \notin MapFailed /\ MapFailed' = MapFailed
  BY <1>0, <1>1 DEF MapFailed
<1> QED BY <1>4, <1>5, <1>6, <1>7 DEF Map!Apply, MapStore, MapCall, MapFailed

LEMMA GrantAccepts ==
  ASSUME OneUser, MapInv, InGroup', NEW c \in Clients, NEW k \in Keys, NEW v \in Values,
         NEW op \in Opcodes, LockGranted(c, k, v, op)
  PROVE  Map!Accept(c)
<1>0. (\A d \in Clients : d = c) /\ ClientType /\ InGroup
  BY MapTypes DEF OneUser
<1> DEFINE w == <<k, IF op = DELETE THEN NoValue ELSE v>>
<1>1. pc[c] = "idle" /\ pc'[c] = "write"
  BY <1>0 DEF LockGranted, ClientType
<1>2. req'[c].key = k /\ req'[c].value = v /\ req'[c].valid = op
  BY <1>0 DEF LockGranted, ClientType
<1>3. InFlight(c) = <<>> /\ InFlight(c)' = w
  BY <1>1, <1>2 DEF InFlight
<1>4. w \in Map!Calls
  BY DEF Map!Calls
<1>5. MapCall[c] = Map!NoCall /\ MapCall' = [MapCall EXCEPT ![c] = w]
  BY <1>0, <1>3 DEF MapCall, Map!NoCall
<1>6. UNCHANGED MapStore
  BY <1>0, StoreSteps DEF LockGranted
<1>7. c \notin MapFailed /\ MapFailed' = MapFailed
  BY <1>0, <1>1 DEF MapFailed
<1> QED BY <1>4, <1>5, <1>6, <1>7 DEF Map!Accept, MapStore, MapCall, MapFailed

LEMMA BreakFails ==
  ASSUME OneUser, MapInv, InGroup', NEW c \in Clients, Break(c)
  PROVE  Map!Fail(c)
<1>0. (\A d \in Clients : d = c) /\ ClientType /\ InGroup
  BY MapTypes DEF OneUser
<1>1. pc[c] # "broken" /\ pc'[c] = "broken"
  BY <1>0 DEF Break, ClientType
<1>2. InFlight(c)' = <<>>
  BY <1>1 DEF InFlight
<1>3. MapCall' = [MapCall EXCEPT ![c] = Map!NoCall]
  BY <1>0, <1>2 DEF MapCall, Map!NoCall
<1>4. c \notin MapFailed /\ MapFailed' = MapFailed \cup {c}
  BY <1>0, <1>1 DEF MapFailed
<1>5. UNCHANGED MapStore
  BY <1>0, StoreSteps DEF Break
<1> QED BY <1>3, <1>4, <1>5 DEF Map!Fail, MapStore, MapCall, MapFailed

LEMMA MapSteps ==
  ASSUME OneUser, MapInv, MapInv', [Next]_vars PROVE [Map!Next]_(Map!vars)
<1>0. (\A c, d \in Clients : c = d) /\ InGroup /\ InGroup' /\ ClientType
  BY MapTypes DEF OneUser, MapInv
<1>1. UNCHANGED MapStore /\ UNCHANGED MapCall /\ UNCHANGED MapFailed => [Map!Next]_(Map!vars)
  BY DEF Map!vars, MapStore, MapCall, MapFailed
<1>2. UNCHANGED <<pc, req>> => UNCHANGED MapCall /\ UNCHANGED MapFailed
  BY DEF MapCall, InFlight, MapFailed
<1>3. CASE UNCHANGED vars
  <2>1. UNCHANGED <<dline, pc, req>>
    BY <1>3 DEF vars, clientVars
  <2> QED BY <1>0, <1>1, <1>2, <2>1, StoreSteps
<1>4. CASE Server
  <2>1. UNCHANGED MapStore
    BY <1>0, <1>4, ServerLookup, StoreSteps
  <2>2. UNCHANGED <<pc, req>>
    BY <1>4, ServerLeaves
  <2> QED BY <1>1, <1>2, <2>1, <2>2
<1>5. ASSUME NEW c \in Clients, Client(c) PROVE [Map!Next]_(Map!vars)
  <2>1. CASE \E k \in Keys, v \in Values, op \in Opcodes : LockGranted(c, k, v, op)
    BY <1>0, <2>1, GrantAccepts DEF Map!Next
  <2>2. CASE Write(c) \/ WriteNotify(c)
    BY <1>0, <2>2, WriteApplies DEF Map!Next
  <2>3. CASE Break(c)
    BY <1>0, <2>3, BreakFails DEF Map!Next
  <2>4. CASE /\ ~\E k \in Keys, v \in Values, op \in Opcodes : LockGranted(c, k, v, op)
             /\ ~Write(c) /\ ~WriteNotify(c) /\ ~Break(c)
    <3>1. dline' = dline
      BY <1>5, <2>4 DEF Client, LockRefused, StartSearch, ScanHome, ScanNeighbour,
           ScanBucketEnd, EndSearch, CallFlushed, vars
    <3>2. UNCHANGED MapStore
      BY <1>0, <3>1, StoreSteps
    <3>3. \/ /\ pc[c] \notin {"write", "broken"} /\ pc'[c] \notin {"write", "broken"}
          \/ UNCHANGED <<pc, req>>
      BY <1>0, <1>5, <2>4 DEF Client, LockRefused, StartSearch, ScanHome, ScanNeighbour,
           ScanBucketEnd, EndSearch, CallFlushed, vars, clientVars, ClientType
    <3>4. CASE pc[c] \notin {"write", "broken"} /\ pc'[c] \notin {"write", "broken"}
      <4>1. UNCHANGED MapCall /\ UNCHANGED MapFailed
        BY <1>0, <3>4 DEF MapCall, InFlight, MapFailed
      <4> QED BY <1>1, <3>2, <4>1
    <3>5. CASE UNCHANGED <<pc, req>>
      BY <1>1, <1>2, <3>2, <3>5
    <3> QED BY <3>3, <3>4, <3>5
  <2> QED BY <2>1, <2>2, <2>3, <2>4
<1> QED BY <1>3, <1>4, <1>5 DEF Next

(* With one client the table is a map: a granted write takes effect in the *)
(* step in which it lands, it is lost only if the client itself fails      *)
(* first, and every step of deal_pending and relocate (api.cpp:279-471),   *)
(* at whatever line of a pass and into whatever bucket, also one that the  *)
(* client writes to, leaves every key with the value it had.               *)
THEOREM TableIsMap ==
  ASSUME \A c, d \in Clients : c = d PROVE Spec /\ LocksWithRoom => ImplementsMap
<1>0. OneUser
  BY DEF OneUser
<1>1. Init => Map!Init
  BY MapInitial
<1>2. MapInv /\ MapInv' /\ [Next]_vars => [Map!Next]_(Map!vars)
  BY <1>0, MapSteps
<1>3. Spec /\ LocksWithRoom => []MapInv
  BY <1>0, MapHolds
<1> QED BY <1>1, <1>2, <1>3, PTL DEF Spec, ImplementsMap, Map!Spec

---------------------------------------------------------------------------
(* A search reads the lines from the first to the last.  Relocate moves no *)
(* line to where it has already been, if it moves none back in its group.  *)
Forward      == ValidateCopy => neighbour > off
MovesForward == [][ValidateCopy => neighbour > off]_vars

LineValues == \A l \in Lines : dline[l].valid # 0 => dline[l].value \in Values

(* A line of the group at h that a search in state s has passed. *)
Behind(h, s, l) ==
  l[1] >= h /\ (l[1] < h + s.bucket \/ (l[1] = h + s.bucket /\ l[2] < s.pos))

Passed(c, l) == Behind(Home[req[c].key], scan[c], l)

(* What would have been a hit, had it been there when the search passed.   *)
Counts(f, k, l) == /\ f[l].key = k
                   /\ IF l[1] = Home[k] THEN f[l].valid # 0 ELSE f[l].valid = VALID

ScanPassed ==
  \A c \in Clients : pc[c] = "scan" /\ scan[c].exist = 0 =>
    \A l \in Lines : Passed(c, l) => ~Counts(dline, req[c].key, l)

ScanFound ==
  \A c \in Clients :
    /\ pc[c] \in {"idle", "write"} => scan[c] = NoScan
    /\ pc[c] \in {"scan", "return"} => req[c].key \in Keys
    /\ scan[c].exist \in {VALID, UPSERT} => scan[c].value \in Values
    /\ pc[c] = "return" /\ scan[c].exist = 0 => LookupIn(dline, req[c].key) = NoValue

SearchInv == MapInv /\ LineValues /\ ScanPassed /\ ScanFound

LEMMA SearchInit == Init => SearchInv
<1> SUFFICES ASSUME Init PROVE SearchInv
  OBVIOUS
<1>1. MapInv
  BY MapInit
<1>2. LineValues /\ ScanPassed
  BY DEF Init, LineValues, ScanPassed, BlankLine
<1>3. ScanFound
  BY DEF Init, ScanFound, NoScan, VALID, UPSERT
<1> QED BY <1>1, <1>2, <1>3 DEF SearchInv

(* The server brings no line of a key where a search has already been.     *)
LEMMA PassedServer ==
  ASSUME SearchInv, Server, Forward PROVE LineValues' /\ ScanPassed'
<1>0. /\ MapInv /\ LineValues /\ ScanPassed /\ ScanFound /\ UNCHANGED <<pc, req, scan>>
      /\ ClientType /\ InGroup
  BY ServerLeaves, MapTypes DEF SearchInv
<1>1. ASSUME \A l \in Lines : dline'[l].valid # 0 =>
                \E m \in Lines : dline[m].valid # 0 /\ dline'[l].value = dline[m].value
      PROVE  LineValues'
  BY <1>0, <1>1 DEF LineValues
<1>2. ASSUME \A k \in Keys, l \in Lines : Counts(dline', k, l) =>
               \/ Counts(dline, k, l)
               \/ \E m \in Lines : Counts(dline, k, m) /\ Home[k] <= m[1] /\ m[1] < l[1]
      PROVE  ScanPassed'
  <2> SUFFICES ASSUME NEW c \in Clients, pc[c] = "scan", scan[c].exist = 0,
                      NEW l \in Lines, Passed(c, l), Counts(dline', req[c].key, l)
               PROVE  FALSE
    BY <1>0 DEF ScanPassed, Passed, Counts
  <2>a. PICK h : h = Home[req[c].key]
    OBVIOUS
  <2>1. req[c].key \in Keys /\ h \in Int /\ scan[c].bucket \in Int
    <3>1. req[c].key \in Keys
      BY <1>0 DEF ScanFound
    <3>2. h \in 0..(IndexNum - 1)
      BY <2>a, <3>1, LineFacts DEF HomeBuckets
    <3>3. scan[c].bucket \in 0..(BucketNum - 1)
      BY <1>0 DEF ClientType
    <3> QED BY <3>1, <3>2, <3>3
  <2>2. ~Counts(dline, req[c].key, l)
    BY <1>0 DEF ScanPassed
  <2>3. PICK m \in Lines : Counts(dline, req[c].key, m) /\ h <= m[1] /\ m[1] < l[1]
    BY <1>2, <2>a, <2>1, <2>2
  <2>4. Passed(c, m)
    <3>1. m[1] \in Int /\ l[1] \in Int
      BY LineFacts
    <3>2. l[1] < h + scan[c].bucket \/ l[1] = h + scan[c].bucket
      BY <2>a DEF Passed, Behind
    <3>3. m[1] >= h /\ m[1] < h + scan[c].bucket
      BY <2>1, <2>3, <3>1, <3>2
    <3> QED BY <2>a, <3>3 DEF Passed, Behind
  <2> QED BY <1>0, <2>3, <2>4 DEF ScanPassed
(* Lines that keep their key and value, and the valid byte unless it is    *)
(* cleared.                                                                *)
<1>3. ASSUME \A l \in Lines : /\ dline'[l].key = dline[l].key
                              /\ dline'[l].value = dline[l].value
                              /\ dline'[l].valid \in {0, dline[l].valid}
      PROVE  LineValues' /\ ScanPassed'
  <2>1. \A l \in Lines : dline'[l].valid # 0 => dline[l].valid # 0
    BY <1>3
  <2>2. \A k \in Keys, l \in Lines : Counts(dline', k, l) => Counts(dline, k, l)
    BY <1>3 DEF Counts, VALID
  <2> QED BY <1>1, <1>2, <1>3, <2>1, <2>2
<1>4. CASE UNCHANGED dline
  BY <1>3, <1>4
<1>5. CASE RemoteRetire
  <2>1. \A l \in Lines : /\ dline'[l].key = dline[l].key
                         /\ dline'[l].value = dline[l].value
                         /\ dline'[l].valid \in {0, dline[l].valid}
    BY <1>0, <1>5, RetireLines
  <2> QED BY <1>3, <2>1
<1>6. CASE DropOriginal
  <2>1. \A l \in Lines : /\ dline'[l].key = dline[l].key
                         /\ dline'[l].value = dline[l].value
                         /\ dline'[l].valid \in {0, dline[l].valid}
    BY <1>0, <1>6, DropLines DEF OnlyValid
  <2> QED BY <1>3, <2>1
<1>7. CASE CommitUpsert \/ CommitDelete
  <2>a. PICK o : o = <<off, i>>
    OBVIOUS
  <2>1. /\ Pending(off, i) /\ o \in Lines /\ Home[dline[o].key] = off
        /\ (OnlyValid(o, 0) \/ OnlyValid(o, VALID))
    BY <1>0, <1>7, <2>a, CommitLines
  <2>2. \A l \in Lines : /\ dline'[l].key = dline[l].key /\ dline'[l].value = dline[l].value
                         /\ dline'[l].valid # dline[l].valid => l = o
    BY <2>1 DEF OnlyValid
  <2>3. dline[o].valid # 0 /\ Home[dline[o].key] = o[1]
    BY <2>a, <2>1 DEF Pending, UPSERT, DELETE
  <2>4. \A l \in Lines : dline'[l].valid # 0 => dline[l].valid # 0
    BY <2>2, <2>3
  <2>5. \A k \in Keys, l \in Lines : Counts(dline', k, l) => Counts(dline, k, l)
    BY <2>2, <2>3 DEF Counts
  <2> QED BY <1>1, <1>2, <2>2, <2>4, <2>5
<1>8. CASE CopyLine
  <2>a. PICK n : n = <<neighbour, target>>
    OBVIOUS
  <2>1. /\ dline[n].valid = 0
        /\ \A m \in Lines : /\ dline'[m].valid = dline[m].valid
                            /\ m # n => dline'[m] = dline[m]
    BY <1>0, <1>8, <2>a, CopyLines
  <2>2. \A m \in Lines : dline[m].valid # 0 => dline'[m] = dline[m]
    BY <2>1
  <2>3. \A k \in Keys, l \in Lines : Counts(dline', k, l) => Counts(dline, k, l)
    BY <2>1, <2>2 DEF Counts, VALID
  <2> QED BY <1>1, <1>2, <2>1, <2>2, <2>3
<1>9. CASE ValidateCopy
  <2>a. PICK n, o : n = <<neighbour, target>> /\ o = <<off, i>>
    OBVIOUS
  <2>1. /\ n \in Lines /\ o \in Lines /\ o[1] < n[1]
        /\ dline[o].valid = VALID
        /\ dline[n].key = dline[o].key /\ dline[n].value = dline[o].value
    <3>1. n \in Lines /\ o \in Lines
      BY <1>0, <1>9, <2>a, MovedLines DEF ValidateCopy
    <3>2. neighbour > off /\ neighbour \in Int /\ off \in Int
      <4>1. neighbour \in Buckets /\ off \in Buckets
        BY <1>0, <1>9, MovedLines DEF ValidateCopy
      <4>2. \A b \in Buckets : b \in Int
        OBVIOUS
      <4> QED BY <1>9, <4>1, <4>2 DEF Forward
    <3>3. o[1] < n[1]
      <4>1. o[1] = off /\ n[1] = neighbour
        BY <2>a
      <4> QED BY <3>2, <4>1
    <3> QED BY <1>9, <2>a, <3>1, <3>3 DEF MapInv, Moving, ValidateCopy, SearchInv, Valid
  <2>2. \A l \in Lines : /\ dline'[l].key = dline[l].key /\ dline'[l].value = dline[l].value
                         /\ l # n => dline'[l].valid = dline[l].valid
    BY <1>0, <1>9, <2>a, ValidateLines DEF OnlyValid
  <2>3. \A l \in Lines : dline'[l].valid # 0 =>
          \E m \in Lines : dline[m].valid # 0 /\ dline'[l].value = dline[m].value
    BY <2>1, <2>2 DEF VALID
  <2>4. ASSUME NEW k \in Keys, NEW l \in Lines, Counts(dline', k, l)
        PROVE  \/ Counts(dline, k, l)
               \/ \E m \in Lines : Counts(dline, k, m) /\ Home[k] <= m[1] /\ m[1] < l[1]
    <3>1. CASE l # n
      BY <2>2, <2>4, <3>1 DEF Counts
    <3>2. CASE l = n
      <4>1. dline[o].key = k
        BY <2>1, <2>2, <2>4, <3>2 DEF Counts
      <4>2. Counts(dline, k, o)
        BY <2>1, <4>1 DEF Counts, VALID
      <4>3. o[1] \in Group(k)
        BY <1>0, <2>1, <4>1 DEF InGroup, GroupedIn
      <4>4. Home[k] <= o[1]
        BY <4>3 DEF Group
      <4> QED BY <2>1, <3>2, <4>2, <4>4
    <3> QED BY <3>1, <3>2
  <2> QED BY <1>1, <1>2, <2>3, <2>4
<1> QED BY <1>4, <1>5, <1>6, <1>7, <1>8, <1>9, ServerLines

(* A search takes over what it finds, and goes on only past lines that     *)
(* hold nothing of its key.                                                *)
LEMMA SearchScans ==
  ASSUME OneUser, SearchInv, NEW c \in Clients,
         ScanHome(c) \/ ScanNeighbour(c) \/ ScanBucketEnd(c)
  PROVE  ScanPassed' /\ ScanFound'
<1>a. PICK k, s, line, h : /\ k = req[c].key /\ s = scan[c]
                           /\ line = ScanLine(c) /\ h = Home[k]
  OBVIOUS
<1>0. /\ MapInv /\ LineValues /\ ScanPassed /\ ScanFound
      /\ ClientType /\ LineType /\ InGroup /\ (\A d \in Clients : d = c)
      /\ UNCHANGED <<dline, req>> /\ pc[c] = "scan" /\ k \in Keys
  <2>1. /\ MapInv /\ LineValues /\ ScanPassed /\ ScanFound
        /\ UNCHANGED <<dline, req>> /\ pc[c] = "scan"
    BY DEF SearchInv, ScanHome, ScanNeighbour, ScanBucketEnd
  <2>2. k \in Keys
    BY <1>a, <2>1 DEF ScanFound
  <2> QED BY <2>1, <2>2, MapTypes DEF OneUser
<1>1. /\ s \in [exist : 0..3, value : Values \cup {NoValue},
                bucket : 0..(BucketNum - 1), pos : 0..LineNum]
      /\ DOMAIN scan = Clients /\ DOMAIN pc = Clients
      /\ s.bucket \in Int /\ s.pos \in Int /\ h \in Int
  <2>1. h \in 0..(IndexNum - 1)
    BY <1>a, <1>0, LineFacts DEF HomeBuckets
  <2>2. s \in [exist : 0..3, value : Values \cup {NoValue},
               bucket : 0..(BucketNum - 1), pos : 0..LineNum]
    BY <1>a, <1>0 DEF ClientType
  <2>3. s.bucket \in 0..(BucketNum - 1) /\ s.pos \in 0..LineNum
    BY <2>2
  <2>4. DOMAIN scan = Clients /\ DOMAIN pc = Clients
    BY <1>0 DEF ClientType
  <2> QED BY <2>1, <2>2, <2>3, <2>4
<1>2. line = dline[<<h + s.bucket, s.pos>>]
  BY <1>a DEF ScanLine
(* What has to be shown of the new state of the search. *)
<1>3. ASSUME NEW t, t = scan'[c], pc'[c] \in {"scan", "return"},
             t.exist \in {VALID, UPSERT} => t.value \in Values,
             pc'[c] = "scan" /\ t.exist = 0 =>
               \A l \in Lines : Behind(h, t, l) => ~Counts(dline, k, l),
             pc'[c] = "return" /\ t.exist = 0 => LookupIn(dline, k) = NoValue
      PROVE  ScanPassed' /\ ScanFound'
  <2>1. req'[c].key = k /\ dline' = dline
    BY <1>a, <1>0
  <2>2. ScanPassed'
    <3> SUFFICES ASSUME NEW l \in Lines, pc'[c] = "scan", scan'[c].exist = 0,
                        Passed(c, l)', Counts(dline', req'[c].key, l)
                 PROVE  FALSE
      BY <1>0, <2>1 DEF ScanPassed
    <3>1. Behind(h, t, l)
      BY <1>a, <1>3, <2>1 DEF Passed, Behind
    <3>2. Counts(dline, k, l)
      BY <2>1
    <3> QED BY <1>3, <3>1, <3>2
  <2>3. ScanFound'
    <3>1. /\ req'[c].key \in Keys
          /\ (scan'[c].exist \in {VALID, UPSERT} => scan'[c].value \in Values)
          /\ (pc'[c] = "return" /\ scan'[c].exist = 0 =>
                LookupIn(dline', req'[c].key) = NoValue)
      BY <1>0, <1>3, <2>1
    <3> QED BY <1>0, <1>3, <3>1 DEF ScanFound
  <2> QED BY <2>2, <2>3
<1>4. ASSUME s.exist = 0, NEW l \in Lines, Behind(h, s, l)
      PROVE  ~Counts(dline, k, l)
  <2>1. Passed(c, l)
    BY <1>a, <1>4 DEF Passed
  <2> QED BY <1>a, <1>0, <1>4, <2>1 DEF ScanPassed
<1>5. s.exist \in {VALID, UPSERT} => s.value \in Values
  BY <1>a, <1>0 DEF ScanFound
(* The line that is read is one of the group. *)
<1>6. ASSUME s.pos < LineNum
      PROVE  /\ s.pos \in Slots /\ <<h + s.bucket, s.pos>> \in Lines /\ line \in DataLine
             /\ \A l \in Lines : l[1] = h + s.bucket /\ l[2] = s.pos => dline[l] = line
  <2>1. s.pos \in Slots
    <3>1. s.pos \in 0..LineNum
      BY <1>1
    <3> QED BY <1>6, <3>1
  <2>2. h + s.bucket \in Buckets
    <3>1. h \in 0..(IndexNum - 1) /\ s.bucket \in 0..(BucketNum - 1)
      BY <1>a, <1>0, <1>1, LineFacts DEF HomeBuckets
    <3> QED BY <3>1
  <2>3. <<h + s.bucket, s.pos>> \in Lines
    BY <2>1, <2>2, LineFacts
  <2>4. \A l \in Lines : l[1] = h + s.bucket /\ l[2] = s.pos => dline[l] = line
    BY <1>2, LineFacts
  <2>5. line \in DataLine
    BY <1>0, <1>2, <2>3 DEF LineType
  <2> QED BY <2>1, <2>3, <2>4, <2>5
<1>7. s.pos < LineNum /\ line.valid # 0 => line.value \in Values
  BY <1>0, <1>2, <1>6 DEF LineValues
(* One line further, when the line counts for nothing. *)
<1>8. ASSUME NEW t, s.pos < LineNum, s.exist = 0,
             t.bucket = s.bucket, t.pos = s.pos + 1,
             \A l \in Lines : l[1] = h + s.bucket /\ l[2] = s.pos => ~Counts(dline, k, l)
      PROVE  \A l \in Lines : Behind(h, t, l) => ~Counts(dline, k, l)
  <2> SUFFICES ASSUME NEW l \in Lines, Behind(h, t, l)
               PROVE  ~Counts(dline, k, l)
    OBVIOUS
  <2>1. l[1] \in Int /\ l[2] \in Int
    BY LineFacts
  <2>2. Behind(h, s, l) \/ (l[1] = h + s.bucket /\ l[2] = s.pos)
    BY <1>1, <1>8, <2>1 DEF Behind
  <2> QED BY <1>4, <1>8, <2>2
<1>9. CASE ScanHome(c)
  <2>1. s.bucket = 0 /\ s.pos < LineNum /\ pc'[c] = "scan"
    BY <1>a, <1>0, <1>9 DEF ScanHome
  <2>a. PICK t : t = NextLine(ParseHome(s, k, line))
    OBVIOUS
  <2>2. t = scan'[c]
    BY <1>a, <1>1, <1>9, <2>a DEF ScanHome
  <2>3. /\ t.bucket = s.bucket /\ t.pos = s.pos + 1
        /\ IF line.key # k \/ line.valid = 0 \/ (line.valid = VALID /\ s.exist # 0)
             THEN t.exist = s.exist /\ t.value = s.value
             ELSE /\ t.exist = line.valid
                  /\ t.value = IF line.valid = DELETE THEN s.value ELSE line.value
    BY <1>1, <2>a DEF ParseHome, NextLine
  <2>4. t.exist \in {VALID, UPSERT} => t.value \in Values
    BY <1>5, <1>7, <2>1, <2>3 DEF VALID, UPSERT, DELETE
  <2>5. ASSUME t.exist = 0
        PROVE  \A l \in Lines : Behind(h, t, l) => ~Counts(dline, k, l)
    <3>1. s.exist = 0 /\ (line.key = k => line.valid = 0)
      BY <2>3, <2>5 DEF VALID
    <3>2. \A l \in Lines : l[1] = h + s.bucket /\ l[2] = s.pos => ~Counts(dline, k, l)
      BY <1>6, <2>1, <3>1 DEF Counts, VALID
    <3> QED BY <1>8, <2>1, <2>3, <3>1, <3>2
  <2> QED BY <1>3, <2>1, <2>2, <2>4, <2>5
<1>10. CASE ScanNeighbour(c)
  <2>1. s.bucket > 0 /\ s.pos < LineNum
    BY <1>a, <1>10 DEF ScanNeighbour
  <2>2. CASE line.key = k /\ line.valid = VALID
    <3>1. scan'[c] = TakeLine(s, line) /\ pc'[c] = "return"
      BY <1>a, <1>1, <1>10, <2>2 DEF ScanNeighbour
    <3>2. TakeLine(s, line).exist = VALID /\ TakeLine(s, line).value = line.value
      BY <1>1 DEF TakeLine
    <3>3. line.value \in Values
      BY <1>7, <2>1, <2>2 DEF VALID
    <3>a. PICK t : t = TakeLine(s, line)
      OBVIOUS
    <3> QED BY <1>3, <3>1, <3>2, <3>3, <3>a DEF VALID
  <2>3. CASE ~(line.key = k /\ line.valid = VALID)
    <3>a. PICK t : t = NextLine(s)
      OBVIOUS
    <3>1. scan'[c] = t /\ pc'[c] = "scan"
      BY <1>a, <1>0, <1>1, <1>10, <2>3, <3>a DEF ScanNeighbour
    <3>2. t.exist = s.exist /\ t.value = s.value /\ t.bucket = s.bucket /\ t.pos = s.pos + 1
      BY <1>1, <3>a DEF NextLine
    <3>3. t.exist \in {VALID, UPSERT} => t.value \in Values
      BY <1>5, <3>2
    <3>4. ASSUME t.exist = 0
          PROVE  \A l \in Lines : Behind(h, t, l) => ~Counts(dline, k, l)
      <4>1. \A l \in Lines : l[1] = h + s.bucket /\ l[2] = s.pos => ~Counts(dline, k, l)
        <5> SUFFICES ASSUME NEW l \in Lines, l[1] = h + s.bucket, l[2] = s.pos
                     PROVE  ~Counts(dline, k, l)
          OBVIOUS
        <5>1. l[1] # Home[k] /\ dline[l] = line
          BY <1>a, <1>1, <1>6, <2>1
        <5> QED BY <2>3, <5>1 DEF Counts
      <4> QED BY <1>8, <2>1, <3>2, <3>4, <4>1
    <3> QED BY <1>3, <3>1, <3>3, <3>4
  <2> QED BY <2>2, <2>3
<1>11. CASE ScanBucketEnd(c)
  <2>1. s.pos = LineNum /\ s.bucket \in 0..(BucketNum - 1)
    BY <1>a, <1>1, <1>11 DEF ScanBucketEnd
  <2>2. CASE s.exist # 0 \/ s.bucket = BucketNum - 1
    <3>1. scan'[c] = s /\ pc'[c] = "return"
      BY <1>a, <1>1, <1>11, <2>2 DEF ScanBucketEnd
    <3>2. ASSUME s.exist = 0 PROVE LookupIn(dline, k) = NoValue
      <4>0. s.bucket = BucketNum - 1
        BY <2>2, <3>2
      <4>1. ASSUME NEW l \in Lines, l[1] \in Group(k) PROVE ~Counts(dline, k, l)
        <5>1. l[1] \in h..(h + BucketNum - 1) /\ l[2] \in 0..(LineNum - 1)
          BY <1>a, <4>1, LineFacts DEF Group
        <5>2. Behind(h, s, l)
          BY <1>1, <2>1, <4>0, <5>1 DEF Behind
        <5> QED BY <1>4, <3>2, <5>2
      <4>2. PendingIn(dline, k) = {}
        <5> SUFFICES ASSUME NEW p \in Slots, p \in PendingIn(dline, k) PROVE FALSE
          BY DEF PendingIn
        <5>1. <<h, p>> \in Lines /\ <<h, p>>[1] \in Group(k)
          BY <1>a, <1>0, LineFacts
        <5>2. Counts(dline, k, <<h, p>>)
          BY <1>a DEF Counts, PendingIn, UPSERT, DELETE
        <5> QED BY <4>1, <5>1, <5>2
      <4>3. HitsIn(dline, k) = {}
        <5> SUFFICES ASSUME NEW l \in Lines, l \in HitsIn(dline, k) PROVE FALSE
          BY DEF HitsIn
        <5>1. l[1] \in Group(k)
          BY <1>0 DEF HitsIn, InGroup, GroupedIn
        <5>2. Counts(dline, k, l)
          BY DEF Counts, HitsIn, VALID
        <5> QED BY <4>1, <5>1, <5>2
      <4> QED BY <4>2, <4>3, LookupNone
    <3> QED BY <1>3, <1>5, <3>1, <3>2
  <2>3. CASE ~(s.exist # 0 \/ s.bucket = BucketNum - 1)
    <3>a. PICK t : t = NextBucket(s)
      OBVIOUS
    <3>1. scan'[c] = t /\ pc'[c] = "scan"
      BY <1>a, <1>0, <1>1, <1>11, <2>3, <3>a DEF ScanBucketEnd
    <3>2. t.exist = 0 /\ s.exist = 0 /\ t.bucket = s.bucket + 1 /\ t.pos = 0
      BY <1>1, <2>3, <3>a DEF NextBucket
    <3>3. ASSUME NEW l \in Lines, Behind(h, t, l)
          PROVE  ~Counts(dline, k, l)
      <4>1. l[1] \in Int /\ l[2] \in 0..(LineNum - 1)
        BY LineFacts
      <4>2. Behind(h, s, l)
        BY <1>1, <2>1, <3>2, <3>3, <4>1 DEF Behind
      <4> QED BY <1>4, <3>2, <3>3, <4>2
    <3> QED BY <1>3, <3>1, <3>2, <3>3 DEF VALID, UPSERT
  <2> QED BY <2>2, <2>3
<1> QED BY <1>9, <1>10, <1>11

(* Every other step of the client ends or begins a call. *)
LEMMA SearchClient ==
  ASSUME OneUser, SearchInv, NEW c \in Clients, Client(c),
         ~ScanHome(c), ~ScanNeighbour(c), ~ScanBucketEnd(c)
  PROVE  LineValues' /\ ScanPassed' /\ ScanFound'
<1>0. /\ MapInv /\ LineValues /\ ScanPassed /\ ScanFound
      /\ ClientType /\ (\A d \in Clients : d = c)
  BY MapTypes DEF SearchInv, OneUser
<1>1. \A l \in Lines, h \in Int : ~Behind(h, NoScan, l)
  <2> SUFFICES ASSUME NEW l \in Lines, NEW h \in Int, Behind(h, NoScan, l) PROVE FALSE
    OBVIOUS
  <2>1. l[1] \in Int /\ l[2] \in 0..(LineNum - 1)
    BY LineFacts
  <2>2. l[1] >= h /\ (l[1] < h + 0 \/ l[2] < 0)
    BY DEF Behind, NoScan
  <2> QED BY <2>1, <2>2
<1>2. ASSUME scan'[c] = NoScan, pc'[c] \notin {"return"},
             pc'[c] = "scan" => req'[c].key \in Keys
      PROVE  ScanPassed' /\ ScanFound'
  <2>1. ScanPassed'
    <3> SUFFICES ASSUME NEW l \in Lines, pc'[c] = "scan", Passed(c, l)' PROVE FALSE
      BY <1>0 DEF ScanPassed
    <3>a. PICK h : h = Home[req'[c].key]
      OBVIOUS
    <3>1. Behind(h, NoScan, l)
      BY <1>2, <3>a DEF Passed, Behind
    <3>2. h \in Int
      <4>1. h \in 0..(IndexNum - 1)
        BY <1>2, <3>a, LineFacts DEF HomeBuckets
      <4> QED BY <4>1
    <3> QED BY <1>1, <3>1, <3>2
  <2>2. ScanFound'
    BY <1>0, <1>2 DEF ScanFound, NoScan, VALID, UPSERT
  <2> QED BY <2>1, <2>2
<1>3. CASE Write(c) \/ WriteNotify(c)
  <2>a. PICK h, s : h = Home[req[c].key] /\ s = grant[c].slot
    OBVIOUS
  <2>1. /\ pc[c] = "write" /\ Sends(c, h) /\ (\A d \in Clients : pc'[d] = "idle")
        /\ dline'[<<h, s>>] = req[c]
        /\ \A m \in Lines : m # <<h, s>> => dline'[m] = dline[m]
    BY <1>0, <1>3, <2>a, WriteLines
  <2>2. LineValues'
    <3>1. req[c].value \in Values
      BY <2>1 DEF Sends
    <3> QED BY <1>0, <2>1, <3>1 DEF LineValues
  <2>3. scan'[c] = NoScan
    BY <1>0, <1>3, <2>1 DEF ScanFound, Write, WriteNotify, EndWrite
  <2> QED BY <1>2, <2>1, <2>2, <2>3
<1>4. CASE ~Write(c) /\ ~WriteNotify(c)
  <2>1. dline' = dline
    BY <1>4 DEF Client, LockRefused, LockGranted, StartSearch, ScanHome, ScanNeighbour,
           ScanBucketEnd, EndSearch, Break, CallFlushed, vars
  <2>2. LineValues'
    BY <1>0, <2>1 DEF LineValues
  <2>3. CASE CallFlushed(c) \/ \E k \in Keys : LockRefused(c, k)
    <3>1. UNCHANGED <<pc, req, scan>>
      BY <2>3 DEF LockRefused, CallFlushed, vars, clientVars
    <3>2. ScanPassed' /\ ScanFound'
      BY <1>0, <2>1, <3>1 DEF ScanPassed, Passed, ScanFound
    <3> QED BY <2>2, <3>2
  <2>4. CASE \E k \in Keys, v \in Values, op \in Opcodes : LockGranted(c, k, v, op)
    <3>1. pc[c] = "idle" /\ pc'[c] = "write" /\ scan' = scan
      BY <1>0, <2>4 DEF LockGranted, ClientType
    <3> QED BY <1>0, <1>2, <2>2, <3>1 DEF ScanFound
  <2>5. CASE \E k \in Sought : StartSearch(c, k)
    <3>1. /\ pc[c] = "idle" /\ pc'[c] = "scan" /\ scan' = scan /\ req'[c].key \in Keys
      BY <1>0, <2>5 DEF StartSearch, ClientType, BlankLine
    <3> QED BY <1>0, <1>2, <2>2, <3>1 DEF ScanFound
  <2>6. CASE EndSearch(c) \/ Break(c)
    <3>1. pc'[c] \in {"idle", "broken"} /\ scan'[c] = NoScan
      BY <1>0, <2>6 DEF EndSearch, Break, ClientType
    <3> QED BY <1>2, <2>2, <3>1
  <2> QED BY <1>4, <2>3, <2>4, <2>5, <2>6 DEF Client
<1> QED BY <1>3, <1>4

LEMMA SearchNext ==
  ASSUME OneUser, SearchInv, [Next]_vars, [RoomToLock]_vars, [Forward]_vars
  PROVE  SearchInv'
<1>0. MapInv /\ MapInv' /\ LineValues /\ ScanPassed /\ ScanFound
  BY MapNext DEF SearchInv
<1>1. CASE UNCHANGED vars
  <2>1. UNCHANGED <<dline, pc, req, scan>>
    BY <1>1 DEF vars, clientVars
  <2>2. LineValues' /\ ScanPassed' /\ ScanFound'
    BY <1>0, <2>1 DEF LineValues, ScanPassed, Passed, ScanFound
  <2> QED BY <1>0, <2>2 DEF SearchInv
<1>2. CASE Server /\ Forward
  <2>1. UNCHANGED <<pc, req, scan>>
    BY <1>2, ServerLeaves
  <2>2. LineValues' /\ ScanPassed'
    BY <1>2, PassedServer
  <2>3. ScanFound'
    BY <1>0, <1>2, <2>1, ServerLookup DEF ScanFound
  <2> QED BY <1>0, <2>2, <2>3 DEF SearchInv
<1>3. ASSUME NEW c \in Clients, Client(c) PROVE SearchInv'
  <2>1. CASE ScanHome(c) \/ ScanNeighbour(c) \/ ScanBucketEnd(c)
    <3>1. dline' = dline
      BY <2>1 DEF ScanHome, ScanNeighbour, ScanBucketEnd
    <3>2. LineValues'
      BY <1>0, <3>1 DEF LineValues
    <3>3. ScanPassed' /\ ScanFound'
      BY <2>1, SearchScans
    <3> QED BY <1>0, <3>2, <3>3 DEF SearchInv
  <2>2. CASE ~ScanHome(c) /\ ~ScanNeighbour(c) /\ ~ScanBucketEnd(c)
    <3>1. LineValues' /\ ScanPassed' /\ ScanFound'
      BY <1>3, <2>2, SearchClient
    <3> QED BY <1>0, <3>1 DEF SearchInv
  <2> QED BY <2>1, <2>2
<1> QED BY <1>1, <1>2, <1>3 DEF Next

(* A key that the map holds is found, though the reader sees the group     *)
(* line by line (api.cpp:496-549) while the server commits, copies and     *)
(* drops, as long as relocate, which may take a line to any bucket of its  *)
(* group (api.cpp:300-307), takes none to a bucket before its own: to the  *)
(* reader that has been there, the line is in neither place.               *)
THEOREM SearchesHit ==
  ASSUME \A c, d \in Clients : c = d
  PROVE  Spec /\ LocksWithRoom /\ MovesForward => []SearchHits
<1>0. OneUser
  BY DEF OneUser
<1>1. Init => SearchInv
  BY SearchInit
<1>2. /\ SearchInv /\ [Next]_vars
      /\ [LockNeighbour => HasFree(neighbour)]_vars
      /\ [ValidateCopy => neighbour > off]_vars
      => SearchInv'
  BY <1>0, SearchNext DEF RoomToLock, Forward
<1>3. SearchInv => SearchHits
  <2> SUFFICES ASSUME SearchInv, NEW c \in Clients, pc[c] = "return",
                      Lookup(req[c].key) # NoValue
               PROVE  Answer(c) # NoValue \/ scan[c].exist = DELETE
    BY DEF SearchHits
  <2>1. ScanFound /\ ClientType /\ InGroup
    BY MapTypes DEF SearchInv
  <2>2. req[c].key \in Keys
    BY <2>1 DEF ScanFound
  <2>3. Lookup(req[c].key) = LookupIn(dline, req[c].key)
    BY <2>1, <2>2, LookupIsIn DEF InGroup
  <2>4. scan[c].exist # 0
    BY <2>1, <2>3 DEF ScanFound
  <2>5. scan[c].exist \in 0..3
    BY <2>1 DEF ClientType
  <2>6. CASE scan[c].exist \in {VALID, UPSERT}
    BY <2>1, <2>6 DEF ScanFound, Answer, VALID, UPSERT, DELETE
  <2>7. CASE scan[c].exist = DELETE
    BY <2>7
  <2> QED BY <2>4, <2>5, <2>6, <2>7 DEF VALID, UPSERT, DELETE
<1> QED BY <1>1, <1>2, <1>3, PTL DEF Spec, LocksWithRoom, MovesForward
===========================================================================
