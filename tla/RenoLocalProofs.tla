-------------------------- MODULE RenoLocalProofs --------------------------
(***************************************************************************)
(* Theorems of RenoLocal, for every number of keys, buckets, neighbours    *)
(* and slots: the server that inserts by itself gives nobody's slot away,  *)
(* finds a slot whenever it counts one, and loses nothing that it stored.  *)
(***************************************************************************)
EXTENDS RenoLocal, RenoCountProofs

USE LineNumAssumption, TableAssumption DEF Slots, NoSlot, Buckets

---------------------------------------------------------------------------
(* Nothing is pending: all lines are VALID or dead, so that step 1 of      *)
(* deal_pending passes every slot.                                         *)
Quiet == spc # "commit" /\ \A l \in Lines : dline[l].valid \in {0, VALID}

(* What relocate knows of the line it moves: its group is the one it looks *)
(* for room in, and the copy goes to a dead line and is complete before    *)
(* the original is dropped.                                                *)
Moved ==
  /\ spc \in {"probe", "lock", "copy", "validate", "drop"} =>
       Valid(off, i) /\ hashOff = Home[dline[<<off, i>>].key]
  /\ spc \in {"copy", "validate"} => ~Valid(neighbour, target)
  /\ spc \in {"validate", "drop"} =>
       /\ dline[<<neighbour, target>>].key = dline[<<off, i>>].key
       /\ dline[<<neighbour, target>>].value = dline[<<off, i>>].value
  /\ spc = "drop" => Valid(neighbour, target) /\ target \in Slots

LocalInv == CountInv /\ Quiet /\ Moved

LEMMA LocalInit == Init => LocalInv
<1> SUFFICES ASSUME Init PROVE LocalInv
  OBVIOUS
<1>1. Quiet
  BY DEF Init, Quiet, BlankLine
<1>2. Moved
  BY DEF Init, Moved
<1> QED BY <1>1, <1>2, CountInit DEF LocalInv

---------------------------------------------------------------------------
(* What an insert does.                                                    *)

(* A bucket whose counts promise a free slot has one of the rank that the  *)
(* next local lock names, and no lock taken before names it.               *)
LEMMA InsertSlotFound ==
  ASSUME CountInv, NEW b \in Buckets, HasFree(b)
  PROVE  /\ InsertSlot(b) \in Free(bitmap[b]) /\ InsertSlot(b) # NoSlot
         /\ Cardinality(FreeAfter(bitmap[b], InsertSlot(b))) = llock[b]
         /\ Byte(llock[b] + 1) = llock[b] + 1
         /\ llock[b] \in Nat /\ llock[b] < Cardinality(Free(bitmap[b]))
<1>1. /\ freecount[b] = Cardinality(Free(bitmap[b])) /\ freecount[b] \in 0..LineNum
      /\ llock[b] \in 0..255 /\ rlock[b] \in 0..MaxRlock
  BY CountTypes
<1>2. llock[b] \in Nat /\ llock[b] < Cardinality(Free(bitmap[b])) /\ llock[b] < 255
  BY <1>1 DEF HasFree
<1>3. Byte(llock[b] + 1) = llock[b] + 1
  <2> DEFINE n == llock[b]
  <2>1. n \in Nat /\ n < 255
    BY <1>2
  <2> HIDE DEF n
  <2>2. Byte(n + 1) = n + 1
    BY <2>1 DEF Byte
  <2> QED BY <2>2 DEF n
<1>4. InsertSlot(b) = FromRight(bitmap[b], llock[b] + 1)
  BY <1>3 DEF InsertSlot, RelocSlot
<1> QED BY <1>2, <1>3, <1>4, FromRightFinds

(* The line goes into slot s of bucket b, under the lock that names it.    *)
Placed(k, v, b, s) ==
  /\ b \in Buckets /\ b \in Group(k) /\ s \in Slots
  /\ s \in Free(bitmap[b])
  /\ Cardinality(FreeAfter(bitmap[b], s)) = llock[b]
  /\ llock[b] \in Nat /\ llock[b] < Cardinality(Free(bitmap[b]))
  /\ llock' = [llock EXCEPT ![b] = llock[b] + 1]
  /\ dline' = [dline EXCEPT ![<<b, s>>] = [key |-> k, value |-> v, valid |-> VALID]]
  /\ spc = "poll" /\ spc' \in {"poll", "begin"} /\ off' \in Buckets
  /\ UNCHANGED <<bitmap, freecount, rlock, queueVars, clientVars, i, rlockReal,
                 llockReal, tmpBitmap, tmpFree, opcode, old, relocVars>>

LEMMA InsertPlaces ==
  ASSUME CountInv, NEW k \in Keys, NEW v \in Values, Insert(k, v)
  PROVE  \E b \in Buckets, s \in Slots : Placed(k, v, b, s)
<1>1. PICK b \in InsertBuckets(k) :
        /\ llock' = [llock EXCEPT ![b] = Byte(@ + 1)]
        /\ dline' = [dline EXCEPT ![<<b, InsertSlot(b)>>] =
                        [key |-> k, value |-> v, valid |-> VALID]]
        /\ IF freecount[b] <= llock'[b] + rlock[b]
             THEN spc' = "begin" /\ off' = Home[k]
             ELSE UNCHANGED <<spc, off>>
  BY DEF Insert
<1>2. b \in Group(k) /\ HasFree(b) /\ b \in Buckets
  <2>1. b \in Group(k) /\ HasFree(b)
    BY DEF InsertBuckets
  <2>2. Home[k] \in 0..(IndexNum - 1)
    OBVIOUS
  <2> QED BY <2>1, <2>2 DEF Group
<1>3. /\ InsertSlot(b) \in Free(bitmap[b]) /\ InsertSlot(b) # NoSlot
      /\ Cardinality(FreeAfter(bitmap[b], InsertSlot(b))) = llock[b]
      /\ Byte(llock[b] + 1) = llock[b] + 1
      /\ llock[b] \in Nat /\ llock[b] < Cardinality(Free(bitmap[b]))
  BY <1>2, InsertSlotFound
<1>4. InsertSlot(b) \in Slots
  BY <1>3 DEF Free
<1>5. llock' = [llock EXCEPT ![b] = llock[b] + 1]
  BY <1>1, <1>3
<1>6. spc = "poll" /\ spc' \in {"poll", "begin"} /\ off' \in Buckets
  <2>1. spc = "poll"
    BY DEF Insert
  <2>2. off \in Buckets /\ Home[k] \in Buckets
    BY HomeType DEF CountInv, CoverInv, TypeInv, TypeOK, DealType
  <2> QED BY <1>1, <2>1, <2>2
<1>7. UNCHANGED <<bitmap, freecount, rlock, queueVars, clientVars, i, rlockReal,
                  llockReal, tmpBitmap, tmpFree, opcode, old, relocVars>>
  BY DEF Insert
<1>8. Placed(k, v, b, InsertSlot(b))
  BY <1>1, <1>2, <1>3, <1>4, <1>5, <1>6, <1>7 DEF Placed
<1> QED BY <1>2, <1>4, <1>8

LEMMA PlacedLines ==
  ASSUME TypeInv, NEW k, NEW v, NEW b, NEW s, Placed(k, v, b, s)
  PROVE  /\ <<b, s>> \in Lines
         /\ dline'[<<b, s>>] = [key |-> k, value |-> v, valid |-> VALID]
         /\ \A l \in Lines : l # <<b, s>> => dline'[l] = dline[l]
<1>1. dline \in [Lines -> DataLine] /\ <<b, s>> \in Lines
  BY DEF TypeInv, TypeOK, LineType, Placed, Lines
<1> QED BY <1>1 DEF Placed

LEMMA PlacedType ==
  ASSUME TypeInv, NEW k \in Keys, NEW v \in Values, NEW b, NEW s, Placed(k, v, b, s)
  PROVE  TypeInv'
<1>0. TypeOK /\ LoopsInRange
  BY DEF TypeInv
<1>1. IndexType'
  <2>1. IndexType
    BY <1>0 DEF TypeOK
  <2>2. llock[b] + 1 \in 0..255
    <3>1. llock[b] \in Nat /\ llock[b] < Cardinality(Free(bitmap[b]))
      BY DEF Placed
    <3>2. Cardinality(Free(bitmap[b])) \in 0..LineNum
      BY FreeCounts
    <3> QED BY <3>1, <3>2
  <2>3. llock' \in [Buckets -> 0..255]
    <3>1. llock \in [Buckets -> 0..255]
      BY <2>1 DEF IndexType
    <3>2. llock' = [llock EXCEPT ![b] = llock[b] + 1]
      BY DEF Placed
    <3> QED BY <2>2, <3>1, <3>2, FunctionUpdate
  <2>4. bitmap' = bitmap /\ freecount' = freecount /\ rlock' = rlock
    BY DEF Placed
  <2> HIDE DEF Slots, Buckets
  <2> QED BY <2>1, <2>3, <2>4, Zenon DEF IndexType
<1>2. LineType'
  <2>1. dline \in [Lines -> DataLine]
    BY <1>0 DEF TypeOK, LineType
  <2>2. [key |-> k, value |-> v, valid |-> VALID] \in DataLine
    BY DEF DataLine, VALID
  <2>3. dline' = [dline EXCEPT ![<<b, s>>] = [key |-> k, value |-> v, valid |-> VALID]]
    BY DEF Placed
  <2> QED BY <2>1, <2>2, <2>3, FunctionUpdate DEF LineType
<1>3. QueueType' /\ ClientType' /\ RelocType'
  BY <1>0, TypeUnchanged DEF Placed, TypeOK
<1>4. ControlType'
  BY <1>0 DEF Placed, TypeOK, ControlType
<1>5. DealType'
  BY <1>0 DEF Placed, TypeOK, DealType
<1>6. LoopsInRange'
  BY DEF Placed, LoopsInRange
<1> QED BY <1>1, <1>2, <1>3, <1>4, <1>5, <1>6 DEF TypeInv, TypeOK

(* The lock protects the slot, and takes none of the others' protection.   *)
LEMMA PlacedCover ==
  ASSUME CountInv, NEW k \in Keys, NEW v \in Values, NEW b, NEW s, Placed(k, v, b, s)
  PROVE  CoverInv'
<1>0. /\ TypeInv /\ LockBounds /\ PassCovers /\ ValidCovered /\ NoneSendsValid
      /\ llock \in [Buckets -> 0..255] /\ b \in Buckets /\ s \in Slots
  BY DEF CountInv, CoverInv, TypeInv, TypeOK, IndexType, Placed
<1>1. TypeInv'
  BY <1>0, PlacedType
<1>2. /\ llock'[b] = llock[b] + 1
      /\ \A a \in Buckets : a # b => llock'[a] = llock[a]
  BY <1>0 DEF Placed
<1>3. LockBounds'
  <2>1. \A a \in Buckets : llock'[a] <= Cardinality(Free(bitmap[a]))
    <3> SUFFICES ASSUME NEW a \in Buckets PROVE llock'[a] <= Cardinality(Free(bitmap[a]))
      OBVIOUS
    <3>1. CASE a = b
      <4>1. Cardinality(Free(bitmap[b])) \in 0..LineNum
        BY FreeCounts
      <4> QED BY <1>2, <3>1, <4>1 DEF Placed
    <3>2. CASE a # b
      BY <1>0, <1>2, <3>2 DEF LockBounds, Placed
    <3> QED BY <3>1, <3>2
  <2> QED BY <2>1 DEF LockBounds, Placed
<1>4. PassCovers'
  BY <1>0 DEF PassCovers, Copied, Settled, Placed
<1>5. ValidCovered'
  <2> SUFFICES ASSUME NEW a \in Buckets, NEW t \in Slots, dline'[<<a, t>>].valid = VALID
               PROVE  t \in bitmap[a] \cup LocallyLocked(a)'
    BY DEF ValidCovered, Placed
  <2>1. \A u : Cardinality(FreeAfter(bitmap[a], u)) \in Nat
    BY FreeAfterBound
  <2>2. llock[a] \in 0..255
    BY <1>0
  <2>3. LocallyLocked(a) \subseteq LocallyLocked(a)'
    BY <1>2, <2>1, <2>2 DEF LocallyLocked, Placed
  <2>4. CASE <<a, t>> = <<b, s>>
    BY <1>2, <2>1, <2>2, <2>4 DEF LocallyLocked, Placed
  <2>5. CASE <<a, t>> # <<b, s>>
    <3>1. dline[<<a, t>>].valid = VALID
      <4>1. /\ <<b, s>> \in Lines
            /\ dline'[<<b, s>>] = [key |-> k, value |-> v, valid |-> VALID]
            /\ \A l \in Lines : l # <<b, s>> => dline'[l] = dline[l]
        BY <1>0, PlacedLines
      <4>2. <<a, t>> \in Lines
        BY DEF Lines
      <4>3. dline'[<<a, t>>] = dline[<<a, t>>]
        BY <2>5, <4>1, <4>2
      <4> QED BY <4>3
    <3> QED BY <1>0, <2>3, <3>1 DEF ValidCovered, Dealing, Placed
  <2> QED BY <2>4, <2>5
<1>6. NoneSendsValid'
  BY <1>0 DEF NoneSendsValid, Placed, clientVars
<1> QED BY <1>1, <1>3, <1>4, <1>5, <1>6 DEF CoverInv

(* No VALID line is where an insert puts its own.                          *)
LEMMA PlacedDead ==
  ASSUME CountInv, NEW k, NEW v, NEW b, NEW s, Placed(k, v, b, s)
  PROVE  ~Valid(b, s)
<1>1. s \notin bitmap[b]
  BY DEF Placed, Free
<1>2. s \notin LocallyLocked(b)
  BY DEF LocallyLocked, Placed
<1>3. ~Dealing /\ b \in Buckets /\ s \in Slots
  BY DEF Placed, Dealing
<1> QED BY <1>1, <1>2, <1>3 DEF CountInv, CoverInv, ValidCovered, Valid

LEMMA InsertKeeps ==
  ASSUME LocalInv, NEW k \in Keys, NEW v \in Values, NEW b, NEW s, Placed(k, v, b, s)
  PROVE  LocalInv'
<1>0. CountInv /\ TypeInv /\ NoDelete /\ PassCounts /\ FreeCountExact /\ Quiet
  BY DEF LocalInv, CountInv, CoverInv
<1>1. /\ <<b, s>> \in Lines
      /\ dline'[<<b, s>>] = [key |-> k, value |-> v, valid |-> VALID]
      /\ \A l \in Lines : l # <<b, s>> => dline'[l] = dline[l]
  BY <1>0, PlacedLines
<1>2. Quiet'
  BY <1>0, <1>1 DEF Quiet, Placed
<1>3. NoDelete'
  BY <1>0, <1>2 DEF NoDelete, Quiet, Placed, clientVars, DELETE, VALID
<1>4. PassCounts' /\ FreeCountExact'
  BY <1>0 DEF PassCounts, Copied, FreeCountExact, Placed
<1>5. Moved'
  BY DEF Moved, Placed
<1> QED BY <1>0, <1>2, <1>3, <1>4, <1>5, PlacedCover DEF LocalInv, CountInv

---------------------------------------------------------------------------
(* What the pass does that an insert starts.                               *)

(* The invariant of the count needs nothing of the clients here.           *)
LEMMA CountServer == ASSUME CountInv, Server PROVE CountInv'
<1>1. CoverInv'
  BY CoverNext DEF CountInv, Next
<1>2. NoDelete'
  BY NoDeleteServer DEF CountInv, CoverInv
<1> QED BY <1>1, <1>2, FreeCountStored, PassCountsServer DEF CountInv

(* Step 1 of deal_pending passes every slot: there is nothing to commit.   *)
LEMMA NothingPending ==
  ASSUME LocalInv PROVE ~RemoteRetire /\ ~CommitUpsert /\ ~CommitDelete
<1>1. CASE RemoteRetire
  <2>1. <<off, i>> \in Lines
    BY <1>1 DEF LocalInv, CountInv, CoverInv, TypeInv, TypeOK, DealType, LoopsInRange,
                RemoteRetire, Lines
  <2>2. dline[<<off, i>>].valid \in {UPSERT, DELETE}
    BY <1>1 DEF RemoteRetire
  <2> QED BY <2>1, <2>2 DEF LocalInv, Quiet, UPSERT, DELETE, VALID
<1>2. ~CommitUpsert /\ ~CommitDelete
  BY DEF LocalInv, Quiet, CommitUpsert, CommitDelete
<1> QED BY <1>1, <1>2

(* The lines that relocate moves from and to.                              *)
LEMMA MoveLines ==
  ASSUME LocalInv, spc \in {"copy", "validate", "drop"}
  PROVE  /\ <<off, i>> \in Lines /\ <<neighbour, target>> \in Lines
         /\ <<off, i>> # <<neighbour, target>>
         /\ dline \in [Lines -> DataLine]
<1>1. /\ off \in Buckets /\ i \in Slots /\ dline \in [Lines -> DataLine]
      /\ LockBounds /\ Moved /\ TypeInv
  BY DEF LocalInv, CountInv, CoverInv, TypeInv, TypeOK, DealType, LineType, LoopsInRange
<1>2. neighbour \in Buckets /\ neighbour # off
  BY <1>1, NeighbourInTable DEF NeighbourType, LockBounds
<1>3. target \in Slots
  <2>1. CASE spc = "drop"
    BY <1>1, <2>1 DEF Moved
  <2>2. CASE spc # "drop"
    BY <1>1, <2>2 DEF LockBounds, LocallyLocked, Free
  <2> QED BY <2>1, <2>2
<1> QED BY <1>1, <1>2, <1>3 DEF Lines

(* What the three steps of a move do to the lines: nothing to a VALID one  *)
(* until the original is dropped.                                          *)
LEMMA CopyEffect ==
  ASSUME LocalInv, CopyLine
  PROVE  /\ dline'[<<neighbour, target>>].key = dline[<<off, i>>].key
         /\ dline'[<<neighbour, target>>].value = dline[<<off, i>>].value
         /\ \A l \in Lines : dline'[l].valid = dline[l].valid
         /\ \A l \in Lines : l # <<neighbour, target>> => dline'[l] = dline[l]
<1>1. <<neighbour, target>> \in Lines /\ dline \in [Lines -> DataLine]
  BY MoveLines DEF CopyLine
<1>2. \A l \in Lines : dline[l] \in DataLine
  BY <1>1
<1> HIDE DEF Slots, Buckets
<1> QED BY <1>1, <1>2 DEF CopyLine, DataLine

LEMMA ValidateEffect ==
  ASSUME LocalInv, ValidateCopy
  PROVE  /\ dline'[<<neighbour, target>>] =
              [dline[<<neighbour, target>>] EXCEPT !.valid = VALID]
         /\ dline'[<<neighbour, target>>].valid = VALID
         /\ dline'[<<neighbour, target>>].key = dline[<<neighbour, target>>].key
         /\ dline'[<<neighbour, target>>].value = dline[<<neighbour, target>>].value
         /\ \A l \in Lines : l # <<neighbour, target>> => dline'[l] = dline[l]
<1>1. <<neighbour, target>> \in Lines /\ dline \in [Lines -> DataLine]
  BY MoveLines DEF ValidateCopy
<1>2. dline[<<neighbour, target>>] \in DataLine
  BY <1>1
<1> HIDE DEF Slots, Buckets
<1> QED BY <1>1, <1>2 DEF ValidateCopy, DataLine

LEMMA DropEffect ==
  ASSUME LocalInv, DropOriginal
  PROVE  /\ dline'[<<off, i>>].valid = 0
         /\ \A l \in Lines : l # <<off, i>> => dline'[l] = dline[l]
<1>1. <<off, i>> \in Lines /\ dline \in [Lines -> DataLine]
  BY MoveLines DEF DropOriginal
<1>2. dline[<<off, i>>] \in DataLine
  BY <1>1
<1> HIDE DEF Slots, Buckets
<1> QED BY <1>1, <1>2 DEF DropOriginal, DataLine

LEMMA PassEffects ==
  ASSUME LocalInv, Deal \/ Relocate
  PROVE  \/ CopyLine \/ ValidateCopy \/ DropOriginal
         \/ dline' = dline /\ spc' # "commit"
<1>1. ~RemoteRetire /\ ~CommitUpsert /\ ~CommitDelete
  BY NothingPending
<1> QED BY <1>1
        DEF Deal, DealBegin, RemoteSkip, RemoteDone, LocalSlot, LocalDone, ScanSlot,
            ScanDone, IndexStore, Relocate, RelocPick, RelocSkip, RelocDone, ProbeRoom,
            ProbeNext, ProbeEnd, LockNeighbour, UnlockNeighbour, LocalInv, Quiet

LEMMA QuietPass ==
  ASSUME LocalInv, Deal \/ Relocate PROVE Quiet'
<1>0. Quiet
  BY DEF LocalInv
<1>1. CASE CopyLine
  BY <1>0, <1>1, CopyEffect DEF Quiet, CopyLine
<1>2. CASE ValidateCopy
  <2>1. \A l \in Lines : l # <<neighbour, target>> => dline'[l] = dline[l]
    BY <1>2, ValidateEffect
  <2>2. dline'[<<neighbour, target>>].valid = VALID /\ spc' = "drop"
    BY <1>2, ValidateEffect DEF ValidateCopy
  <2> QED BY <1>0, <2>1, <2>2 DEF Quiet
<1>3. CASE DropOriginal
  <2>1. /\ dline'[<<off, i>>].valid = 0 /\ spc' # "commit"
        /\ \A l \in Lines : l # <<off, i>> => dline'[l] = dline[l]
    BY <1>3, DropEffect DEF DropOriginal
  <2> QED BY <1>0, <2>1 DEF Quiet
<1>4. CASE dline' = dline /\ spc' # "commit"
  BY <1>0, <1>4 DEF Quiet
<1> QED BY <1>1, <1>2, <1>3, <1>4, PassEffects

(* findRelocateSlot names a slot that no VALID line holds.                 *)
LEMMA RelocDead ==
  ASSUME LocalInv, LockNeighbour, spc' = "copy" PROVE ~Valid(neighbour, target')
<1>0. /\ TypeInv /\ LockBounds /\ ValidCovered /\ IndexType
      /\ neighbour \in Buckets /\ neighbour # off
  BY NeighbourInTable DEF LocalInv, CountInv, CoverInv, TypeInv, TypeOK, NeighbourType,
                          LockBounds, LockNeighbour
<1> DEFINE k == llock[neighbour]
           n == Cardinality(Free(bitmap[neighbour]))
<1>1. k \in 0..255 /\ n \in 0..LineNum /\ k <= n
  <2>1. k \in 0..255
    BY <1>0, IndexTypes
  <2>2. n \in 0..LineNum
    BY FreeCounts
  <2>3. k <= n
    BY <1>0 DEF LockBounds, LockNeighbour
  <2> QED BY <2>1, <2>2, <2>3
<1>2. Byte(k + 1) = k + 1
  <2> HIDE DEF k, n
  <2>1. k + 1 \in 0..255
    BY <1>1
  <2> QED BY <2>1 DEF Byte
<1>3. target' = FromRight(bitmap[neighbour], k + 1) /\ target' # NoSlot
  BY <1>2 DEF LockNeighbour, RelocSlot
<1>4. /\ target' \in Free(bitmap[neighbour])
      /\ Cardinality(FreeAfter(bitmap[neighbour], target')) = k
  <2>1. k \in Nat
    BY <1>1
  <2> HIDE DEF k
  <2> QED BY <1>3, <2>1, FromRightFinds
<1>5. target' \notin bitmap[neighbour] /\ target' \in Slots
  BY <1>4 DEF Free
<1>6. target' \notin LocallyLocked(neighbour)
  <2>1. ~(k < k)
    BY <1>1
  <2> QED BY <1>4, <2>1 DEF LocallyLocked
<1> QED BY <1>0, <1>5, <1>6 DEF ValidCovered, Valid

LEMMA MovedPass ==
  ASSUME LocalInv, Deal \/ Relocate PROVE Moved'
<1>0. Moved
  BY DEF LocalInv
<1>1. CASE CopyLine
  <2>1. /\ <<off, i>> \in Lines /\ <<neighbour, target>> \in Lines
        /\ <<off, i>> # <<neighbour, target>>
    BY <1>1, MoveLines DEF CopyLine
  <2>2. /\ dline'[<<neighbour, target>>].key = dline[<<off, i>>].key
        /\ dline'[<<neighbour, target>>].value = dline[<<off, i>>].value
        /\ dline'[<<neighbour, target>>].valid = dline[<<neighbour, target>>].valid
        /\ dline'[<<off, i>>] = dline[<<off, i>>]
    BY <1>1, <2>1, CopyEffect
  <2>3. spc = "copy" /\ spc' = "validate" /\ UNCHANGED <<off, i, hashOff, j, target>>
    BY <1>1 DEF CopyLine, dealVars, relocVars
  <2> QED BY <1>0, <2>2, <2>3 DEF Moved, Valid, neighbour
<1>2. CASE ValidateCopy
  <2>1. /\ <<off, i>> \in Lines /\ <<neighbour, target>> \in Lines
        /\ <<off, i>> # <<neighbour, target>>
    BY <1>2, MoveLines DEF ValidateCopy
  <2>2. /\ dline'[<<neighbour, target>>].key = dline[<<neighbour, target>>].key
        /\ dline'[<<neighbour, target>>].value = dline[<<neighbour, target>>].value
        /\ dline'[<<neighbour, target>>].valid = VALID
        /\ dline'[<<off, i>>] = dline[<<off, i>>]
    BY <1>2, <2>1, ValidateEffect
  <2>3. /\ spc = "validate" /\ spc' = "drop" /\ target \in Slots
        /\ UNCHANGED <<off, i, hashOff, j, target>>
    BY <1>2, <2>1 DEF ValidateCopy, dealVars, relocVars, Lines
  <2> QED BY <1>0, <2>2, <2>3 DEF Moved, Valid, neighbour
<1>3. CASE LockNeighbour
  <2>1. /\ spc = "lock" /\ spc' \in {"unlock", "copy"}
        /\ UNCHANGED <<off, i, hashOff, j, dline>>
    BY <1>3 DEF LockNeighbour, dealVars
  <2>2. spc' = "copy" => ~Valid(neighbour, target')
    BY <1>3, RelocDead
  <2> QED BY <1>0, <2>1, <2>2 DEF Moved, Valid, neighbour
<1>4. CASE RelocPick \/ ProbeRoom \/ ProbeNext
  BY <1>0, <1>4 DEF Moved, Valid, RelocPick, ProbeRoom, ProbeNext, dealVars, relocVars
<1>5. CASE spc' \notin {"probe", "lock", "copy", "validate", "drop"}
  BY <1>5 DEF Moved
<1>6. ~RemoteRetire /\ ~CommitUpsert /\ ~CommitDelete
  BY NothingPending
<1> QED BY <1>1, <1>2, <1>3, <1>4, <1>5, <1>6
        DEF Deal, DealBegin, RemoteSkip, RemoteDone, LocalSlot, LocalDone, ScanSlot,
            ScanDone, IndexStore, Relocate, RelocSkip, RelocDone, ProbeEnd,
            UnlockNeighbour, DropOriginal

LEMMA LocalKeeps == LocalInv /\ [LocalNext]_vars => LocalInv'
<1> SUFFICES ASSUME LocalInv, [LocalNext]_vars PROVE LocalInv'
  OBVIOUS
<1>0. CountInv /\ Quiet /\ Moved
  BY DEF LocalInv
<1>1. CASE Deal \/ Relocate
  <2>1. CountInv'
    BY <1>0, <1>1, CountServer DEF Server
  <2> QED BY <1>1, <2>1, QuietPass, MovedPass DEF LocalInv
<1>2. ASSUME NEW k \in Keys, NEW v \in Values, Insert(k, v) PROVE LocalInv'
  <2>1. PICK b \in Buckets, s \in Slots : Placed(k, v, b, s)
    BY <1>0, <1>2, InsertPlaces
  <2> QED BY <2>1, InsertKeeps
<1>3. CASE UNCHANGED vars
  <2>1. CoverInv'
    BY <1>0, <1>3, CoverNext DEF CountInv
  <2>2. UNCHANGED <<bitmap, freecount, llock, spc, i, dealVars, relocVars, dline, req>>
    BY <1>3 DEF vars, indexVars, clientVars
  <2>3. PassCounts' /\ FreeCountExact' /\ NoDelete'
    BY <1>0, <2>2 DEF CountInv, PassCounts, FreeCountExact, NoDelete, Copied,
                      LocallyLocked, dealVars
  <2>4. Quiet' /\ Moved'
    BY <1>0, <2>2 DEF Quiet, Moved, Valid, neighbour, dealVars, relocVars
  <2> QED BY <2>1, <2>3, <2>4 DEF LocalInv, CountInv
<1> QED BY <1>1, <1>2, <1>3 DEF LocalNext, InsertRefused

---------------------------------------------------------------------------
(* When the server works alone, the slot of a VALID line has a committed   *)
(* bit or a local lock at all times, though it is the server that takes    *)
(* the locks, one for each insert and one for each move (api.cpp:162-224,  *)
(* 258-320).                                                               *)
THEOREM LocalLinesCovered == LocalSpec => []ValidCovered
<1>1. Init => LocalInv
  BY LocalInit
<1>2. LocalInv /\ [LocalNext]_vars => LocalInv'
  BY LocalKeeps
<1>3. LocalInv => ValidCovered
  BY DEF LocalInv, CountInv, CoverInv
<1> QED BY <1>1, <1>2, <1>3, PTL DEF LocalSpec

(* server_insert is never left without a slot in a bucket that counts a    *)
(* free one (api.cpp:199).                                                 *)
THEOREM InsertsFindSlots == LocalSpec => []InsertHonest
<1>1. Init => LocalInv
  BY LocalInit
<1>2. LocalInv /\ [LocalNext]_vars => LocalInv'
  BY LocalKeeps
<1>3. LocalInv => InsertHonest
  BY InsertSlotFound DEF LocalInv, InsertHonest
<1> QED BY <1>1, <1>2, <1>3, PTL DEF LocalSpec

(* VALID lines that stay as they are keep what is stored.                  *)
LEMMA StoredKept ==
  ASSUME NEW k, \A l \in Lines : dline[l].valid = VALID => dline'[l] = dline[l]
  PROVE  Stored(k) \subseteq Stored(k)'
  BY DEF Stored, Group

LEMMA StepKeepsStored ==
  ASSUME LocalInv, LocalNext, NEW key \in Keys
  PROVE  Stored(key) \subseteq Stored(key)'
<1>0. CountInv /\ TypeInv /\ Moved
  BY DEF LocalInv, CountInv, CoverInv
<1>1. ASSUME NEW k \in Keys, NEW v \in Values, Insert(k, v)
      PROVE  Stored(key) \subseteq Stored(key)'
  <2>1. PICK b \in Buckets, s \in Slots : Placed(k, v, b, s)
    BY <1>0, <1>1, InsertPlaces
  <2>2. dline[<<b, s>>].valid # VALID
    BY <1>0, <2>1, PlacedDead DEF Valid
  <2>3. /\ <<b, s>> \in Lines
        /\ dline'[<<b, s>>] = [key |-> k, value |-> v, valid |-> VALID]
        /\ \A l \in Lines : l # <<b, s>> => dline'[l] = dline[l]
    BY <1>0, <2>1, PlacedLines
  <2>4. \A l \in Lines : dline[l].valid = VALID => dline'[l] = dline[l]
    BY <2>2, <2>3
  <2> QED BY <2>4, StoredKept
<1>2. CASE dline' = dline
  BY <1>2, StoredKept
<1>3. CASE CopyLine \/ ValidateCopy
  <2>1. dline[<<neighbour, target>>].valid # VALID
    BY <1>0, <1>3 DEF Moved, Valid, CopyLine, ValidateCopy
  <2>2. \A l \in Lines : l # <<neighbour, target>> => dline'[l] = dline[l]
    BY <1>3, CopyEffect, ValidateEffect
  <2>3. \A l \in Lines : dline[l].valid = VALID => dline'[l] = dline[l]
    BY <2>1, <2>2
  <2> QED BY <2>3, StoredKept
<1>4. CASE DropOriginal
  <2> DEFINE orig == <<off, i>>
             copy == <<neighbour, target>>
  <2>1. spc = "drop" /\ orig \in Lines /\ copy \in Lines /\ orig # copy
    BY <1>4, MoveLines DEF DropOriginal
  <2>2. \A l \in Lines : l # orig => dline'[l] = dline[l]
    BY <1>4, DropEffect
  <2>3. /\ dline[copy].key = dline[orig].key /\ dline[copy].value = dline[orig].value
        /\ dline[copy].valid = VALID /\ copy[1] \in Group(dline[orig].key)
    <3>1. /\ dline[copy].key = dline[orig].key /\ dline[copy].value = dline[orig].value
          /\ dline[copy].valid = VALID /\ hashOff = Home[dline[orig].key]
      BY <1>0, <2>1 DEF Moved, Valid
    <3>2. neighbour \in hashOff..(hashOff + BucketNum - 1)
      <4>1. hashOff \in 0..(IndexNum - 1) /\ j \in 0..(BucketNum - 1)
        BY <1>0, <2>1 DEF TypeInv, TypeOK, RelocType, LoopsInRange
      <4> QED BY <4>1 DEF neighbour
    <3> QED BY <3>1, <3>2 DEF Group
  <2> HIDE DEF orig, copy
  <2> SUFFICES ASSUME NEW l \in Lines, l[1] \in Group(key), dline[l].key = key,
                      dline[l].valid = VALID
               PROVE  \E m \in Lines : /\ m[1] \in Group(key) /\ dline'[m].key = key
                                       /\ dline'[m].valid = VALID
                                       /\ dline'[m].value = dline[l].value
    BY DEF Stored, Group
  <2>4. CASE l = orig
    <3>1. dline'[copy] = dline[copy]
      BY <2>1, <2>2
    <3> QED BY <2>1, <2>3, <2>4, <3>1
  <2>5. CASE l # orig
    BY <2>2, <2>5
  <2> QED BY <2>4, <2>5
<1> QED BY <1>1, <1>2, <1>3, <1>4, PassEffects DEF LocalNext, InsertRefused, vars

(* A value that is stored stays stored: no insert takes the slot of        *)
(* another line, and no pass retires, overwrites or moves one away from    *)
(* where its key is searched (api.cpp:162-224, 258-471).                   *)
THEOREM LocalLosesNothing == LocalSpec => NothingLost
<1>1. Init => LocalInv
  BY LocalInit
<1>2. LocalInv /\ [LocalNext]_vars => LocalInv'
  BY LocalKeeps
<1>3. LocalInv /\ [LocalNext]_vars
        => [\A k \in Keys : Stored(k) \subseteq Stored(k)']_vars
  BY StepKeepsStored
<1> QED BY <1>1, <1>2, <1>3, PTL DEF LocalSpec, NothingLost

---------------------------------------------------------------------------
(* What the server finds is what is stored. *)
ValuesStored == \A l \in Lines : dline[l].valid = VALID => dline[l].value \in Values

FoundInv == LocalInv /\ ValuesStored

LEMMA FoundInit == Init => FoundInv
<1> SUFFICES ASSUME Init PROVE FoundInv
  OBVIOUS
<1>1. ValuesStored
  BY DEF Init, ValuesStored, BlankLine, VALID
<1> QED BY <1>1, LocalInit DEF FoundInv

LEMMA FoundKeeps == FoundInv /\ [LocalNext]_vars => FoundInv'
<1> SUFFICES ASSUME FoundInv, [LocalNext]_vars PROVE ValuesStored'
  BY LocalKeeps DEF FoundInv
<1>0. LocalInv /\ CountInv /\ TypeInv /\ Moved /\ ValuesStored
  BY DEF FoundInv, LocalInv, CountInv, CoverInv
<1>1. ASSUME NEW k \in Keys, NEW v \in Values, Insert(k, v) PROVE ValuesStored'
  <2>1. PICK b \in Buckets, s \in Slots : Placed(k, v, b, s)
    BY <1>0, <1>1, InsertPlaces
  <2>2. /\ dline'[<<b, s>>] = [key |-> k, value |-> v, valid |-> VALID]
        /\ \A l \in Lines : l # <<b, s>> => dline'[l] = dline[l]
    BY <1>0, <2>1, PlacedLines
  <2>3. dline'[<<b, s>>].value = v
    BY <2>2
  <2> QED BY <1>0, <2>2, <2>3 DEF ValuesStored
<1>2. CASE dline' = dline
  BY <1>0, <1>2 DEF ValuesStored
<1>3. CASE CopyLine \/ ValidateCopy \/ DropOriginal
  <2> DEFINE orig == <<off, i>>
             copy == <<neighbour, target>>
  <2>1. orig \in Lines /\ copy \in Lines /\ orig # copy
    BY <1>0, <1>3, MoveLines DEF CopyLine, ValidateCopy, DropOriginal
  <2>2. CASE CopyLine
    <3>1. dline'[copy].valid # VALID /\ \A l \in Lines : l # copy => dline'[l] = dline[l]
      BY <1>0, <2>1, <2>2, CopyEffect DEF Moved, Valid, CopyLine
    <3> HIDE DEF copy
    <3> QED BY <1>0, <3>1 DEF ValuesStored
  <2>3. CASE ValidateCopy
    <3>1. /\ dline'[copy].value = dline[copy].value
          /\ \A l \in Lines : l # copy => dline'[l] = dline[l]
      BY <1>0, <2>1, <2>3, ValidateEffect
    <3>2. dline[copy].value = dline[orig].value /\ dline[orig].valid = VALID
      BY <1>0, <2>3 DEF Moved, Valid, ValidateCopy
    <3> HIDE DEF copy, orig
    <3> QED BY <1>0, <2>1, <3>1, <3>2 DEF ValuesStored
  <2>4. CASE DropOriginal
    <3>1. dline'[orig].valid # VALID /\ \A l \in Lines : l # orig => dline'[l] = dline[l]
      BY <1>0, <2>1, <2>4, DropEffect DEF VALID
    <3> HIDE DEF orig
    <3> QED BY <1>0, <3>1 DEF ValuesStored
  <2> QED BY <1>3, <2>2, <2>3, <2>4
<1> QED BY <1>0, <1>1, <1>2, <1>3, PassEffects DEF LocalNext, InsertRefused, vars

FoundIsStored == \A k \in Keys : ServerSearch(k) # NoValue <=> Stored(k) # {}

LEMMA StoredFound == FoundInv => FoundIsStored
<1> SUFFICES ASSUME FoundInv, NEW k \in Keys
             PROVE  ServerSearch(k) # NoValue <=> Stored(k) # {}
  BY DEF FoundIsStored
<1>0. LineType /\ Quiet /\ ValuesStored
  BY DEF FoundInv, LocalInv, CountInv, CoverInv, TypeInv, TypeOK
<1>1. ServerSearch(k) = Lookup(k)
  BY <1>0, ServerSearchIs
<1>2. PendingSlots(k) = {}
  <2>1. \A s \in Slots : <<Home[k], s>> \in Lines
    BY <1>0, HomeLines
  <2> QED BY <1>0, <2>1 DEF PendingSlots, Quiet, VALID, UPSERT, DELETE
<1>3. Stored(k) = {dline[l].value : l \in GroupHits(k)}
  BY DEF Stored, GroupHits, Group
<1>4. SearchOld(k) = IF GroupHits(k) = {} THEN NoLine ELSE FirstOf(GroupHits(k))
  BY SearchOldIs
<1>5. GroupHits(k) # {} => FirstOf(GroupHits(k)) \in GroupHits(k)
  <2>1. GroupHits(k) \in SUBSET Lines
    BY DEF GroupHits
  <2>2. GroupHits(k) # {} =>
          \E l \in GroupHits(k) : \A m \in GroupHits(k) : Precedes(l, m)
    BY <2>1, FirstLine
  <2> QED BY <2>2 DEF FirstOf
<1>6. \A l \in GroupHits(k) : l # NoLine /\ dline[l].value # NoValue
  BY <1>0 DEF GroupHits, ValuesStored, Lines, NoLine
<1>7. Lookup(k) = IF SearchOld(k) = NoLine THEN NoValue ELSE dline[SearchOld(k)].value
  BY <1>2 DEF Lookup
<1>8. CASE GroupHits(k) = {}
  BY <1>1, <1>3, <1>4, <1>7, <1>8
<1>9. CASE GroupHits(k) # {}
  BY <1>1, <1>3, <1>4, <1>5, <1>6, <1>7, <1>9
<1> QED BY <1>8, <1>9

(* A key that server_search finds is found for ever: between two inserts   *)
(* as well as at every step of the pass inside one, which moves a line by  *)
(* copying it to a place that the search sees before it drops the original *)
(* (api.cpp:95-142, 162-224, 279-471).                                     *)
THEOREM LocalFindsForEver == LocalSpec => StaysFound
<1>1. Init => FoundInv
  BY FoundInit
<1>2. FoundInv /\ [LocalNext]_vars => FoundInv'
  BY FoundKeeps
<1>3. FoundInv => FoundIsStored
  BY StoredFound
<1>4. /\ FoundIsStored /\ FoundIsStored'
      /\ [\A k \in Keys : Stored(k) \subseteq Stored(k)']_vars
      => [\A k \in Keys : ServerSearch(k) # NoValue => ServerSearch(k)' # NoValue]_vars
  <2> SUFFICES ASSUME FoundIsStored, FoundIsStored',
                      \A k \in Keys : Stored(k) \subseteq Stored(k)',
                      NEW k \in Keys, ServerSearch(k) # NoValue
               PROVE  ServerSearch(k)' # NoValue
    OBVIOUS
  <2>1. Stored(k) # {} /\ Stored(k) \subseteq Stored(k)'
    BY DEF FoundIsStored
  <2>2. Stored(k)' # {}
    BY <2>1
  <2> QED BY <2>2 DEF FoundIsStored
<1> QED BY <1>1, <1>2, <1>3, <1>4, LocalLosesNothing, PTL DEF LocalSpec, NothingLost, StaysFound
===========================================================================
