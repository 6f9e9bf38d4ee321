-------------------------- MODULE RenoTableProofs --------------------------
(***************************************************************************)
(* Theorems of RenoTable, for every number of clients, keys, buckets and   *)
(* slots: every variable keeps its type, no two clients own one slot, no   *)
(* receive request is lost.                                                *)
(***************************************************************************)
EXTENDS RenoTableMap, RenoIndexProofs

USE LineNumAssumption, TableAssumption DEF Slots, NoSlot, Buckets

---------------------------------------------------------------------------
(* Of a set of lines that is not empty, one precedes all the others.       *)
LEMMA FirstLine ==
  ASSUME NEW hits \in SUBSET Lines, hits # {}
  PROVE  \E l \in hits : \A m \in hits : Precedes(l, m)
<1>1. PICK b \in {l[1] : l \in hits} : \A y \in {l[1] : l \in hits} : b <= y
  <2>1. {l[1] : l \in hits} \in SUBSET Nat /\ {l[1] : l \in hits} # {}
    BY DEF Lines
  <2> QED BY <2>1, NatMin
<1> DEFINE inFirst == {l \in hits : l[1] = b}
<1>2. PICK s \in {l[2] : l \in inFirst} : \A y \in {l[2] : l \in inFirst} : s <= y
  <2>1. {l[2] : l \in inFirst} \in SUBSET Nat /\ {l[2] : l \in inFirst} # {}
    BY <1>1 DEF Lines
  <2> QED BY <2>1, NatMin
<1>3. PICK l \in hits : l[1] = b /\ l[2] = s
  BY <1>2
<1>4. \A m \in hits : Precedes(l, m)
  <2> TAKE m \in hits
  <2>1. l[1] \in Int /\ m[1] \in Int /\ l[2] \in Int /\ m[2] \in Int
    BY DEF Lines
  <2>2. l[1] <= m[1]
    BY <1>1, <1>3
  <2>3. l[1] = m[1] => l[2] <= m[2]
    BY <1>2, <1>3
  <2> QED BY <2>1, <2>2, <2>3 DEF Precedes
<1> QED BY <1>4

(* search_old (api.cpp:144-160) returns a line of the table, or none.      *)
LEMMA SearchOldType ==
  ASSUME NEW key PROVE SearchOld(key) \in Lines \cup {NoLine}
<1> DEFINE hits == {l \in Lines : /\ l[1] \in Home[key]..(Home[key] + BucketNum - 1)
                                  /\ dline[l].key = key /\ dline[l].valid = VALID}
<1>1. hits \in SUBSET Lines
  OBVIOUS
<1>2. hits # {} => \E l \in hits : \A m \in hits : Precedes(l, m)
  BY <1>1, FirstLine
<1>3. SearchOld(key) = IF hits = {} THEN NoLine
                       ELSE CHOOSE l \in hits : \A m \in hits : Precedes(l, m)
  BY DEF SearchOld
<1> HIDE DEF hits
<1> QED BY <1>1, <1>2, <1>3

---------------------------------------------------------------------------
(* Type correctness. *)
TypeInv == TypeOK /\ LoopsInRange

LEMMA TypeInit == Init => TypeInv
<1> SUFFICES ASSUME Init PROVE TypeInv
  OBVIOUS
<1> USE DEF Init
<1>1. IndexType
  BY DEF IndexType
<1>2. LineType
  BY DEF LineType, BlankLine, DataLine
<1>3. QueueType
  BY DEF QueueType
<1>4. ClientType
  BY DEF ClientType, BlankLine, DataLine, NoGrant, NoScan
<1>5. ControlType /\ DealType /\ RelocType /\ LoopsInRange
  BY DEF ControlType, DealType, RelocType, LoopsInRange
<1> QED BY <1>1, <1>2, <1>3, <1>4, <1>5 DEF TypeInv, TypeOK

(* A part of the state keeps its type when nothing of it changes. *)
LEMMA TypeUnchanged ==
  /\ IndexType /\ UNCHANGED indexVars => IndexType'
  /\ LineType /\ UNCHANGED dline => LineType'
  /\ QueueType /\ UNCHANGED queueVars => QueueType'
  /\ ClientType /\ UNCHANGED clientVars => ClientType'
  /\ ControlType /\ UNCHANGED <<spc, i>> => ControlType'
  /\ DealType /\ UNCHANGED dealVars => DealType'
  /\ RelocType /\ UNCHANGED relocVars => RelocType'
  /\ LoopsInRange /\ UNCHANGED <<spc, i, dealVars, relocVars>> => LoopsInRange'
<1>1. IndexType /\ UNCHANGED indexVars => IndexType'
  <2> SUFFICES ASSUME IndexType, UNCHANGED indexVars PROVE IndexType'
    OBVIOUS
  <2>1. bitmap' = bitmap /\ freecount' = freecount /\ llock' = llock /\ rlock' = rlock
    BY DEF indexVars
  <2> QED BY <2>1, Zenon DEF IndexType
<1>2. LineType /\ UNCHANGED dline => LineType'
  BY DEF LineType
<1>3. QueueType /\ UNCHANGED queueVars => QueueType'
  BY DEF QueueType, queueVars
<1>4. ClientType /\ UNCHANGED clientVars => ClientType'
  BY DEF ClientType, clientVars
<1>5. ControlType /\ UNCHANGED <<spc, i>> => ControlType'
  BY DEF ControlType
<1>6. DealType /\ UNCHANGED dealVars => DealType'
  BY DEF DealType, dealVars
<1>7. RelocType /\ UNCHANGED relocVars => RelocType'
  BY DEF RelocType, relocVars
<1>8. LoopsInRange /\ UNCHANGED <<spc, i, dealVars, relocVars>> => LoopsInRange'
  BY DEF LoopsInRange, dealVars, relocVars
<1> QED BY <1>1, <1>2, <1>3, <1>4, <1>5, <1>6, <1>7, <1>8

LEMMA FunctionUpdate ==
  ASSUME NEW S, NEW T, NEW f \in [S -> T], NEW x, NEW v \in T
  PROVE  [f EXCEPT ![x] = v] \in [S -> T]
  OBVIOUS

LEMMA IndexTypes ==
  ASSUME IndexType, NEW b \in Buckets
  PROVE  /\ bitmap[b] \in SUBSET Slots /\ freecount[b] \in 0..255
         /\ llock[b] \in 0..255 /\ rlock[b] \in 0..MaxRlock
<1> HIDE DEF Slots, Buckets
<1>1. bitmap[b] \in SUBSET Slots
  BY DEF IndexType
<1>2. freecount[b] \in 0..255 /\ llock[b] \in 0..255
  BY DEF IndexType
<1>3. rlock[b] \in 0..MaxRlock
  BY DEF IndexType
<1> QED BY <1>1, <1>2, <1>3

LEMMA HomeType == \A k \in Keys \cup {EmptyKey} : Home[k] \in Buckets
  OBVIOUS

LEMMA FetchAndAddType ==
  ASSUME IndexType, NEW b \in Buckets, FetchAndAdd(b)
  PROVE  rlock' \in [Buckets -> 0..MaxRlock]
  BY DEF IndexType, FetchAndAdd

(* A line keeps its type when its valid byte is assigned. *)
LEMMA LineValid ==
  ASSUME LineType, NEW l
  PROVE  /\ [dline EXCEPT ![l].valid = 0] \in [Lines -> DataLine]
         /\ [dline EXCEPT ![l].valid = VALID] \in [Lines -> DataLine]
<1>1. 0 \in 0..3 /\ VALID \in 0..3
  BY DEF VALID
<1> QED BY <1>1 DEF LineType, DataLine

(* What a search has found so far. *)
ScanState == [exist : 0..3, value : Values \cup {NoValue},
              bucket : 0..(BucketNum - 1), pos : 0..LineNum]

(* The line that a search reads next is a line of the table: a group       *)
(* (api.cpp:478-481) never reaches beyond the last bucket.                 *)
LEMMA ScanLineType ==
  ASSUME NEW c \in Clients, ClientType, LineType, scan[c].pos < LineNum
  PROVE  ScanLine(c) \in DataLine
<1>1. scan[c].bucket \in 0..(BucketNum - 1) /\ scan[c].pos \in Slots
  BY DEF ClientType
<1>2. req[c].key \in Keys \cup {EmptyKey}
  BY DEF ClientType, DataLine
<1> QED BY <1>1, <1>2 DEF ScanLine, LineType, Lines

LEMMA ParseHomeType ==
  ASSUME NEW found \in ScanState, NEW key, NEW l \in DataLine
  PROVE  ParseHome(found, key, l) \in ScanState
           /\ ParseHome(found, key, l).pos = found.pos
  BY DEF ParseHome, DataLine, ScanState

(* A search moves to the next bucket of the group, or takes a line.        *)
LEMMA NextBucketType ==
  ASSUME NEW s \in ScanState, s.bucket # BucketNum - 1
  PROVE  NextBucket(s) \in ScanState
<1>1. s.bucket + 1 \in 0..(BucketNum - 1) /\ 0 \in 0..LineNum
  BY DEF ScanState
<1> DEFINE t == [s EXCEPT !.bucket = s.bucket + 1]
<1>2. t \in ScanState
  BY <1>1 DEF ScanState
<1>3. NextBucket(s) = [t EXCEPT !.pos = 0]
  BY DEF NextBucket, ScanState
<1> HIDE DEF t
<1> QED BY <1>1, <1>2, <1>3 DEF ScanState

LEMMA TakeLineType ==
  ASSUME NEW s \in ScanState, NEW l \in DataLine
  PROVE  TakeLine(s, l) \in ScanState
<1>1. [s EXCEPT !.exist = VALID] \in ScanState
  BY DEF ScanState, VALID
<1>2. TakeLine(s, l) = [[s EXCEPT !.exist = VALID] EXCEPT !.value = l.value]
  BY DEF TakeLine, ScanState
<1>3. l.value \in Values \cup {NoValue}
  BY DEF DataLine
<1> QED BY <1>1, <1>2, <1>3 DEF ScanState

LEMMA SilentType ==
  ASSUME QueueType, UNCHANGED <<posted, arrived>>, NEW b \in Buckets, FillsSilently(b)
  PROVE  QueueType'
  BY DEF FillsSilently, QueueType

LEMMA TypeNext == TypeInv /\ [Next]_vars => TypeInv'
<1> SUFFICES ASSUME TypeInv, [Next]_vars PROVE TypeInv'
  OBVIOUS
<1>0. /\ IndexType /\ LineType /\ QueueType /\ ClientType
      /\ ControlType /\ DealType /\ RelocType /\ LoopsInRange
  BY DEF TypeInv, TypeOK
<1>1. ASSUME NEW c \in Clients, NEW k \in Keys, LockRefused(c, k) PROVE TypeInv'
  <2>1. IndexType'
    <3>1. rlock' \in [Buckets -> 0..MaxRlock]
      <4>1. Home[k] \in Buckets
        BY HomeType
      <4> QED BY <1>0, <1>1, <4>1, FetchAndAddType DEF LockRefused
    <3> QED BY <1>0, <1>1, <3>1 DEF LockRefused, IndexType
  <2>2. QueueType'
    <3>1. Home[k] \in Buckets
      BY HomeType
    <3> QED BY <1>0, <1>1, <3>1, SilentType DEF LockRefused
  <2> QED BY <1>0, <1>1, <2>1, <2>2, TypeUnchanged
        DEF LockRefused, TypeInv, TypeOK, indexVars, queueVars, clientVars
<1>2. ASSUME NEW c \in Clients, NEW k \in Sought, StartSearch(c, k) PROVE TypeInv'
  <2>1. ClientType'
    BY <1>0, <1>2 DEF StartSearch, ClientType, BlankLine, DataLine
  <2> QED BY <1>0, <1>2, <2>1, TypeUnchanged
        DEF StartSearch, TypeInv, TypeOK, indexVars, queueVars, clientVars
<1>3. ASSUME NEW c \in Clients, NEW k \in Keys, NEW v \in Values, NEW op \in Opcodes,
            LockGranted(c, k, v, op) PROVE TypeInv'
  <2>1. IndexType'
    <3>1. rlock' \in [Buckets -> 0..MaxRlock]
      <4>1. Home[k] \in Buckets
        BY HomeType
      <4> QED BY <1>0, <1>3, <4>1, FetchAndAddType DEF LockGranted
    <3> QED BY <1>0, <1>3, <3>1 DEF LockGranted, IndexType
  <2>2. ClientType'
    <3>1. GrantSlot(Home[k]) \in Slots \cup {NoSlot} /\ IsLast(Home[k]) \in BOOLEAN
      BY FromLeftType DEF GrantSlot, IsLast
    <3> QED BY <1>0, <1>3, <3>1
            DEF LockGranted, ClientType, DataLine, UPSERT, DELETE
  <2> QED BY <1>0, <1>3, <2>1, <2>2, TypeUnchanged
        DEF LockGranted, TypeInv, TypeOK, indexVars, queueVars, clientVars
<1>4. ASSUME NEW c \in Clients, Write(c) PROVE TypeInv'
  <2>1. LineType'
    BY <1>0, <1>4 DEF Write, EndWrite, LineType, ClientType
  <2>2. ClientType'
    BY <1>0, <1>4 DEF Write, EndWrite, ClientType, BlankLine, DataLine, NoGrant
  <2> QED BY <1>0, <1>4, <2>1, <2>2, TypeUnchanged
        DEF Write, EndWrite, TypeInv, TypeOK, indexVars, queueVars, clientVars
<1>5. ASSUME NEW c \in Clients, WriteNotify(c) PROVE TypeInv'
  <2>1. LineType'
    BY <1>0, <1>5 DEF WriteNotify, EndWrite, LineType, ClientType
  <2>2. QueueType'
    BY <1>0, <1>5 DEF WriteNotify, EndWrite, QueueType, ClientType, DataLine
  <2>3. ClientType'
    BY <1>0, <1>5 DEF WriteNotify, EndWrite, ClientType, BlankLine, DataLine, NoGrant
  <2> QED BY <1>0, <1>5, <2>1, <2>2, <2>3, TypeUnchanged
        DEF WriteNotify, EndWrite, TypeInv, TypeOK, indexVars, queueVars, clientVars
<1>6. ASSUME NEW c \in Clients, ScanHome(c) PROVE TypeInv'
  <2>1. ClientType'
    <3>1. scan[c] \in ScanState /\ ScanLine(c) \in DataLine
      BY <1>0, <1>6, ScanLineType DEF ScanHome, ClientType, ScanState
    <3> DEFINE found == ParseHome(scan[c], req[c].key, ScanLine(c))
    <3>2. found \in ScanState /\ found.pos = scan[c].pos
      BY <3>1, ParseHomeType
    <3> HIDE DEF found
    <3>3. NextLine(found) \in ScanState
      BY <1>6, <3>1, <3>2 DEF ScanHome, ScanState, NextLine
    <3>4. scan' = [scan EXCEPT ![c] = NextLine(found)]
      BY <1>6 DEF ScanHome, found
    <3>5. scan' \in [Clients -> ScanState]
      BY <1>0, <3>3, <3>4, FunctionUpdate DEF ClientType, ScanState
    <3> QED BY <1>0, <1>6, <3>5 DEF ScanHome, ClientType, ScanState
  <2> QED BY <1>0, <1>6, <2>1, TypeUnchanged
        DEF ScanHome, TypeInv, TypeOK, indexVars, queueVars, clientVars
<1>7. ASSUME NEW c \in Clients, ScanNeighbour(c) PROVE TypeInv'
  <2>1. ClientType'
    <3>1. scan[c] \in ScanState /\ scan \in [Clients -> ScanState]
            /\ ScanLine(c) \in DataLine /\ scan[c].pos < LineNum
      BY <1>0, <1>7, ScanLineType DEF ScanNeighbour, ClientType, ScanState
    <3>2. NextLine(scan[c]) \in ScanState
      BY <3>1 DEF ScanState, NextLine
    <3>3. TakeLine(scan[c], ScanLine(c)) \in ScanState
      BY <3>1, TakeLineType
    <3>4. scan' \in [Clients -> ScanState]
      BY <1>7, <3>1, <3>2, <3>3, FunctionUpdate DEF ScanNeighbour
    <3>5. /\ pc' \in [Clients -> {"idle", "write", "scan", "return", "broken"}]
          /\ fresh' \subseteq {d \in Clients : pc'[d] = "write"}
      BY <1>0, <1>7 DEF ScanNeighbour, ClientType
    <3> QED BY <1>0, <1>7, <3>4, <3>5 DEF ScanNeighbour, ClientType, ScanState
  <2> QED BY <1>0, <1>7, <2>1, TypeUnchanged
        DEF ScanNeighbour, TypeInv, TypeOK, indexVars, queueVars, clientVars
<1>8. ASSUME NEW c \in Clients, ScanBucketEnd(c) PROVE TypeInv'
  <2>1. ClientType'
    <3>1. scan[c] \in ScanState /\ scan \in [Clients -> ScanState]
      BY <1>0 DEF ClientType, ScanState
    <3>2. scan[c].bucket # BucketNum - 1 => NextBucket(scan[c]) \in ScanState
      BY <3>1, NextBucketType
    <3>3. scan' \in [Clients -> ScanState]
      BY <1>8, <3>1, <3>2, FunctionUpdate DEF ScanBucketEnd
    <3>4. /\ pc' \in [Clients -> {"idle", "write", "scan", "return", "broken"}]
          /\ fresh' \subseteq {d \in Clients : pc'[d] = "write"}
      BY <1>0, <1>8 DEF ScanBucketEnd, ClientType
    <3> QED BY <1>0, <1>8, <3>3, <3>4 DEF ScanBucketEnd, ClientType, ScanState
  <2> QED BY <1>0, <1>8, <2>1, TypeUnchanged
        DEF ScanBucketEnd, TypeInv, TypeOK, indexVars, queueVars, clientVars
<1>9. ASSUME NEW c \in Clients, EndSearch(c) PROVE TypeInv'
  <2>1. ClientType'
    BY <1>0, <1>9 DEF EndSearch, ClientType, BlankLine, DataLine, NoScan
  <2> QED BY <1>0, <1>9, <2>1, TypeUnchanged
        DEF EndSearch, TypeInv, TypeOK, indexVars, queueVars, clientVars
<1>10. ASSUME PollRecv PROVE TypeInv'
  <2>1. QueueType'
    BY <1>0, <1>10 DEF PollRecv, QueueType
  <2>2. DealType'
    BY <1>0, <1>10 DEF PollRecv, DealType, QueueType, ControlType, LoopsInRange
  <2>3. ControlType' /\ LoopsInRange'
    BY <1>0, <1>10 DEF PollRecv, ControlType, LoopsInRange, dealVars, relocVars
  <2> QED BY <1>0, <1>10, <2>1, <2>2, <2>3, TypeUnchanged
        DEF PollRecv, TypeInv, TypeOK, indexVars, queueVars, clientVars
<1>11. ASSUME PostRecv PROVE TypeInv'
  <2>1. QueueType'
    BY <1>0, <1>11 DEF PostRecv, QueueType
  <2>2. ControlType' /\ LoopsInRange'
    BY <1>0, <1>11 DEF PostRecv, ControlType, LoopsInRange, dealVars, relocVars
  <2> QED BY <1>0, <1>11, <2>1, <2>2, TypeUnchanged
        DEF PostRecv, TypeInv, TypeOK, indexVars, queueVars, clientVars
<1>12. ASSUME DealBegin PROVE TypeInv'
  <2>1. DealType'
    <3>1. /\ freecount[off] \in 0..255 /\ llock[off] \in 0..255
          /\ rlock[off] \in 0..MaxRlock /\ bitmap[off] \in SUBSET Slots
      <4>1. off \in Buckets
        BY <1>0 DEF DealType
      <4> HIDE DEF Slots, Buckets
      <4> QED BY <1>0, <4>1, IndexTypes
    <3>2. RemoteLocks(freecount[off], llock[off], rlock[off]) \in 0..rlock[off]
      <4>1. freecount[off] \in Int /\ llock[off] \in Int /\ rlock[off] \in Nat
        BY <3>1
      <4> QED BY <4>1, RemoteLocksType
    <3> QED BY <1>0, <1>12, <3>1, <3>2 DEF DealBegin, DealType
  <2>2. ControlType' /\ LoopsInRange'
    BY <1>0, <1>12 DEF DealBegin, ControlType, LoopsInRange
  <2> QED BY <1>0, <1>12, <2>1, <2>2, TypeUnchanged
        DEF DealBegin, TypeInv, TypeOK, indexVars, queueVars, clientVars
<1>13. ASSUME RemoteSkip PROVE TypeInv'
  <2>1. DealType'
    BY <1>0, <1>13 DEF RemoteSkip, DealType, ControlType, LoopsInRange
  <2>2. ControlType' /\ LoopsInRange'
    BY <1>0, <1>13 DEF RemoteSkip, ControlType, LoopsInRange, dealVars, relocVars
  <2> QED BY <1>0, <1>13, <2>1, <2>2, TypeUnchanged
        DEF RemoteSkip, TypeInv, TypeOK, indexVars, queueVars, clientVars
<1>14. ASSUME RemoteRetire PROVE TypeInv'
  <2>1. LineType'
    <3> DEFINE l == SearchOld(dline[<<off, i>>].key)
    <3>1. CASE l = NoLine
      BY <1>0, <1>14, <3>1 DEF RemoteRetire, LineType
    <3>2. CASE l # NoLine
      <4>1. dline' = [dline EXCEPT ![l].valid = 0]
        BY <1>14, <3>2 DEF RemoteRetire
      <4> QED BY <1>0, <4>1, LineValid DEF LineType
    <3> QED BY <3>1, <3>2
  <2>2. DealType'
    BY <1>0, <1>14, SearchOldType DEF RemoteRetire, DealType
  <2>3. ControlType' /\ LoopsInRange'
    BY <1>0, <1>14 DEF RemoteRetire, ControlType, LoopsInRange, dealVars, relocVars
  <2> QED BY <1>0, <1>14, <2>1, <2>2, <2>3, TypeUnchanged
        DEF RemoteRetire, TypeInv, TypeOK, indexVars, queueVars, clientVars
<1>15. ASSUME CommitUpsert PROVE TypeInv'
  <2>1. LineType'
    <3>1. dline' = [dline EXCEPT ![<<off, i>>].valid = VALID]
      BY <1>15 DEF CommitUpsert
    <3> QED BY <1>0, <3>1, LineValid DEF LineType
  <2>2. DealType'
    <3>1. i \in Slots /\ rlockReal > 0
      BY <1>0, <1>15 DEF CommitUpsert, LoopsInRange
    <3>2. Byte(tmpFree - 1) \in 0..255
      BY <1>0, ByteStep DEF DealType
    <3> QED BY <1>0, <1>15, <3>1, <3>2 DEF CommitUpsert, NextRemote, DealType
  <2>3. ControlType' /\ LoopsInRange'
    BY <1>0, <1>15 DEF CommitUpsert, NextRemote, ControlType, LoopsInRange, dealVars, relocVars
  <2> QED BY <1>0, <1>15, <2>1, <2>2, <2>3, TypeUnchanged
        DEF CommitUpsert, NextRemote, TypeInv, TypeOK, indexVars, queueVars, clientVars
<1>16. ASSUME CommitDelete PROVE TypeInv'
  <2>1. LineType'
    <3>1. dline' = [dline EXCEPT ![<<off, i>>].valid = 0]
      BY <1>16 DEF CommitDelete
    <3> QED BY <1>0, <3>1, LineValid DEF LineType
  <2>2. DealType'
    <3>1. i \in Slots /\ rlockReal > 0
      BY <1>0, <1>16 DEF CommitDelete, LoopsInRange
    <3>2. Byte(tmpFree - 1) \in 0..255
      BY <1>0, ByteStep DEF DealType
    <3> QED BY <1>0, <1>16, <3>1, <3>2 DEF CommitDelete, NextRemote, DealType
  <2>3. ControlType' /\ LoopsInRange'
    BY <1>0, <1>16 DEF CommitDelete, NextRemote, ControlType, LoopsInRange, dealVars, relocVars
  <2> QED BY <1>0, <1>16, <2>1, <2>2, <2>3, TypeUnchanged
        DEF CommitDelete, NextRemote, TypeInv, TypeOK, indexVars, queueVars, clientVars
<1>17. ASSUME RemoteDone PROVE TypeInv'
  <2>1. ControlType' /\ LoopsInRange'
    BY <1>0, <1>17 DEF RemoteDone, ControlType, LoopsInRange, dealVars, relocVars
  <2> QED BY <1>0, <1>17, <2>1, TypeUnchanged
        DEF RemoteDone, TypeInv, TypeOK, indexVars, queueVars, clientVars
<1>18. ASSUME LocalSlot PROVE TypeInv'
  <2>1. DealType'
    <3>1. i \in Slots
      BY <1>0, <1>18 DEF LocalSlot, LoopsInRange
    <3>2. Byte(tmpFree - 1) \in 0..255
      BY <1>0, ByteStep DEF DealType
    <3>3. llockReal' \in 0..255
      BY <1>0, <1>18 DEF LocalSlot, DealType
    <3>4. tmpBitmap' \subseteq Slots
      BY <1>0, <1>18, <3>1 DEF LocalSlot, DealType
    <3>5. tmpFree' \in 0..255
      BY <1>0, <1>18, <3>2 DEF LocalSlot, DealType
    <3> QED BY <1>0, <1>18, <3>3, <3>4, <3>5 DEF LocalSlot, DealType
  <2>2. ControlType' /\ LoopsInRange'
    BY <1>0, <1>18 DEF LocalSlot, ControlType, LoopsInRange, dealVars, relocVars
  <2> QED BY <1>0, <1>18, <2>1, <2>2, TypeUnchanged
        DEF LocalSlot, TypeInv, TypeOK, indexVars, queueVars, clientVars
<1>19. ASSUME LocalDone PROVE TypeInv'
  <2>1. ControlType' /\ LoopsInRange'
    BY <1>0, <1>19 DEF LocalDone, ControlType, LoopsInRange, dealVars, relocVars
  <2> QED BY <1>0, <1>19, <2>1, TypeUnchanged
        DEF LocalDone, TypeInv, TypeOK, indexVars, queueVars, clientVars
<1>20. ASSUME ScanSlot PROVE TypeInv'
  <2>1. DealType'
    <3>1. Byte(tmpFree + 1) \in 0..255
      BY <1>0, ByteStep DEF DealType
    <3>2. tmpBitmap' \subseteq Slots
      BY <1>0, <1>20 DEF ScanSlot, DealType
    <3>3. tmpFree' \in 0..255
      BY <1>0, <1>20, <3>1 DEF ScanSlot, DealType
    <3> QED BY <1>0, <1>20, <3>2, <3>3 DEF ScanSlot, DealType
  <2>2. ControlType' /\ LoopsInRange'
    BY <1>0, <1>20 DEF ScanSlot, ControlType, LoopsInRange, dealVars, relocVars
  <2> QED BY <1>0, <1>20, <2>1, <2>2, TypeUnchanged
        DEF ScanSlot, TypeInv, TypeOK, indexVars, queueVars, clientVars
<1>21. ASSUME ScanDone PROVE TypeInv'
  <2>1. RelocType'
    BY <1>0, <1>21 DEF ScanDone, RelocType, ControlType, LoopsInRange
  <2>2. ControlType' /\ LoopsInRange'
    BY <1>0, <1>21 DEF ScanDone, ControlType, LoopsInRange, dealVars, relocVars
  <2> QED BY <1>0, <1>21, <2>1, <2>2, TypeUnchanged
        DEF ScanDone, TypeInv, TypeOK, indexVars, queueVars, clientVars
<1>22. ASSUME IndexStore PROVE TypeInv'
  <2>1. IndexType'
    <3>1. off \in Buckets /\ tmpBitmap \in SUBSET Slots /\ tmpFree \in 0..255
      BY <1>0 DEF DealType
    <3>2. bitmap' \in [Buckets -> SUBSET Slots] /\ freecount' \in [Buckets -> 0..255]
      BY <1>0, <1>22, <3>1 DEF IndexStore, IndexType
    <3>3. llock' \in [Buckets -> 0..255]
      BY <1>0, <1>22, <3>1 DEF IndexStore, IndexType
    <3>4. rlock' \in [Buckets -> 0..MaxRlock]
      BY <1>0, <1>22, <3>1 DEF IndexStore, IndexType
    <3> QED BY <3>2, <3>3, <3>4 DEF IndexType
  <2>2. ClientType'
    BY <1>0, <1>22 DEF IndexStore, ClientType
  <2>3. DealType' /\ RelocType'
    BY <1>0, <1>22 DEF IndexStore, DealType, RelocType
  <2>4. ControlType' /\ LoopsInRange'
    BY <1>0, <1>22 DEF IndexStore, ControlType, LoopsInRange
  <2>5. QueueType'
    BY <1>0, <1>22 DEF IndexStore, QueueType
  <2> QED BY <1>0, <1>22, <2>1, <2>2, <2>3, <2>4, <2>5, TypeUnchanged
        DEF IndexStore, TypeInv, TypeOK, indexVars, queueVars, clientVars
<1>23. ASSUME RelocPick PROVE TypeInv'
  <2>1. RelocType'
    BY <1>0, <1>23 DEF RelocPick, RelocType, LineType, DealType, DataLine, Lines, ControlType, LoopsInRange
  <2>2. ControlType' /\ LoopsInRange'
    BY <1>0, <1>23 DEF RelocPick, ControlType, LoopsInRange, dealVars, relocVars
  <2> QED BY <1>0, <1>23, <2>1, <2>2, TypeUnchanged
        DEF RelocPick, TypeInv, TypeOK, indexVars, queueVars, clientVars
<1>24. ASSUME RelocSkip PROVE TypeInv'
  <2>1. ControlType' /\ LoopsInRange'
    BY <1>0, <1>24 DEF RelocSkip, ControlType, LoopsInRange, dealVars, relocVars
  <2> QED BY <1>0, <1>24, <2>1, TypeUnchanged
        DEF RelocSkip, TypeInv, TypeOK, indexVars, queueVars, clientVars
<1>25. ASSUME RelocDone PROVE TypeInv'
  <2>1. ControlType' /\ LoopsInRange'
    BY <1>0, <1>25 DEF RelocDone, ControlType, LoopsInRange, dealVars, relocVars
  <2> QED BY <1>0, <1>25, <2>1, TypeUnchanged
        DEF RelocDone, TypeInv, TypeOK, indexVars, queueVars, clientVars
<1>26. ASSUME ProbeRoom PROVE TypeInv'
  <2>1. ControlType' /\ LoopsInRange'
    BY <1>0, <1>26 DEF ProbeRoom, ControlType, LoopsInRange, RelocType, dealVars, relocVars
  <2> QED BY <1>0, <1>26, <2>1, TypeUnchanged
        DEF ProbeRoom, TypeInv, TypeOK, indexVars, queueVars, clientVars
<1>27. ASSUME ProbeNext PROVE TypeInv'
  <2>1. RelocType'
    BY <1>0, <1>27 DEF ProbeNext, RelocType, ControlType, LoopsInRange
  <2>2. ControlType' /\ LoopsInRange'
    BY <1>0, <1>27 DEF ProbeNext, ControlType, LoopsInRange, dealVars, relocVars
  <2> QED BY <1>0, <1>27, <2>1, <2>2, TypeUnchanged
        DEF ProbeNext, TypeInv, TypeOK, indexVars, queueVars, clientVars
<1>28. ASSUME ProbeEnd PROVE TypeInv'
  <2>1. ControlType' /\ LoopsInRange'
    BY <1>0, <1>28 DEF ProbeEnd, ControlType, LoopsInRange, dealVars, relocVars
  <2> QED BY <1>0, <1>28, <2>1, TypeUnchanged
        DEF ProbeEnd, TypeInv, TypeOK, indexVars, queueVars, clientVars
<1>29. ASSUME LockNeighbour PROVE TypeInv'
  <2>1. IndexType'
    <3>1. neighbour \in Buckets /\ llock[neighbour] \in 0..255
      BY <1>0, <1>29 DEF LockNeighbour, neighbour, RelocType, LoopsInRange, IndexType
    <3>2. Byte(llock[neighbour] + 1) \in 0..255
      BY <3>1, ByteStep
    <3>3. llock' \in [Buckets -> 0..255]
      BY <1>0, <1>29, <3>2, FunctionUpdate DEF LockNeighbour, IndexType
    <3> QED BY <1>0, <1>29, <3>3 DEF LockNeighbour, IndexType
  <2>2. RelocType'
    BY <1>0, <1>29, FromRightType DEF LockNeighbour, RelocType, RelocSlot
  <2>3. ControlType' /\ LoopsInRange'
    BY <1>0, <1>29 DEF LockNeighbour, ControlType, LoopsInRange
  <2>4. QueueType'
    <3>1. neighbour \in Buckets
      BY <1>0, <1>29 DEF LockNeighbour, neighbour, RelocType, LoopsInRange
    <3> QED BY <1>0, <1>29, <3>1, SilentType DEF LockNeighbour
  <2> QED BY <1>0, <1>29, <2>1, <2>2, <2>3, <2>4, TypeUnchanged
        DEF LockNeighbour, TypeInv, TypeOK, indexVars, queueVars, clientVars
<1>30. ASSUME UnlockNeighbour PROVE TypeInv'
  <2>1. IndexType'
    <3>1. neighbour \in Buckets /\ llock[neighbour] \in 0..255
      BY <1>0, <1>30 DEF UnlockNeighbour, neighbour, RelocType, LoopsInRange, IndexType
    <3>2. Byte(llock[neighbour] - 1) \in 0..255
      BY <3>1, ByteStep
    <3>3. llock' \in [Buckets -> 0..255]
      BY <1>0, <1>30, <3>2, FunctionUpdate DEF UnlockNeighbour, IndexType
    <3> QED BY <1>0, <1>30, <3>3 DEF UnlockNeighbour, IndexType
  <2>2. ControlType' /\ LoopsInRange'
    BY <1>0, <1>30 DEF UnlockNeighbour, ControlType, LoopsInRange
  <2> QED BY <1>0, <1>30, <2>1, <2>2, TypeUnchanged
        DEF UnlockNeighbour, TypeInv, TypeOK, indexVars, queueVars, clientVars
<1>31. ASSUME CopyLine PROVE TypeInv'
  <2>1. LineType'
    <3>1. <<off, i>> \in Lines
      BY <1>0, <1>31 DEF CopyLine, LoopsInRange, DealType, Lines
    <3> QED BY <1>0, <1>31, <3>1 DEF CopyLine, LineType, DataLine
  <2>2. ControlType' /\ LoopsInRange'
    BY <1>0, <1>31 DEF CopyLine, ControlType, LoopsInRange, dealVars, relocVars
  <2> QED BY <1>0, <1>31, <2>1, <2>2, TypeUnchanged
        DEF CopyLine, TypeInv, TypeOK, indexVars, queueVars, clientVars
<1>32. ASSUME ValidateCopy PROVE TypeInv'
  <2>1. LineType'
    <3>1. dline' = [dline EXCEPT ![<<neighbour, target>>].valid = VALID]
      BY <1>32 DEF ValidateCopy
    <3> QED BY <1>0, <3>1, LineValid DEF LineType
  <2>2. ControlType' /\ LoopsInRange'
    BY <1>0, <1>32 DEF ValidateCopy, ControlType, LoopsInRange, dealVars, relocVars
  <2> QED BY <1>0, <1>32, <2>1, <2>2, TypeUnchanged
        DEF ValidateCopy, TypeInv, TypeOK, indexVars, queueVars, clientVars
<1>33. ASSUME DropOriginal PROVE TypeInv'
  <2>1. LineType'
    <3>1. dline' = [dline EXCEPT ![<<off, i>>].valid = 0]
      BY <1>33 DEF DropOriginal
    <3> QED BY <1>0, <3>1, LineValid DEF LineType
  <2>2. DealType'
    <3>1. Byte(tmpFree + 1) \in 0..255
      BY <1>0, ByteStep DEF DealType
    <3> QED BY <1>0, <1>33, <3>1 DEF DropOriginal, DealType
  <2>3. RelocType'
    BY <1>0, <1>33 DEF DropOriginal, RelocType, LoopsInRange
  <2>4. ControlType' /\ LoopsInRange'
    BY <1>0, <1>33 DEF DropOriginal, ControlType, LoopsInRange
  <2> QED BY <1>0, <1>33, <2>1, <2>2, <2>3, <2>4, TypeUnchanged
        DEF DropOriginal, TypeInv, TypeOK, indexVars, queueVars, clientVars
<1>34. ASSUME NEW c \in Clients, Break(c) PROVE TypeInv'
  <2>1. ClientType'
    BY <1>0, <1>34 DEF Break, ClientType, BlankLine, DataLine, NoGrant, NoScan
  <2>2. QueueType'
    <3>1. Home[req[c].key] \in Buckets
      BY <1>0, HomeType DEF ClientType, DataLine
    <3> QED BY <1>0, <1>34, <3>1 DEF Break, QueueType
  <2> QED BY <1>0, <1>34, <2>1, <2>2, TypeUnchanged
        DEF Break, TypeInv, TypeOK, indexVars, queueVars, clientVars
<1>35. ASSUME UNCHANGED vars PROVE TypeInv'
  BY <1>0, <1>35, TypeUnchanged DEF vars, dealVars, relocVars, TypeInv, TypeOK
<1> QED BY <1>1, <1>2, <1>3, <1>4, <1>5, <1>6, <1>7, <1>8, <1>9,
           <1>10, <1>11, <1>12, <1>13, <1>14, <1>15, <1>16, <1>17, <1>18,
           <1>19, <1>20, <1>21, <1>22, <1>23, <1>24, <1>25, <1>26, <1>27,
           <1>28, <1>29, <1>30, <1>31, <1>32, <1>33, <1>35, <1>34
        DEF Next, Client, CallFlushed, Server, Deal, Relocate

(* Every variable keeps the type that its declaration gives it, whatever   *)
(* clients and server do (storage.h:45-67; the locals of api.cpp:343-354). *)
THEOREM TypeCorrect == Spec => []TypeOK
<1>1. Init => TypeInv
  BY TypeInit
<1>2. TypeInv /\ [Next]_vars => TypeInv'
  BY TypeNext
<1>3. TypeInv => TypeOK
  BY DEF TypeInv
<1> QED BY <1>1, <1>2, <1>3, PTL DEF Spec

---------------------------------------------------------------------------
(* No two clients own one slot.  SlotExclusive is not inductive: it says   *)
(* nothing of the next slot a bucket hands out.  LockRanks does: every     *)
(* slot out has a rank below the lock count, the next one has it as rank.  *)
LockInv == TypeInv /\ LockRanks /\ SlotExclusive

LEMMA RankType ==
  \A bits : \A s \in Free(bits) : Cardinality(FreeBefore(bits, s)) \in Int
<1>1. ASSUME NEW bits, NEW s \in Free(bits)
      PROVE  Cardinality(FreeBefore(bits, s)) \in Int
  BY <1>1, RankBound
<1> QED BY <1>1

(* The locks that are left keep their ranks and slots when nobody gets a   *)
(* new one and their buckets keep bitmap and count, or count higher.       *)
LEMMA LocksKept ==
  ASSUME TypeOK, TypeOK', LockRanks, SlotExclusive,
         fresh' \subseteq fresh,
         \A c \in fresh' : req'[c] = req[c] /\ grant'[c] = grant[c],
         \A c \in fresh' : LET b == Home[req[c].key] IN
                             bitmap'[b] = bitmap[b] /\ rlock[b] <= rlock'[b]
  PROVE  LockRanks' /\ SlotExclusive'
<1>1. LockRanks'
  <2> SUFFICES ASSUME NEW c \in fresh',
                      NEW b, b = Home[req[c].key]
               PROVE  /\ grant[c].slot \in Free(bitmap'[b])
                      /\ Cardinality(FreeBefore(bitmap'[b], grant[c].slot)) < rlock'[b]
    BY DEF LockRanks
  <2>1. /\ grant[c].slot \in Free(bitmap[b])
        /\ Cardinality(FreeBefore(bitmap[b], grant[c].slot)) < rlock[b]
    BY DEF LockRanks
  <2>2. bitmap'[b] = bitmap[b] /\ rlock[b] <= rlock'[b]
    OBVIOUS
  <2>3. b \in Buckets
    BY HomeType DEF TypeOK, ClientType, DataLine
  <2>4. rlock[b] \in Int /\ rlock'[b] \in Int
    BY <2>3 DEF TypeOK, IndexType
  <2>5. Cardinality(FreeBefore(bitmap[b], grant[c].slot)) \in Int
    BY <2>1, RankType
  <2> HIDE DEF Buckets
  <2> QED BY <2>1, <2>2, <2>4, <2>5
<1>2. SlotExclusive'
  BY DEF SlotExclusive
<1> QED BY <1>1, <1>2

LEMMA LocksUnchanged ==
  ASSUME LockRanks, SlotExclusive, UNCHANGED <<bitmap, rlock, req, grant, fresh>>
  PROVE  LockRanks' /\ SlotExclusive'
  BY DEF LockRanks, SlotExclusive

(* The lock count of a bucket never falls but in IndexStore. *)
LEMMA FetchAndAddCounts ==
  ASSUME IndexType, NEW a \in Buckets, FetchAndAdd(a)
  PROVE  /\ \A b \in Buckets : rlock[b] <= rlock'[b]
         /\ rlock[a] < MaxRlock => rlock'[a] = rlock[a] + 1
<1>1. rlock[a] \in 0..MaxRlock
  BY DEF IndexType
<1>2. rlock' = [rlock EXCEPT ![a] = IF rlock[a] < MaxRlock THEN rlock[a] + 1
                                                          ELSE rlock[a]]
  BY DEF FetchAndAdd
<1>3. rlock[a] < MaxRlock => rlock'[a] = rlock[a] + 1
  BY <1>2 DEF IndexType
<1>4. ASSUME NEW b \in Buckets PROVE rlock[b] <= rlock'[b]
  <2>1. rlock[b] \in 0..MaxRlock
    BY DEF IndexType
  <2>2. CASE b = a
    BY <1>1, <1>2, <2>1, <2>2 DEF IndexType
  <2>3. CASE b # a
    <3>1. rlock'[b] = rlock[b]
      BY <1>2, <2>3 DEF IndexType
    <3> QED BY <2>1, <3>1
  <2> QED BY <2>2, <2>3
<1> QED BY <1>3, <1>4

(* client_write: the slot a client is granted has the old lock count as    *)
(* its rank, the slots that are out have lower ones.                       *)
LEMMA GrantExclusive ==
  ASSUME LockInv, TypeOK',
         NEW c \in Clients, NEW k \in Keys, NEW v \in Values, NEW op \in Opcodes,
         LockGranted(c, k, v, op)
  PROVE  LockRanks' /\ SlotExclusive'
<1> DEFINE b == Home[k]
           s == GrantSlot(b)
           Rank(t) == Cardinality(FreeBefore(bitmap[b], t))
<1>1. b \in Buckets /\ bitmap' = bitmap
  BY HomeType DEF LockGranted
<1>2. rlock[b] \in Int /\ rlock'[b] \in Int
  BY <1>1 DEF LockInv, TypeInv, TypeOK, IndexType
<1>3. s \in Free(bitmap[b]) /\ Rank(s) = rlock[b]
  BY FromLeftRank DEF LockGranted, GrantSlot
<1>4. rlock[b] < MaxRlock
  <2>1. Rank(s) \in 0..(LineNum - 1)
    BY <1>3, RankBound
  <2> QED BY <1>3, <2>1
<1>5. rlock'[b] = rlock[b] + 1 /\ \A a \in Buckets : rlock[a] <= rlock'[a]
  BY <1>1, <1>4, FetchAndAddCounts DEF LockInv, TypeInv, TypeOK, LockGranted
<1>6. c \notin fresh
  BY DEF LockInv, TypeInv, TypeOK, ClientType, LockGranted
<1>7. /\ fresh' = fresh \cup {c}
      /\ req'[c].key = k /\ grant'[c].slot = s
      /\ \A d \in fresh : req'[d] = req[d] /\ grant'[d] = grant[d]
  <2>1. req \in [Clients -> DataLine] /\ DOMAIN grant = Clients
    BY DEF LockInv, TypeInv, TypeOK, ClientType
  <2> QED BY <1>6, <2>1 DEF LockGranted
<1> HIDE DEF s
<1>8. ASSUME NEW d \in fresh
      PROVE  LET a == Home[req[d].key] IN
               /\ a \in Buckets
               /\ grant[d].slot \in Free(bitmap[a])
               /\ Cardinality(FreeBefore(bitmap[a], grant[d].slot)) \in Int
               /\ Cardinality(FreeBefore(bitmap[a], grant[d].slot)) < rlock[a]
  <2>1. Home[req[d].key] \in Buckets
    BY HomeType DEF LockInv, TypeInv, TypeOK, ClientType, DataLine
  <2> QED BY <2>1, RankType DEF LockInv, LockRanks
<1>9. LockRanks'
  <2> SUFFICES ASSUME NEW d \in fresh'
               PROVE  LET a == Home[req'[d].key] IN
                        /\ grant'[d].slot \in Free(bitmap[a])
                        /\ Cardinality(FreeBefore(bitmap[a], grant'[d].slot)) < rlock'[a]
    BY <1>1 DEF LockRanks
  <2>1. CASE d = c
    BY <1>2, <1>3, <1>5, <1>7, <2>1
  <2>2. CASE d \in fresh
    <3> DEFINE a == Home[req[d].key]
    <3>1. rlock[a] \in Int /\ rlock'[a] \in Int /\ rlock[a] <= rlock'[a]
      <4>1. a \in Buckets
        BY <1>8, <2>2
      <4>2. rlock[a] \in 0..MaxRlock
        BY <4>1, IndexTypes DEF LockInv, TypeInv, TypeOK
      <4>3. rlock'[a] \in 0..MaxRlock
        BY <4>1 DEF TypeOK, IndexType
      <4> QED BY <1>5, <4>1, <4>2, <4>3
    <3>2. req'[d] = req[d] /\ grant'[d] = grant[d]
      BY <1>7, <2>2
    <3>3. /\ grant[d].slot \in Free(bitmap[a])
          /\ Cardinality(FreeBefore(bitmap[a], grant[d].slot)) \in Int
          /\ Cardinality(FreeBefore(bitmap[a], grant[d].slot)) < rlock[a]
      BY <1>8, <2>2
    <3> QED BY <3>1, <3>2, <3>3
  <2> QED BY <1>7, <2>1, <2>2
<1>10. SlotExclusive'
  <2>1. ASSUME NEW d \in fresh, Home[req[d].key] = b PROVE grant[d].slot # s
    <3>1. Rank(grant[d].slot) < rlock[b] /\ Rank(grant[d].slot) \in Int
      BY <1>8, <2>1
    <3> QED BY <1>2, <1>3, <3>1
  <2> QED BY <1>6, <1>7, <2>1 DEF LockInv, SlotExclusive
<1> QED BY <1>9, <1>10

LEMMA LockNext == LockInv /\ [Next]_vars => LockInv'
<1> SUFFICES ASSUME LockInv, [Next]_vars PROVE LockInv'
  OBVIOUS
<1>0. TypeInv' /\ TypeOK /\ TypeOK' /\ LockRanks /\ SlotExclusive
  BY TypeNext DEF LockInv, TypeInv
<1> SUFFICES LockRanks' /\ SlotExclusive'
  BY <1>0 DEF LockInv
<1> DEFINE HomeOf(c) == Home[req[c].key]
<1>1. \A c \in fresh : c \in Clients /\ pc[c] = "write" /\ HomeOf(c) \in Buckets
  BY <1>0, HomeType DEF TypeOK, ClientType, DataLine
<1>2. \A b \in Buckets : rlock[b] <= rlock[b]
  BY <1>0 DEF TypeOK, IndexType
<1>3. ASSUME NEW c \in Clients, NEW k \in Keys, LockRefused(c, k)
      PROVE  LockRanks' /\ SlotExclusive'
  <2>1. \A b \in Buckets : rlock[b] <= rlock'[b]
    BY <1>0, <1>3, HomeType, FetchAndAddCounts DEF LockRefused, TypeOK
  <2>2. UNCHANGED <<bitmap, req, grant, fresh>>
    BY <1>3 DEF LockRefused, clientVars
  <2> QED BY <1>0, <1>1, <2>1, <2>2, LocksKept
<1>4. ASSUME NEW c \in Clients, NEW k \in Keys, NEW v \in Values, NEW op \in Opcodes,
             LockGranted(c, k, v, op)
      PROVE  LockRanks' /\ SlotExclusive'
  BY <1>0, <1>4, GrantExclusive
<1>5. ASSUME NEW c \in Clients, EndWrite(c) \/ Break(c)
      PROVE  LockRanks' /\ SlotExclusive'
  <2>1. fresh' \subseteq fresh /\ UNCHANGED <<bitmap, rlock>>
    BY <1>5 DEF EndWrite, Break, indexVars
  <2>2. \A d \in fresh' : req'[d] = req[d] /\ grant'[d] = grant[d]
    BY <1>0, <1>5 DEF EndWrite, Break, TypeOK, ClientType
  <2> QED BY <1>0, <1>1, <1>2, <2>1, <2>2, LocksKept
<1>6. ASSUME NEW c \in Clients, (\E k \in Sought : StartSearch(c, k)) \/ EndSearch(c)
      PROVE  LockRanks' /\ SlotExclusive'
  <2>1. UNCHANGED <<bitmap, rlock, grant, fresh>>
    BY <1>6 DEF StartSearch, EndSearch, indexVars
  <2>2. \A d \in fresh : req'[d] = req[d]
    BY <1>0, <1>1, <1>6 DEF StartSearch, EndSearch, TypeOK, ClientType
  <2> QED BY <1>0, <1>1, <1>2, <2>1, <2>2, LocksKept
<1>7. ASSUME IndexStore PROVE LockRanks' /\ SlotExclusive'
  <2>1. fresh' \subseteq fresh /\ UNCHANGED <<req, grant>>
    BY <1>7 DEF IndexStore
  <2>2. \A c \in fresh' : HomeOf(c) # off /\ c \in fresh
    BY <1>7 DEF IndexStore
  <2>3. \A b \in Buckets : b # off => bitmap'[b] = bitmap[b] /\ rlock'[b] = rlock[b]
    BY <1>0, <1>7 DEF IndexStore, TypeOK, IndexType
  <2> QED BY <1>0, <1>1, <1>2, <2>1, <2>2, <2>3, LocksKept
<1>8. ASSUME NEW c \in Clients, ScanHome(c) \/ ScanNeighbour(c) \/ ScanBucketEnd(c)
      PROVE  LockRanks' /\ SlotExclusive'
  BY <1>0, <1>8, LocksUnchanged
    DEF ScanHome, ScanNeighbour, ScanBucketEnd, indexVars
<1>9. ASSUME \/ PollRecv \/ PostRecv \/ DealBegin \/ RemoteSkip \/ RemoteRetire
             \/ CommitUpsert \/ CommitDelete \/ RemoteDone \/ LocalSlot
             \/ LocalDone \/ ScanSlot \/ ScanDone
      PROVE  LockRanks' /\ SlotExclusive'
  <2>1. UNCHANGED <<bitmap, rlock, req, grant, fresh>>
    BY <1>9 DEF PollRecv, PostRecv, DealBegin, RemoteSkip, RemoteRetire,
                CommitUpsert, CommitDelete, NextRemote, RemoteDone, LocalSlot,
                LocalDone, ScanSlot, ScanDone, indexVars, clientVars
  <2> QED BY <1>0, <2>1, LocksUnchanged
<1>10. ASSUME Relocate PROVE LockRanks' /\ SlotExclusive'
  <2>1. UNCHANGED <<bitmap, rlock, req, grant, fresh>>
    BY <1>10 DEF Relocate, RelocPick, RelocSkip, RelocDone, ProbeRoom, ProbeNext,
                 ProbeEnd, LockNeighbour, UnlockNeighbour, CopyLine,
                 ValidateCopy, DropOriginal, indexVars, clientVars
  <2> QED BY <1>0, <2>1, LocksUnchanged
<1>11. ASSUME UNCHANGED vars PROVE LockRanks' /\ SlotExclusive'
  BY <1>0, <1>11, LocksUnchanged DEF vars, indexVars, clientVars
<1> QED BY <1>3, <1>4, <1>5, <1>6, <1>7, <1>8, <1>9, <1>10, <1>11
        DEF Next, Client, CallFlushed, Write, WriteNotify, Server, Deal

(* Between two resets of a bucket no slot is granted to two clients,       *)
(* however many there are and however their calls interleave with each     *)
(* other and with the server (client_write, api.cpp:560-608).              *)
THEOREM NoSharedSlot == Spec => []SlotExclusive
<1>1. Init => LockInv
  BY TypeInit DEF LockInv, LockRanks, SlotExclusive, Init
<1>2. LockInv /\ [Next]_vars => LockInv'
  BY LockNext
<1>3. LockInv => SlotExclusive
  BY DEF LockInv
<1> QED BY <1>1, <1>2, <1>3, PTL DEF Spec

---------------------------------------------------------------------------
(* No receive request is lost. *)
RecvInv == TypeInv /\ RecvConserved

LEMMA RecvNext == RecvInv /\ [Next]_vars => RecvInv'
<1> SUFFICES ASSUME RecvInv, [Next]_vars PROVE RecvInv'
  OBVIOUS
<1>0. TypeInv' /\ posted \in Nat /\ arrived \in Seq(Buckets) /\ RecvConserved
  BY TypeNext DEF RecvInv, TypeInv, TypeOK, QueueType
<1> SUFFICES RecvConserved'
  BY <1>0 DEF RecvInv
<1>1. ASSUME UNCHANGED <<posted, arrived>>,
             spc' = spc \/ (spc # "repost" /\ spc' # "repost")
      PROVE  RecvConserved'
  BY <1>0, <1>1 DEF RecvConserved
<1>2. ASSUME NEW c \in Clients, WriteNotify(c) PROVE RecvConserved'
  <2>1. Home[req[c].key] \in Buckets
    BY HomeType DEF RecvInv, TypeInv, TypeOK, ClientType, DataLine
  <2>2. Len(arrived') = Len(arrived) + 1 /\ Len(arrived) \in Nat
    BY <1>0, <1>2, <2>1 DEF WriteNotify
  <2>3. posted' = posted - 1 /\ spc' = spc
    BY <1>2 DEF WriteNotify, EndWrite
  <2>4. posted' + Len(arrived') = posted + Len(arrived)
    BY <1>0, <2>2, <2>3
  <2> QED BY <1>0, <2>3, <2>4 DEF RecvConserved
<1>3. ASSUME PollRecv PROVE RecvConserved'
  <2>1. Len(arrived') = Len(arrived) - 1
    BY <1>0, <1>3 DEF PollRecv
  <2>2. spc = "poll" /\ spc' = "repost" /\ posted' = posted
    BY <1>3 DEF PollRecv
  <2> QED BY <1>0, <2>1, <2>2 DEF RecvConserved
<1>4. ASSUME PostRecv PROVE RecvConserved'
  BY <1>0, <1>4 DEF PostRecv, RecvConserved
<1>5. ASSUME NEW c \in Clients, Client(c), ~ WriteNotify(c) PROVE RecvConserved'
  BY <1>1, <1>5 DEF Client, LockRefused, StartSearch, LockGranted, Write, EndWrite,
                    ScanHome, ScanNeighbour, ScanBucketEnd, EndSearch, Break,
                    CallFlushed, vars, queueVars
<1>6. ASSUME Deal PROVE RecvConserved'
  BY <1>1, <1>6 DEF Deal, DealBegin, RemoteSkip, RemoteRetire, CommitUpsert,
                    CommitDelete, NextRemote, RemoteDone, LocalSlot, LocalDone,
                    ScanSlot, ScanDone, IndexStore, queueVars
<1>7. ASSUME Relocate PROVE RecvConserved'
  BY <1>1, <1>7 DEF Relocate, RelocPick, RelocSkip, RelocDone, ProbeRoom,
                    ProbeNext, ProbeEnd, LockNeighbour, UnlockNeighbour,
                    CopyLine, ValidateCopy, DropOriginal, queueVars
<1>8. ASSUME UNCHANGED vars PROVE RecvConserved'
  BY <1>1, <1>8 DEF vars, queueVars
<1> QED BY <1>2, <1>3, <1>4, <1>5, <1>6, <1>7, <1>8 DEF Next, Server

(* Every receive request that server_check posted at start is posted, used *)
(* by an immediate that waits, or about to be posted again: the server     *)
(* never loses the credit that lets the next client announce a full bucket *)
(* (server_check, api.cpp:231-254).                                        *)
THEOREM ReceivesConserved == Spec => []RecvConserved
<1>1. Init => RecvInv
  BY TypeInit DEF RecvInv, RecvConserved, Init
<1>2. RecvInv /\ [Next]_vars => RecvInv'
  BY RecvNext
<1>3. RecvInv => RecvConserved
  BY DEF RecvInv
<1> QED BY <1>1, <1>2, <1>3, PTL DEF Spec

---------------------------------------------------------------------------
(* What the loops of server_search leave, by induction over the slots of   *)
(* the home bucket (RenoLocalProofs needs it).                             *)
HomeLine(key, s) == dline[<<Home[key], s>>]
Holds(key, s, kinds) == HomeLine(key, s).key = key /\ HomeLine(key, s).valid \in kinds

(* The loop of ServerParse, as the function it defines.                    *)
ParsedUpTo(key, m, f) ==
  f = [n \in 0..m |-> IF n = 0 THEN NoScan ELSE ServerLine(f[n - 1], key, HomeLine(key, n - 1))]

(* Such a function exists: if it did for no number of slots, then not for  *)
(* a least one, and the loop adds one to the one before.                   *)
LEMMA ParseExists ==
  ASSUME NEW key PROVE \E f : ParsedUpTo(key, LineNum, f)
<1> DEFINE T == {m \in 0..LineNum : ~\E f : ParsedUpTo(key, m, f)}
<1>1. SUFFICES ASSUME T # {} PROVE FALSE
  OBVIOUS
<1>2. PICK m \in T : \A n \in T : m <= n
  <2>1. T \in SUBSET Nat
    OBVIOUS
  <2> QED BY <1>1, <2>1, NatMin
<1>3. m # 0
  <2>1. ParsedUpTo(key, 0, [n \in 0..0 |-> NoScan])
    BY DEF ParsedUpTo
  <2> QED BY <2>1
<1>4. m - 1 \in 0..LineNum /\ m - 1 \notin T /\ m \in 1..LineNum
  BY <1>2, <1>3
<1>5. PICK f : ParsedUpTo(key, m - 1, f)
  BY <1>4
<1> DEFINE g == [n \in 0..m |-> IF n = m THEN ServerLine(f[m - 1], key, HomeLine(key, m - 1))
                                         ELSE f[n]]
<1>6. ParsedUpTo(key, m, g)
  <2>1. \A n \in 0..(m - 1) :
          /\ f[n] = IF n = 0 THEN NoScan ELSE ServerLine(f[n - 1], key, HomeLine(key, n - 1))
          /\ g[n] = f[n]
    BY <1>4, <1>5 DEF ParsedUpTo
  <2>2. \A n \in 0..m : n # 0 => n - 1 \in 0..(m - 1)
    BY <1>4
  <2>3. ASSUME NEW n \in 0..m
        PROVE  g[n] = IF n = 0 THEN NoScan
                               ELSE ServerLine(g[n - 1], key, HomeLine(key, n - 1))
    <3>1. CASE n = m
      <4>1. g[m - 1] = f[m - 1] /\ n # 0
        BY <1>4, <2>1, <3>1
      <4> HIDE DEF g
      <4>2. g[n] = ServerLine(f[m - 1], key, HomeLine(key, m - 1))
        BY <3>1 DEF g
      <4> QED BY <3>1, <4>1, <4>2
    <3>2. CASE n # m
      <4>1. n \in 0..(m - 1)
        BY <1>4, <3>2
      <4>2. n # 0 => g[n - 1] = f[n - 1]
        BY <2>1, <2>2
      <4> HIDE DEF g
      <4> QED BY <2>1, <4>1, <4>2
    <3> QED BY <3>1, <3>2
  <2>4. g = [n \in 0..m |-> g[n]]
    OBVIOUS
  <2> HIDE DEF g
  <2> QED BY <2>3, <2>4 DEF ParsedUpTo
<1> HIDE DEF g
<1> QED BY <1>2, <1>6

LEMMA ParseIs ==
  ASSUME NEW key
  PROVE  \E f : ParsedUpTo(key, LineNum, f) /\ ServerParse(key) = f[LineNum]
<1> DEFINE found == CHOOSE f : ParsedUpTo(key, LineNum, f)
<1>1. ParsedUpTo(key, LineNum, found)
  BY ParseExists
<1>2. ServerParse(key) = found[LineNum]
  BY DEF ServerParse, ParsedUpTo, HomeLine
<1> HIDE DEF found
<1> QED BY <1>1, <1>2

(* What is known after n lines of the home bucket: the last pending one    *)
(* decides; without one, the first VALID one.                              *)
Decides(key, found, s, n) ==
  /\ Holds(key, s, {found.exist})
  /\ found.exist # DELETE => found.value = HomeLine(key, s).value
  /\ found.exist = VALID => \A t \in 0..(s - 1) : ~Holds(key, t, {VALID})
  /\ found.exist # VALID => \A t \in (s + 1)..(n - 1) : ~Holds(key, t, {UPSERT, DELETE})

ParsedHome(key, found, n) ==
  /\ found \in ScanState
  /\ found.exist \in {0, VALID} => \A t \in 0..(n - 1) : ~Holds(key, t, {UPSERT, DELETE})
  /\ found.exist = 0 => \A t \in 0..(n - 1) : ~Holds(key, t, {VALID})
  /\ found.exist # 0 => \E s \in 0..(n - 1) : Decides(key, found, s, n)

LEMMA ServerLineType ==
  ASSUME NEW found \in ScanState, NEW key, NEW l \in DataLine
  PROVE  ServerLine(found, key, l) \in ScanState
  BY DEF ServerLine, DataLine, ScanState, VALID, UPSERT, DELETE

LEMMA ParseStep ==
  ASSUME NEW key, NEW n \in Slots, NEW found, HomeLine(key, n) \in DataLine,
         ParsedHome(key, found, n)
  PROVE  ParsedHome(key, ServerLine(found, key, HomeLine(key, n)), n + 1)
<1> DEFINE l == HomeLine(key, n)
           next == ServerLine(found, key, l)
<1>1. l \in DataLine /\ found \in ScanState /\ next \in ScanState
  BY ServerLineType DEF ParsedHome
<1>2. l.valid \in {0, VALID, UPSERT, DELETE} /\ found.exist \in {0, VALID, UPSERT, DELETE}
  BY <1>1 DEF DataLine, ScanState, VALID, UPSERT, DELETE
<1>3. \A t : t \in 0..((n + 1) - 1) <=> t \in 0..(n - 1) \/ t = n
  OBVIOUS
<1>4. \A kinds : Holds(key, n, kinds) <=> l.key = key /\ l.valid \in kinds
  BY DEF Holds
<1>5. CASE l.key # key \/ l.valid = 0 \/ (l.valid = VALID /\ found.exist # 0)
  <2>1. next = found
    BY <1>2, <1>5 DEF ServerLine, VALID, UPSERT, DELETE
  <2>2. ~Holds(key, n, {UPSERT, DELETE}) /\ (found.exist = 0 => ~Holds(key, n, {VALID}))
    BY <1>4, <1>5 DEF VALID, UPSERT, DELETE
  <2>3. found.exist \in {0, VALID} => \A t \in 0..((n + 1) - 1) : ~Holds(key, t, {UPSERT, DELETE})
    BY <1>3, <2>2 DEF ParsedHome
  <2>4. found.exist = 0 => \A t \in 0..((n + 1) - 1) : ~Holds(key, t, {VALID})
    BY <1>3, <2>2 DEF ParsedHome
  <2>5. ASSUME found.exist # 0
        PROVE  \E s \in 0..((n + 1) - 1) : Decides(key, found, s, n + 1)
    <3>1. PICK s \in 0..(n - 1) : Decides(key, found, s, n)
      BY <2>5 DEF ParsedHome
    <3>2. \A t \in (s + 1)..((n + 1) - 1) : t \in (s + 1)..(n - 1) \/ t = n
      OBVIOUS
    <3>3. s \in 0..((n + 1) - 1)
      BY <1>3
    <3>4. Decides(key, found, s, n + 1)
      BY <2>2, <3>1, <3>2 DEF Decides
    <3> QED BY <3>3, <3>4
  <2>6. ParsedHome(key, found, n + 1)
    BY <1>1, <2>3, <2>4, <2>5 DEF ParsedHome
  <2> QED BY <2>1, <2>6
<1>6. CASE ~(l.key # key \/ l.valid = 0 \/ (l.valid = VALID /\ found.exist # 0))
  <2>1. /\ next.exist = l.valid /\ l.key = key /\ l.valid # 0
        /\ l.valid # DELETE => next.value = l.value
        /\ l.valid = VALID => found.exist = 0
    BY <1>1, <1>2, <1>6 DEF ServerLine, ScanState, VALID, UPSERT, DELETE
  <2>2. Holds(key, n, {next.exist}) /\ n \in 0..((n + 1) - 1)
    BY <1>3, <1>4, <2>1
  <2>3. CASE l.valid = VALID
    <3>1. /\ \A t \in 0..(n - 1) : ~Holds(key, t, {UPSERT, DELETE})
          /\ \A t \in 0..(n - 1) : ~Holds(key, t, {VALID})
      BY <2>1, <2>3 DEF ParsedHome
    <3>2. ~Holds(key, n, {UPSERT, DELETE})
      BY <1>4, <2>3 DEF VALID, UPSERT, DELETE
    <3>3. \A t \in 0..((n + 1) - 1) : ~Holds(key, t, {UPSERT, DELETE})
      BY <1>3, <3>1, <3>2
    <3>4. next.exist = VALID /\ next.value = l.value
      BY <2>1, <2>3 DEF VALID, DELETE
    <3>5. Decides(key, next, n, n + 1)
      BY <2>2, <3>1, <3>4 DEF Decides
    <3> HIDE DEF next
    <3>6. ParsedHome(key, next, n + 1)
      BY <1>1, <2>2, <3>3, <3>4, <3>5 DEF ParsedHome, VALID
    <3> QED BY <3>6 DEF next
  <2>4. CASE l.valid # VALID
    <3>1. next.exist \in {UPSERT, DELETE}
      BY <1>2, <2>1, <2>4
    <3>2. \A t \in (n + 1)..((n + 1) - 1) : FALSE
      OBVIOUS
    <3>3. Decides(key, next, n, n + 1)
      BY <2>1, <2>2, <3>1, <3>2 DEF Decides, VALID, UPSERT, DELETE
    <3> HIDE DEF next
    <3>4. ParsedHome(key, next, n + 1)
      BY <1>1, <2>2, <3>1, <3>3 DEF ParsedHome, VALID, UPSERT, DELETE
    <3> QED BY <3>4 DEF next
  <2> QED BY <2>3, <2>4
<1> QED BY <1>5, <1>6

LEMMA HomeLines ==
  ASSUME LineType, NEW key \in Keys, NEW s \in Slots
  PROVE  <<Home[key], s>> \in Lines /\ HomeLine(key, s) \in DataLine
<1>1. <<Home[key], s>> \in Lines
  BY HomeType DEF Lines
<1> QED BY <1>1 DEF LineType, HomeLine

LEMMA ParseFinds ==
  ASSUME LineType, NEW key \in Keys
  PROVE  ParsedHome(key, ServerParse(key), LineNum)
<1>1. PICK f : ParsedUpTo(key, LineNum, f) /\ ServerParse(key) = f[LineNum]
  BY ParseIs
<1>2. /\ f[0] = NoScan
      /\ \A n \in Slots : f[n + 1] = ServerLine(f[n], key, HomeLine(key, n))
  <2>1. \A n \in 0..LineNum :
          f[n] = IF n = 0 THEN NoScan ELSE ServerLine(f[n - 1], key, HomeLine(key, n - 1))
    BY <1>1 DEF ParsedUpTo
  <2>2. ASSUME NEW n \in Slots PROVE f[n + 1] = ServerLine(f[n], key, HomeLine(key, n))
    <3>1. n + 1 \in 0..LineNum /\ n + 1 # 0 /\ (n + 1) - 1 = n
      OBVIOUS
    <3> QED BY <2>1, <3>1
  <2>3. 0 \in 0..LineNum
    OBVIOUS
  <2> QED BY <2>1, <2>2, <2>3
<1> DEFINE T == {n \in 0..LineNum : ~ParsedHome(key, f[n], n)}
<1>3. SUFFICES ASSUME T # {} PROVE FALSE
  BY <1>1
<1>4. PICK n \in T : \A m \in T : n <= m
  <2>1. T \in SUBSET Nat
    OBVIOUS
  <2> QED BY <1>3, <2>1, NatMin
<1>5. ParsedHome(key, f[0], 0)
  <2>1. NoScan \in ScanState
    BY DEF NoScan, ScanState
  <2> QED BY <1>2, <2>1 DEF ParsedHome, NoScan
<1>6. n # 0
  BY <1>4, <1>5
<1>7. n - 1 \in Slots /\ n - 1 \notin T /\ (n - 1) + 1 = n
  BY <1>4, <1>6
<1>8. ParsedHome(key, f[n - 1], n - 1)
  BY <1>7
<1>9. HomeLine(key, n - 1) \in DataLine
  BY <1>7, HomeLines
<1>10. ParsedHome(key, ServerLine(f[n - 1], key, HomeLine(key, n - 1)), (n - 1) + 1)
  BY <1>7, <1>8, <1>9, ParseStep
<1>11. f[(n - 1) + 1] = ServerLine(f[n - 1], key, HomeLine(key, n - 1))
  BY <1>2, <1>7
<1> QED BY <1>4, <1>7, <1>10, <1>11

(* The first of some lines is one of them, and there is no other first.    *)
LEMMA FirstIs ==
  ASSUME NEW hits \in SUBSET Lines, NEW l \in hits, \A m \in hits : Precedes(l, m)
  PROVE  FirstOf(hits) = l
<1>1. FirstOf(hits) \in hits /\ \A m \in hits : Precedes(FirstOf(hits), m)
  BY DEF FirstOf
<1>2. PICK f \in hits : f = FirstOf(hits)
  BY <1>1
<1>3. Precedes(f, l) /\ Precedes(l, f)
  BY <1>1, <1>2
<1>4. f \in Lines /\ l \in Lines
  OBVIOUS
<1>5. f = <<f[1], f[2]>> /\ l = <<l[1], l[2]>>
  BY <1>4 DEF Lines
<1>6. f[1] \in Int /\ f[2] \in Int /\ l[1] \in Int /\ l[2] \in Int
  BY <1>4 DEF Lines
<1>7. f[1] = l[1] /\ f[2] = l[2]
  BY <1>3, <1>6 DEF Precedes
<1> QED BY <1>2, <1>5, <1>7

GroupHits(key) ==
  {l \in Lines : /\ l[1] \in Home[key]..(Home[key] + BucketNum - 1)
                 /\ dline[l].key = key /\ dline[l].valid = VALID}

LEMMA SearchOldIs ==
  ASSUME NEW key
  PROVE  SearchOld(key) = IF GroupHits(key) = {} THEN NoLine ELSE FirstOf(GroupHits(key))
  BY DEF SearchOld, FirstOf, GroupHits

(* Whatever the lines hold, server_search finds what decides for Lookup:   *)
(* the last pending line of the home bucket, or else the first VALID line. *)
LEMMA ServerSearchIs ==
  ASSUME LineType, NEW key \in Keys
  PROVE  ServerSearch(key) = Lookup(key)
<1> DEFINE found == ServerParse(key)
           pending == PendingSlots(key)
           hits == GroupHits(key)
<1>1. ParsedHome(key, found, LineNum)
  BY ParseFinds
<1>2. found.exist \in {0, VALID, UPSERT, DELETE}
  BY <1>1 DEF ParsedHome, ScanState, VALID, UPSERT, DELETE
<1>3. pending = {s \in Slots : Holds(key, s, {UPSERT, DELETE})}
  BY DEF PendingSlots, Holds, HomeLine
<1>4. Home[key] \in Nat /\ \A s \in Slots : <<Home[key], s>> \in Lines
  BY HomeLines
<1>5. SearchOld(key) = IF hits = {} THEN NoLine ELSE FirstOf(hits)
  BY SearchOldIs
<1>6. /\ hits \in SUBSET Lines /\ NoLine \notin Lines
      /\ \A l \in Lines : l[1] \in Int /\ l[2] \in Slots /\ l = <<l[1], l[2]>>
  BY DEF GroupHits, Lines, NoLine
<1>7. hits # {} => FirstOf(hits) \in hits /\ FirstOf(hits) # NoLine
  <2>1. hits # {} => \E l \in hits : \A m \in hits : Precedes(l, m)
    BY <1>6, FirstLine
  <2> QED BY <1>6, <2>1 DEF FirstOf
<1>8. pending = {} => Lookup(key) = IF hits = {} THEN NoValue ELSE dline[FirstOf(hits)].value
  BY <1>5, <1>7 DEF Lookup
<1>9. CASE found.exist = 0
  <2>1. \A t \in Slots : ~Holds(key, t, {UPSERT, DELETE}) /\ ~Holds(key, t, {VALID})
    BY <1>1, <1>9 DEF ParsedHome
  <2>2. pending = {}
    BY <1>3, <2>1
  <2>3. hits = NeighbourHits(key)
    <3>1. \A l \in hits : l[1] # Home[key]
      <4> SUFFICES ASSUME NEW l \in hits, l[1] = Home[key] PROVE FALSE
        OBVIOUS
      <4>1. l[2] \in Slots /\ l = <<Home[key], l[2]>>
        BY <1>6
      <4>2. Holds(key, l[2], {VALID})
        BY <4>1 DEF Holds, HomeLine, GroupHits
      <4> QED BY <2>1, <4>1, <4>2
    <3>2. \A l \in hits : l \in NeighbourHits(key)
      BY <1>4, <1>6, <3>1 DEF GroupHits, NeighbourHits
    <3>3. \A l \in NeighbourHits(key) : l \in hits
      BY <1>4, <1>6 DEF GroupHits, NeighbourHits
    <3> QED BY <3>2, <3>3
  <2>4. ServerSearch(key) = IF NeighbourHits(key) = {} THEN NoValue
                            ELSE dline[FirstOf(NeighbourHits(key))].value
    BY <1>9 DEF ServerSearch, DELETE
  <2> QED BY <1>8, <2>2, <2>3, <2>4
<1>10. CASE found.exist = VALID
  <2>1. /\ \A t \in Slots : ~Holds(key, t, {UPSERT, DELETE})
        /\ \E s \in Slots : Decides(key, found, s, LineNum)
    <3> HIDE DEF found, pending, hits
    <3>1. found.exist # 0
      BY <1>10 DEF VALID
    <3>2. \A t \in Slots : ~Holds(key, t, {UPSERT, DELETE})
      BY <1>1, <1>10 DEF ParsedHome
    <3>3. \E s \in Slots : Decides(key, found, s, LineNum)
      BY <1>1, <3>1 DEF ParsedHome
    <3> QED BY <3>2, <3>3
  <2>2. pending = {}
    BY <1>3, <2>1
  <2>3. PICK s \in Slots : Decides(key, found, s, LineNum)
    BY <2>1
  <2> DEFINE l == <<Home[key], s>>
  <2>4. /\ Holds(key, s, {VALID}) /\ found.value = dline[l].value
        /\ \A t \in 0..(s - 1) : ~Holds(key, t, {VALID})
    BY <1>10, <2>3 DEF Decides, HomeLine, VALID, DELETE
  <2>5. l \in hits
    BY <1>4, <2>4 DEF Holds, HomeLine, GroupHits
  <2>6. \A m \in hits : Precedes(l, m)
    <3> SUFFICES ASSUME NEW m \in hits PROVE Precedes(l, m)
      OBVIOUS
    <3>1. m[1] \in Int /\ m[1] >= Home[key] /\ m[2] \in Slots /\ m = <<m[1], m[2]>>
      BY <1>4, <1>6 DEF GroupHits
    <3>2. m[1] = Home[key] => s <= m[2]
      <4> SUFFICES ASSUME m[1] = Home[key], ~(s <= m[2]) PROVE FALSE
        OBVIOUS
      <4>1. m[2] \in 0..(s - 1)
        BY <3>1
      <4>2. m = <<Home[key], m[2]>>
        BY <3>1
      <4>3. Holds(key, m[2], {VALID})
        BY <4>2 DEF Holds, HomeLine, GroupHits
      <4> QED BY <2>4, <4>1, <4>3
    <3> QED BY <1>4, <3>1, <3>2 DEF Precedes
  <2>7. FirstOf(hits) = l
    BY <1>6, <2>5, <2>6, FirstIs
  <2>8. ServerSearch(key) = found.value
    BY <1>10 DEF ServerSearch, VALID, DELETE
  <2> QED BY <1>8, <2>2, <2>4, <2>5, <2>7, <2>8
<1>11. CASE found.exist \in {UPSERT, DELETE}
  <2>1. PICK s \in Slots : Decides(key, found, s, LineNum)
    BY <1>1, <1>11 DEF ParsedHome, UPSERT, DELETE
  <2>2. /\ Holds(key, s, {found.exist})
        /\ found.exist # DELETE => found.value = HomeLine(key, s).value
        /\ \A t \in (s + 1)..(LineNum - 1) : ~Holds(key, t, {UPSERT, DELETE})
    BY <1>11, <2>1 DEF Decides, UPSERT, DELETE, VALID
  <2>3. s \in pending
    BY <1>3, <1>11, <2>2 DEF Holds
  <2>4. \A t \in pending : t <= s
    <3> SUFFICES ASSUME NEW t \in pending, ~(t <= s) PROVE FALSE
      OBVIOUS
    <3>1. t \in Slots /\ Holds(key, t, {UPSERT, DELETE})
      BY <1>3
    <3>2. t \in (s + 1)..(LineNum - 1)
      BY <3>1
    <3> QED BY <2>2, <3>1, <3>2
  <2> DEFINE last == CHOOSE u \in pending : \A t \in pending : t <= u
  <2>5. last = s
    <3>1. last \in pending /\ \A t \in pending : t <= last
      BY <2>3, <2>4
    <3>2. last \in Slots /\ s <= last /\ last <= s
      BY <1>3, <2>3, <2>4, <3>1
    <3> QED BY <3>2
  <2>6. Lookup(key) = IF HomeLine(key, last).valid = DELETE THEN NoValue
                      ELSE HomeLine(key, last).value
    BY <2>3 DEF Lookup, HomeLine
  <2>7. HomeLine(key, s).valid = found.exist
    BY <2>2 DEF Holds
  <2>8. ServerSearch(key) = IF found.exist = DELETE THEN NoValue ELSE found.value
    BY <1>11 DEF ServerSearch, UPSERT, DELETE
  <2> HIDE DEF last, found
  <2> QED BY <1>11, <2>2, <2>5, <2>6, <2>7, <2>8 DEF UPSERT, DELETE
<1> QED BY <1>2, <1>9, <1>10, <1>11
===========================================================================
