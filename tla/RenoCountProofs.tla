--------------------------- MODULE RenoCountProofs ---------------------------
(***************************************************************************)
(* Theorems of RenoTable about the bookkeeping of a bucket, for every      *)
(* number of clients, keys, buckets and slots: what protects a VALID line; *)
(* that a full bucket is announced, but for the two ways in which it fills *)
(* silently; as long as nobody deletes, that the free count is exact, and  *)
(* a full bucket announced once and full until it has been tidied; with    *)
(* deletes, that the free count promises nothing that is not there, in a   *)
(* run in which relocate's test of a neighbour is never overtaken.         *)
(***************************************************************************)
EXTENDS RenoTableProofs

USE LineNumAssumption, TableAssumption DEF Slots, NoSlot, Buckets

---------------------------------------------------------------------------
(* What protects VALID lines. *)
Valid(b, s) == dline[<<b, s>>].valid = VALID

(* deal_pending has made its copy of the index word. *)
Copied  == spc \notin {"poll", "repost", "begin"}
(* It has gone through both kinds of locks. *)
Settled == Copied /\ spc \notin {"remote", "commit", "local"}

(* No bucket has more local locks than free slots, but for the moment in   *)
(* which relocate takes one and finds no slot for it.                      *)
LockBounds ==
  /\ \A b \in Buckets : ~(spc = "unlock" /\ b = neighbour) =>
       llock[b] <= Cardinality(Free(bitmap[b]))
  /\ spc \in {"lock", "unlock", "copy", "validate", "drop"} => neighbour # off
  /\ spc = "unlock" => llock[neighbour] = Cardinality(Free(bitmap[neighbour])) + 1
  /\ spc \in {"copy", "validate"} => target \in LocallyLocked(neighbour)

(* The copy of the bitmap keeps the bits of VALID lines; step 2 adds those *)
(* of the locked slots it has passed, and from step 3 on it has them all.  *)
PassCovers ==
  /\ ~Copied => tmpBitmap = {}
  /\ Copied => \A s \in bitmap[off] : Valid(off, s) => s \in tmpBitmap
  /\ spc \in {"remote", "commit"} => llockReal = llock[off]
  /\ spc = "commit" /\ old # NoLine => dline[old].valid # VALID
  /\ spc = "local" =>
       /\ llockReal + Cardinality(FreeAfter(bitmap[off], i)) = llock[off]
       /\ \A s \in Free(bitmap[off]) : s > i /\ Valid(off, s) => s \in tmpBitmap
  /\ Settled => \A s \in Slots : Valid(off, s) => s \in tmpBitmap

NoneSendsValid == \A c \in Clients : req[c].valid # VALID

CoverInv == TypeInv /\ LockBounds /\ PassCovers /\ ValidCovered /\ NoneSendsValid


LEMMA CoverInit == Init => CoverInv
<1> SUFFICES ASSUME Init PROVE CoverInv
  OBVIOUS
<1>1. TypeInv
  BY TypeInit
<1>2. LockBounds
  BY FreeCounts DEF Init, LockBounds
<1>3. PassCovers /\ NoneSendsValid
  BY DEF Init, PassCovers, NoneSendsValid, Copied, Settled, BlankLine, VALID
<1>4. ValidCovered
  BY DEF Init, ValidCovered, BlankLine, VALID, Lines
<1> QED BY <1>1, <1>2, <1>3, <1>4 DEF CoverInv

(* Steps that touch no bitmap, no local lock and nothing of the server's   *)
(* control, and that make no line VALID: those of the clients.             *)
LEMMA CoverKept ==
  ASSUME TypeOK, LockBounds, PassCovers, ValidCovered,
         UNCHANGED <<bitmap, llock, spc, i, dealVars, relocVars>>,
         \A l \in Lines : dline'[l].valid = VALID => dline[l].valid = VALID
  PROVE  LockBounds' /\ PassCovers' /\ ValidCovered'
<1>1. LockBounds'
  BY DEF LockBounds, neighbour, LocallyLocked, dealVars, relocVars
<1>2. \A b \in Buckets, s \in Slots : Valid(b, s)' => Valid(b, s)
  BY DEF Valid, Lines
<1>3. PassCovers'
  <2>1. UNCHANGED <<spc, i, off, bitmap, llock, llockReal, tmpBitmap, old>>
    BY DEF dealVars
  <2>2. /\ old # NoLine => old \in Lines
        /\ off \in Buckets /\ bitmap[off] \subseteq Slots
    BY DEF TypeOK, DealType, IndexType
  <2>3. (Copied' <=> Copied) /\ (Settled' <=> Settled)
    BY <2>1 DEF Copied, Settled
  <2>4. \A s \in Slots : Valid(off, s)' => Valid(off, s)
    BY <1>2, <2>1, <2>2
  <2>5. Copied => \A s \in bitmap[off] : Valid(off, s)' => s \in tmpBitmap
    BY <2>2, <2>4 DEF PassCovers
  <2>6. spc = "commit" /\ old # NoLine => dline'[old].valid # VALID
    BY <2>2 DEF PassCovers
  <2>7. spc = "local" => \A s \in Free(bitmap[off]) :
                             s > i /\ Valid(off, s)' => s \in tmpBitmap
    BY <2>4 DEF PassCovers, Free
  <2>8. Settled => \A s \in Slots : Valid(off, s)' => s \in tmpBitmap
    BY <2>4 DEF PassCovers
  <2> QED BY <2>1, <2>3, <2>5, <2>6, <2>7, <2>8 DEF PassCovers
<1>4. ValidCovered'
  BY <1>2 DEF ValidCovered, Valid, LocallyLocked, Dealing, dealVars
<1> QED BY <1>1, <1>3, <1>4
LEMMA ClientLeaves ==
  ASSUME NEW c \in Clients, Client(c)
  PROVE  UNCHANGED <<bitmap, freecount, llock, spc, i, dealVars, relocVars>>
  BY DEF Client, LockRefused, StartSearch, LockGranted, Write, WriteNotify, EndWrite,
         ScanHome, ScanNeighbour, ScanBucketEnd, EndSearch, Break, CallFlushed,
         vars, indexVars

(* What a client's step does to a line: it writes its request there.       *)
LEMMA ClientLine ==
  ASSUME TypeOK, NEW c \in Clients, Client(c)
  PROVE  \A l \in Lines : dline'[l] = dline[l] \/ dline'[l] = req[c]
<1>1. CASE EndWrite(c)
  BY <1>1 DEF EndWrite, TypeOK, LineType
<1>2. CASE dline' = dline
  BY <1>2
<1> QED BY <1>1, <1>2
        DEF Client, LockRefused, StartSearch, LockGranted, Write, WriteNotify,
            ScanHome, ScanNeighbour, ScanBucketEnd, EndSearch, Break, CallFlushed, vars

(* A client's request is one that it sends, a key that it seeks, or none.  *)
LEMMA ClientRequest ==
  ASSUME TypeOK, NEW c \in Clients, Client(c)
  PROVE  \A d \in Clients : req'[d] = req[d] \/ req'[d].valid \in {0} \cup Opcodes
<1>1. req \in [Clients -> DataLine]
  BY DEF TypeOK, ClientType
<1>2. CASE UNCHANGED req
  BY <1>2
<1>3. CASE EndWrite(c) \/ Break(c) \/ EndSearch(c)
  BY <1>1, <1>3 DEF EndWrite, Break, EndSearch, BlankLine
<1>4. ASSUME NEW k, StartSearch(c, k) PROVE \A d \in Clients :
        req'[d] = req[d] \/ req'[d].valid \in {0} \cup Opcodes
  BY <1>1, <1>4 DEF StartSearch, BlankLine
<1>5. ASSUME NEW k, NEW v, NEW op \in Opcodes, LockGranted(c, k, v, op)
      PROVE  \A d \in Clients : req'[d] = req[d] \/ req'[d].valid \in {0} \cup Opcodes
  BY <1>1, <1>5 DEF LockGranted
<1> QED BY <1>2, <1>3, <1>4, <1>5
        DEF Client, LockRefused, Write, WriteNotify, ScanHome, ScanNeighbour,
            ScanBucketEnd, CallFlushed, vars, clientVars

LEMMA ClientCover ==
  ASSUME CoverInv, NEW c \in Clients, Client(c)
  PROVE  LockBounds' /\ PassCovers' /\ ValidCovered' /\ NoneSendsValid'
<1>0. TypeOK /\ LockBounds /\ PassCovers /\ ValidCovered /\ NoneSendsValid
  BY DEF CoverInv, TypeInv
<1>1. \A l \in Lines : dline'[l].valid = VALID => dline[l].valid = VALID
  BY <1>0, ClientLine DEF NoneSendsValid
<1>2. LockBounds' /\ PassCovers' /\ ValidCovered'
  BY <1>0, <1>1, ClientLeaves, CoverKept
<1>3. NoneSendsValid'
  BY <1>0, ClientRequest DEF NoneSendsValid, VALID, UPSERT, DELETE
<1> QED BY <1>2, <1>3

---------------------------------------------------------------------------
(* The server's steps, part by part. *)
LEMMA ServerLeaves == Server => UNCHANGED <<req, grant, pc, scan>>
  BY DEF Server, PollRecv, PostRecv, Deal, DealBegin, RemoteSkip, RemoteRetire,
         CommitUpsert, CommitDelete, NextRemote, RemoteDone, LocalSlot, LocalDone,
         ScanSlot, ScanDone, IndexStore, Relocate, RelocPick, RelocSkip, RelocDone,
         ProbeRoom, ProbeNext, ProbeEnd, LockNeighbour, UnlockNeighbour, CopyLine,
         ValidateCopy, DropOriginal, clientVars

NeighbourType == spc \in {"lock", "unlock", "copy", "validate", "drop"}
                   => neighbour \in Buckets /\ neighbour \in Int

LEMMA NeighbourInTable == TypeInv => NeighbourType
<1> SUFFICES ASSUME TypeInv, spc \in {"lock", "unlock", "copy", "validate", "drop"}
             PROVE  neighbour \in Buckets /\ neighbour \in Int
  BY DEF NeighbourType
<1>1. hashOff \in 0..(IndexNum - 1) /\ j \in 0..(BucketNum - 1)
  BY DEF TypeInv, TypeOK, RelocType, LoopsInRange
<1> QED BY <1>1 DEF neighbour

LEMMA LockBoundsServer ==
  ASSUME CoverInv, Server PROVE LockBounds'
<1>0. TypeInv /\ TypeOK /\ LockBounds /\ NeighbourType
  BY NeighbourInTable DEF CoverInv, TypeInv
<1>1. /\ bitmap \in [Buckets -> SUBSET Slots] /\ llock \in [Buckets -> 0..255]
      /\ off \in Buckets
      /\ \A b \in Buckets : Cardinality(Free(bitmap[b])) \in 0..LineNum
  BY <1>0, FreeCounts DEF TypeOK, IndexType, DealType
<1>2. CASE \/ PollRecv \/ PostRecv \/ DealBegin \/ RemoteSkip \/ RemoteRetire
           \/ CommitUpsert \/ CommitDelete \/ RemoteDone \/ LocalSlot \/ LocalDone
           \/ ScanSlot \/ ScanDone \/ RelocPick \/ RelocSkip \/ RelocDone
           \/ ProbeNext \/ ProbeEnd \/ DropOriginal
  <2>1. UNCHANGED <<bitmap, llock>>
    BY <1>2 DEF PollRecv, PostRecv, DealBegin, RemoteSkip, RemoteRetire,
         CommitUpsert, CommitDelete, NextRemote, RemoteDone, LocalSlot, LocalDone,
         ScanSlot, ScanDone, RelocPick, RelocSkip, RelocDone,
         ProbeNext, ProbeEnd, DropOriginal, indexVars
  <2>2. spc # "unlock" /\ spc' \notin {"lock", "unlock", "copy", "validate", "drop"}
    BY <1>2 DEF PollRecv, PostRecv, DealBegin, RemoteSkip, RemoteRetire,
         CommitUpsert, CommitDelete, NextRemote, RemoteDone, LocalSlot, LocalDone,
         ScanSlot, ScanDone, RelocPick, RelocSkip, RelocDone,
         ProbeNext, ProbeEnd, DropOriginal
  <2> QED BY <1>0, <2>1, <2>2 DEF LockBounds
<1>3. CASE IndexStore
  <2>1. spc = "store" /\ spc' = "poll"
    BY <1>3 DEF IndexStore
  <2>2. ASSUME NEW b \in Buckets PROVE llock'[b] <= Cardinality(Free(bitmap'[b]))
    <3>1. CASE b = off
      <4>1. llock'[b] = 0
        BY <1>1, <1>3, <3>1 DEF IndexStore
      <4> QED BY <4>1, FreeCounts
    <3>2. CASE b # off
      <4>1. llock'[b] = llock[b] /\ bitmap'[b] = bitmap[b]
        BY <1>1, <1>3, <3>2 DEF IndexStore
      <4> QED BY <1>0, <2>1, <4>1 DEF LockBounds
    <3> QED BY <3>1, <3>2
  <2> QED BY <2>1, <2>2 DEF LockBounds
<1>4. CASE ProbeRoom \/ CopyLine \/ ValidateCopy
  <2>1. UNCHANGED <<bitmap, llock, off, neighbour, target>>
    BY <1>4 DEF ProbeRoom, CopyLine, ValidateCopy, indexVars, dealVars, relocVars, neighbour
  <2>2. /\ spc # "unlock" /\ spc' # "unlock"
        /\ neighbour # off
        /\ spc' \in {"copy", "validate"} => spc \in {"copy", "validate"}
    BY <1>0, <1>4 DEF ProbeRoom, CopyLine, ValidateCopy, LockBounds
  <2>3. LocallyLocked(neighbour)' = LocallyLocked(neighbour)
    BY <2>1 DEF LocallyLocked
  <2> QED BY <1>0, <2>1, <2>2, <2>3 DEF LockBounds
<1>5. CASE LockNeighbour
  <2> DEFINE b == neighbour
             n == Cardinality(Free(bitmap[b]))
  <2>1. /\ spc = "lock" /\ b \in Buckets /\ b # off
        /\ UNCHANGED <<bitmap, off, neighbour>>
    BY <1>0, <1>5 DEF LockNeighbour, NeighbourType, LockBounds, dealVars, neighbour
  <2>2. n \in 0..LineNum /\ llock[b] \in 0..n
    <3>1. llock[b] <= n /\ llock[b] \in 0..255
      BY <1>0, <1>1, <2>1 DEF LockBounds
    <3>2. n \in 0..LineNum
      BY <1>1, <2>1
    <3> HIDE DEF n, b
    <3> QED BY <3>1, <3>2
  <2>3. Byte(llock[b] + 1) = llock[b] + 1
    BY <2>2 DEF Byte
  <2>4. /\ llock'[b] = llock[b] + 1 /\ \A a \in Buckets \ {b} : llock'[a] = llock[a]
        /\ target' = FromRight(bitmap[b], llock[b] + 1)
        /\ spc' = IF target' = NoSlot THEN "unlock" ELSE "copy"
    BY <1>1, <1>5, <2>1, <2>3 DEF LockNeighbour, RelocSlot
  <2> HIDE DEF b
  <2>5. CASE llock[b] < n
    <3>1. /\ target' \in Free(bitmap[b]) /\ spc' = "copy"
          /\ Cardinality(FreeAfter(bitmap[b], target')) = llock[b]
      BY <2>2, <2>4, <2>5, FromRightFinds
    <3>2. target' \in LocallyLocked(neighbour)'
      BY <2>1, <2>2, <2>4, <3>1 DEF LocallyLocked, b
    <3>3. ASSUME NEW a \in Buckets PROVE llock'[a] <= Cardinality(Free(bitmap'[a]))
      <4>1. CASE a = b
        BY <2>1, <2>2, <2>4, <2>5, <4>1
      <4>2. CASE a # b
        BY <1>0, <2>1, <2>4, <4>2 DEF LockBounds, b
      <4> QED BY <4>1, <4>2
    <3> QED BY <2>1, <3>1, <3>2, <3>3 DEF LockBounds, b
  <2>6. CASE llock[b] = n
    <3>1. spc' = "unlock" /\ llock'[b] = n + 1
      BY <2>2, <2>4, <2>6, FromRightFinds
    <3>2. ASSUME NEW a \in Buckets, a # b PROVE llock'[a] <= Cardinality(Free(bitmap'[a]))
      BY <1>0, <2>1, <2>4, <3>2 DEF LockBounds, b
    <3> QED BY <2>1, <3>1, <3>2 DEF LockBounds, b
  <2> QED BY <2>2, <2>5, <2>6
<1>6. CASE UnlockNeighbour
  <2> DEFINE b == neighbour
             n == Cardinality(Free(bitmap[b]))
  <2>1. /\ spc = "unlock" /\ spc' = "store" /\ b \in Buckets /\ bitmap' = bitmap
        /\ llock[b] = n + 1
    BY <1>0, <1>6 DEF UnlockNeighbour, NeighbourType, LockBounds
  <2>2. n \in 0..LineNum
    BY <1>1, <2>1
  <2>3. llock'[b] = n /\ \A a \in Buckets \ {b} : llock'[a] = llock[a]
    <3>1. Byte(llock[b] - 1) = n
      BY <2>1, <2>2 DEF Byte
    <3> QED BY <1>1, <1>6, <2>1, <3>1 DEF UnlockNeighbour
  <2>4. ASSUME NEW a \in Buckets PROVE llock'[a] <= Cardinality(Free(bitmap'[a]))
    <3>1. CASE a = b
      BY <2>1, <2>2, <2>3, <3>1
    <3>2. CASE a # b
      BY <1>0, <2>1, <2>3, <3>2 DEF LockBounds
    <3> QED BY <3>1, <3>2
  <2> QED BY <2>1, <2>4 DEF LockBounds
<1> QED BY <1>2, <1>3, <1>4, <1>5, <1>6 DEF Server, Deal, Relocate
LEMMA PassCoversServer ==
  ASSUME CoverInv, Server PROVE PassCovers'
<1>0. TypeInv /\ TypeOK /\ LockBounds /\ PassCovers /\ ValidCovered /\ NeighbourType
  BY NeighbourInTable DEF CoverInv, TypeInv
<1>1. /\ off \in Buckets /\ bitmap[off] \subseteq Slots /\ LineType
      /\ llockReal \in Int
      /\ \A s \in Slots : <<off, s>> \in Lines
  <2>1. off \in Buckets /\ LineType /\ llockReal \in Int
    BY <1>0 DEF TypeOK, DealType
  <2>2. bitmap[off] \in SUBSET Slots
    BY <1>0, <2>1, IndexTypes DEF TypeOK
  <2> QED BY <2>1, <2>2 DEF Lines
<1> USE DEF Copied, Settled
<1>2. CASE PollRecv \/ PostRecv \/ IndexStore
  <2>1. spc' \in {"poll", "repost", "begin"} /\ spc \in {"poll", "repost", "store"}
    BY <1>2 DEF PollRecv, PostRecv, IndexStore
  <2>2. tmpBitmap' = {}
    BY <1>0, <1>2 DEF PollRecv, PostRecv, IndexStore, PassCovers, dealVars
  <2> QED BY <2>1, <2>2 DEF PassCovers
<1>3. CASE DealBegin
  <2>1. /\ spc' = "remote" /\ tmpBitmap' = bitmap[off] /\ llockReal' = llock[off]
        /\ UNCHANGED <<off, bitmap, llock>>
    BY <1>3 DEF DealBegin, indexVars
  <2> QED BY <2>1 DEF PassCovers
<1>4. CASE RemoteSkip
  <2>1. /\ spc = "remote" /\ spc' = "remote"
        /\ UNCHANGED <<off, bitmap, llock, llockReal, tmpBitmap, dline>>
    BY <1>4 DEF RemoteSkip, indexVars
  <2> QED BY <1>0, <2>1 DEF PassCovers, Valid
<1>5. CASE RemoteRetire
  <2>1. /\ spc = "remote" /\ spc' = "commit" /\ old' \in Lines \cup {NoLine}
        /\ dline' = IF old' = NoLine THEN dline ELSE [dline EXCEPT ![old'].valid = 0]
        /\ UNCHANGED <<off, bitmap, llock, llockReal, tmpBitmap>>
    BY <1>5, SearchOldType DEF RemoteRetire, indexVars
  <2>2. PICK l \in Lines \cup {NoLine} : l = old'
    BY <2>1
  <2>3. CASE l = NoLine
    BY <1>0, <2>1, <2>2, <2>3 DEF PassCovers, Valid
  <2>4. CASE l # NoLine
    <3>1. \A m \in Lines : dline'[m].valid = IF m = l THEN 0 ELSE dline[m].valid
      <4>1. dline' = [dline EXCEPT ![l].valid = 0] /\ l \in Lines
        BY <2>1, <2>2, <2>4
      <4> QED BY <1>1, <4>1 DEF LineType, DataLine
    <3>2. dline'[l].valid # VALID
      BY <2>2, <2>4, <3>1 DEF VALID
    <3>3. \A s \in Slots : Valid(off, s)' => Valid(off, s)
      BY <1>1, <2>1, <3>1 DEF Valid, VALID
    <3> QED BY <1>0, <1>1, <2>1, <2>2, <3>2, <3>3 DEF PassCovers
  <2> QED BY <2>3, <2>4
<1>6. CASE CommitUpsert \/ CommitDelete
  <2>1. /\ spc = "commit" /\ spc' = "remote"
        /\ UNCHANGED <<off, bitmap, llock, llockReal>>
    BY <1>6 DEF CommitUpsert, CommitDelete, NextRemote, indexVars
  <2>2. i \in Slots
    BY <1>0, <2>1 DEF TypeInv, LoopsInRange
  <2>3. \A s \in bitmap[off] : Valid(off, s)' => s \in tmpBitmap'
    <3>1. CASE CommitUpsert
      <4>1. dline' = [dline EXCEPT ![<<off, i>>].valid = VALID] /\ tmpBitmap' = tmpBitmap \cup {i}
        BY <3>1 DEF CommitUpsert
      <4>2. \A s \in Slots : Valid(off, s)' => Valid(off, s) \/ s = i
        BY <1>1, <2>1, <2>2, <4>1 DEF Valid, LineType, DataLine
      <4> QED BY <1>0, <1>1, <2>1, <4>1, <4>2 DEF PassCovers
    <3>2. CASE CommitDelete
      <4>1. /\ dline' = [dline EXCEPT ![<<off, i>>].valid = 0]
            /\ tmpBitmap' = tmpBitmap \/ (old[1] = off /\ tmpBitmap' = tmpBitmap \ {old[2]})
        BY <3>2 DEF CommitDelete
      <4>2. \A s \in Slots : Valid(off, s)' => Valid(off, s)
        BY <1>1, <2>1, <2>2, <4>1 DEF Valid, LineType, DataLine, VALID
      <4>3. ASSUME old[1] = off PROVE \A s \in Slots : s = old[2] => ~Valid(off, s)
        <5>1. old \in Lines \cup {NoLine}
          BY <1>0 DEF TypeOK, DealType
        <5>2. old # NoLine /\ old = <<off, old[2]>>
          BY <1>1, <4>3, <5>1 DEF NoLine, Lines
        <5> QED BY <1>0, <2>1, <5>2 DEF PassCovers, Valid
      <4> QED BY <1>0, <1>1, <2>1, <4>1, <4>2, <4>3 DEF PassCovers
    <3> QED BY <1>6, <3>1, <3>2
  <2> QED BY <1>0, <2>1, <2>3 DEF PassCovers
<1>7. CASE RemoteDone
  <2>1. /\ spc = "remote" /\ spc' = "local" /\ i' = LineNum - 1
        /\ UNCHANGED <<off, bitmap, llock, llockReal, tmpBitmap, dline>>
    BY <1>7 DEF RemoteDone, indexVars, dealVars
  <2>2. FreeAfter(bitmap[off], LineNum - 1) = {}
    BY DEF FreeAfter, Free
  <2>3. Cardinality(FreeAfter(bitmap[off], LineNum - 1)) = 0
    BY <2>2, FS_EmptySet
  <2>4. \A s \in Free(bitmap[off]) : ~(s > LineNum - 1)
    BY DEF Free
  <2>5. llock[off] = llockReal
    BY <1>0, <2>1 DEF PassCovers
  <2> QED BY <1>0, <1>1, <2>1, <2>3, <2>4, <2>5 DEF PassCovers, Valid
<1>8. CASE LocalSlot
  <2>1. /\ spc = "local" /\ spc' = "local" /\ i' = i - 1 /\ i \in Slots
        /\ UNCHANGED <<off, bitmap, llock, dline>>
        /\ llockReal' = IF i \in bitmap[off] THEN llockReal ELSE llockReal - 1
        /\ tmpBitmap \subseteq tmpBitmap'
        /\ i \notin bitmap[off] /\ Valid(off, i) => i \in tmpBitmap'
    BY <1>0, <1>8 DEF LocalSlot, indexVars, Valid, TypeInv, LoopsInRange
  <2>2. llockReal' + Cardinality(FreeAfter(bitmap[off], i - 1)) = llock[off]
    <3>1. Cardinality(FreeAfter(bitmap[off], i - 1)) =
            Cardinality(FreeAfter(bitmap[off], i)) + (IF i \in bitmap[off] THEN 0 ELSE 1)
      BY <2>1, FreeAfterStep
    <3>2. Cardinality(FreeAfter(bitmap[off], i)) \in Nat /\ llockReal \in Int
      BY <1>1, FreeAfterBound
    <3>3. llockReal + Cardinality(FreeAfter(bitmap[off], i)) = llock[off]
      BY <1>0, <2>1 DEF PassCovers
    <3> QED BY <2>1, <3>1, <3>2, <3>3
  <2>3. \A s \in Free(bitmap[off]) : s > i - 1 /\ Valid(off, s) => s \in tmpBitmap'
    <3> SUFFICES ASSUME NEW s \in Free(bitmap[off]), s > i - 1, Valid(off, s)
                 PROVE  s \in tmpBitmap'
      OBVIOUS
    <3>1. s = i \/ s > i
      BY <2>1 DEF Free
    <3> QED BY <1>0, <2>1, <3>1 DEF PassCovers, Free
  <2> QED BY <1>0, <2>1, <2>2, <2>3 DEF PassCovers, Valid
<1>9. CASE LocalDone
  <2>1. /\ spc = "local" /\ spc' = "scan" /\ (i < 0 \/ llockReal = 0)
        /\ UNCHANGED <<off, bitmap, tmpBitmap, dline>>
    BY <1>9 DEF LocalDone, indexVars, dealVars
  <2>2. ASSUME NEW s \in Slots, Valid(off, s) PROVE s \in tmpBitmap
    <3>1. CASE s \in bitmap[off]
      BY <1>0, <2>1, <2>2, <3>1 DEF PassCovers
    <3>2. CASE s \in Free(bitmap[off]) /\ s > i
      BY <1>0, <2>1, <2>2, <3>2 DEF PassCovers
    <3>3. CASE s \in Free(bitmap[off]) /\ ~(s > i)
      <4>1. i \in Int /\ s \in Int /\ s >= 0
        BY <1>0, <2>1 DEF TypeInv, LoopsInRange
      <4>2. llockReal = 0 /\ s <= i
        BY <2>1, <3>3, <4>1
      <4>3. llockReal + Cardinality(FreeAfter(bitmap[off], i)) = llock[off]
        BY <1>0, <2>1 DEF PassCovers
      <4>4. /\ Cardinality(FreeAfter(bitmap[off], i)) \in Nat
            /\ Cardinality(FreeAfter(bitmap[off], s)) \in Nat
            /\ Cardinality(FreeAfter(bitmap[off], i)) <= Cardinality(FreeAfter(bitmap[off], s))
        BY <4>1, <4>2, FreeAfterBound
      <4>5. s \notin LocallyLocked(off)
        BY <4>2, <4>3, <4>4 DEF LocallyLocked
      <4> QED BY <1>0, <1>1, <2>2, <3>3, <4>5 DEF ValidCovered, Valid, Free
    <3> QED BY <3>1, <3>2, <3>3 DEF Free
  <2> QED BY <2>1, <2>2, <1>1 DEF PassCovers, Valid
<1>10. CASE \/ ScanSlot \/ ScanDone \/ RelocPick \/ RelocSkip \/ RelocDone \/ ProbeRoom
            \/ ProbeNext \/ ProbeEnd \/ LockNeighbour \/ UnlockNeighbour \/ CopyLine
            \/ ValidateCopy \/ DropOriginal
  <2>1. Settled /\ Settled' /\ UNCHANGED <<off, bitmap>>
    BY <1>10 DEF ScanSlot, ScanDone, RelocPick, RelocSkip, RelocDone, ProbeRoom,
          ProbeNext, ProbeEnd, LockNeighbour, UnlockNeighbour, CopyLine,
          ValidateCopy, DropOriginal, indexVars, dealVars
  <2>2. \A s \in Slots : Valid(off, s) => s \in tmpBitmap
    BY <1>0, <2>1 DEF PassCovers
  <2>3. \A s \in Slots : Valid(off, s)' => s \in tmpBitmap'
    <3>1. CASE ScanSlot
      BY <2>1, <2>2, <3>1 DEF ScanSlot, Valid, VALID
    <3>2. CASE \/ ScanDone \/ RelocPick \/ RelocSkip \/ RelocDone \/ ProbeRoom
               \/ ProbeNext \/ ProbeEnd \/ LockNeighbour \/ UnlockNeighbour
      <4>1. UNCHANGED <<dline, tmpBitmap>>
        BY <3>2 DEF ScanDone, RelocPick, RelocSkip, RelocDone, ProbeRoom,
          ProbeNext, ProbeEnd, LockNeighbour, UnlockNeighbour, dealVars
      <4> QED BY <2>1, <2>2, <4>1 DEF Valid
    <3>3. CASE CopyLine \/ ValidateCopy
      <4>1. neighbour # off /\ UNCHANGED tmpBitmap
        BY <1>0, <3>3 DEF CopyLine, ValidateCopy, LockBounds, dealVars
      <4>2. \A s \in Slots : dline'[<<off, s>>] = dline[<<off, s>>]
        BY <1>1, <3>3, <4>1 DEF CopyLine, ValidateCopy, LineType
      <4> QED BY <2>1, <2>2, <4>1, <4>2 DEF Valid
    <3>4. CASE DropOriginal
      <4>1. /\ i \in Slots /\ tmpBitmap' = tmpBitmap \ {i}
            /\ dline' = [dline EXCEPT ![<<off, i>>].valid = 0]
        BY <1>0, <3>4 DEF DropOriginal, TypeInv, LoopsInRange
      <4>2. \A s \in Slots : Valid(off, s)' => Valid(off, s) /\ s # i
        <5>1. \A s \in Slots : dline'[<<off, s>>].valid =
                IF <<off, s>> = <<off, i>> THEN 0 ELSE dline[<<off, s>>].valid
          BY <1>1, <4>1 DEF LineType, DataLine
        <5> QED BY <2>1, <5>1 DEF Valid, VALID
      <4> QED BY <2>2, <4>1, <4>2
    <3> QED BY <1>10, <3>1, <3>2, <3>3, <3>4
  <2> QED BY <1>1, <2>1, <2>3 DEF PassCovers
<1> QED BY <1>2, <1>3, <1>4, <1>5, <1>6, <1>7, <1>8, <1>9, <1>10
        DEF Server, Deal, Relocate
(* Relocate's lock of a neighbour, and its undoing, leave each bucket with *)
(* as many local locks as before, or with as many as it has free slots.    *)
LEMMA LockStep ==
  ASSUME CoverInv, LockNeighbour \/ UnlockNeighbour
  PROVE  \A b \in Buckets :
           /\ llock'[b] \in Int
           /\ b # neighbour => llock'[b] = llock[b]
           /\ llock'[b] >= llock[b] \/ llock'[b] >= Cardinality(Free(bitmap[b]))
<1>0. TypeInv /\ TypeOK /\ LockBounds /\ NeighbourType
  BY NeighbourInTable DEF CoverInv, TypeInv
<1>1. llock \in [Buckets -> 0..255]
  BY <1>0 DEF TypeOK, IndexType
<1>2. neighbour \in Buckets /\ Cardinality(Free(bitmap[neighbour])) \in 0..LineNum
  BY <1>0, FreeCounts DEF NeighbourType, LockNeighbour, UnlockNeighbour
<1>3. CASE LockNeighbour
  <2>1. llock[neighbour] <= Cardinality(Free(bitmap[neighbour]))
    BY <1>0, <1>2, <1>3 DEF LockBounds, LockNeighbour
  <2>2. llock[neighbour] \in 0..LineNum
    <3>1. llock[neighbour] \in 0..255
      BY <1>1, <1>2
    <3> QED BY <1>2, <2>1, <3>1
  <2>3. Byte(llock[neighbour] + 1) = llock[neighbour] + 1
    BY <2>2 DEF Byte
  <2>4. llock' = [llock EXCEPT ![neighbour] = llock[neighbour] + 1]
    BY <1>3, <2>3 DEF LockNeighbour
  <2>5. llock'[neighbour] = llock[neighbour] + 1
    BY <1>1, <1>2, <2>4
  <2>6. \A b \in Buckets : b # neighbour => llock'[b] = llock[b] /\ llock[b] \in 0..255
    BY <1>1, <2>4
  <2> SUFFICES ASSUME NEW b \in Buckets
               PROVE  /\ llock'[b] \in Int
                      /\ b # neighbour => llock'[b] = llock[b]
                      /\ llock'[b] >= llock[b] \/ llock'[b] >= Cardinality(Free(bitmap[b]))
    OBVIOUS
  <2>7. CASE b = neighbour
    BY <2>2, <2>5, <2>7
  <2>8. CASE b # neighbour
    BY <2>6, <2>8
  <2> QED BY <2>7, <2>8
<1>4. CASE UnlockNeighbour
  <2>1. llock[neighbour] = Cardinality(Free(bitmap[neighbour])) + 1
    BY <1>0, <1>4 DEF LockBounds, UnlockNeighbour
  <2>2. Byte(llock[neighbour] - 1) = Cardinality(Free(bitmap[neighbour]))
    BY <1>2, <2>1 DEF Byte
  <2>3. llock' = [llock EXCEPT ![neighbour] = Cardinality(Free(bitmap[neighbour]))]
    BY <1>4, <2>2 DEF UnlockNeighbour
  <2>4. llock'[neighbour] = Cardinality(Free(bitmap[neighbour]))
    BY <1>1, <1>2, <2>3
  <2>5. \A b \in Buckets : b # neighbour => llock'[b] = llock[b] /\ llock[b] \in 0..255
    BY <1>1, <2>3
  <2> SUFFICES ASSUME NEW b \in Buckets
               PROVE  /\ llock'[b] \in Int
                      /\ b # neighbour => llock'[b] = llock[b]
                      /\ llock'[b] >= llock[b] \/ llock'[b] >= Cardinality(Free(bitmap[b]))
    OBVIOUS
  <2>6. CASE b = neighbour
    BY <1>2, <2>4, <2>6
  <2>7. CASE b # neighbour
    BY <2>5, <2>7
  <2> QED BY <2>6, <2>7
<1> QED BY <1>3, <1>4

(* A line stays covered when the bits and local locks do, and the copy     *)
(* gives no bit of a VALID line up; one that becomes VALID needs a bit or  *)
(* a lock of its own.                                                      *)
LEMMA StaysCovered ==
  ASSUME ValidCovered, UNCHANGED <<bitmap, off>>, Dealing => Dealing',
         \A b \in Buckets : LocallyLocked(b) \subseteq LocallyLocked(b)',
         \A s \in tmpBitmap : Valid(off, s)' => s \in tmpBitmap',
         \A b \in Buckets, s \in Slots : Valid(b, s)' =>
           \/ Valid(b, s) \/ s \in LocallyLocked(b)'
           \/ Dealing' /\ b = off /\ s \in tmpBitmap'
  PROVE  ValidCovered'
<1> SUFFICES ASSUME NEW b \in Buckets, NEW s \in Slots, Valid(b, s)'
             PROVE  \/ s \in bitmap'[b] \cup LocallyLocked(b)'
                    \/ Dealing' /\ b = off' /\ s \in tmpBitmap'
  BY DEF ValidCovered, Valid
<1>1. CASE Valid(b, s)
  BY <1>1 DEF ValidCovered, Valid
<1>2. CASE ~Valid(b, s)
  BY <1>2
<1> QED BY <1>1, <1>2

LEMMA ValidCoveredServer ==
  ASSUME CoverInv, Server PROVE ValidCovered'
<1>0. TypeInv /\ TypeOK /\ LockBounds /\ PassCovers /\ ValidCovered /\ NeighbourType
  BY NeighbourInTable DEF CoverInv, TypeInv
<1>1. /\ off \in Buckets /\ LineType /\ tmpBitmap \subseteq Slots
      /\ \A b \in Buckets : bitmap[b] \subseteq Slots /\ llock[b] \in Int
      /\ \A b \in Buckets, s \in Slots : <<b, s>> \in Lines
  <2>1. off \in Buckets /\ LineType /\ tmpBitmap \subseteq Slots
    BY <1>0 DEF TypeOK, DealType
  <2>2. \A b \in Buckets : bitmap[b] \subseteq Slots /\ llock[b] \in Int
    <3> SUFFICES ASSUME NEW b \in Buckets PROVE bitmap[b] \subseteq Slots /\ llock[b] \in Int
      OBVIOUS
    <3>1. bitmap[b] \in SUBSET Slots /\ llock[b] \in 0..255
      BY <1>0, IndexTypes DEF TypeOK
    <3> QED BY <3>1
  <2> QED BY <2>1, <2>2 DEF Lines
<1>2. CASE PollRecv \/ PostRecv \/ DealBegin
  <2>1. UNCHANGED <<bitmap, llock, dline>> /\ spc \in {"poll", "repost", "begin"}
    BY <1>2 DEF PollRecv, PostRecv, DealBegin, indexVars
  <2>2. tmpBitmap = {}
    BY <1>0, <2>1 DEF PassCovers, Copied
  <2> QED BY <1>0, <2>1, <2>2 DEF ValidCovered, LocallyLocked
<1>3. CASE \/ RemoteSkip \/ RemoteDone \/ LocalSlot \/ LocalDone \/ ScanDone \/ RelocPick
           \/ RelocSkip \/ RelocDone \/ ProbeRoom \/ ProbeNext \/ ProbeEnd \/ CopyLine
  <2>1. UNCHANGED <<bitmap, llock, off>> /\ Dealing /\ Dealing' /\ tmpBitmap \subseteq tmpBitmap'
    BY <1>3 DEF RemoteSkip, RemoteDone, LocalSlot, LocalDone, ScanDone, RelocPick,
         RelocSkip, RelocDone, ProbeRoom, ProbeNext, ProbeEnd, CopyLine,
         indexVars, dealVars, Dealing
  <2>2. \A l \in Lines : dline'[l].valid = dline[l].valid
    <3>1. CASE dline' = dline
      BY <3>1
    <3>2. CASE CopyLine
      BY <1>1, <3>2 DEF CopyLine, LineType, DataLine
    <3> QED BY <1>3, <3>1, <3>2 DEF RemoteSkip, RemoteDone, LocalSlot, LocalDone, ScanDone,
         RelocPick, RelocSkip, RelocDone, ProbeRoom, ProbeNext, ProbeEnd
  <2> QED BY <1>0, <1>1, <2>1, <2>2, StaysCovered DEF LocallyLocked, Valid
<1>4. CASE RemoteRetire \/ CommitUpsert \/ CommitDelete \/ ScanSlot \/ DropOriginal
  <2>1. UNCHANGED <<bitmap, llock, off>> /\ Dealing /\ Dealing' /\ i \in Slots
    BY <1>0, <1>4 DEF RemoteRetire, CommitUpsert, CommitDelete, NextRemote, ScanSlot,
         DropOriginal, indexVars, Dealing, TypeInv, LoopsInRange
  <2>2. \A b \in Buckets, s \in Slots :
          Valid(b, s)' => Valid(b, s) \/ (b = off /\ s \in tmpBitmap')
    <3>1. CASE RemoteRetire
      <4>1. PICK l \in Lines \cup {NoLine} :
              dline' = IF l = NoLine THEN dline ELSE [dline EXCEPT ![l].valid = 0]
        BY <3>1, SearchOldType DEF RemoteRetire
      <4>2. \A m \in Lines : dline'[m].valid \in {0, dline[m].valid}
        BY <1>1, <4>1 DEF LineType, DataLine
      <4> QED BY <1>1, <4>2 DEF Valid, VALID
    <3>2. CASE CommitUpsert
      <4>1. dline' = [dline EXCEPT ![<<off, i>>].valid = VALID] /\ i \in tmpBitmap'
        BY <3>2 DEF CommitUpsert
      <4>2. \A m \in Lines : dline'[m].valid = IF m = <<off, i>> THEN VALID ELSE dline[m].valid
        BY <1>1, <2>1, <4>1 DEF LineType, DataLine
      <4> QED BY <1>1, <4>1, <4>2 DEF Valid
    <3>3. CASE CommitDelete \/ DropOriginal
      <4>1. dline' = [dline EXCEPT ![<<off, i>>].valid = 0]
        BY <3>3 DEF CommitDelete, DropOriginal
      <4>2. \A m \in Lines : dline'[m].valid \in {0, dline[m].valid}
        BY <1>1, <4>1 DEF LineType, DataLine
      <4> QED BY <1>1, <4>2 DEF Valid, VALID
    <3>4. CASE ScanSlot
      BY <3>4 DEF ScanSlot, Valid
    <3> QED BY <1>4, <3>1, <3>2, <3>3, <3>4
  <2>3. \A s \in tmpBitmap : Valid(off, s)' => s \in tmpBitmap'
    <3>1. CASE RemoteRetire \/ CommitUpsert
      BY <3>1 DEF RemoteRetire, CommitUpsert
    <3>2. CASE CommitDelete \/ ScanSlot \/ DropOriginal
      <4>1. PassCovers'
        BY PassCoversServer
      <4>2. CASE ScanSlot \/ DropOriginal
        BY <1>1, <2>1, <4>1, <4>2 DEF ScanSlot, DropOriginal, PassCovers, Settled, Copied
      <4>3. CASE CommitDelete
        <5>1. \A s \in Slots : Valid(off, s)' => Valid(off, s)
          <6>1. dline' = [dline EXCEPT ![<<off, i>>].valid = 0]
            BY <4>3 DEF CommitDelete
          <6>2. \A m \in Lines : dline'[m].valid \in {0, dline[m].valid}
            BY <1>1, <6>1 DEF LineType, DataLine
          <6> QED BY <1>1, <2>1, <6>2 DEF Valid, VALID
        <5>2. old[1] = off => \A s \in Slots : s = old[2] => ~Valid(off, s)
          <6>1. old \in Lines \cup {NoLine}
            BY <1>0 DEF TypeOK, DealType
          <6>2. old[1] = off => old # NoLine /\ old = <<off, old[2]>>
            BY <1>1, <6>1 DEF NoLine, Lines
          <6> QED BY <1>0, <4>3, <6>2 DEF PassCovers, Valid, CommitDelete
        <5> QED BY <1>1, <4>3, <5>1, <5>2 DEF CommitDelete
      <4> QED BY <3>2, <4>2, <4>3
    <3> QED BY <1>4, <3>1, <3>2
  <2>4. \A b \in Buckets : LocallyLocked(b) \subseteq LocallyLocked(b)'
    BY <2>1 DEF LocallyLocked
  <2> QED BY <1>0, <2>1, <2>2, <2>3, <2>4, StaysCovered
<1>5. CASE LockNeighbour \/ UnlockNeighbour
  <2>1. UNCHANGED <<bitmap, dline, off, tmpBitmap>> /\ Dealing /\ Dealing'
    BY <1>5 DEF LockNeighbour, UnlockNeighbour, dealVars, Dealing
  <2>2. ASSUME NEW b \in Buckets PROVE LocallyLocked(b) \subseteq LocallyLocked(b)'
    <3>1. \A s \in Free(bitmap[b]) :
            /\ Cardinality(FreeAfter(bitmap[b], s)) < Cardinality(Free(bitmap[b]))
            /\ Cardinality(FreeAfter(bitmap[b], s)) \in Int
      BY FreeAfterBound
    <3>2. Cardinality(Free(bitmap[b])) \in 0..LineNum
      BY FreeCounts
    <3>3. /\ llock'[b] >= llock[b] \/ llock'[b] >= Cardinality(Free(bitmap[b]))
          /\ llock'[b] \in Int
      BY <1>5, LockStep
    <3> QED BY <1>1, <2>1, <3>1, <3>2, <3>3 DEF LocallyLocked
  <2> QED BY <1>0, <2>1, <2>2, StaysCovered DEF Valid
<1>6. CASE ValidateCopy
  <2>1. /\ UNCHANGED <<bitmap, llock, off, tmpBitmap>> /\ Dealing /\ Dealing'
        /\ dline' = [dline EXCEPT ![<<neighbour, target>>].valid = VALID]
        /\ neighbour \in Buckets /\ target \in LocallyLocked(neighbour)
    BY <1>0, <1>6 DEF ValidateCopy, indexVars, dealVars, Dealing, LockBounds, NeighbourType
  <2>2. \A b \in Buckets : LocallyLocked(b) = LocallyLocked(b)'
    BY <2>1 DEF LocallyLocked
  <2>3. \A m \in Lines : dline'[m].valid = IF m = <<neighbour, target>> THEN VALID ELSE dline[m].valid
    <3>1. <<neighbour, target>> \in Lines
      BY <1>1, <2>1 DEF LocallyLocked, Free
    <3> QED BY <1>1, <2>1, <3>1 DEF LineType, DataLine
  <2>4. \A b \in Buckets, s \in Slots : Valid(b, s)' => Valid(b, s) \/ s \in LocallyLocked(b)'
    BY <1>1, <2>1, <2>2, <2>3 DEF Valid
  <2> QED BY <1>0, <2>1, <2>2, <2>4, StaysCovered
<1>7. CASE IndexStore
  <2>1. /\ spc = "store" /\ dline' = dline
        /\ \A b \in Buckets : b # off => bitmap'[b] = bitmap[b] /\ llock'[b] = llock[b]
        /\ bitmap'[off] = tmpBitmap
    BY <1>0, <1>1, <1>7 DEF IndexStore, TypeOK, IndexType
  <2>2. \A s \in Slots : Valid(off, s) => s \in tmpBitmap
    BY <1>0, <2>1 DEF PassCovers, Settled, Copied
  <2>3. \A b \in Buckets : b # off => LocallyLocked(b)' = LocallyLocked(b)
    BY <2>1 DEF LocallyLocked
  <2> QED BY <1>0, <2>1, <2>2, <2>3 DEF ValidCovered, Valid
<1> QED BY <1>2, <1>3, <1>4, <1>5, <1>6, <1>7 DEF Server, Deal, Relocate

LEMMA CoverNext == CoverInv /\ [Next]_vars => CoverInv'
<1> SUFFICES ASSUME CoverInv, [Next]_vars PROVE CoverInv'
  OBVIOUS
<1>0. TypeInv' /\ TypeOK /\ LockBounds /\ PassCovers /\ ValidCovered /\ NoneSendsValid
  BY TypeNext DEF CoverInv, TypeInv
<1>1. CASE Server
  <2>1. NoneSendsValid'
    BY <1>0, <1>1, ServerLeaves DEF NoneSendsValid
  <2> QED BY <1>0, <1>1, <2>1, LockBoundsServer, PassCoversServer, ValidCoveredServer
          DEF CoverInv
<1>2. ASSUME NEW c \in Clients, Client(c) PROVE CoverInv'
  BY <1>0, <1>2, ClientCover DEF CoverInv
<1>3. CASE UNCHANGED vars
  <2>1. LockBounds' /\ PassCovers' /\ ValidCovered'
    BY <1>0, <1>3, CoverKept DEF vars, indexVars
  <2>2. NoneSendsValid'
    BY <1>0, <1>3 DEF NoneSendsValid, vars, clientVars
  <2> QED BY <1>0, <2>1, <2>2 DEF CoverInv
<1> QED BY <1>1, <1>2, <1>3 DEF Next

(* A VALID line keeps a committed bit or a local lock, whoever writes late *)
(* and whatever is deleted, so that no lock taken later can name its slot  *)
(* (deal_pending, relocate, api.cpp:258-471).                              *)
THEOREM ValidLinesCovered == Spec => []ValidCovered
<1>1. Init => CoverInv
  BY CoverInit
<1>2. CoverInv /\ [Next]_vars => CoverInv'
  BY CoverNext
<1>3. CoverInv => ValidCovered
  BY DEF CoverInv
<1> QED BY <1>1, <1>2, <1>3, PTL DEF Spec
---------------------------------------------------------------------------
(* The free count, when nobody deletes. *)
NoDelete ==
  /\ \A l \in Lines : dline[l].valid # DELETE
  /\ \A c \in Clients : req[c].valid # DELETE
  /\ opcode # DELETE

(* Each bit that a step sets in the copy was clear, and each that it       *)
(* clears was set: the slots of the remote locks that are left, those of   *)
(* the local locks, and the slots done with are apart.                     *)
PassCounts ==
  /\ Copied => tmpFree = Cardinality(Free(tmpBitmap))
  /\ spc \in {"remote", "commit"} =>
       /\ bitmap[off] \subseteq tmpBitmap
       /\ \A s \in tmpBitmap \ bitmap[off] : s < i
       /\ rlockReal + Cardinality(FreeBefore(bitmap[off], i)) + llock[off]
            <= Cardinality(Free(bitmap[off]))
  /\ spc = "commit" => i \notin bitmap[off]
  /\ spc = "local" =>
       /\ bitmap[off] \subseteq tmpBitmap
       /\ \A s \in tmpBitmap \cap LocallyLocked(off) : s > i
  /\ spc = "scan" => \A s \in bitmap[off] : s >= i => s \in tmpBitmap
  /\ spc \in {"probe", "lock", "copy", "validate", "drop"} => i \in tmpBitmap

CountInv == CoverInv /\ NoDelete /\ PassCounts /\ FreeCountExact


LEMMA CountInit == Init => CountInv
<1> SUFFICES ASSUME Init PROVE CountInv
  OBVIOUS
<1>1. CoverInv
  BY CoverInit
<1>2. NoDelete
  BY DEF Init, NoDelete, BlankLine, DELETE
<1>3. PassCounts
  BY DEF Init, PassCounts, Copied
<1>4. FreeCountExact
  <2>1. Free({}) = Slots
    BY DEF Free
  <2>2. Cardinality(Slots) = LineNum
    <3>1. Cardinality(0..(LineNum - 1)) =
            IF 0 > LineNum - 1 THEN 0 ELSE (LineNum - 1) - 0 + 1
      BY FS_Interval
    <3> QED BY <3>1
  <2> QED BY <2>1, <2>2 DEF Init, FreeCountExact
<1> QED BY <1>1, <1>2, <1>3, <1>4 DEF CountInv

LEMMA NoDeleteServer ==
  ASSUME TypeInv, NoDelete, Server PROVE NoDelete'
<1>0. TypeOK /\ LineType
  BY DEF TypeInv, TypeOK
<1>1. \A d \in Clients : req'[d].valid # DELETE
  BY ServerLeaves DEF NoDelete
<1>2. CASE RemoteRetire
  <2>1. PICK l \in Lines \cup {NoLine} :
          dline' = IF l = NoLine THEN dline ELSE [dline EXCEPT ![l].valid = 0]
    BY <1>2, SearchOldType DEF RemoteRetire
  <2>2. \A m \in Lines : dline'[m].valid \in {0, dline[m].valid}
    BY <1>0, <2>1 DEF LineType, DataLine
  <2>3. opcode' = dline[<<off, i>>].valid /\ <<off, i>> \in Lines
    BY <1>0, <1>2 DEF RemoteRetire, TypeInv, LoopsInRange, TypeOK, DealType, Lines
  <2> QED BY <1>1, <2>2, <2>3 DEF NoDelete, DELETE
<1>3. CASE CommitUpsert \/ CommitDelete \/ CopyLine \/ ValidateCopy \/ DropOriginal
  <2>1. opcode' \in {0, opcode}
    BY <1>3 DEF CommitUpsert, CommitDelete, NextRemote, CopyLine, ValidateCopy,
                DropOriginal, dealVars
  <2>2. \A m \in Lines : dline'[m].valid \in {0, VALID, dline[m].valid}
    <3>1. ASSUME NEW l, NEW v \in {0, VALID}, dline' = [dline EXCEPT ![l].valid = v]
          PROVE  \A m \in Lines : dline'[m].valid \in {0, VALID, dline[m].valid}
      BY <1>0, <3>1 DEF LineType, DataLine
    <3>2. CASE CopyLine
      <4>1. \A m \in Lines : dline'[m].valid = dline[m].valid
        BY <1>0, <3>2 DEF CopyLine, LineType, DataLine
      <4> QED BY <4>1
    <3>3. CASE CommitUpsert
      BY <3>1, <3>3 DEF CommitUpsert
    <3>4. CASE CommitDelete
      BY <3>1, <3>4 DEF CommitDelete
    <3>5. CASE ValidateCopy
      BY <3>1, <3>5 DEF ValidateCopy
    <3>6. CASE DropOriginal
      BY <3>1, <3>6 DEF DropOriginal
    <3> QED BY <1>3, <3>2, <3>3, <3>4, <3>5, <3>6
  <2> QED BY <1>1, <2>1, <2>2 DEF NoDelete, DELETE, VALID
<1>4. CASE opcode' \in {0, opcode} /\ dline' = dline
  BY <1>1, <1>4 DEF NoDelete, DELETE
<1> QED BY <1>2, <1>3, <1>4
      DEF Server, PollRecv, PostRecv, Deal, DealBegin, RemoteSkip, RemoteDone,
          LocalSlot, LocalDone, ScanSlot, ScanDone, IndexStore, Relocate, RelocPick,
          RelocSkip, RelocDone, ProbeRoom, ProbeNext, ProbeEnd, LockNeighbour,
          UnlockNeighbour, dealVars

LEMMA NoDeleteNext ==
  ASSUME Opcodes \subseteq {UPSERT}, TypeInv, NoDelete, Next PROVE NoDelete'
<1>0. TypeOK /\ LineType
  BY DEF TypeInv, TypeOK
<1>1. ASSUME NEW c \in Clients, Client(c) PROVE NoDelete'
  <2>1. opcode' = opcode
    BY <1>1, ClientLeaves DEF dealVars
  <2>2. \A l \in Lines : dline'[l].valid # DELETE
    BY <1>0, <1>1, ClientLine DEF NoDelete
  <2>3. \A d \in Clients : req'[d].valid # DELETE
    BY <1>0, <1>1, ClientRequest DEF NoDelete, UPSERT, DELETE
  <2> QED BY <2>1, <2>2, <2>3 DEF NoDelete
<1> QED BY <1>1, NoDeleteServer DEF Next

LEMMA FreeCountStored ==
  ASSUME CountInv, Server PROVE FreeCountExact'
<1>0. TypeOK /\ PassCounts /\ FreeCountExact
  BY DEF CountInv, CoverInv, TypeInv
<1>1. CASE IndexStore
  <2>1. tmpFree = Cardinality(Free(tmpBitmap))
    BY <1>0, <1>1 DEF IndexStore, PassCounts, Copied
  <2>2. \A b \in Buckets : \/ b = off /\ freecount'[b] = tmpFree /\ bitmap'[b] = tmpBitmap
                           \/ freecount'[b] = freecount[b] /\ bitmap'[b] = bitmap[b]
    BY <1>0, <1>1 DEF IndexStore, TypeOK, IndexType
  <2> QED BY <1>0, <2>1, <2>2 DEF FreeCountExact
<1>2. CASE ~IndexStore
  <2>1. UNCHANGED <<bitmap, freecount>>
    BY <1>2 DEF Server, PollRecv, PostRecv, Deal, DealBegin, RemoteSkip, RemoteRetire,
         CommitUpsert, CommitDelete, NextRemote, RemoteDone, LocalSlot, LocalDone,
         ScanSlot, ScanDone, Relocate, RelocPick, RelocSkip, RelocDone,
         ProbeRoom, ProbeNext, ProbeEnd, LockNeighbour, UnlockNeighbour, CopyLine,
         ValidateCopy, DropOriginal, indexVars
  <2> QED BY <1>0, <2>1 DEF FreeCountExact
<1> QED BY <1>1, <1>2

LEMMA PassCountsServer ==
  ASSUME CountInv, Server PROVE PassCounts'
<1>0. /\ TypeInv /\ TypeOK /\ LockBounds /\ PassCovers /\ NoDelete /\ PassCounts
      /\ FreeCountExact
  BY DEF CountInv, CoverInv, TypeInv
<1>1. /\ off \in Buckets /\ bitmap[off] \subseteq Slots /\ tmpBitmap \subseteq Slots
      /\ llockReal \in Int /\ rlockReal \in Nat
      /\ llock[off] \in Nat /\ rlock[off] \in Nat
  <2>1. /\ off \in Buckets /\ tmpBitmap \subseteq Slots
        /\ llockReal \in Int /\ rlockReal \in Nat
    BY <1>0 DEF TypeOK, DealType
  <2>2. bitmap \in [Buckets -> SUBSET Slots] /\ llock \in [Buckets -> 0..255]
          /\ rlock \in [Buckets -> 0..MaxRlock]
    BY <1>0 DEF TypeOK, IndexType
  <2>3. bitmap[off] \in SUBSET Slots /\ llock[off] \in 0..255 /\ rlock[off] \in 0..MaxRlock
    BY <2>1, <2>2
  <2> QED BY <2>1, <2>3
<1>2. Cardinality(Free(bitmap[off])) \in 0..LineNum
  BY FreeCounts
<1>3. \A s : /\ Cardinality(FreeBefore(bitmap[off], s)) \in Nat
             /\ Cardinality(FreeAfter(bitmap[off], s)) \in Nat
  BY FreeCounts DEF FreeBefore, FreeAfter
<1> USE DEF Copied
<1>4. CASE PollRecv \/ PostRecv \/ IndexStore
  BY <1>4 DEF PollRecv, PostRecv, IndexStore, PassCounts
<1>5. CASE DealBegin
  <2>1. /\ spc' = "remote" /\ i' = 0 /\ tmpBitmap' = bitmap[off] /\ tmpFree' = freecount[off]
        /\ rlockReal' = RemoteLocks(freecount[off], llock[off], rlock[off])
        /\ UNCHANGED <<off, bitmap, llock>>
    BY <1>5 DEF DealBegin, indexVars
  <2>2. freecount[off] = Cardinality(Free(bitmap[off]))
    BY <1>0, <1>1 DEF FreeCountExact
  <2>3. llock[off] <= Cardinality(Free(bitmap[off]))
    BY <1>0, <1>1, <1>5 DEF LockBounds, DealBegin
  <2>4. rlockReal' <= freecount[off] - llock[off] /\ rlockReal' \in Nat
    <3>1. freecount[off] \in Nat /\ freecount[off] < UintMod
      <4>1. freecount[off] \in 0..LineNum
        BY <1>2, <2>2
      <4> QED BY <4>1, UintModAssumption
    <3>2. llock[off] <= freecount[off]
      BY <2>2, <2>3
    <3>3. RemoteLocks(freecount[off], llock[off], rlock[off]) <= freecount[off] - llock[off]
      BY <1>1, <3>1, <3>2, RemoteLocksBound
    <3>4. RemoteLocks(freecount[off], llock[off], rlock[off]) \in 0..rlock[off]
      <4>1. freecount[off] \in Int /\ llock[off] \in Int
        BY <1>1, <3>1
      <4> QED BY <1>1, <4>1, RemoteLocksType
    <3>5. RemoteLocks(freecount[off], llock[off], rlock[off]) \in Nat
      BY <1>1, <3>4
    <3> QED BY <2>1, <3>3, <3>5
  <2>5. Cardinality(FreeBefore(bitmap[off], 0)) = 0
    <3>1. FreeBefore(bitmap[off], 0) = {}
      BY DEF FreeBefore, Free
    <3> QED BY <3>1, FS_EmptySet
  <2>6. rlockReal' + Cardinality(FreeBefore(bitmap[off], 0)) + llock[off]
          <= Cardinality(Free(bitmap[off]))
    BY <1>1, <1>2, <2>2, <2>4, <2>5
  <2> QED BY <2>1, <2>2, <2>6 DEF PassCounts
<1>6. CASE RemoteSkip
  <2>1. /\ spc = "remote" /\ spc' = "remote" /\ i \in Slots /\ i' = i + 1
        /\ UNCHANGED <<off, bitmap, llock, tmpBitmap, tmpFree>>
        /\ rlockReal' = IF i \in bitmap[off] THEN rlockReal ELSE rlockReal - 1
    BY <1>0, <1>6 DEF RemoteSkip, indexVars, TypeInv, LoopsInRange
  <2>2. Cardinality(FreeBefore(bitmap[off], i + 1)) =
          Cardinality(FreeBefore(bitmap[off], i)) + (IF i \in bitmap[off] THEN 0 ELSE 1)
    BY <2>1, FreeBeforeStep
  <2>3. rlockReal + Cardinality(FreeBefore(bitmap[off], i)) + llock[off]
          <= Cardinality(Free(bitmap[off]))
    BY <1>0, <2>1 DEF PassCounts
  <2>4. rlockReal' + Cardinality(FreeBefore(bitmap[off], i + 1)) + llock[off]
          <= Cardinality(Free(bitmap[off]))
    BY <1>1, <1>2, <1>3, <2>1, <2>2, <2>3
  <2>5. \A s \in tmpBitmap \ bitmap[off] : s < i + 1
    BY <1>0, <1>1, <2>1 DEF PassCounts
  <2> QED BY <1>0, <2>1, <2>4, <2>5 DEF PassCounts
<1>7. CASE RemoteRetire
  <2>1. /\ spc = "remote" /\ spc' = "commit" /\ i \notin bitmap[off]
        /\ UNCHANGED <<off, bitmap, llock, tmpBitmap, tmpFree, rlockReal, i>>
    BY <1>7 DEF RemoteRetire, indexVars
  <2> QED BY <1>0, <2>1 DEF PassCounts
<1>8. CASE CommitUpsert
  <2>1. /\ spc = "commit" /\ spc' = "remote" /\ i \in Slots /\ i' = i + 1
        /\ UNCHANGED <<off, bitmap, llock>>
        /\ tmpBitmap' = tmpBitmap \cup {i} /\ tmpFree' = Byte(tmpFree - 1)
        /\ rlockReal' = rlockReal - 1
    BY <1>0, <1>8 DEF CommitUpsert, NextRemote, indexVars, TypeInv, LoopsInRange
  <2>2. /\ i \notin bitmap[off] /\ bitmap[off] \subseteq tmpBitmap
        /\ \A s \in tmpBitmap \ bitmap[off] : s < i
        /\ rlockReal + Cardinality(FreeBefore(bitmap[off], i)) + llock[off]
              <= Cardinality(Free(bitmap[off]))
        /\ tmpFree = Cardinality(Free(tmpBitmap))
    BY <1>0, <2>1 DEF PassCounts
  <2>3. i \notin tmpBitmap
    BY <2>1, <2>2
  <2>4. tmpFree' = Cardinality(Free(tmpBitmap'))
    BY <2>1, <2>2, <2>3, CountedCopy
  <2>5. Cardinality(FreeBefore(bitmap[off], i + 1)) = Cardinality(FreeBefore(bitmap[off], i)) + 1
    BY <2>1, <2>2, FreeBeforeStep
  <2>6. rlockReal' + Cardinality(FreeBefore(bitmap[off], i + 1)) + llock[off]
          <= Cardinality(Free(bitmap[off]))
    BY <1>1, <1>2, <1>3, <2>1, <2>2, <2>5
  <2>7. ASSUME NEW s \in tmpBitmap', s \notin bitmap[off] PROVE s < i + 1
    <3>1. s \in Int /\ i \in Int
      <4>1. s \in tmpBitmap \cup {i} /\ i \in Slots /\ tmpBitmap \subseteq Slots
        BY <1>1, <2>1, <2>7
      <4> QED BY <4>1
    <3>2. s = i \/ s < i
      BY <2>1, <2>2, <2>7
    <3> QED BY <3>1, <3>2
  <2> QED BY <2>1, <2>2, <2>4, <2>6, <2>7 DEF PassCounts
<1>9. CASE CommitDelete
  BY <1>0, <1>9 DEF CommitDelete, NoDelete
<1>10. CASE RemoteDone
  <2>1. /\ spc = "remote" /\ spc' = "local" /\ i' = LineNum - 1
        /\ UNCHANGED <<off, bitmap, llock, tmpBitmap, tmpFree>>
    BY <1>10 DEF RemoteDone, indexVars, dealVars
  <2>2. i \in Int
    BY <1>0, <2>1 DEF TypeInv, LoopsInRange
  <2>3. ASSUME NEW s \in tmpBitmap, s \in LocallyLocked(off) PROVE FALSE
    <3>1. s \in Free(bitmap[off]) /\ Cardinality(FreeAfter(bitmap[off], s)) < llock[off]
      BY <2>3 DEF LocallyLocked
    <3>2. s < i /\ s \in Int
      BY <1>0, <1>1, <2>1, <3>1 DEF PassCounts, Free
    <3>3. rlockReal + Cardinality(FreeBefore(bitmap[off], i)) + llock[off]
            <= Cardinality(Free(bitmap[off]))
      BY <1>0, <2>1 DEF PassCounts
    <3>4. Cardinality(FreeBefore(bitmap[off], i)) + Cardinality(FreeAfter(bitmap[off], i - 1))
            = Cardinality(Free(bitmap[off]))
      BY <2>2, FreeSplit
    <3>5. Cardinality(FreeAfter(bitmap[off], i - 1)) <= Cardinality(FreeAfter(bitmap[off], s))
      <4>1. s <= i - 1 /\ i - 1 \in Int
        BY <2>2, <3>2
      <4> QED BY <3>2, <4>1, FreeAfterBound
    <3> QED BY <1>1, <1>2, <1>3, <3>1, <3>3, <3>4, <3>5
  <2> QED BY <1>0, <2>1, <2>3 DEF PassCounts, LocallyLocked
<1>11. CASE LocalSlot
  <2>1. /\ spc = "local" /\ spc' = "local" /\ i \in Slots /\ i' = i - 1 /\ llockReal > 0
        /\ UNCHANGED <<off, bitmap, llock>>
    BY <1>0, <1>11 DEF LocalSlot, indexVars, TypeInv, LoopsInRange
  <2>2. /\ bitmap[off] \subseteq tmpBitmap /\ tmpFree = Cardinality(Free(tmpBitmap))
        /\ \A s \in tmpBitmap \cap LocallyLocked(off) : s > i
    BY <1>0, <2>1 DEF PassCounts
  <2>3. i \notin bitmap[off] => i \in LocallyLocked(off)
    <3>1. llockReal + Cardinality(FreeAfter(bitmap[off], i)) = llock[off]
      BY <1>0, <2>1 DEF PassCovers
    <3>2. Cardinality(FreeAfter(bitmap[off], i)) < llock[off]
      BY <1>1, <1>3, <2>1, <3>1
    <3> QED BY <2>1, <3>2 DEF LocallyLocked, Free
  <2>4. CASE UNCHANGED <<tmpBitmap, tmpFree>>
    BY <1>1, <2>1, <2>2, <2>4 DEF PassCounts, LocallyLocked
  <2>5. CASE ~UNCHANGED <<tmpBitmap, tmpFree>>
    <3>1. /\ i \notin bitmap[off] /\ tmpBitmap' = tmpBitmap \cup {i}
          /\ tmpFree' = Byte(tmpFree - 1)
      BY <1>11, <2>5 DEF LocalSlot
    <3>2. i \notin tmpBitmap
      BY <2>1, <2>2, <2>3, <3>1
    <3>3. tmpFree' = Cardinality(Free(tmpBitmap'))
      BY <2>1, <2>2, <3>1, <3>2, CountedCopy
    <3>4. \A s \in tmpBitmap' \cap LocallyLocked(off) : s > i - 1
      BY <1>1, <2>1, <2>2, <3>1
    <3> QED BY <2>1, <2>2, <3>1, <3>3, <3>4 DEF PassCounts, LocallyLocked
  <2> QED BY <2>4, <2>5
<1>12. CASE LocalDone
  <2>1. /\ spc = "local" /\ spc' = "scan"
        /\ UNCHANGED <<off, bitmap, tmpBitmap, tmpFree>>
    BY <1>12 DEF LocalDone, indexVars, dealVars
  <2> QED BY <1>0, <2>1 DEF PassCounts
<1>13. CASE ScanSlot
  <2>1. /\ spc = "scan" /\ spc' = "scan" /\ i \in Slots /\ i' = i + 1
        /\ UNCHANGED <<off, bitmap>>
        /\ \/ UNCHANGED <<tmpBitmap, tmpFree>>
           \/ /\ i \in bitmap[off] /\ tmpBitmap' = tmpBitmap \ {i}
              /\ tmpFree' = Byte(tmpFree + 1)
    BY <1>0, <1>13 DEF ScanSlot, indexVars, TypeInv, LoopsInRange
  <2>2. /\ \A s \in bitmap[off] : s >= i => s \in tmpBitmap
        /\ tmpFree = Cardinality(Free(tmpBitmap))
    BY <1>0, <2>1 DEF PassCounts
  <2>3. tmpFree' = Cardinality(Free(tmpBitmap'))
    <3>1. CASE UNCHANGED <<tmpBitmap, tmpFree>>
      BY <2>2, <3>1
    <3>2. CASE i \in bitmap[off] /\ tmpBitmap' = tmpBitmap \ {i} /\ tmpFree' = Byte(tmpFree + 1)
      <4>1. i \in tmpBitmap
        BY <2>1, <2>2, <3>2
      <4> QED BY <2>1, <2>2, <3>2, <4>1, CountedCopy
    <3> QED BY <2>1, <3>1, <3>2
  <2>4. \A s \in bitmap[off] : s >= i + 1 => s \in tmpBitmap'
    BY <1>1, <2>1, <2>2
  <2> QED BY <2>1, <2>3, <2>4 DEF PassCounts
<1>14. CASE RelocPick
  <2>1. /\ spc = "reloc" /\ spc' = "probe" /\ i \in Slots /\ Valid(off, i)
        /\ UNCHANGED <<off, bitmap, tmpBitmap, tmpFree, i>>
    BY <1>0, <1>14 DEF RelocPick, indexVars, dealVars, Valid, TypeInv, LoopsInRange
  <2>2. i \in tmpBitmap
    BY <1>0, <2>1 DEF PassCovers, Settled
  <2> QED BY <1>0, <2>1, <2>2 DEF PassCounts
<1>15. CASE DropOriginal
  <2>1. /\ spc = "drop" /\ spc' \in {"store", "reloc"} /\ i \in Slots
        /\ tmpBitmap' = tmpBitmap \ {i} /\ tmpFree' = Byte(tmpFree + 1)
    BY <1>0, <1>15 DEF DropOriginal, TypeInv, LoopsInRange
  <2>2. i \in tmpBitmap /\ tmpFree = Cardinality(Free(tmpBitmap))
    BY <1>0, <2>1 DEF PassCounts
  <2>3. tmpFree' = Cardinality(Free(tmpBitmap'))
    BY <2>1, <2>2, CountedCopy
  <2> QED BY <2>1, <2>3 DEF PassCounts
<1>16. CASE \/ ScanDone \/ RelocSkip \/ RelocDone \/ ProbeRoom \/ ProbeNext \/ ProbeEnd
            \/ LockNeighbour \/ UnlockNeighbour \/ CopyLine \/ ValidateCopy
  <2>1. UNCHANGED <<off, bitmap, tmpBitmap, tmpFree>> /\ Copied
    BY <1>16 DEF ScanDone, RelocSkip, RelocDone, ProbeRoom, ProbeNext, ProbeEnd,
         LockNeighbour, UnlockNeighbour, CopyLine, ValidateCopy, indexVars, dealVars
  <2>2. /\ spc' \in {"store", "reloc", "probe", "lock", "unlock", "copy", "validate", "drop"}
        /\ spc' \in {"probe", "lock", "copy", "validate", "drop"} =>
             i' = i /\ spc \in {"probe", "lock", "copy", "validate", "drop"}
    BY <1>16 DEF ScanDone, RelocSkip, RelocDone, ProbeRoom, ProbeNext, ProbeEnd,
         LockNeighbour, UnlockNeighbour, CopyLine, ValidateCopy
  <2> QED BY <1>0, <2>1, <2>2 DEF PassCounts
<1> QED BY <1>4, <1>5, <1>6, <1>7, <1>8, <1>9, <1>10, <1>11, <1>12, <1>13, <1>14, <1>15,
           <1>16 DEF Server, Deal, Relocate
LEMMA CountNext ==
  ASSUME Opcodes \subseteq {UPSERT}, CountInv, [Next]_vars PROVE CountInv'
<1>0. CoverInv /\ CoverInv' /\ TypeInv /\ NoDelete /\ PassCounts /\ FreeCountExact
  BY CoverNext DEF CountInv, CoverInv
<1>1. CASE Server
  <2>1. NoDelete'
    BY <1>0, <1>1, NoDeleteNext DEF Next
  <2> QED BY <1>0, <1>1, <2>1, FreeCountStored, PassCountsServer DEF CountInv
<1>2. ASSUME NEW c \in Clients, Client(c) PROVE CountInv'
  <2>1. NoDelete'
    BY <1>0, <1>2, NoDeleteNext DEF Next
  <2>2. UNCHANGED <<bitmap, freecount, llock, spc, i, dealVars>>
    BY <1>2, ClientLeaves
  <2>3. PassCounts' /\ FreeCountExact'
    BY <1>0, <2>2 DEF PassCounts, FreeCountExact, Copied, LocallyLocked, dealVars
  <2> QED BY <1>0, <2>1, <2>3 DEF CountInv
<1>3. CASE UNCHANGED vars
  <2>1. UNCHANGED <<bitmap, freecount, llock, spc, i, dealVars, dline, req>>
    BY <1>3 DEF vars, indexVars, clientVars
  <2>2. PassCounts' /\ FreeCountExact' /\ NoDelete'
    BY <1>0, <2>1 DEF PassCounts, FreeCountExact, NoDelete, Copied, LocallyLocked, dealVars
  <2> QED BY <1>0, <2>2 DEF CountInv
<1> QED BY <1>1, <1>2, <1>3 DEF Next

(* As long as nobody deletes, the free count of every bucket is the number *)
(* of its clear bits, for every schedule of writers, tidying and           *)
(* relocation: deal_pending keeps the two in step on its copy              *)
(* (api.cpp:354-470).  With deletes it does not: run delete_leak.          *)
THEOREM FreeCountIsExact ==
  ASSUME Opcodes \subseteq {UPSERT} PROVE Spec => []FreeCountExact
<1>1. Init => CountInv
  BY CountInit
<1>2. CountInv /\ [Next]_vars => CountInv'
  BY CountNext
<1>3. CountInv => FreeCountExact
  BY DEF CountInv
<1> QED BY <1>1, <1>2, <1>3, PTL DEF Spec

(* What CountInv says of the counts of one bucket.                         *)
LEMMA CountTypes ==
  ASSUME CountInv, NEW b \in Buckets
  PROVE  /\ freecount[b] = Cardinality(Free(bitmap[b])) /\ freecount[b] \in 0..LineNum
         /\ llock[b] \in 0..255 /\ rlock[b] \in 0..MaxRlock
<1>1. llock[b] \in 0..255 /\ rlock[b] \in 0..MaxRlock
  BY IndexTypes DEF CountInv, CoverInv, TypeInv, TypeOK
<1>2. freecount[b] = Cardinality(Free(bitmap[b]))
  BY DEF CountInv, FreeCountExact
<1> QED BY <1>1, <1>2, FreeCounts

(* A bucket whose counts promise a free slot has one.                      *)
LEMMA PromisedSlot ==
  ASSUME CountInv, NEW b \in Buckets, HasFree(b) PROVE GrantSlot(b) # NoSlot
<1>1. /\ freecount[b] = Cardinality(Free(bitmap[b])) /\ freecount[b] \in 0..LineNum
      /\ llock[b] \in 0..255 /\ rlock[b] \in 0..MaxRlock
  BY CountTypes
<1>2. rlock[b] \in Nat /\ rlock[b] < Cardinality(Free(bitmap[b]))
  BY <1>1 DEF HasFree
<1> QED BY <1>2, FromLeftFinds DEF GrantSlot

(* "cannot find a free slot, metadata error!" (api.cpp:606) is never       *)
(* reached as long as nobody deletes: a bucket whose counts promise a free *)
(* slot has one of the rank of the next remote lock.                       *)
THEOREM NoMetadataError ==
  ASSUME Opcodes \subseteq {UPSERT} PROVE Spec => []FreeCountHonest
<1>1. Init => CountInv
  BY CountInit
<1>2. CountInv /\ [Next]_vars => CountInv'
  BY CountNext
<1>3. CountInv => FreeCountHonest
  <2> SUFFICES ASSUME CountInv, NEW b \in Buckets, HasFree(b) PROVE GrantSlot(b) # NoSlot
    BY DEF FreeCountHonest
  <2> QED BY PromisedSlot
<1> QED BY <1>1, <1>2, <1>3, PTL DEF Spec

---------------------------------------------------------------------------
Announces(c, b) == c \in fresh /\ grant[c].last /\ Home[req[c].key] = b
Queued(n, b)    == n \in 1..Len(arrived) /\ arrived[n] = b
Tidied(b)       == spc # "poll" /\ off = b

Announced(b) ==
  \/ \E c \in Clients : Announces(c, b)
  \/ \E n \in 1..Len(arrived) : Queued(n, b)
  \/ Tidied(b)

AtMostOne ==
  \A b \in Buckets :
    /\ \A c, d \in Clients : Announces(c, b) /\ Announces(d, b) => c = d
    /\ \A m, n \in 1..Len(arrived) : Queued(m, b) /\ Queued(n, b) => m = n
    /\ \A c \in Clients, n \in 1..Len(arrived) : ~(Announces(c, b) /\ Queued(n, b))
    /\ \A c \in Clients : ~(Announces(c, b) /\ Tidied(b))
    /\ \A n \in 1..Len(arrived) : ~(Queued(n, b) /\ Tidied(b))

(* An announced bucket grants nothing, hence is not announced again; and   *)
(* no grant outlives the pass over its bucket.                             *)
AnnouncedIsFull == \A b \in Buckets : Announced(b) => ~HasFree(b)
LastIsFresh     == \A c \in Clients : grant[c].last => c \in fresh

(* What these need of the counts: they promise no slot that is not there.  *)
FreeCountBelow == \A b \in Buckets : freecount[b] <= Cardinality(Free(bitmap[b]))

AnnounceInv == CoverInv /\ FreeCountBelow /\ AtMostOne /\ AnnouncedIsFull /\ LastIsFresh

LEMMA ExactIsBelow == CountInv => FreeCountBelow
<1> SUFFICES ASSUME CountInv, NEW b \in Buckets
             PROVE  freecount[b] <= Cardinality(Free(bitmap[b]))
  BY DEF FreeCountBelow
<1> QED BY CountTypes

LEMMA ExactIsBelowNext == CountInv' => FreeCountBelow'
<1>1. CountInv => FreeCountBelow
  BY ExactIsBelow
<1> QED BY <1>1, PTL

LEMMA BelowTypes ==
  ASSUME CoverInv, FreeCountBelow, NEW b \in Buckets
  PROVE  /\ freecount[b] <= Cardinality(Free(bitmap[b])) /\ freecount[b] \in 0..LineNum
         /\ llock[b] \in 0..255 /\ rlock[b] \in 0..MaxRlock
         /\ Cardinality(Free(bitmap[b])) \in 0..LineNum
<1>1. /\ freecount[b] \in 0..255 /\ llock[b] \in 0..255 /\ rlock[b] \in 0..MaxRlock
  BY IndexTypes DEF CoverInv, TypeInv, TypeOK
<1>2. freecount[b] <= Cardinality(Free(bitmap[b]))
  BY DEF FreeCountBelow
<1>3. Cardinality(Free(bitmap[b])) \in 0..LineNum
  BY FreeCounts
<1> QED BY <1>1, <1>2, <1>3

LEMMA AnnounceInit == Init => AnnounceInv
<1> SUFFICES ASSUME Init PROVE AnnounceInv
  OBVIOUS
<1>1. CountInv
  BY CountInit
<1>2. AtMostOne /\ AnnouncedIsFull /\ LastIsFresh
  BY DEF Init, AtMostOne, AnnouncedIsFull, LastIsFresh,
         Announced, Announces, Queued, Tidied, NoGrant
<1> QED BY <1>1, <1>2, ExactIsBelow DEF AnnounceInv, CountInv

(* Steps that announce nothing new, and leave what is announced full. *)
LEMMA AnnounceKept ==
  ASSUME AtMostOne, AnnouncedIsFull, arrived' = arrived,
         \A c \in Clients, b \in Buckets : Announces(c, b)' => Announces(c, b),
         \A b \in Buckets : Tidied(b)' => Tidied(b),
         \A b \in Buckets : Announced(b)' /\ HasFree(b)' => HasFree(b)
  PROVE  AtMostOne' /\ AnnouncedIsFull'
<1>1. \A n, b : Queued(n, b)' <=> Queued(n, b)
  BY DEF Queued
<1>2. AtMostOne'
  BY <1>1 DEF AtMostOne
<1>3. \A b \in Buckets : Announced(b)' => Announced(b)
  BY <1>1 DEF Announced
<1> QED BY <1>2, <1>3 DEF AnnouncedIsFull

(* The grant of the last free slot announces a bucket that was not         *)
(* announced, and fills it.                                                *)
LEMMA AnnounceGranted ==
  ASSUME AnnounceInv, NEW c \in Clients, NEW k \in Keys, NEW v \in Values,
         NEW op \in Opcodes, LockGranted(c, k, v, op)
  PROVE  AtMostOne' /\ AnnouncedIsFull' /\ LastIsFresh'
<1> DEFINE h == Home[k]
<1>0. /\ CoverInv /\ FreeCountBelow /\ AtMostOne /\ AnnouncedIsFull /\ LastIsFresh /\ TypeOK
      /\ h \in Buckets
  BY HomeType DEF AnnounceInv, CoverInv, TypeInv
<1>1. /\ HasFree(h) /\ pc[c] = "idle"
      /\ UNCHANGED <<freecount, llock, arrived, spc, off>>
      /\ fresh' = fresh \cup {c}
      /\ rlock' = [rlock EXCEPT ![h] = IF @ < MaxRlock THEN @ + 1 ELSE @]
  BY DEF LockGranted, FetchAndAdd, queueVars, dealVars
<1>2. /\ req'[c].key = k /\ (grant'[c].last <=> IsLast(h))
      /\ \A d \in Clients : d # c => req'[d] = req[d] /\ grant'[d] = grant[d]
  <2>1. req \in [Clients -> DataLine]
    BY <1>0 DEF TypeOK, ClientType
  <2>2. DOMAIN grant = Clients
    BY <1>0 DEF TypeOK, ClientType
  <2>3. grant' = [grant EXCEPT ![c] = [slot |-> GrantSlot(h), last |-> IsLast(h)]]
    BY DEF LockGranted
  <2>4. req' = [req EXCEPT ![c] = [key |-> k, value |-> v, valid |-> op]]
    BY DEF LockGranted
  <2>5. req'[c].key = k /\ \A d \in Clients : d # c => req'[d] = req[d]
    BY <2>1, <2>4
  <2>6. grant'[c].last = IsLast(h) /\ \A d \in Clients : d # c => grant'[d] = grant[d]
    BY <2>2, <2>3
  <2> QED BY <2>5, <2>6
<1>3. c \notin fresh
  BY <1>0, <1>1 DEF TypeOK, ClientType
<1>4. ~Announced(h)
  BY <1>0, <1>1 DEF AnnouncedIsFull
<1>5. /\ \A d \in Clients, b \in Buckets : d # c => (Announces(d, b)' <=> Announces(d, b))
      /\ \A b \in Buckets : Announces(c, b)' <=> b = h /\ IsLast(h)
      /\ \A n, b : Queued(n, b)' <=> Queued(n, b)
      /\ \A b : Tidied(b)' <=> Tidied(b)
  BY <1>1, <1>2 DEF Announces, Queued, Tidied
<1>6. \A b \in Buckets : ~Announces(c, b)
  BY <1>3 DEF Announces
<1>7. AtMostOne'
  <2> SUFFICES ASSUME NEW b \in Buckets
      PROVE
        /\ \A d, e \in Clients : Announces(d, b)' /\ Announces(e, b)' => d = e
        /\ \A m, n \in 1..Len(arrived)' : Queued(m, b)' /\ Queued(n, b)' => m = n
        /\ \A d \in Clients, n \in 1..Len(arrived)' : ~(Announces(d, b)' /\ Queued(n, b)')
        /\ \A d \in Clients : ~(Announces(d, b)' /\ Tidied(b)')
        /\ \A n \in 1..Len(arrived)' : ~(Queued(n, b)' /\ Tidied(b)')
    BY DEF AtMostOne
  <2>1. CASE b # h
    BY <1>0, <1>1, <1>5, <1>6, <2>1 DEF AtMostOne
  <2>2. CASE b = h
    BY <1>1, <1>4, <1>5, <2>2 DEF Announced
  <2> QED BY <2>1, <2>2
<1>8. IsLast(h) <=> ~HasFree(h)'
  <2>1. /\ freecount[h] \in 0..LineNum /\ llock[h] \in 0..255 /\ rlock[h] \in 0..MaxRlock
    BY <1>0, BelowTypes
  <2>2. rlock[h] < LineNum /\ freecount[h] > llock[h] + rlock[h]
    BY <1>1, <2>1 DEF HasFree
  <2>3. rlock'[h] = rlock[h] + 1
    <3>1. rlock \in [Buckets -> 0..MaxRlock]
      BY <1>0 DEF TypeOK, IndexType
    <3>2. rlock[h] < MaxRlock
      BY <2>1, <2>2
    <3> QED BY <1>0, <1>1, <3>1, <3>2
  <2>4. HasFree(h)' <=> freecount[h] > llock[h] + (rlock[h] + 1)
    BY <1>1, <2>3 DEF HasFree
  <2> HIDE DEF h
  <2> QED BY <2>1, <2>2, <2>4 DEF IsLast
<1>9. AnnouncedIsFull'
  <2> SUFFICES ASSUME NEW b \in Buckets, Announced(b)' PROVE ~HasFree(b)'
    BY DEF AnnouncedIsFull
  <2>1. CASE b # h
    <3>1. Announced(b)
      BY <1>1, <1>5, <2>1 DEF Announced
    <3>2. rlock'[b] = rlock[b]
      BY <1>0, <1>1, <2>1 DEF TypeOK, IndexType
    <3> QED BY <1>0, <1>1, <3>1, <3>2 DEF AnnouncedIsFull, HasFree
  <2>2. CASE b = h
    <3>1. Announces(c, h)'
      BY <1>1, <1>4, <1>5, <2>2 DEF Announced
    <3> QED BY <1>0, <1>5, <1>8, <2>2, <3>1
  <2> QED BY <2>1, <2>2
<1>10. LastIsFresh'
  BY <1>0, <1>1, <1>2 DEF LastIsFresh
<1> QED BY <1>7, <1>9, <1>10

(* The write with immediate turns the announcement over to the queue, and  *)
(* the server takes it from there.                                         *)
LEMMA AnnounceNotified ==
  ASSUME AnnounceInv, NEW c \in Clients, WriteNotify(c)
  PROVE  AtMostOne' /\ AnnouncedIsFull' /\ LastIsFresh'
<1>0. /\ AtMostOne /\ AnnouncedIsFull /\ LastIsFresh /\ TypeOK /\ arrived \in Seq(Buckets)
  BY DEF AnnounceInv, CoverInv, TypeInv, TypeOK, QueueType
<1> DEFINE h == Home[req[c].key]
<1>1. /\ grant[c].last /\ fresh' = fresh \ {c} /\ arrived' = Append(arrived, h)
      /\ UNCHANGED <<indexVars, spc, off>>
  BY DEF WriteNotify, EndWrite, dealVars
<1>2. /\ \A d \in Clients : d # c => req'[d] = req[d] /\ grant'[d] = grant[d]
      /\ ~grant'[c].last
  BY <1>0 DEF WriteNotify, EndWrite, TypeOK, ClientType, NoGrant
<1>3. Announces(c, h)
  BY <1>0, <1>1 DEF LastIsFresh, Announces
<1>4. \A b \in Buckets : Announces(c, b) => b = h
  BY DEF Announces
<1>5. \A d \in Clients, b \in Buckets : Announces(d, b)' <=> d # c /\ Announces(d, b)
  BY <1>1, <1>2 DEF Announces
<1>6. /\ Len(arrived') = Len(arrived) + 1 /\ Len(arrived) \in Nat
      /\ \A n \in 1..Len(arrived) : arrived'[n] = arrived[n]
      /\ arrived'[Len(arrived) + 1] = h
  <2>1. h \in Buckets
    BY <1>0, HomeType DEF TypeOK, ClientType, DataLine
  <2> QED BY <1>0, <1>1, <2>1
<1>7. \A n, b : Queued(n, b)' <=> Queued(n, b) \/ (n = Len(arrived) + 1 /\ b = h)
  BY <1>6 DEF Queued
<1>8. \A b : Tidied(b)' <=> Tidied(b)
  BY <1>1 DEF Tidied
<1>9. h \in Buckets
  BY <1>0, HomeType DEF TypeOK, ClientType, DataLine
<1> HIDE DEF h
<1>10. AtMostOne'
  <2> SUFFICES ASSUME NEW b \in Buckets
      PROVE
        /\ \A d, e \in Clients : Announces(d, b)' /\ Announces(e, b)' => d = e
        /\ \A m, n \in 1..Len(arrived)' : Queued(m, b)' /\ Queued(n, b)' => m = n
        /\ \A d \in Clients, n \in 1..Len(arrived)' : ~(Announces(d, b)' /\ Queued(n, b)')
        /\ \A d \in Clients : ~(Announces(d, b)' /\ Tidied(b)')
        /\ \A n \in 1..Len(arrived)' : ~(Queued(n, b)' /\ Tidied(b)')
    BY DEF AtMostOne
  <2>1. CASE b # h
    <3>1. \A n : Queued(n, b)' => n \in 1..Len(arrived) /\ Queued(n, b)
      BY <1>7, <2>1 DEF Queued
    <3> QED BY <1>0, <1>5, <1>8, <3>1 DEF AtMostOne
  <2>2. CASE b = h
    <3>1. \A d \in Clients : Announces(d, h) => d = c
      BY <1>0, <1>3, <1>9 DEF AtMostOne
    <3>2. \A d \in Clients : ~Announces(d, b)'
      BY <1>5, <2>2, <3>1
    <3>3. \A n : ~Queued(n, h) /\ ~Tidied(h)
      BY <1>0, <1>3, <1>9 DEF AtMostOne, Queued
    <3>4. /\ \A n : Queued(n, b)' => n = Len(arrived) + 1
          /\ ~Tidied(b)'
      BY <1>7, <1>8, <2>2, <3>3
    <3> QED BY <3>2, <3>4
  <2> QED BY <2>1, <2>2
<1>11. \A b \in Buckets : Announced(b)' => Announced(b)
  BY <1>3, <1>5, <1>7, <1>8 DEF Announced, Queued
<1>13. AnnouncedIsFull'
  BY <1>0, <1>1, <1>11 DEF AnnouncedIsFull, HasFree, indexVars
<1>14. LastIsFresh'
  BY <1>0, <1>1, <1>2 DEF LastIsFresh
<1> QED BY <1>10, <1>13, <1>14

LEMMA AnnouncePolled ==
  ASSUME AnnounceInv, PollRecv
  PROVE  AtMostOne' /\ AnnouncedIsFull' /\ LastIsFresh'
<1>0. /\ AtMostOne /\ AnnouncedIsFull /\ LastIsFresh /\ arrived \in Seq(Buckets)
  BY DEF AnnounceInv, CoverInv, TypeInv, TypeOK, QueueType
<1>1. /\ spc = "poll" /\ spc' = "repost" /\ arrived # <<>>
      /\ off' = Head(arrived) /\ arrived' = Tail(arrived)
      /\ UNCHANGED <<indexVars, fresh, grant, req>>
  BY DEF PollRecv, clientVars
<1>2. /\ Len(arrived) \in Nat \ {0} /\ Len(arrived') = Len(arrived) - 1
      /\ off' = arrived[1]
      /\ \A n \in 1..Len(arrived') : arrived'[n] = arrived[n + 1]
  BY <1>0, <1>1
<1>3. /\ \A c \in Clients, b \in Buckets : Announces(c, b)' <=> Announces(c, b)
      /\ \A n, b : Queued(n, b)' => n \in 1..Len(arrived') /\ Queued(n + 1, b)
      /\ \A b : ~Tidied(b)
      /\ \A b : Tidied(b)' => Queued(1, b)
  BY <1>1, <1>2 DEF Announces, Queued, Tidied
<1>4. AtMostOne'
  <2> SUFFICES ASSUME NEW b \in Buckets
      PROVE
        /\ \A d, e \in Clients : Announces(d, b)' /\ Announces(e, b)' => d = e
        /\ \A m, n \in 1..Len(arrived)' : Queued(m, b)' /\ Queued(n, b)' => m = n
        /\ \A d \in Clients, n \in 1..Len(arrived)' : ~(Announces(d, b)' /\ Queued(n, b)')
        /\ \A d \in Clients : ~(Announces(d, b)' /\ Tidied(b)')
        /\ \A n \in 1..Len(arrived)' : ~(Queued(n, b)' /\ Tidied(b)')
    BY DEF AtMostOne
  <2>1. \A m, n \in 1..Len(arrived) : Queued(m, b) /\ Queued(n, b) => m = n
    BY <1>0 DEF AtMostOne
  <2>2. \A d \in Clients, n \in 1..Len(arrived) : ~(Announces(d, b) /\ Queued(n, b))
    BY <1>0 DEF AtMostOne
  <2>3. \A d, e \in Clients : Announces(d, b) /\ Announces(e, b) => d = e
    BY <1>0 DEF AtMostOne
  <2>4. 1 \in 1..Len(arrived) /\ \A n \in 1..Len(arrived') : n + 1 \in 1..Len(arrived)
    BY <1>2
  <2>5. \A m, n \in 1..Len(arrived)' : Queued(m, b)' /\ Queued(n, b)' => m = n
    <3> SUFFICES ASSUME NEW m \in 1..Len(arrived'), NEW n \in 1..Len(arrived'),
                        Queued(m, b)', Queued(n, b)'
                 PROVE  m = n
      OBVIOUS
    <3>1. m + 1 = n + 1
      BY <1>3, <2>1, <2>4
    <3> QED BY <3>1
  <2>6. \A d \in Clients, n \in 1..Len(arrived)' : ~(Announces(d, b)' /\ Queued(n, b)')
    BY <1>3, <2>2, <2>4
  <2>7. \A d \in Clients : ~(Announces(d, b)' /\ Tidied(b)')
    BY <1>3, <2>2, <2>4
  <2>8. \A n \in 1..Len(arrived)' : ~(Queued(n, b)' /\ Tidied(b)')
    <3> SUFFICES ASSUME NEW n \in 1..Len(arrived'), Queued(n, b)', Tidied(b)' PROVE FALSE
      OBVIOUS
    <3>1. n + 1 = 1
      BY <1>3, <2>1, <2>4
    <3> QED BY <3>1
  <2> QED BY <1>3, <2>3, <2>5, <2>6, <2>7, <2>8
<1>5. \A b \in Buckets : Announced(b)' => Announced(b)
  <2>1. 1 \in 1..Len(arrived) /\ \A n \in 1..Len(arrived') : n + 1 \in 1..Len(arrived)
    BY <1>2
  <2> QED BY <1>3, <2>1 DEF Announced
<1>7. AnnouncedIsFull'
  BY <1>0, <1>1, <1>5 DEF AnnouncedIsFull, HasFree, indexVars
<1>8. LastIsFresh'
  BY <1>0, <1>1 DEF LastIsFresh
<1> QED BY <1>4, <1>7, <1>8

(* The reset of a bucket ends its announcement: the pass was the only one. *)
LEMMA AnnounceStored ==
  ASSUME AnnounceInv, IndexStore PROVE AtMostOne' /\ AnnouncedIsFull' /\ LastIsFresh'
<1>0. /\ AtMostOne /\ AnnouncedIsFull /\ LastIsFresh /\ TypeOK /\ IndexType /\ off \in Buckets
  BY DEF AnnounceInv, CoverInv, TypeInv, TypeOK, DealType
<1>1. /\ spc = "store" /\ spc' = "poll" /\ UNCHANGED <<arrived, grant, req>>
      /\ fresh' = {c \in fresh : Home[req[c].key] # off}
      /\ \A b \in Buckets : b # off =>
           freecount'[b] = freecount[b] /\ llock'[b] = llock[b] /\ rlock'[b] = rlock[b]
  BY <1>0 DEF IndexStore, queueVars, IndexType
<1>2. Tidied(off)
  BY <1>1 DEF Tidied
<1>3. /\ \A c \in Clients, b \in Buckets : Announces(c, b)' => Announces(c, b) /\ b # off
      /\ \A b : ~Tidied(b)'
      /\ \A n, b : Queued(n, b)' <=> Queued(n, b)
  BY <1>1 DEF Announces, Tidied, Queued
<1>4. \A n : ~Queued(n, off)
  BY <1>0, <1>2 DEF AtMostOne, Queued
<1>5. \A b \in Buckets : Announced(b)' /\ HasFree(b)' => HasFree(b)
  <2> SUFFICES ASSUME NEW b \in Buckets, Announced(b)', HasFree(b)' PROVE HasFree(b)
    OBVIOUS
  <2>1. b # off
    BY <1>3, <1>4 DEF Announced
  <2> QED BY <1>1, <2>1 DEF HasFree
<1>6. AtMostOne' /\ AnnouncedIsFull'
  BY <1>0, <1>1, <1>3, <1>5, AnnounceKept
<1>7. LastIsFresh'
  <2> SUFFICES ASSUME NEW c \in Clients, grant[c].last PROVE Home[req[c].key] # off
    BY <1>0, <1>1 DEF LastIsFresh
  <2>1. c \in fresh
    BY <1>0 DEF LastIsFresh
  <2>2. ~Announces(c, off)
    BY <1>0, <1>2 DEF AtMostOne
  <2> QED BY <2>1, <2>2 DEF Announces
<1> QED BY <1>6, <1>7

(* What the steps of a pass leave alone. *)
LEMMA PassLeaves ==
  ASSUME Server, ~PollRecv, ~IndexStore
  PROVE  /\ spc # "poll" /\ spc' # "poll"
         /\ UNCHANGED <<freecount, rlock, arrived, clientVars, off, bitmap>>
         /\ llock' = llock \/ LockNeighbour \/ UnlockNeighbour
  BY DEF Server, PostRecv, Deal, DealBegin, RemoteSkip, RemoteRetire,
         CommitUpsert, CommitDelete, NextRemote, RemoteDone, LocalSlot, LocalDone,
         ScanSlot, ScanDone, Relocate, RelocPick, RelocSkip, RelocDone,
         ProbeRoom, ProbeNext, ProbeEnd, LockNeighbour, UnlockNeighbour, CopyLine,
         ValidateCopy, DropOriginal, clientVars, queueVars, indexVars, dealVars

(* During a pass nothing empties a bucket of its locks. *)
LEMMA AnnounceTidied ==
  ASSUME AnnounceInv, Server, ~PollRecv, ~IndexStore
  PROVE  AtMostOne' /\ AnnouncedIsFull' /\ LastIsFresh'
<1>0. AtMostOne /\ AnnouncedIsFull /\ LastIsFresh /\ CoverInv /\ FreeCountBelow
  BY DEF AnnounceInv
<1>1. /\ spc # "poll" /\ spc' # "poll"
      /\ UNCHANGED <<freecount, rlock, arrived, fresh, grant, req, off, bitmap>>
      /\ llock' = llock \/ LockNeighbour \/ UnlockNeighbour
  BY PassLeaves DEF clientVars
<1>2. /\ \A c \in Clients, b \in Buckets : Announces(c, b)' <=> Announces(c, b)
      /\ \A b : Tidied(b)' <=> Tidied(b)
      /\ \A n, b : Queued(n, b)' <=> Queued(n, b)
  BY <1>1 DEF Announces, Tidied, Queued
<1>3. \A b \in Buckets : HasFree(b)' => HasFree(b)
  <2>1. CASE llock' = llock
    BY <1>1, <2>1 DEF HasFree
  <2>2. CASE LockNeighbour \/ UnlockNeighbour
    <3> SUFFICES ASSUME NEW b \in Buckets, HasFree(b)' PROVE HasFree(b)
      OBVIOUS
    <3>1. /\ freecount[b] <= Cardinality(Free(bitmap[b])) /\ freecount[b] \in 0..LineNum
          /\ Cardinality(Free(bitmap[b])) \in 0..LineNum
          /\ llock[b] \in 0..255 /\ rlock[b] \in 0..MaxRlock
      BY <1>0, BelowTypes
    <3>2. /\ llock'[b] >= llock[b] \/ llock'[b] >= Cardinality(Free(bitmap[b]))
          /\ llock'[b] \in Int
      BY <1>0, <2>2, LockStep
    <3>3. freecount[b] > llock'[b] + rlock[b]
      BY <1>1 DEF HasFree
    <3>4. freecount[b] > llock[b] + rlock[b]
      BY <3>1, <3>2, <3>3
    <3> QED BY <3>4 DEF HasFree
  <2> QED BY <1>1, <2>1, <2>2
<1>4. AtMostOne' /\ AnnouncedIsFull'
  BY <1>0, <1>1, <1>2, <1>3, AnnounceKept
<1>5. LastIsFresh'
  BY <1>0, <1>1 DEF LastIsFresh
<1> QED BY <1>4, <1>5

(* The other steps of a client announce nothing.                           *)
LEMMA AnnounceClient ==
  ASSUME AnnounceInv, NEW c \in Clients, Client(c),
         ~WriteNotify(c),
         \A k \in Keys, v \in Values, op \in Opcodes : ~LockGranted(c, k, v, op)
  PROVE  AtMostOne' /\ AnnouncedIsFull' /\ LastIsFresh'
<1>0. /\ AtMostOne /\ AnnouncedIsFull /\ LastIsFresh /\ TypeOK /\ ClientType /\ IndexType
      /\ CoverInv /\ FreeCountBelow
  BY DEF AnnounceInv, CoverInv, TypeInv, TypeOK
<1>1. UNCHANGED <<arrived, freecount, llock, spc, off>>
  BY ClientLeaves DEF Client, LockRefused, StartSearch, Write, ScanHome, ScanNeighbour,
       ScanBucketEnd, EndSearch, Break, CallFlushed, vars, queueVars, dealVars
<1>2. \A b \in Buckets : rlock'[b] >= rlock[b] /\ rlock'[b] \in Int
  <2>1. rlock \in [Buckets -> 0..MaxRlock] /\ MaxRlock \in Nat
    BY <1>0 DEF IndexType
  <2>2. ASSUME NEW k \in Keys, LockRefused(c, k)
        PROVE  \A b \in Buckets : rlock'[b] >= rlock[b] /\ rlock'[b] \in Int
    <3>1. Home[k] \in Buckets /\ FetchAndAdd(Home[k])
      BY <2>2, HomeType DEF LockRefused
    <3>2. rlock' \in [Buckets -> 0..MaxRlock] /\ \A b \in Buckets : rlock[b] <= rlock'[b]
      BY <1>0, <3>1, FetchAndAddType, FetchAndAddCounts
    <3>3. \A b \in Buckets : rlock[b] \in 0..MaxRlock /\ rlock'[b] \in 0..MaxRlock
      BY <2>1, <3>2
    <3> QED BY <2>1, <3>2, <3>3
  <2>3. CASE rlock' = rlock
    <3>1. \A b \in Buckets : rlock[b] \in 0..MaxRlock
      BY <2>1
    <3> QED BY <2>3, <3>1
  <2> QED BY <2>2, <2>3 DEF Client, StartSearch, Write, EndWrite, ScanHome, ScanNeighbour,
       ScanBucketEnd, EndSearch, Break, CallFlushed, vars, indexVars
<1>3. \A b \in Buckets : HasFree(b)' => HasFree(b)
  <2> SUFFICES ASSUME NEW b \in Buckets, HasFree(b)' PROVE HasFree(b)
    OBVIOUS
  <2>1. freecount[b] \in 0..LineNum /\ llock[b] \in 0..255 /\ rlock[b] \in 0..MaxRlock
    BY <1>0, BelowTypes
  <2>2. freecount[b] > llock[b] + rlock'[b] /\ rlock'[b] >= rlock[b] /\ rlock'[b] \in Int
    BY <1>1, <1>2 DEF HasFree
  <2> QED BY <2>1, <2>2 DEF HasFree
<1>4. /\ \A d \in Clients : d # c => req'[d] = req[d] /\ grant'[d] = grant[d]
      /\ fresh' = fresh \/ (fresh' = fresh \ {c} /\ ~grant'[c].last)
      /\ c \in fresh' => req'[c] = req[c] /\ grant'[c] = grant[c]
      /\ grant'[c].last => grant'[c] = grant[c] /\ fresh' = fresh
      /\ c \in fresh \ fresh' => ~grant[c].last \/ pc'[c] = "broken"
  <2>0. /\ pc \in [Clients -> {"idle", "write", "scan", "return", "broken"}]
        /\ req \in [Clients -> DataLine] /\ DOMAIN grant = Clients
        /\ fresh \subseteq {d \in Clients : pc[d] = "write"}
    BY <1>0 DEF ClientType
  <2>1. CASE Write(c)
    BY <2>0, <2>1 DEF Write, EndWrite, NoGrant
  <2>2. CASE Break(c)
    BY <2>0, <2>2 DEF Break, NoGrant
  <2>3. CASE UNCHANGED <<fresh, grant, req>>
    BY <2>3
  <2>4. ASSUME NEW k, StartSearch(c, k)
        PROVE  /\ UNCHANGED <<fresh, grant>> /\ c \notin fresh
               /\ \A d \in Clients : d # c => req'[d] = req[d]
    BY <2>0, <2>4 DEF StartSearch
  <2>5. CASE EndSearch(c)
    <3>1. /\ UNCHANGED <<fresh, grant>> /\ c \notin fresh
          /\ \A d \in Clients : d # c => req'[d] = req[d]
      BY <2>0, <2>5 DEF EndSearch
    <3> QED BY <2>0, <3>1
  <2>6. ASSUME NEW k, StartSearch(c, k)
        PROVE  /\ fresh' = fresh /\ grant' = grant /\ \A d \in fresh : req'[d] = req[d]
               /\ \A d \in Clients : d # c => req'[d] = req[d]
    <3>1. UNCHANGED <<fresh, grant>> /\ c \notin fresh
      BY <2>4, <2>6
    <3> QED BY <2>0, <2>4, <2>6, <3>1
  <2> QED BY <2>1, <2>2, <2>3, <2>5, <2>6
          DEF Client, LockRefused, ScanHome, ScanNeighbour, ScanBucketEnd, CallFlushed,
              vars, clientVars
<1>5. \A d \in Clients, b \in Buckets : Announces(d, b)' => Announces(d, b)
  BY <1>4 DEF Announces
<1>6. AtMostOne' /\ AnnouncedIsFull'
  BY <1>0, <1>1, <1>3, <1>5, AnnounceKept DEF Tidied
<1>7. LastIsFresh'
  BY <1>0, <1>4 DEF LastIsFresh
<1> QED BY <1>6, <1>7

LEMMA AnnounceNext ==
  ASSUME AnnounceInv, [Next]_vars, FreeCountBelow' PROVE AnnounceInv'
<1>1. CoverInv' /\ AtMostOne /\ AnnouncedIsFull /\ LastIsFresh
  BY CoverNext DEF AnnounceInv
<1>2. CASE Server
  BY <1>1, <1>2, AnnouncePolled, AnnounceStored, AnnounceTidied DEF AnnounceInv
<1>3. ASSUME NEW c \in Clients, Client(c) PROVE AnnounceInv'
  BY <1>1, <1>3, AnnounceGranted, AnnounceNotified, AnnounceClient DEF AnnounceInv
<1>4. CASE UNCHANGED vars
  BY <1>1, <1>4 DEF AnnounceInv, AtMostOne, AnnouncedIsFull, LastIsFresh, Announced,
       Announces, Queued, Tidied, HasFree, vars, indexVars, queueVars, clientVars, dealVars
<1> QED BY <1>2, <1>3, <1>4 DEF Next

(* The set that the model calls the announcements of a bucket. *)
LEMMA AnnouncementsAre ==
  ASSUME TypeOK, NEW b \in Buckets
  PROVE  /\ Announcements(b) # {} <=> Announced(b)
         /\ AtMostOne => Announcements(b) = {} \/ \E x : Announcements(b) = {x}
<1> DEFINE cs == {d \in fresh : grant[d].last /\ Home[req[d].key] = b}
           ns == {m \in 1..Len(arrived) : arrived[m] = b}
           A == {<<"client", c>> : c \in cs}
           Q == {<<"queue", n>> : n \in ns}
           S == IF spc # "poll" /\ off = b THEN {<<"server", 0>>} ELSE {}
<1>1. Announcements(b) = A \cup Q \cup S
  BY DEF Announcements
<1>2. fresh \subseteq Clients
  BY DEF TypeOK, ClientType
<1>3. /\ \A c : c \in cs <=> c \in Clients /\ Announces(c, b)
      /\ \A n : n \in ns <=> n \in 1..Len(arrived) /\ Queued(n, b)
      /\ S = IF Tidied(b) THEN {<<"server", 0>>} ELSE {}
  BY <1>2 DEF Announces, Queued, Tidied
<1> HIDE DEF cs, ns, S
<1>4. (A # {} <=> cs # {}) /\ (Q # {} <=> ns # {}) /\ (S # {} <=> Tidied(b))
  <2>1. A # {} <=> cs # {}
    OBVIOUS
  <2>2. Q # {} <=> ns # {}
    OBVIOUS
  <2>3. S # {} <=> Tidied(b)
    BY <1>3
  <2> QED BY <2>1, <2>2, <2>3
<1>5. Announcements(b) # {} <=> Announced(b)
  <2>1. cs # {} <=> \E c \in Clients : Announces(c, b)
    BY <1>3
  <2>2. ns # {} <=> \E n \in 1..Len(arrived) : Queued(n, b)
    BY <1>3
  <2>3. Announcements(b) # {} <=> cs # {} \/ ns # {} \/ Tidied(b)
    <3> HIDE DEF A, Q
    <3> QED BY <1>1, <1>4
  <2> QED BY <2>1, <2>2, <2>3 DEF Announced
<1>6. ASSUME AtMostOne PROVE Announcements(b) = {} \/ \E x : Announcements(b) = {x}
  <2>1. \A c, d \in cs : c = d
    BY <1>3, <1>6 DEF AtMostOne
  <2>2. \A m, n \in ns : m = n
    BY <1>3, <1>6 DEF AtMostOne
  <2>3. cs = {} \/ ns = {}
    BY <1>3, <1>6 DEF AtMostOne
  <2>4. (cs = {} /\ ns = {}) \/ S = {}
    BY <1>3, <1>6 DEF AtMostOne
  <2>5. ASSUME NEW c \in cs PROVE A = {<<"client", c>>}
    BY <2>1
  <2>6. ASSUME NEW n \in ns PROVE Q = {<<"queue", n>>}
    BY <2>2
  <2>7. CASE cs # {}
    <3>1. PICK c : c \in cs
      BY <2>7
    <3>2. A = {<<"client", c>>} /\ Q = {} /\ S = {}
      BY <1>4, <2>3, <2>4, <2>5, <2>7, <3>1
    <3> HIDE DEF A, Q
    <3> QED BY <1>1, <3>2
  <2>8. CASE ns # {}
    <3>1. PICK n : n \in ns
      BY <2>8
    <3>2. A = {} /\ Q = {<<"queue", n>>} /\ S = {}
      BY <1>4, <2>3, <2>4, <2>6, <2>8, <3>1
    <3> HIDE DEF A, Q
    <3> QED BY <1>1, <3>2
  <2>9. CASE cs = {} /\ ns = {}
    <3>1. A = {} /\ Q = {} /\ (S = {} \/ S = {<<"server", 0>>})
      BY <1>3, <1>4, <2>9
    <3> HIDE DEF A, Q
    <3> QED BY <1>1, <3>1
  <2> QED BY <2>7, <2>8, <2>9
<1> QED BY <1>5, <1>6

LEMMA AnnouncedIsOnce == AnnounceInv => OneAnnouncement
<1> SUFFICES ASSUME AnnounceInv, NEW b \in Buckets
             PROVE  Cardinality(Announcements(b)) <= 1
  BY DEF OneAnnouncement
<1>1. Announcements(b) = {} \/ \E x : Announcements(b) = {x}
  BY AnnouncementsAre DEF AnnounceInv, CoverInv, TypeInv
<1>2. CASE Announcements(b) = {}
  BY <1>2, FS_EmptySet
<1>3. ASSUME NEW x, Announcements(b) = {x} PROVE Cardinality(Announcements(b)) <= 1
  <2>1. Cardinality({x}) = 1
    BY FS_Singleton
  <2> QED BY <1>3, <2>1
<1> QED BY <1>1, <1>2, <1>3

LEMMA AnnouncedIsDealt == AnnounceInv => FullWhileDealing
<1> SUFFICES ASSUME AnnounceInv, Dealing PROVE freecount[off] <= llock[off] + rlock[off]
  BY DEF FullWhileDealing
<1>1. off \in Buckets /\ CoverInv /\ FreeCountBelow
  BY DEF AnnounceInv, CoverInv, TypeInv, TypeOK, DealType
<1>2. ~HasFree(off)
  BY <1>1 DEF AnnounceInv, AnnouncedIsFull, Announced, Tidied, Dealing
<1>3. freecount[off] \in 0..LineNum /\ llock[off] \in 0..255 /\ rlock[off] \in 0..MaxRlock
  BY <1>1, BelowTypes
<1> QED BY <1>2, <1>3 DEF HasFree

(* The last slot of a bucket is announced by one client only: until the    *)
(* bucket has been tidied the lock counts keep every other client out      *)
(* (client_write, api.cpp:611-640; server_check, ib.cpp:232-259).          *)
THEOREM AnnouncedOnce ==
  ASSUME Opcodes \subseteq {UPSERT} PROVE Spec => []OneAnnouncement
<1>1. Init => AnnounceInv /\ CountInv
  BY AnnounceInit, CountInit
<1>2. AnnounceInv /\ CountInv /\ [Next]_vars => AnnounceInv' /\ CountInv'
  BY AnnounceNext, CountNext, ExactIsBelowNext
<1>3. AnnounceInv => OneAnnouncement
  BY AnnouncedIsOnce
<1> QED BY <1>1, <1>2, <1>3, PTL DEF Spec

(* deal_pending works on a copy of the index word and stores it over the   *)
(* live one.  It loses no lock that granted a slot: as long as nobody      *)
(* deletes, the bucket is full from the announcement to the store          *)
(* (api.cpp:354-470).                                                      *)
THEOREM NoGrantWhileDealing ==
  ASSUME Opcodes \subseteq {UPSERT} PROVE Spec => []FullWhileDealing
<1>1. Init => AnnounceInv /\ CountInv
  BY AnnounceInit, CountInit
<1>2. AnnounceInv /\ CountInv /\ [Next]_vars => AnnounceInv' /\ CountInv'
  BY AnnounceNext, CountNext, ExactIsBelowNext
<1>3. AnnounceInv => FullWhileDealing
  BY AnnouncedIsDealt
<1> QED BY <1>1, <1>2, <1>3, PTL DEF Spec

---------------------------------------------------------------------------
(* What a bucket that refuses calls owes to: an announcement on its way, or *)
(* the loss of one.                                                        *)
FullAnnounced ==
  \A b \in Buckets : freecount[b] > 0 /\ ~HasFree(b) => Announced(b) \/ b \in lost

LoudInv == CoverInv /\ FullAnnounced

LEMMA LoudInit == Init => LoudInv
<1> SUFFICES ASSUME Init, NEW b \in Buckets PROVE CoverInv /\ HasFree(b)
  BY CoverInit DEF LoudInv, FullAnnounced
<1>1. freecount[b] = LineNum /\ llock[b] = 0 /\ rlock[b] = 0
  BY DEF Init
<1> QED BY <1>1, CoverInit DEF HasFree

(* Steps after which no bucket is full that was not, and none has lost its *)
(* announcement.                                                           *)
LEMMA LoudKept ==
  ASSUME FullAnnounced,
         \A b \in Buckets : freecount'[b] > 0 /\ ~HasFree(b)' =>
           \/ Announced(b)' \/ b \in lost'
           \/ freecount[b] > 0 /\ ~HasFree(b) /\ ~Announced(b)
                /\ (b \in lost => b \in lost')
  PROVE  FullAnnounced'
  BY DEF FullAnnounced

(* A lock that does not take the last free slot leaves one.                *)
LEMMA NotLastLeavesOne ==
  ASSUME IndexType, NEW a \in Buckets, FetchAndAdd(a), UNCHANGED <<freecount, llock>>,
         NEW b \in Buckets, ~HasFree(b)'
  PROVE  ~HasFree(b) \/ (b = a /\ IsLast(a))
<1>1. /\ freecount[b] \in 0..255 /\ llock[b] \in 0..255 /\ rlock[b] \in 0..MaxRlock
      /\ rlock[a] \in 0..MaxRlock
  BY IndexTypes
<1>2. rlock' = [rlock EXCEPT ![a] = IF rlock[a] < MaxRlock THEN rlock[a] + 1
                                                          ELSE rlock[a]]
  BY DEF FetchAndAdd
<1>3. CASE b # a
  <2>1. rlock'[b] = rlock[b]
    BY <1>2, <1>3 DEF IndexType
  <2> QED BY <2>1 DEF HasFree
<1>4. CASE b = a
  <2>1. rlock'[b] \in {rlock[b], rlock[b] + 1}
    BY <1>2, <1>4 DEF IndexType
  <2>2. ~(freecount[b] > llock[b] + rlock'[b])
    BY DEF HasFree
  <2>3. freecount[b] > llock[b] + rlock[b] => freecount[b] - llock[b] - rlock[b] <= 1
    <3>1. freecount[b] \in Int /\ llock[b] \in Int /\ rlock[b] \in Int
      BY <1>1
    <3> QED BY <2>1, <2>2, <3>1
  <2> QED BY <1>4, <2>3 DEF HasFree, IsLast
<1> QED BY <1>3, <1>4

LEMMA LoudClient ==
  ASSUME LoudInv, NEW c \in Clients, Client(c) PROVE FullAnnounced'
<1>0. FullAnnounced /\ TypeOK /\ IndexType /\ ClientType /\ fresh \subseteq Clients
  BY DEF LoudInv, CoverInv, TypeInv, TypeOK, ClientType
<1>1. UNCHANGED <<freecount, llock, spc, off>>
  BY ClientLeaves DEF dealVars
<1>2. \A b : Tidied(b)' <=> Tidied(b)
  BY <1>1 DEF Tidied
<1>3. ASSUME NEW k \in Keys, NEW v \in Values, NEW op \in Opcodes, LockGranted(c, k, v, op)
      PROVE  FullAnnounced'
  <2>1. /\ Home[k] \in Buckets /\ FetchAndAdd(Home[k]) /\ pc[c] = "idle"
        /\ UNCHANGED <<arrived, lost>>
        /\ req' = [req EXCEPT ![c] = [key |-> k, value |-> v, valid |-> op]]
        /\ grant' = [grant EXCEPT ![c] = [slot |-> GrantSlot(Home[k]),
                                          last |-> IsLast(Home[k])]]
        /\ fresh' = fresh \cup {c}
    BY <1>3, HomeType DEF LockGranted, queueVars
  <2>2. /\ req'[c].key = k /\ grant'[c].last = IsLast(Home[k])
        /\ \A d \in Clients : d # c => req'[d] = req[d] /\ grant'[d] = grant[d]
    BY <1>0, <2>1 DEF ClientType
  <2>3. c \notin fresh
    BY <1>0, <2>1 DEF ClientType
  <2>4. \A d \in Clients, b \in Buckets : Announces(d, b) => Announces(d, b)'
    BY <2>1, <2>2, <2>3 DEF Announces
  <2>5. \A b \in Buckets : Announced(b) => Announced(b)'
    BY <1>2, <2>1, <2>4 DEF Announced, Queued
  <2>6. IsLast(Home[k]) => Announces(c, Home[k])'
    BY <2>1, <2>2 DEF Announces
  <2>7. \A b \in Buckets : ~HasFree(b)' => ~HasFree(b) \/ Announced(b)'
    BY <1>0, <1>1, <2>1, <2>6, NotLastLeavesOne DEF Announced
  <2> QED BY <1>0, <1>1, <2>1, <2>5, <2>7, LoudKept
<1>4. ASSUME NEW k \in Keys, LockRefused(c, k) PROVE FullAnnounced'
  <2>1. /\ Home[k] \in Buckets /\ FillsSilently(Home[k]) /\ FetchAndAdd(Home[k])
        /\ UNCHANGED <<arrived, req, grant, fresh>>
    BY <1>4, HomeType DEF LockRefused, clientVars
  <2>2. \A b \in Buckets : Announced(b)' <=> Announced(b)
    BY <1>2, <2>1 DEF Announced, Announces, Queued
  <2>3. \A b \in Buckets : ~HasFree(b)' => ~HasFree(b) \/ b = Home[k]
    BY <1>0, <1>1, <2>1, NotLastLeavesOne
  <2>4. HasFree(Home[k]) /\ ~HasFree(Home[k])' => Home[k] \in lost'
    BY <2>1 DEF FillsSilently
  <2>5. lost \subseteq lost'
    BY <2>1 DEF FillsSilently
  <2> QED BY <1>0, <1>1, <2>2, <2>3, <2>4, <2>5, LoudKept
<1>5. CASE WriteNotify(c)
  <2>1. /\ UNCHANGED <<indexVars, lost>> /\ arrived' = Append(arrived, Home[req[c].key])
        /\ Home[req[c].key] \in Buckets /\ arrived \in Seq(Buckets)
        /\ \A d \in Clients : d # c => req'[d] = req[d] /\ grant'[d] = grant[d]
        /\ fresh' = fresh \ {c}
    <3>1. Home[req[c].key] \in Buckets
      BY <1>0, HomeType DEF ClientType, DataLine
    <3> QED BY <1>0, <1>5, <3>1 DEF WriteNotify, EndWrite, ClientType, TypeOK, QueueType
  <2>2. /\ Len(arrived) \in Nat /\ Len(arrived') = Len(arrived) + 1
        /\ arrived'[Len(arrived) + 1] = Home[req[c].key]
        /\ \A n \in 1..Len(arrived) : n \in 1..Len(arrived') /\ arrived'[n] = arrived[n]
        /\ Len(arrived) + 1 \in 1..Len(arrived')
    BY <2>1
  <2>3. \A n, b : Queued(n, b) => Queued(n, b)' /\ n \in 1..Len(arrived')
    BY <2>2 DEF Queued
  <2>4. \A b \in Buckets : Announces(c, b) => \E n \in 1..Len(arrived') : Queued(n, b)'
    <3> SUFFICES ASSUME NEW b \in Buckets, Announces(c, b)
                 PROVE  \E n \in 1..Len(arrived') : Queued(n, b)'
      OBVIOUS
    <3>1. Home[req[c].key] = b
      BY DEF Announces
    <3>2. \E n \in 1..Len(arrived') : n \in 1..Len(arrived') /\ arrived'[n] = b
      BY <2>2, <3>1
    <3> QED BY <3>2 DEF Queued
  <2>5. \A b \in Buckets : Announced(b) => Announced(b)'
    <3>1. \A d \in Clients, b \in Buckets : d # c /\ Announces(d, b) => Announces(d, b)'
      BY <2>1 DEF Announces
    <3> QED BY <1>2, <2>3, <2>4, <3>1 DEF Announced
  <2> QED BY <1>0, <2>1, <2>5, LoudKept DEF HasFree, indexVars
<1>6. CASE Break(c)
  <2>1. /\ UNCHANGED <<indexVars, arrived>> /\ fresh' = fresh \ {c} /\ lost \subseteq lost'
        /\ c \in fresh /\ grant[c].last => Home[req[c].key] \in lost'
        /\ \A d \in Clients : d # c => req'[d] = req[d] /\ grant'[d] = grant[d]
    BY <1>0, <1>6 DEF Break, ClientType
  <2>2. \A d \in Clients, b \in Buckets :
          Announces(d, b) => Announces(d, b)' \/ b \in lost'
    BY <2>1 DEF Announces
  <2>3. \A b \in Buckets : Announced(b) => Announced(b)' \/ b \in lost'
    BY <1>2, <2>1, <2>2 DEF Announced, Queued
  <2> QED BY <1>0, <2>1, <2>3, LoudKept DEF HasFree, indexVars
<1>7. CASE Write(c) \/ CallFlushed(c) \/ EndSearch(c) \/ (\E k \in Sought : StartSearch(c, k))
           \/ ScanHome(c) \/ ScanNeighbour(c) \/ ScanBucketEnd(c)
  <2>1. /\ UNCHANGED <<indexVars, arrived, lost>>
        /\ \/ UNCHANGED <<req, grant, fresh>>
           \/ /\ c \notin fresh \/ ~grant[c].last
              /\ \A d \in Clients : d # c => req'[d] = req[d] /\ grant'[d] = grant[d]
              /\ fresh' \in {fresh, fresh \ {c}}
    <3>1. CASE Write(c)
      BY <1>0, <3>1 DEF Write, EndWrite, queueVars, ClientType
    <3>2. CASE EndSearch(c)
      BY <1>0, <3>2 DEF EndSearch, queueVars, ClientType
    <3>3. ASSUME NEW k \in Sought, StartSearch(c, k)
          PROVE  /\ UNCHANGED <<indexVars, arrived, lost, grant, fresh>>
                 /\ c \notin fresh
                 /\ \A d \in Clients : d # c => req'[d] = req[d]
      BY <1>0, <3>3 DEF StartSearch, queueVars, ClientType
    <3>4. CASE CallFlushed(c) \/ ScanHome(c) \/ ScanNeighbour(c) \/ ScanBucketEnd(c)
      BY <3>4 DEF CallFlushed, ScanHome, ScanNeighbour, ScanBucketEnd, vars, queueVars,
                  clientVars
    <3> QED BY <1>7, <3>1, <3>2, <3>3, <3>4
  <2>2. \A d \in Clients, b \in Buckets : Announces(d, b) => Announces(d, b)'
    BY <2>1 DEF Announces
  <2>3. \A b \in Buckets : Announced(b) => Announced(b)'
    BY <1>2, <2>1, <2>2 DEF Announced, Queued
  <2> QED BY <1>0, <2>1, <2>3, LoudKept DEF HasFree, indexVars
<1> QED BY <1>3, <1>4, <1>5, <1>6, <1>7 DEF Client

LEMMA LoudServer ==
  ASSUME LoudInv, Server PROVE FullAnnounced'
<1>0. /\ FullAnnounced /\ TypeOK /\ IndexType /\ CoverInv /\ LockBounds /\ NeighbourType
      /\ arrived \in Seq(Buckets)
  BY NeighbourInTable DEF LoudInv, CoverInv, TypeInv, TypeOK, QueueType
<1>1. CASE PollRecv
  <2>1. /\ spc = "poll" /\ spc' = "repost" /\ arrived # <<>>
        /\ off' = Head(arrived) /\ arrived' = Tail(arrived)
        /\ UNCHANGED <<indexVars, lost, fresh, grant, req>>
    BY <1>1 DEF PollRecv, clientVars
  <2>2. /\ Len(arrived) \in Nat \ {0} /\ Len(arrived') = Len(arrived) - 1
        /\ off' = arrived[1]
        /\ \A n \in 1..Len(arrived') : arrived'[n] = arrived[n + 1]
    BY <1>0, <2>1
  <2>3. \A b \in Buckets : Announced(b) => Announced(b)'
    <3> SUFFICES ASSUME NEW b \in Buckets, Announced(b) PROVE Announced(b)'
      OBVIOUS
    <3>1. ASSUME NEW n \in 1..Len(arrived), Queued(n, b) PROVE Announced(b)'
      <4>1. CASE n = 1
        BY <2>1, <2>2, <3>1, <4>1 DEF Announced, Queued, Tidied
      <4>2. CASE n # 1
        <5>1. n - 1 \in 1..Len(arrived') /\ arrived'[n - 1] = arrived[n]
          BY SMTT(30), <2>2, <4>2
        <5>2. Queued(n - 1, b)'
          BY <3>1, <5>1 DEF Queued
        <5> QED BY <5>1, <5>2 DEF Announced
      <4> QED BY <4>1, <4>2
    <3> QED BY <2>1, <3>1 DEF Announced, Announces, Tidied
  <2> QED BY <1>0, <2>1, <2>3, LoudKept DEF HasFree, indexVars
<1>2. CASE IndexStore
  <2>1. /\ spc' = "poll" /\ spc # "poll" /\ off \in Buckets /\ tmpFree \in Nat
        /\ UNCHANGED <<arrived, req, grant>> /\ lost' = lost \ {off}
        /\ fresh' = {c \in fresh : Home[req[c].key] # off}
    BY <1>0, <1>2 DEF IndexStore, TypeOK, DealType
  <2>2. /\ freecount'[off] = tmpFree /\ llock'[off] = 0 /\ rlock'[off] = 0
        /\ \A b \in Buckets : b # off => /\ freecount'[b] = freecount[b]
                                         /\ llock'[b] = llock[b] /\ rlock'[b] = rlock[b]
    BY <1>0, <1>2, <2>1 DEF IndexStore, IndexType
  <2>3. freecount'[off] > 0 => \A b \in Buckets : b = off => HasFree(b)'
    <3>1. tmpFree > 0 => tmpFree > 0 + 0
      BY <2>1
    <3>2. tmpFree > 0 => freecount'[off] > llock'[off] + rlock'[off]
      BY <2>2, <3>1
    <3> QED BY <2>2, <3>2 DEF HasFree
  <2>4. \A b \in Buckets : b # off => (HasFree(b)' <=> HasFree(b))
    BY <2>2 DEF HasFree
  <2>5. \A b \in Buckets : b # off /\ Announced(b) => Announced(b)'
    BY <2>1 DEF Announced, Announces, Queued, Tidied
  <2>6. \A b \in Buckets : b # off => /\ freecount'[b] = freecount[b]
                                      /\ b \in lost => b \in lost'
    BY <2>1, <2>2
  <2> QED BY <1>0, <2>3, <2>4, <2>5, <2>6, LoudKept
<1>3. CASE ~PollRecv /\ ~IndexStore
  <2>1. /\ spc # "poll" /\ spc' # "poll"
        /\ UNCHANGED <<freecount, rlock, arrived, req, grant, fresh, off>>
        /\ llock' = llock \/ LockNeighbour \/ UnlockNeighbour
    BY <1>3, PassLeaves DEF clientVars
  <2>2. \A b \in Buckets : Announced(b) => Announced(b)'
    BY <2>1 DEF Announced, Announces, Queued, Tidied
  <2>3. CASE LockNeighbour
    <3>1. PICK n \in Buckets : n = neighbour /\ n = neighbour'
      BY <1>0, <2>3 DEF LockNeighbour, NeighbourType, neighbour
    <3>2. lost' = IF HasFree(n) /\ ~HasFree(n)' THEN lost \cup {n} ELSE lost
      BY <2>3, <3>1 DEF LockNeighbour, FillsSilently, HasFree
    <3>3. \A b \in Buckets : b # n => (HasFree(b)' <=> HasFree(b))
      BY <1>0, <2>1, <2>3, <3>1, LockStep DEF HasFree
    <3>4. freecount' = freecount
      BY <2>1
    <3> QED BY <1>0, <2>2, <3>2, <3>3, <3>4, LoudKept
  <2>4. CASE UnlockNeighbour
    <3>1. PICK n \in Buckets : n = neighbour
      BY <1>0, <2>4 DEF UnlockNeighbour, NeighbourType
    <3>2. lost' = lost
      BY <2>4 DEF UnlockNeighbour, queueVars
    <3>3. llock'[n] <= llock[n] /\ llock'[n] \in Int
      <4>1. llock[n] = Cardinality(Free(bitmap[n])) + 1 /\ Cardinality(Free(bitmap[n])) \in 0..LineNum
        BY <1>0, <2>4, <3>1, FreeCounts DEF LockBounds, UnlockNeighbour
      <4>2. Byte(llock[n] - 1) = Cardinality(Free(bitmap[n]))
        BY <4>1 DEF Byte
      <4>3. llock'[n] = Byte(llock[n] - 1)
        BY <1>0, <2>4, <3>1 DEF UnlockNeighbour, IndexType
      <4> QED BY <4>1, <4>2, <4>3
    <3>4. HasFree(n) => HasFree(n)'
      <4>1. freecount[n] \in Int /\ llock[n] \in Int /\ rlock[n] \in Int
        <5>1. freecount[n] \in 0..255 /\ llock[n] \in 0..255 /\ rlock[n] \in 0..MaxRlock
          BY <1>0, <3>1, IndexTypes
        <5> QED BY <5>1
      <4>2. freecount[n] > llock[n] + rlock[n] => freecount[n] > llock'[n] + rlock[n]
        BY <3>3, <4>1
      <4>3. freecount' = freecount /\ rlock' = rlock
        BY <2>1
      <4> QED BY <4>2, <4>3 DEF HasFree
    <3>5. \A b \in Buckets : b # n => (HasFree(b)' <=> HasFree(b))
      BY <1>0, <2>1, <2>4, <3>1, LockStep DEF HasFree
    <3>6. freecount' = freecount
      BY <2>1
    <3> QED BY <1>0, <2>2, <3>2, <3>4, <3>5, <3>6, LoudKept
  <2>5. CASE llock' = llock /\ ~LockNeighbour
    <3>1. lost' = lost
      BY <1>3, <2>5 DEF Server, PostRecv, Deal, DealBegin, RemoteSkip, RemoteRetire,
         CommitUpsert, CommitDelete, NextRemote, RemoteDone, LocalSlot, LocalDone,
         ScanSlot, ScanDone, Relocate, RelocPick, RelocSkip, RelocDone, ProbeRoom,
         ProbeNext, ProbeEnd, UnlockNeighbour, CopyLine, ValidateCopy, DropOriginal,
         queueVars
    <3> QED BY <1>0, <2>1, <2>2, <2>5, <3>1, LoudKept DEF HasFree
  <2> QED BY <2>1, <2>3, <2>4, <2>5
<1> QED BY <1>1, <1>2, <1>3

(* A bucket that refuses calls although slots of it are uncommitted is     *)
(* announced, for any homes, clients and opcodes: the guess from the word  *)
(* that the fetch-and-add returned (api.cpp:621) misses no last slot that  *)
(* it sees taken, and an announcement on its way gets lost only with its   *)
(* own client (api.cpp:560-638, ib.cpp:232-259).                           *)
THEOREM FullBucketAnnounced == Spec => []FullIsAnnounced
<1>1. Init => LoudInv
  BY LoudInit
<1>2. LoudInv /\ [Next]_vars => LoudInv'
  <2> SUFFICES ASSUME LoudInv, [Next]_vars PROVE LoudInv'
    OBVIOUS
  <2>1. CoverInv' /\ FullAnnounced
    BY CoverNext DEF LoudInv
  <2>2. CASE UNCHANGED vars
    BY <2>1, <2>2 DEF LoudInv, FullAnnounced, Announced, Announces, Queued,
         Tidied, HasFree, vars, indexVars, queueVars, clientVars, dealVars
  <2> QED BY <2>1, <2>2, LoudClient, LoudServer DEF LoudInv, Next
<1>3. LoudInv => FullIsAnnounced
  <2> SUFFICES ASSUME LoudInv, NEW b \in HomeBuckets, freecount[b] > 0, ~HasFree(b)
               PROVE  Announcements(b) # {} \/ b \in lost
    BY DEF FullIsAnnounced
  <2>1. b \in Buckets
    BY DEF HomeBuckets
  <2>2. Announcements(b) # {} <=> Announced(b)
    BY <2>1, AnnouncementsAre DEF LoudInv, CoverInv, TypeInv
  <2> QED BY <2>1, <2>2 DEF LoudInv, FullAnnounced
<1> QED BY <1>1, <1>2, <1>3, PTL DEF Spec

---------------------------------------------------------------------------
(* The free count promises no slot too many, deletes or not, as long as    *)
(* relocate locks a slot of a neighbour (api.cpp:309) only while there is  *)
(* one.  The test before the lock (api.cpp:307) ensures that if no client  *)
(* takes slots in between and the unsigned difference has not wrapped,     *)
(* which calls that were refused make it do.                               *)
LocksWithRoom == [][LockNeighbour => HasFree(neighbour)]_vars

(* A delete takes one off the count of the copy although it clears a bit   *)
(* (api.cpp:412-413); step 3 gives that one back if the bit was set in the *)
(* live word, and only then.                                               *)
Recount == {s \in bitmap[off] \ tmpBitmap : spc = "scan" => s >= i}

PassHonest ==
  /\ Copied => tmpFree <= Cardinality(Free(tmpBitmap))
  /\ spc \in {"remote", "commit"} => rlockReal + llockReal <= tmpFree
  /\ spc = "local" => llockReal <= tmpFree
  /\ spc \in {"remote", "commit", "local", "scan"} =>
       tmpFree + Cardinality(Recount) <= Cardinality(Free(tmpBitmap))
  /\ spc \in {"probe", "lock", "copy", "validate", "drop"} => i \in tmpBitmap

CountsBelow ==
  \A b \in Buckets : llock[b] <= freecount[b] /\ freecount[b] <= Cardinality(Free(bitmap[b]))

HonestInv == CoverInv /\ PassHonest /\ CountsBelow

LEMMA HonestInit == Init => HonestInv
<1> SUFFICES ASSUME Init PROVE HonestInv
  OBVIOUS
<1>1. CountInv
  BY CountInit
<1>2. CountsBelow
  <2> SUFFICES ASSUME NEW b \in Buckets
               PROVE  llock[b] <= freecount[b] /\ freecount[b] <= Cardinality(Free(bitmap[b]))
    BY DEF CountsBelow
  <2>1. freecount[b] = Cardinality(Free(bitmap[b])) /\ freecount[b] \in 0..LineNum
    BY <1>1, CountTypes
  <2>2. llock[b] = 0
    BY DEF Init
  <2> QED BY <2>1, <2>2
<1>3. PassHonest
  BY DEF Init, PassHonest, Copied
<1> QED BY <1>1, <1>2, <1>3 DEF HonestInv, CountInv

(* A set of slots that grows by one slot at most, and one that does not.   *)
LEMMA SlotsGrow ==
  ASSUME NEW R \in SUBSET Slots, NEW T, NEW s \in Slots, T \subseteq R \cup {s}
  PROVE  /\ IsFiniteSet(R) /\ Cardinality(R) \in Nat /\ Cardinality(T) \in Nat
         /\ Cardinality(T) <= Cardinality(R) + 1
         /\ T \subseteq R => Cardinality(T) <= Cardinality(R)
         /\ s \in R /\ s \notin T => Cardinality(T) <= Cardinality(R) - 1
<1>1. Free({}) = Slots
  BY DEF Free
<1>2. IsFiniteSet(R) /\ Cardinality(R) \in Nat
  BY <1>1, FreeCounts
<1>3. T \in SUBSET Slots
  OBVIOUS
<1>4. IsFiniteSet(T) /\ Cardinality(T) \in Nat
  BY <1>1, <1>3, FreeCounts
<1>5. IsFiniteSet(R \cup {s}) /\ Cardinality(R \cup {s}) <= Cardinality(R) + 1
  <2>1. s \in R => R \cup {s} = R
    OBVIOUS
  <2>2. /\ IsFiniteSet(R \cup {s})
        /\ Cardinality(R \cup {s}) = IF s \in R THEN Cardinality(R) ELSE Cardinality(R) + 1
    BY <1>2, FS_AddElement
  <2> HIDE DEF Slots
  <2> QED BY <1>2, <2>2
<1>6. Cardinality(T) <= Cardinality(R \cup {s}) /\ Cardinality(R \cup {s}) \in Nat
  BY <1>5, FS_Subset, FS_CardinalityType
<1>7. T \subseteq R => Cardinality(T) <= Cardinality(R)
  BY <1>2, FS_Subset
<1>8. ASSUME s \in R, s \notin T PROVE Cardinality(T) <= Cardinality(R) - 1
  <2>1. IsFiniteSet(R \ {s}) /\ Cardinality(R \ {s}) = Cardinality(R) - 1
    BY <1>2, <1>8, FS_RemoveElement
  <2>2. T \subseteq R \ {s}
    BY <1>8
  <2>3. Cardinality(T) <= Cardinality(R \ {s})
    BY <2>1, <2>2, FS_Subset
  <2> QED BY <2>1, <2>3
<1> HIDE DEF Slots
<1> QED BY <1>2, <1>4, <1>5, <1>6, <1>7, <1>8

LEMMA BitCounts ==
  ASSUME NEW bits, NEW s \in Slots
  PROVE  /\ Cardinality(Free(bits)) \in 0..LineNum
         /\ Cardinality(Free(bits \cup {s})) \in 0..LineNum
         /\ Cardinality(Free(bits \ {s})) \in 0..LineNum
         /\ Cardinality(Free(bits \cup {s})) >= Cardinality(Free(bits)) - 1
         /\ Cardinality(Free(bits \ {s})) >= Cardinality(Free(bits))
         /\ s \in bits => Cardinality(Free(bits \ {s})) = Cardinality(Free(bits)) + 1
<1>1. /\ Cardinality(Free(bits)) \in 0..LineNum
      /\ Cardinality(Free(bits \cup {s})) \in 0..LineNum
      /\ Cardinality(Free(bits \ {s})) \in 0..LineNum
  BY FreeCounts
<1>2. CASE s \in bits
  <2>1. Cardinality(Free(bits \cup {s})) = Cardinality(Free(bits))
    <3>1. bits \cup {s} = bits
      BY <1>2
    <3> QED BY <3>1
  <2>2. Cardinality(Free(bits \ {s})) = Cardinality(Free(bits)) + 1
    BY <1>2, FreeCleared
  <2> QED BY <1>1, <2>1, <2>2
<1>3. CASE s \notin bits
  <2>1. Cardinality(Free(bits \ {s})) = Cardinality(Free(bits))
    <3>1. bits \ {s} = bits
      BY <1>3
    <3> QED BY <3>1
  <2>2. Cardinality(Free(bits \cup {s})) = Cardinality(Free(bits)) - 1
    BY <1>3, FreeSet
  <2> QED BY <1>1, <1>3, <2>1, <2>2
<1> QED BY <1>2, <1>3

LEMMA CountStep ==
  ASSUME NEW n \in Nat, n <= LineNum
  PROVE  (n > 0 => Byte(n - 1) = n - 1) /\ Byte(n + 1) = n + 1
  BY DEF Byte

LEMMA PassHonestServer ==
  ASSUME HonestInv, Server PROVE PassHonest'
<1>0. /\ TypeInv /\ TypeOK /\ LockBounds /\ PassCovers /\ PassHonest
      /\ CountsBelow
  BY DEF HonestInv, CoverInv, TypeInv
<1>1. /\ off \in Buckets /\ bitmap[off] \in SUBSET Slots /\ tmpBitmap \in SUBSET Slots
      /\ freecount[off] \in 0..255 /\ llock[off] \in 0..255 /\ rlock[off] \in 0..MaxRlock
      /\ tmpFree \in Nat /\ rlockReal \in Nat /\ llockReal \in Nat
      /\ old \in Lines \cup {NoLine}
  <2>1. /\ off \in Buckets /\ tmpBitmap \in SUBSET Slots /\ tmpFree \in Nat
        /\ rlockReal \in Nat /\ llockReal \in Nat /\ old \in Lines \cup {NoLine}
    BY <1>0 DEF TypeOK, DealType
  <2> QED BY <1>0, <2>1, IndexTypes DEF TypeOK
<1>2. /\ Recount \in SUBSET Slots
      /\ \A s \in Slots : Cardinality(Recount) \in Nat
  <2>1. Recount \in SUBSET Slots
    BY <1>1 DEF Recount
  <2> QED BY <2>1, SlotsGrow
<1>3. Cardinality(Free(tmpBitmap)) \in 0..LineNum
  BY FreeCounts
<1>4. 0 \in Slots
  OBVIOUS
<1> USE DEF Copied
<1>5. CASE PollRecv \/ PostRecv \/ IndexStore
  BY <1>5 DEF PollRecv, PostRecv, IndexStore, PassHonest
<1>6. CASE DealBegin
  <2>1. /\ spc = "begin" /\ spc' = "remote" /\ i' = 0
        /\ tmpBitmap' = bitmap[off] /\ tmpFree' = freecount[off]
        /\ rlockReal' = RemoteLocks(freecount[off], llock[off], rlock[off])
        /\ llockReal' = llock[off]
        /\ UNCHANGED <<off, bitmap>>
    BY <1>6 DEF DealBegin, indexVars
  <2>2. freecount[off] <= Cardinality(Free(bitmap[off])) /\ llock[off] <= freecount[off]
    BY <1>0, <1>1 DEF CountsBelow
  <2>3. rlockReal' + llockReal' <= tmpFree'
    <3>1. /\ freecount[off] < UintMod /\ freecount[off] \in Nat /\ rlock[off] \in Nat
          /\ llock[off] \in Nat
      BY <1>1, UintModAssumption
    <3>2. RemoteLocks(freecount[off], llock[off], rlock[off]) <= freecount[off] - llock[off]
      BY <2>2, <3>1, RemoteLocksBound
    <3>3. RemoteLocks(freecount[off], llock[off], rlock[off]) \in Int
      BY <3>1, UintModAssumption DEF RemoteLocks
    <3> HIDE DEF RemoteLocks
    <3> QED BY <2>1, <3>1, <3>2, <3>3
  <2>4. Recount' = {}
    BY <2>1 DEF Recount
  <2>5. Cardinality(Recount') = 0
    BY <2>4, FS_EmptySet
  <2>6. tmpFree' + Cardinality(Recount') <= Cardinality(Free(tmpBitmap'))
    BY <1>1, <2>1, <2>2, <2>5
  <2> QED BY <2>1, <2>2, <2>3, <2>6 DEF PassHonest
<1>7. CASE RemoteSkip
  <2>1. /\ spc = "remote" /\ spc' = "remote" /\ rlockReal > 0
        /\ UNCHANGED <<off, bitmap, tmpBitmap, tmpFree, llockReal>>
        /\ rlockReal' \in {rlockReal, rlockReal - 1}
    BY <1>7 DEF RemoteSkip, indexVars
  <2>2. Recount' = Recount
    BY <2>1 DEF Recount
  <2>3. rlockReal' + llockReal <= tmpFree
    <3>1. /\ rlockReal + llockReal <= tmpFree
          /\ rlockReal \in Int /\ llockReal \in Int /\ tmpFree \in Int
      BY <1>0, <1>1, <2>1 DEF PassHonest
    <3>2. CASE rlockReal' = rlockReal
      BY <3>1, <3>2
    <3>3. CASE rlockReal' = rlockReal - 1
      BY <3>1, <3>3
    <3> QED BY <2>1, <3>2, <3>3
  <2> QED BY <1>0, <2>1, <2>2, <2>3 DEF PassHonest
<1>8. CASE RemoteRetire
  <2>1. /\ spc = "remote" /\ spc' = "commit"
        /\ UNCHANGED <<off, bitmap, tmpBitmap, tmpFree, rlockReal, llockReal>>
    BY <1>8 DEF RemoteRetire, indexVars
  <2>2. Recount' = Recount
    BY <2>1 DEF Recount
  <2> QED BY <1>0, <2>1, <2>2 DEF PassHonest
<1>9. CASE CommitUpsert
  <2>1. /\ spc = "commit" /\ spc' = "remote" /\ i \in Slots /\ rlockReal > 0
        /\ UNCHANGED <<off, bitmap, llockReal>>
        /\ tmpBitmap' = tmpBitmap \cup {i} /\ tmpFree' = Byte(tmpFree - 1)
        /\ rlockReal' = rlockReal - 1
    BY <1>0, <1>9 DEF CommitUpsert, NextRemote, indexVars, TypeInv, LoopsInRange
  <2>2. /\ rlockReal + llockReal <= tmpFree
        /\ tmpFree + Cardinality(Recount) <= Cardinality(Free(tmpBitmap))
    BY <1>0, <2>1 DEF PassHonest
  <2>3. tmpFree' = tmpFree - 1
    BY <1>1, <1>2, <1>3, <2>1, <2>2, CountStep
  <2>4. Recount' \subseteq Recount
    BY <2>1 DEF Recount
  <2>5. Cardinality(Recount') \in Nat /\ Cardinality(Recount') <= Cardinality(Recount)
    BY <1>2, <1>4, <2>4, SlotsGrow
  <2>6. Cardinality(Free(tmpBitmap')) >= Cardinality(Free(tmpBitmap)) - 1
    BY <2>1, BitCounts
  <2>7. Cardinality(Free(tmpBitmap')) \in Nat
    BY FreeCounts
  <2> QED BY <1>1, <1>2, <1>3, <1>4, <2>1, <2>2, <2>3, <2>5, <2>6, <2>7 DEF PassHonest
<1>10. CASE CommitDelete
  <2>1. /\ spc = "commit" /\ spc' = "remote" /\ rlockReal > 0
        /\ UNCHANGED <<off, bitmap, llockReal>> /\ rlockReal' = rlockReal - 1
    BY <1>0, <1>10 DEF CommitDelete, NextRemote, indexVars, TypeInv, LoopsInRange
  <2>2. /\ rlockReal + llockReal <= tmpFree
        /\ tmpFree + Cardinality(Recount) <= Cardinality(Free(tmpBitmap))
    BY <1>0, <2>1 DEF PassHonest
  <2>3. CASE UNCHANGED <<tmpBitmap, tmpFree>>
    <3>1. Recount' = Recount
      BY <2>1, <2>3 DEF Recount
    <3>2. rlockReal' + llockReal' <= tmpFree
      BY <1>1, <2>1, <2>2
    <3> QED BY <1>0, <2>1, <2>2, <2>3, <3>1, <3>2 DEF PassHonest
  <2>4. CASE ~UNCHANGED <<tmpBitmap, tmpFree>>
    <3>1. /\ old[1] = off /\ tmpBitmap' = tmpBitmap \ {old[2]}
          /\ tmpFree' = Byte(tmpFree - 1)
      BY <1>10, <2>4 DEF CommitDelete
    <3>2. PICK s \in Slots : s = old[2]
      <4>1. old # NoLine
        BY <1>1, <3>1 DEF NoLine
      <4> QED BY <1>1, <4>1 DEF Lines
    <3>3. tmpFree' = tmpFree - 1
      BY <1>1, <1>2, <1>3, <1>4, <2>1, <2>2, <3>1, CountStep
    <3>4. Recount' \subseteq Recount \cup {s}
      BY <2>1, <3>1, <3>2 DEF Recount
    <3>5. /\ Cardinality(Recount') \in Nat /\ Cardinality(Recount') <= Cardinality(Recount) + 1
          /\ s \notin tmpBitmap => Cardinality(Recount') <= Cardinality(Recount)
      <4>1. s \notin tmpBitmap => Recount' \subseteq Recount
        BY <2>1, <3>1, <3>2 DEF Recount
      <4> QED BY <1>2, <3>4, <4>1, SlotsGrow
    <3>6. /\ Cardinality(Free(tmpBitmap')) \in Nat
          /\ Cardinality(Free(tmpBitmap')) >= Cardinality(Free(tmpBitmap))
          /\ s \in tmpBitmap => Cardinality(Free(tmpBitmap')) = Cardinality(Free(tmpBitmap)) + 1
      <4>1. tmpBitmap' = tmpBitmap \ {s}
        BY <3>1, <3>2
      <4>2. /\ Cardinality(Free(tmpBitmap \ {s})) \in 0..LineNum
            /\ Cardinality(Free(tmpBitmap \ {s})) >= Cardinality(Free(tmpBitmap))
            /\ s \in tmpBitmap =>
                 Cardinality(Free(tmpBitmap \ {s})) = Cardinality(Free(tmpBitmap)) + 1
        BY BitCounts
      <4> QED BY <4>1, <4>2
    <3>7. tmpFree' + Cardinality(Recount') <= Cardinality(Free(tmpBitmap'))
      BY <1>1, <1>2, <1>3, <1>4, <2>2, <3>3, <3>5, <3>6
    <3>8. rlockReal' + llockReal' <= tmpFree' /\ tmpFree' <= Cardinality(Free(tmpBitmap'))
      BY <1>1, <2>1, <2>2, <3>3, <3>5, <3>6, <3>7
    <3> QED BY <2>1, <3>7, <3>8 DEF PassHonest
  <2> QED BY <2>3, <2>4
<1>11. CASE RemoteDone \/ LocalDone
  <2>1. /\ spc \in {"remote", "local"} /\ spc' \in {"local", "scan"}
        /\ spc' = "scan" => i' = 0
        /\ UNCHANGED <<off, bitmap, tmpBitmap, tmpFree, llockReal>>
        /\ spc' = "local" => spc = "remote"
    BY <1>11 DEF RemoteDone, LocalDone, indexVars, dealVars
  <2>2. Recount' = Recount
    <3>1. \A s \in bitmap[off] : s >= 0
      BY <1>1
    <3> QED BY <2>1, <3>1 DEF Recount
  <2>3. spc' = "local" => llockReal' <= tmpFree'
    BY <1>0, <1>1, <2>1 DEF PassHonest
  <2> QED BY <1>0, <2>1, <2>2, <2>3 DEF PassHonest
<1>12. CASE LocalSlot
  <2>1. /\ spc = "local" /\ spc' = "local" /\ llockReal > 0 /\ i \in Slots
        /\ UNCHANGED <<off, bitmap>>
        /\ llockReal' = IF i \in bitmap[off] THEN llockReal ELSE llockReal - 1
        /\ \/ UNCHANGED <<tmpBitmap, tmpFree>>
           \/ /\ i \notin bitmap[off] /\ tmpBitmap' = tmpBitmap \cup {i}
              /\ tmpFree' = Byte(tmpFree - 1)
    BY <1>0, <1>12 DEF LocalSlot, indexVars, TypeInv, LoopsInRange
  <2>2. /\ llockReal <= tmpFree
        /\ tmpFree + Cardinality(Recount) <= Cardinality(Free(tmpBitmap))
    BY <1>0, <2>1 DEF PassHonest
  <2>3. CASE UNCHANGED <<tmpBitmap, tmpFree>>
    <3>1. Recount' = Recount
      BY <2>1, <2>3 DEF Recount
    <3>2. llockReal' <= tmpFree'
      BY <1>1, <2>1, <2>2, <2>3
    <3> QED BY <1>0, <2>1, <2>2, <2>3, <3>1, <3>2 DEF PassHonest
  <2>4. CASE i \notin bitmap[off] /\ tmpBitmap' = tmpBitmap \cup {i}
             /\ tmpFree' = Byte(tmpFree - 1)
    <3>1. tmpFree' = tmpFree - 1 /\ llockReal' = llockReal - 1
      BY <1>1, <1>2, <1>3, <1>4, <2>1, <2>2, <2>4, CountStep
    <3>2. Recount' \subseteq Recount
      BY <2>1, <2>4 DEF Recount
    <3>3. Cardinality(Recount') \in Nat /\ Cardinality(Recount') <= Cardinality(Recount)
      BY <1>2, <1>4, <3>2, SlotsGrow
    <3>4. /\ Cardinality(Free(tmpBitmap')) \in Nat
          /\ Cardinality(Free(tmpBitmap')) >= Cardinality(Free(tmpBitmap)) - 1
      BY <2>1, <2>4, BitCounts, FreeCounts
    <3> QED BY <1>1, <1>2, <1>3, <1>4, <2>1, <2>2, <3>1, <3>3, <3>4 DEF PassHonest
  <2> QED BY <2>1, <2>3, <2>4
<1>13. CASE ScanSlot
  <2>1. /\ spc = "scan" /\ spc' = "scan" /\ i \in Slots /\ i' = i + 1
        /\ UNCHANGED <<off, bitmap>>
        /\ \/ UNCHANGED <<tmpBitmap, tmpFree>>
           \/ /\ i \in bitmap[off] /\ tmpBitmap' = tmpBitmap \ {i}
              /\ tmpFree' = Byte(tmpFree + 1)
    BY <1>0, <1>13 DEF ScanSlot, indexVars, TypeInv, LoopsInRange
  <2>2. tmpFree + Cardinality(Recount) <= Cardinality(Free(tmpBitmap))
    BY <1>0, <2>1 DEF PassHonest
  <2>3. Recount' \subseteq Recount /\ i \notin Recount'
    <3>1. \A s \in bitmap[off] : s >= i + 1 => s >= i /\ s # i
      BY <1>1, <2>1
    <3>2. ~(i >= i + 1)
      BY <2>1
    <3> QED BY <1>1, <2>1, <3>1, <3>2 DEF Recount
  <2>4. /\ Cardinality(Recount') \in Nat /\ Cardinality(Recount') <= Cardinality(Recount)
        /\ i \in Recount => Cardinality(Recount') <= Cardinality(Recount) - 1
    BY <1>2, <2>1, <2>3, SlotsGrow
  <2>5. CASE UNCHANGED <<tmpBitmap, tmpFree>>
    BY <1>0, <1>1, <1>2, <1>3, <1>4, <2>1, <2>2, <2>4, <2>5 DEF PassHonest
  <2>6. CASE i \in bitmap[off] /\ tmpBitmap' = tmpBitmap \ {i} /\ tmpFree' = Byte(tmpFree + 1)
    <3>1. /\ Cardinality(Free(tmpBitmap')) \in 0..LineNum
          /\ Cardinality(Free(tmpBitmap')) >= Cardinality(Free(tmpBitmap))
          /\ i \in tmpBitmap => Cardinality(Free(tmpBitmap')) = Cardinality(Free(tmpBitmap)) + 1
      BY <2>1, <2>6, BitCounts
    <3>2. i \notin tmpBitmap => i \in Recount
      BY <2>1, <2>6 DEF Recount
    <3>3. Cardinality(Recount) \in Nat
      BY <1>2, <1>4
    <3>4. tmpFree + 1 + Cardinality(Recount') <= Cardinality(Free(tmpBitmap'))
      BY <1>1, <1>3, <2>2, <2>4, <3>1, <3>2, <3>3
    <3>5. tmpFree' = tmpFree + 1
      BY <1>1, <2>4, <2>6, <3>1, <3>4, CountStep
    <3>6. tmpFree' <= Cardinality(Free(tmpBitmap'))
      BY <1>1, <2>4, <3>1, <3>4, <3>5
    <3> QED BY <2>1, <3>4, <3>5, <3>6 DEF PassHonest
  <2> QED BY <2>1, <2>5, <2>6
<1>14. CASE RelocPick
  <2>1. /\ spc = "reloc" /\ spc' = "probe" /\ i \in Slots /\ Valid(off, i)
        /\ UNCHANGED <<tmpBitmap, tmpFree, i>>
    BY <1>0, <1>14 DEF RelocPick, dealVars, Valid, TypeInv, LoopsInRange
  <2>2. i \in tmpBitmap
    BY <1>0, <2>1 DEF PassCovers, Settled
  <2> QED BY <1>0, <2>1, <2>2 DEF PassHonest
<1>15. CASE DropOriginal
  <2>1. /\ spc = "drop" /\ spc' \in {"store", "reloc"} /\ i \in Slots
        /\ tmpBitmap' = tmpBitmap \ {i} /\ tmpFree' = Byte(tmpFree + 1)
    BY <1>0, <1>15 DEF DropOriginal, TypeInv, LoopsInRange
  <2>2. i \in tmpBitmap /\ tmpFree <= Cardinality(Free(tmpBitmap))
    BY <1>0, <2>1 DEF PassHonest
  <2>3. /\ Cardinality(Free(tmpBitmap')) = Cardinality(Free(tmpBitmap)) + 1
        /\ Cardinality(Free(tmpBitmap')) \in 0..LineNum
    BY <2>1, <2>2, BitCounts
  <2>4. tmpFree' = tmpFree + 1
    BY <1>1, <1>3, <2>1, <2>2, CountStep
  <2>5. tmpFree' <= Cardinality(Free(tmpBitmap'))
    BY <1>1, <1>3, <2>2, <2>3, <2>4
  <2> QED BY <2>1, <2>5 DEF PassHonest
<1>16. CASE \/ ScanDone \/ RelocSkip \/ RelocDone \/ ProbeRoom \/ ProbeNext \/ ProbeEnd
            \/ LockNeighbour \/ UnlockNeighbour \/ CopyLine \/ ValidateCopy
  <2>1. UNCHANGED <<tmpBitmap, tmpFree>> /\ Copied
    BY <1>16 DEF ScanDone, RelocSkip, RelocDone, ProbeRoom, ProbeNext, ProbeEnd,
         LockNeighbour, UnlockNeighbour, CopyLine, ValidateCopy, indexVars, dealVars
  <2>2. /\ spc' \in {"store", "reloc", "probe", "lock", "unlock", "copy", "validate", "drop"}
        /\ spc' \in {"probe", "lock", "copy", "validate", "drop"} =>
             i' = i /\ spc \in {"probe", "lock", "copy", "validate", "drop"}
    BY <1>16 DEF ScanDone, RelocSkip, RelocDone, ProbeRoom, ProbeNext, ProbeEnd,
         LockNeighbour, UnlockNeighbour, CopyLine, ValidateCopy
  <2> QED BY <1>0, <2>1, <2>2 DEF PassHonest
<1> QED BY <1>5, <1>6, <1>7, <1>8, <1>9, <1>10, <1>11, <1>12, <1>13, <1>14, <1>15,
           <1>16 DEF Server, Deal, Relocate

(* A lock that relocate takes where there is room is one of a free slot;   *)
(* undoing a lock takes one back.                                          *)
LEMMA LockWithRoom ==
  ASSUME CoverInv, CountsBelow, LockNeighbour => HasFree(neighbour),
         LockNeighbour \/ UnlockNeighbour
  PROVE  \A b \in Buckets : llock'[b] <= freecount[b]
<1>0. TypeInv /\ TypeOK /\ IndexType /\ LockBounds /\ NeighbourType /\ neighbour \in Buckets
  BY NeighbourInTable DEF CoverInv, TypeInv, TypeOK, NeighbourType, LockNeighbour,
                          UnlockNeighbour
<1>1. /\ llock[neighbour] \in 0..255 /\ freecount[neighbour] \in 0..255
      /\ rlock[neighbour] \in 0..MaxRlock
      /\ llock[neighbour] <= freecount[neighbour]
      /\ freecount[neighbour] <= Cardinality(Free(bitmap[neighbour]))
      /\ Cardinality(Free(bitmap[neighbour])) \in 0..LineNum
  BY <1>0, IndexTypes, FreeCounts DEF CountsBelow
<1>2. llock'[neighbour] <= freecount[neighbour]
  <2>1. CASE LockNeighbour
    <3>1. freecount[neighbour] > llock[neighbour] + rlock[neighbour]
      BY <2>1 DEF HasFree
    <3>2. llock[neighbour] + 1 <= freecount[neighbour]
      <4> HIDE DEF neighbour
      <4> QED BY SMTT(30), <1>1, <3>1
    <3>3. Byte(llock[neighbour] + 1) = llock[neighbour] + 1
      BY <1>1, <3>2 DEF Byte
    <3>4. llock'[neighbour] = Byte(llock[neighbour] + 1)
      BY <1>0, <2>1 DEF LockNeighbour, IndexType
    <3> QED BY <1>1, <3>2, <3>3, <3>4
  <2>2. CASE UnlockNeighbour
    <3>1. llock[neighbour] = Cardinality(Free(bitmap[neighbour])) + 1
      BY <1>0, <2>2 DEF LockBounds, UnlockNeighbour
    <3> QED BY <1>1, <3>1
  <2> QED BY <2>1, <2>2
<1>3. \A b \in Buckets : b # neighbour => llock'[b] = llock[b]
  BY LockStep
<1> QED BY <1>2, <1>3 DEF CountsBelow

LEMMA HonestNext ==
  ASSUME HonestInv, [Next /\ (LockNeighbour => HasFree(neighbour))]_vars PROVE HonestInv'
<1>0. /\ CoverInv /\ CoverInv' /\ PassHonest /\ CountsBelow /\ TypeOK
  BY CoverNext DEF HonestInv, CoverInv, TypeInv
<1>1. CASE IndexStore
  <2>1. tmpFree <= Cardinality(Free(tmpBitmap)) /\ tmpFree \in Nat
    BY <1>0, <1>1 DEF IndexStore, PassHonest, Copied, TypeOK, DealType
  <2>2. \A b \in Buckets : \/ b = off /\ freecount'[b] = tmpFree /\ bitmap'[b] = tmpBitmap
                                /\ llock'[b] = 0
                           \/ freecount'[b] = freecount[b] /\ bitmap'[b] = bitmap[b]
                                /\ llock'[b] = llock[b]
    BY <1>0, <1>1 DEF IndexStore, TypeOK, IndexType
  <2>3. CountsBelow'
    BY <1>0, <2>1, <2>2 DEF CountsBelow
  <2>4. Server
    BY <1>1 DEF Server, Deal
  <2> QED BY <1>0, <2>3, <2>4, PassHonestServer DEF HonestInv
<1>2. CASE Server /\ ~IndexStore /\ (LockNeighbour => HasFree(neighbour))
  <2>1. UNCHANGED <<bitmap, freecount>> /\ (llock' = llock \/ LockNeighbour \/ UnlockNeighbour)
    BY <1>2 DEF Server, PollRecv, PostRecv, Deal, DealBegin, RemoteSkip, RemoteRetire,
         CommitUpsert, CommitDelete, NextRemote, RemoteDone, LocalSlot, LocalDone,
         ScanSlot, ScanDone, Relocate, RelocPick, RelocSkip, RelocDone,
         ProbeRoom, ProbeNext, ProbeEnd, LockNeighbour, UnlockNeighbour, CopyLine,
         ValidateCopy, DropOriginal, indexVars
  <2>2. \A b \in Buckets : llock'[b] <= freecount[b]
    BY <1>0, <1>2, <2>1, LockWithRoom DEF CountsBelow
  <2>3. CountsBelow'
    BY <1>0, <2>1, <2>2 DEF CountsBelow
  <2> QED BY <1>0, <1>2, <2>3, PassHonestServer DEF HonestInv
<1>3. ASSUME NEW c \in Clients, Client(c) PROVE HonestInv'
  <2>1. UNCHANGED <<bitmap, freecount, llock, spc, i, dealVars>>
    BY <1>3, ClientLeaves
  <2>2. PassHonest' /\ CountsBelow'
    BY <1>0, <2>1 DEF PassHonest, CountsBelow, Copied, Recount, dealVars
  <2> QED BY <1>0, <2>2 DEF HonestInv
<1>4. CASE UNCHANGED vars
  <2>1. UNCHANGED <<indexVars, spc, i, dealVars>>
    BY <1>4 DEF vars
  <2>2. PassHonest' /\ CountsBelow'
    BY <1>0, <2>1 DEF PassHonest, CountsBelow, Copied, Recount, dealVars, indexVars
  <2> QED BY <1>0, <2>2 DEF HonestInv
<1> QED BY <1>1, <1>2, <1>3, <1>4 DEF Next

(* "cannot find a free slot, metadata error!" (api.cpp:606) is never       *)
(* reached, whatever mix of homes, writers, deletes, searches and failures *)
(* there is, as long as relocate locks slots only in buckets that have one *)
(* (LocksWithRoom): a delete may make the count forget free slots (run     *)
(* delete_leak), but it never promises one that is not there.              *)
THEOREM NoMetadataErrorWithDeletes == Spec /\ LocksWithRoom => []FreeCountHonest
<1>1. Init => HonestInv
  BY HonestInit
<1>2. HonestInv /\ [Next]_vars /\ [LockNeighbour => HasFree(neighbour)]_vars => HonestInv'
  BY HonestNext
<1>3. HonestInv => FreeCountHonest
  <2> SUFFICES ASSUME HonestInv, NEW b \in Buckets, HasFree(b) PROVE GrantSlot(b) # NoSlot
    BY DEF FreeCountHonest
  <2>1. /\ freecount[b] \in 0..255 /\ llock[b] \in 0..255 /\ rlock[b] \in 0..MaxRlock
        /\ freecount[b] <= Cardinality(Free(bitmap[b]))
        /\ Cardinality(Free(bitmap[b])) \in 0..LineNum
    <3>1. TypeInv /\ CountsBelow
      BY DEF HonestInv, CoverInv
    <3>2. Cardinality(Free(bitmap[b])) \in 0..LineNum
      BY FreeCounts
    <3> QED BY <3>1, <3>2, IndexTypes DEF TypeInv, TypeOK, CountsBelow
  <2>2. freecount[b] > llock[b] + rlock[b]
    BY DEF HasFree
  <2>3. rlock[b] \in Nat /\ llock[b] \in Nat /\ freecount[b] \in Nat
    BY <2>1
  <2>4. rlock[b] < freecount[b]
    BY <2>2, <2>3
  <2>5. rlock[b] < Cardinality(Free(bitmap[b]))
    BY <2>1, <2>3, <2>4
  <2> QED BY <2>3, <2>5, FromLeftFinds DEF GrantSlot
<1> QED BY <1>1, <1>2, <1>3, PTL DEF Spec, LocksWithRoom

(* In such a run the announcements are sound with deletes too: a bucket is *)
(* announced once and grants nothing until it has been tidied, so the      *)
(* store of deal_pending's copy over the live word loses no lock that      *)
(* granted a slot (client_write, api.cpp:611-640; deal_pending,            *)
(* api.cpp:354-470).                                                       *)
THEOREM AnnouncedOnceWithDeletes ==
  Spec /\ LocksWithRoom => [](OneAnnouncement /\ FullWhileDealing)
<1>1. Init => HonestInv /\ AnnounceInv
  BY HonestInit, AnnounceInit
<1>2. HonestInv /\ AnnounceInv /\ [Next]_vars /\ [LockNeighbour => HasFree(neighbour)]_vars
        => HonestInv' /\ AnnounceInv'
  <2> SUFFICES ASSUME HonestInv, AnnounceInv, [Next]_vars,
                      [LockNeighbour => HasFree(neighbour)]_vars
               PROVE  HonestInv' /\ AnnounceInv'
    OBVIOUS
  <2>1. HonestInv'
    BY HonestNext
  <2>2. FreeCountBelow'
    BY <2>1 DEF HonestInv, CountsBelow, FreeCountBelow
  <2> QED BY <2>1, <2>2, AnnounceNext
<1>3. AnnounceInv => OneAnnouncement /\ FullWhileDealing
  BY AnnouncedIsOnce, AnnouncedIsDealt
<1> QED BY <1>1, <1>2, <1>3, PTL DEF Spec, LocksWithRoom

=============================================================================
