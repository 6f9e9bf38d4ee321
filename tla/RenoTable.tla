---------------------------- MODULE RenoTable ----------------------------
(***************************************************************************)
(* The hash table of api.cpp as its two kinds of process run it: clients   *)
(* that act on the server's memory with one-sided RDMA (fetch-and-add,     *)
(* write, read), and the one server thread (server_check) that tidies a    *)
(* bucket (deal_pending, relocate) when a write-with-immediate announces   *)
(* that the bucket's last free slot was taken.  Nothing else orders the    *)
(* two, so an action here writes the shared memory at most once.           *)
(***************************************************************************)
EXTENDS RenoIndex, Sequences

CONSTANTS
  Clients,    \* the client threads that may run at the same time
  Mortal,     \* those whose queue pair may fail, or that may crash
  Keys,       \* the keys the clients write
  Sought,     \* the keys they search for
  Values,     \* the values they store
  EmptyKey,   \* the empty string: the key of a line of zeroed memory
  NoValue,    \* no value: a line of zeroed memory, or a search without a hit
  Opcodes,    \* the opcodes clients send: 2 (UPSERT), 3 (DELETE) or both
  IndexNum,   \* IndexLineNum: the buckets keys hash to
  BucketNum,  \* BUCKET_NUM_PER_GROUP: a home bucket and its neighbours
  Home,       \* server_hash
  RecvDepth,  \* NODE_NUM: the receive requests server_check posts at start
  MaxRlock    \* BOUND: stands for this many remote locks or more

VALID  == 1
UPSERT == 2
DELETE == 3

HomeBuckets == 0..(IndexNum - 1)                \* those that keys hash to
Buckets     == 0..(IndexNum + BucketNum - 2)    \* and the tail of the last group

ASSUME TableAssumption ==
  /\ IndexNum \in Nat \ {0}
  /\ BucketNum \in Nat \ {0}
  /\ Home \in [Keys \cup {EmptyKey} -> 0..(IndexNum - 1)]
  /\ Opcodes \subseteq {UPSERT, DELETE} /\ Sought \subseteq Keys
  /\ Mortal \subseteq Clients
  /\ RecvDepth \in Nat \ {0}
  /\ MaxRlock \in Nat /\ MaxRlock > LineNum
  /\ UintMod > 2 * 255 + MaxRlock
  /\ EmptyKey \notin Keys /\ NoValue \notin Values

Lines    == Buckets \X Slots
NoLine   == <<NoSlot, NoSlot>>
DataLine == [key   : Keys \cup {EmptyKey},
             value : Values \cup {NoValue},
             valid : 0..3]
BlankLine == [key |-> EmptyKey, value |-> NoValue, valid |-> 0]
NoGrant   == [slot |-> NoSlot, last |-> FALSE]
NoScan    == [exist |-> 0, value |-> NoValue, bucket |-> 0, pos |-> 0]

VARIABLES
  (* the registered memory of the server *)
  bitmap, freecount, llock, rlock,   \* ILine, one entry per bucket
  dline,                             \* DLine, one entry per line
  (* the shared receive queue and its completion queue *)
  posted,     \* receive requests waiting for an immediate
  arrived,    \* immediates (bucket numbers) not yet polled
  lost,       \* history: buckets that something filled since their last
              \* pass and that nobody will announce any more
  (* the clients *)
  pc,         \* where each client is: idle, write, scan, return, broken
  req,        \* the line it sends, or the key it searches for
  grant,      \* target_slot, and whether it takes the last free slot
  scan,       \* a search so far: exist_flag, value, and the line to read
  fresh,      \* history: clients whose lock was taken since the last reset
  (* the server thread *)
  spc,        \* where it is in server_check, deal_pending or relocate
  off,        \* the bucket it tidies
  i,          \* the loop counter
  rlockReal, llockReal, tmpBitmap, tmpFree,   \* the locals of deal_pending
  opcode,     \* the opcode that the remote slot i was seen to hold
  old,        \* what search_old found
  hashOff, j, migrate, target                 \* the locals of relocate

indexVars  == <<bitmap, freecount, llock, rlock>>
queueVars  == <<posted, arrived, lost>>
clientVars == <<pc, req, grant, scan, fresh>>
dealVars   == <<off, rlockReal, llockReal, tmpBitmap, tmpFree, opcode, old>>
relocVars  == <<hashOff, j, migrate, target>>
vars == <<indexVars, dline, queueVars, clientVars, spc, i, dealVars, relocVars>>

(* index_init: every slot of every bucket free, nothing locked. *)
Init ==
  /\ bitmap    = [b \in Buckets |-> {}]
  /\ freecount = [b \in Buckets |-> LineNum]
  /\ llock     = [b \in Buckets |-> 0]
  /\ rlock     = [b \in Buckets |-> 0]
  /\ dline     = [l \in Lines |-> BlankLine]
  /\ posted  = RecvDepth
  /\ arrived = <<>> /\ lost = {}
  /\ pc    = [c \in Clients |-> "idle"]
  /\ req   = [c \in Clients |-> BlankLine]
  /\ grant = [c \in Clients |-> NoGrant]
  /\ scan  = [c \in Clients |-> NoScan]
  /\ fresh = {}
  /\ spc = "poll" /\ i = 0
  /\ off = 0 /\ rlockReal = 0 /\ llockReal = 0 /\ tmpBitmap = {} /\ tmpFree = 0
  /\ opcode = 0 /\ old = NoLine
  /\ hashOff = 0 /\ j = 0 /\ migrate = 0 /\ target = NoSlot

---------------------------------------------------------------------------
(* client_write.  The fetch-and-add returns the whole index word, so the   *)
(* lock, the test for a free slot and the choice of the slot see one       *)
(* state of the bucket.                                                    *)

HasFree(b) == freecount[b] > llock[b] + rlock[b]
BugGrantFirstFree(b) == FromLeft(bitmap[b], 0)   \* skips no earlier lock
GrantSlot(b) == FromLeft(bitmap[b], rlock[b])
BugNotifyEarly(b) == freecount[b] - llock[b] - rlock[b] <= 2
BugNotifyLate(b)  == freecount[b] - llock[b] - rlock[b] < 1
IsLast(b) == freecount[b] - llock[b] - rlock[b] <= 1

(* No test of the code tells two counts apart that are both above the free *)
(* count, so the count can stop at MaxRlock.                               *)
FetchAndAdd(b) ==
  rlock' = [rlock EXCEPT ![b] = IF @ < MaxRlock THEN @ + 1 ELSE @]

(* A step after which b has no free slot left, taken by no one who will    *)
(* announce it.                                                            *)
FillsSilently(b) ==
  lost' = IF HasFree(b) /\ ~HasFree(b)' THEN lost \cup {b} ELSE lost

(* No free slot, or no slot with the right rank: give up, keep the lock. *)
LockRefused(c, k) ==
  /\ pc[c] = "idle"
  /\ ~HasFree(Home[k]) \/ GrantSlot(Home[k]) = NoSlot
  /\ FetchAndAdd(Home[k])
  /\ UNCHANGED <<bitmap, freecount, llock, dline, posted, arrived, clientVars,
                 spc, i, dealVars, relocVars>>
  /\ FillsSilently(Home[k])

LockGranted(c, k, v, op) ==
  /\ pc[c] = "idle"
  /\ HasFree(Home[k]) /\ GrantSlot(Home[k]) # NoSlot
  /\ FetchAndAdd(Home[k])
  /\ pc'    = [pc EXCEPT ![c] = "write"]
  /\ req'   = [req EXCEPT ![c] = [key |-> k, value |-> v, valid |-> op]]
  /\ grant' = [grant EXCEPT ![c] = [slot |-> GrantSlot(Home[k]),
                                    last |-> IsLast(Home[k])]]
  /\ fresh' = fresh \cup {c}
  /\ UNCHANGED <<bitmap, freecount, llock, dline, queueVars, scan,
                 spc, i, dealVars, relocVars>>

EndWrite(c) ==
  /\ dline' = [dline EXCEPT ![<<Home[req[c].key], grant[c].slot>>] = req[c]]
  /\ pc'    = [pc EXCEPT ![c] = "idle"]
  /\ req'   = [req EXCEPT ![c] = BlankLine]
  /\ grant' = [grant EXCEPT ![c] = NoGrant]
  /\ fresh' = fresh \ {c}
  /\ UNCHANGED <<indexVars, scan, spc, i, dealVars, relocVars>>

(* The plain write; it is complete when the client polls its completion. *)
Write(c) ==
  /\ pc[c] = "write" /\ ~grant[c].last
  /\ EndWrite(c)
  /\ UNCHANGED queueVars

(* The write with immediate also consumes a receive request; the NIC       *)
(* retries (rnr_retry = 7: for ever) until the server has posted one.      *)
WriteNotify(c) ==
  /\ pc[c] = "write" /\ grant[c].last
  /\ posted > 0
  /\ EndWrite(c)
  /\ posted'  = posted - 1
  /\ arrived' = Append(arrived, Home[req[c].key])
  /\ UNCHANGED lost

---------------------------------------------------------------------------
(* client_search.  One RDMA read brings the whole group, which the client  *)
(* then parses from its first line to its last.  The read is not atomic:   *)
(* each line is as it was when the NIC read that line.                     *)

StartSearch(c, k) ==
  /\ pc[c] = "idle"
  /\ pc'  = [pc EXCEPT ![c] = "scan"]
  /\ req' = [req EXCEPT ![c] = [BlankLine EXCEPT !.key = k]]
  /\ UNCHANGED <<indexVars, dline, queueVars, grant, scan, fresh,
                 spc, i, dealVars, relocVars>>

ScanLine(c) == dline[<<Home[req[c].key] + scan[c].bucket, scan[c].pos>>]

(* What one line of the home bucket does to exist_flag and value: a        *)
(* pending UPSERT or DELETE always counts, a VALID line only before them.  *)
(* A line in state 4 (RELOC, storage.h:55) would count as a VALID one; no  *)
(* line is, since the code never stores that state.                        *)
ParseHome(found, key, l) ==
  IF l.key # key \/ l.valid = 0 \/ (l.valid = VALID /\ found.exist # 0)
    THEN found
    ELSE [found EXCEPT !.exist = l.valid,
                       !.value = IF l.valid = DELETE THEN @ ELSE l.value]

NextLine(s) == [s EXCEPT !.pos = s.pos + 1]

ScanHome(c) ==
  /\ pc[c] = "scan" /\ scan[c].bucket = 0 /\ scan[c].pos < LineNum
  /\ scan' = [scan EXCEPT ![c] =
                 NextLine(ParseHome(scan[c], req[c].key, ScanLine(c)))]
  /\ UNCHANGED <<indexVars, dline, queueVars, pc, req, grant, fresh,
                 spc, i, dealVars, relocVars>>

(* In the neighbours only a VALID line counts, and the first one ends it. *)
TakeLine(s, l) == [s EXCEPT !.exist = VALID, !.value = l.value]

ScanNeighbour(c) ==
  /\ pc[c] = "scan" /\ scan[c].bucket > 0 /\ scan[c].pos < LineNum
  /\ IF ScanLine(c).key = req[c].key /\ ScanLine(c).valid = VALID
       THEN /\ scan' = [scan EXCEPT ![c] = TakeLine(@, ScanLine(c))]
            /\ pc' = [pc EXCEPT ![c] = "return"]
       ELSE /\ scan' = [scan EXCEPT ![c] = NextLine(@)]
            /\ UNCHANGED pc
  /\ UNCHANGED <<indexVars, dline, queueVars, req, grant, fresh,
                 spc, i, dealVars, relocVars>>

(* End of a bucket: a hit in the home bucket, or the end of the group,     *)
(* ends the search.                                                        *)
NextBucket(s) == [s EXCEPT !.bucket = s.bucket + 1, !.pos = 0]

(* The bug: the loop runs up to BUCKET_NUM_PER_GROUP and not below it. *)
BugScanPastGroup(c) ==
  /\ pc[c] = "scan" /\ scan[c].pos = LineNum
  /\ IF scan[c].exist # 0 \/ scan[c].bucket = BucketNum
       THEN pc' = [pc EXCEPT ![c] = "return"] /\ UNCHANGED scan
       ELSE scan' = [scan EXCEPT ![c] = NextBucket(@)] /\ UNCHANGED pc
  /\ UNCHANGED <<indexVars, dline, queueVars, req, grant, fresh,
                 spc, i, dealVars, relocVars>>

ScanBucketEnd(c) ==
  /\ pc[c] = "scan" /\ scan[c].pos = LineNum
  /\ IF scan[c].exist # 0 \/ scan[c].bucket = BucketNum - 1
       THEN pc' = [pc EXCEPT ![c] = "return"] /\ UNCHANGED scan
       ELSE scan' = [scan EXCEPT ![c] = NextBucket(@)] /\ UNCHANGED pc
  /\ UNCHANGED <<indexVars, dline, queueVars, req, grant, fresh,
                 spc, i, dealVars, relocVars>>

(* What the call returns: a value, or -1. *)
Answer(c) == IF scan[c].exist \in {0, DELETE} THEN NoValue ELSE scan[c].value

EndSearch(c) ==
  /\ pc[c] = "return"
  /\ pc'   = [pc EXCEPT ![c] = "idle"]
  /\ req'  = [req EXCEPT ![c] = BlankLine]
  /\ scan' = [scan EXCEPT ![c] = NoScan]
  /\ UNCHANGED <<indexVars, dline, queueVars, grant, fresh,
                 spc, i, dealVars, relocVars>>

---------------------------------------------------------------------------
(* A completion with an error (the server was not reached in seven tries): *)
(* post_cq returns -1 and so does the call, at any step, whether or not    *)
(* its last request was carried out.  Nobody resets the queue pair, so     *)
(* every later request of this client is flushed with an error.  A client  *)
(* that crashes looks the same to the table.                               *)
Break(c) ==
  /\ c \in Mortal /\ pc[c] # "broken"
  /\ pc'    = [pc EXCEPT ![c] = "broken"]
  /\ req'   = [req EXCEPT ![c] = BlankLine]
  /\ grant' = [grant EXCEPT ![c] = NoGrant]
  /\ scan'  = [scan EXCEPT ![c] = NoScan]
  /\ fresh' = fresh \ {c}
  /\ lost' = IF c \in fresh /\ grant[c].last THEN lost \cup {Home[req[c].key]}
                                               ELSE lost
  /\ UNCHANGED <<indexVars, dline, posted, arrived, spc, i, dealVars, relocVars>>

CallFlushed(c) == pc[c] = "broken" /\ UNCHANGED vars

---------------------------------------------------------------------------
(* server_check: poll an immediate, post a new receive request, tidy the   *)
(* bucket the immediate names.                                             *)

PollRecv ==
  /\ spc = "poll" /\ arrived # <<>>
  /\ off' = Head(arrived)
  /\ arrived' = Tail(arrived)
  /\ spc' = "repost"
  /\ UNCHANGED <<indexVars, dline, posted, lost, clientVars, i, rlockReal, llockReal,
                 tmpBitmap, tmpFree, opcode, old, relocVars>>

(* The bug: the receive request is not replaced. *)
BugNoRepost ==
  /\ spc = "repost" /\ spc' = "begin"
  /\ UNCHANGED <<indexVars, dline, queueVars, clientVars, i, dealVars, relocVars>>

PostRecv ==
  /\ spc = "repost"
  /\ posted' = posted + 1
  /\ spc' = "begin"
  /\ UNCHANGED <<indexVars, dline, arrived, lost, clientVars, i, dealVars, relocVars>>

(* deal_pending, its declarations: the copy of the index word it works on. *)
DealBegin ==
  /\ spc = "begin"
  /\ rlockReal' = RemoteLocks(freecount[off], llock[off], rlock[off])
  /\ llockReal' = llock[off]
  /\ tmpBitmap' = bitmap[off]
  /\ tmpFree' = freecount[off]
  /\ i' = 0 /\ spc' = "remote"
  /\ UNCHANGED <<indexVars, dline, queueVars, clientVars, off, opcode, old,
                 relocVars>>

(* search_old: the first VALID line of the key in its group. *)
Precedes(l, m) == l[1] < m[1] \/ (l[1] = m[1] /\ l[2] <= m[2])

(* The bug: only the home bucket is searched. *)
BugSearchHomeOnly(key) ==
  LET hits == {l \in Lines : /\ l[1] = Home[key]
                             /\ dline[l].key = key /\ dline[l].valid = VALID}
  IN  IF hits = {} THEN NoLine
      ELSE CHOOSE l \in hits : \A m \in hits : Precedes(l, m)

SearchOld(key) ==
  LET hits == {l \in Lines : /\ l[1] \in Home[key]..(Home[key] + BucketNum - 1)
                             /\ dline[l].key = key /\ dline[l].valid = VALID}
  IN  IF hits = {} THEN NoLine
      ELSE CHOOSE l \in hits : \A m \in hits : Precedes(l, m)

(* Step 1: the remotely locked slots, from the left.  A slot whose writer  *)
(* has not written yet uses up a lock and is left as it is.                *)
RemoteSkip ==
  /\ spc = "remote" /\ i < LineNum /\ rlockReal > 0
  /\ \/ i \in bitmap[off] /\ UNCHANGED rlockReal
     \/ /\ i \notin bitmap[off] /\ dline[<<off, i>>].valid \notin {UPSERT, DELETE}
        /\ rlockReal' = rlockReal - 1
  /\ i' = i + 1
  /\ UNCHANGED <<indexVars, dline, queueVars, clientVars, spc, off, llockReal,
                 tmpBitmap, tmpFree, opcode, old, relocVars>>

RemoteRetire ==
  /\ spc = "remote" /\ i < LineNum /\ rlockReal > 0
  /\ i \notin bitmap[off] /\ dline[<<off, i>>].valid \in {UPSERT, DELETE}
  /\ LET l == SearchOld(dline[<<off, i>>].key)
     IN  /\ old' = l
         /\ dline' = IF l = NoLine THEN dline
                                   ELSE [dline EXCEPT ![l].valid = 0]
  /\ opcode' = dline[<<off, i>>].valid
  /\ spc' = "commit"
  /\ UNCHANGED <<indexVars, queueVars, clientVars, i, off, rlockReal, llockReal,
                 tmpBitmap, tmpFree, relocVars>>

NextRemote ==
  /\ spc' = "remote" /\ i' = i + 1 /\ rlockReal' = rlockReal - 1
  /\ opcode' = 0 /\ old' = NoLine
  /\ UNCHANGED <<indexVars, queueVars, clientVars, off, llockReal, relocVars>>

CommitUpsert ==
  /\ spc = "commit" /\ opcode = UPSERT
  /\ dline' = [dline EXCEPT ![<<off, i>>].valid = VALID]
  /\ tmpBitmap' = tmpBitmap \cup {i}
  /\ tmpFree' = Byte(tmpFree - 1)
  /\ NextRemote

(* The bug: "freecount++" here as well, on top of the one of step 3. *)
BugDeleteCountsUp ==
  /\ spc = "commit" /\ opcode = DELETE
  /\ dline' = [dline EXCEPT ![<<off, i>>].valid = 0]
  /\ tmpBitmap' = tmpBitmap \ {old[2]}
  /\ tmpFree' = Byte(tmpFree + 1)
  /\ NextRemote

CommitDelete ==
  /\ spc = "commit" /\ opcode = DELETE
  /\ dline' = [dline EXCEPT ![<<off, i>>].valid = 0]
  /\ IF old[1] = off
       THEN tmpBitmap' = tmpBitmap \ {old[2]} /\ tmpFree' = Byte(tmpFree - 1)
       ELSE UNCHANGED <<tmpBitmap, tmpFree>>
  /\ NextRemote

RemoteDone ==
  /\ spc = "remote" /\ (i = LineNum \/ rlockReal = 0)
  /\ spc' = "local" /\ i' = LineNum - 1
  /\ UNCHANGED <<indexVars, dline, queueVars, clientVars, dealVars, relocVars>>

(* The bug: the bit is set and the free count forgotten. *)
BugLocalKeepsCount ==
  /\ spc = "local" /\ i >= 0 /\ llockReal > 0
  /\ i' = i - 1
  /\ llockReal' = IF i \in bitmap[off] THEN llockReal ELSE llockReal - 1
  /\ tmpBitmap' = IF i \notin bitmap[off] /\ dline[<<off, i>>].valid = VALID
                    THEN tmpBitmap \cup {i} ELSE tmpBitmap
  /\ UNCHANGED <<indexVars, dline, queueVars, clientVars, spc, off, rlockReal,
                 tmpFree, opcode, old, relocVars>>

(* Step 2: the locally locked slots, from the right. *)
LocalSlot ==
  /\ spc = "local" /\ i >= 0 /\ llockReal > 0
  /\ i' = i - 1
  /\ llockReal' = IF i \in bitmap[off] THEN llockReal ELSE llockReal - 1
  /\ IF i \notin bitmap[off] /\ dline[<<off, i>>].valid = VALID
       THEN tmpBitmap' = tmpBitmap \cup {i} /\ tmpFree' = Byte(tmpFree - 1)
       ELSE UNCHANGED <<tmpBitmap, tmpFree>>
  /\ UNCHANGED <<indexVars, dline, queueVars, clientVars, spc, off, rlockReal,
                 opcode, old, relocVars>>

LocalDone ==
  /\ spc = "local" /\ (i < 0 \/ llockReal = 0)
  /\ spc' = "scan" /\ i' = 0
  /\ UNCHANGED <<indexVars, dline, queueVars, clientVars, dealVars, relocVars>>

(* The bug: the bit is cleared and the count forgotten. *)
BugScanKeepsCount ==
  /\ spc = "scan" /\ i < LineNum
  /\ i' = i + 1
  /\ tmpBitmap' = IF i \in bitmap[off] /\ dline[<<off, i>>].valid = 0
                    THEN tmpBitmap \ {i} ELSE tmpBitmap
  /\ UNCHANGED <<indexVars, dline, queueVars, clientVars, spc, off, rlockReal,
                 llockReal, tmpFree, opcode, old, relocVars>>

(* Step 3: committed slots whose line was invalidated since. *)
ScanSlot ==
  /\ spc = "scan" /\ i < LineNum
  /\ i' = i + 1
  /\ IF i \in bitmap[off] /\ dline[<<off, i>>].valid = 0
       THEN tmpBitmap' = tmpBitmap \ {i} /\ tmpFree' = Byte(tmpFree + 1)
       ELSE UNCHANGED <<tmpBitmap, tmpFree>>
  /\ UNCHANGED <<indexVars, dline, queueVars, clientVars, spc, off, rlockReal,
                 llockReal, opcode, old, relocVars>>

(* Step 3.5: a bucket left with fewer than 2 free slots is relocated. *)
ScanDone ==
  /\ spc = "scan" /\ i = LineNum
  /\ spc' = IF tmpFree < 2 THEN "reloc" ELSE "store"
  /\ i' = 0 /\ migrate' = 2
  /\ UNCHANGED <<indexVars, dline, queueVars, clientVars, dealVars,
                 hashOff, j, target>>

(* Step 4: the copy becomes the index word, both lock counts are reset.    *)
(* The grants that clients got of this bucket are history now.             *)
IndexStore ==
  /\ spc = "store"
  /\ bitmap'    = [bitmap EXCEPT ![off] = tmpBitmap]
  /\ freecount' = [freecount EXCEPT ![off] = tmpFree]
  /\ llock' = [llock EXCEPT ![off] = 0]
  /\ rlock' = [rlock EXCEPT ![off] = 0]
  /\ fresh' = {c \in fresh : Home[req[c].key] # off}
  /\ lost' = lost \ {off}
  /\ spc' = "poll" /\ i' = 0
  /\ off' = 0 /\ rlockReal' = 0 /\ llockReal' = 0
  /\ tmpBitmap' = {} /\ tmpFree' = 0 /\ opcode' = 0 /\ old' = NoLine
  /\ hashOff' = 0 /\ j' = 0 /\ migrate' = 0 /\ target' = NoSlot
  /\ UNCHANGED <<dline, posted, arrived, pc, req, grant, scan>>

---------------------------------------------------------------------------
(* relocate: move up to two VALID lines to other buckets of their group.   *)

neighbour == hashOff + j

RoomIn(b) == SlotsLeft(freecount[b], llock[b], rlock[b]) > 2

RelocPick ==
  /\ spc = "reloc" /\ i < LineNum
  /\ dline[<<off, i>>].valid = VALID
  /\ hashOff' = Home[dline[<<off, i>>].key]
  /\ j' = 0 /\ spc' = "probe"
  /\ UNCHANGED <<indexVars, dline, queueVars, clientVars, i, dealVars,
                 migrate, target>>

RelocSkip ==
  /\ spc = "reloc" /\ i < LineNum
  /\ dline[<<off, i>>].valid # VALID
  /\ i' = i + 1
  /\ UNCHANGED <<indexVars, dline, queueVars, clientVars, spc, dealVars,
                 relocVars>>

RelocDone ==
  /\ spc = "reloc" /\ i = LineNum
  /\ spc' = "store"
  /\ UNCHANGED <<indexVars, dline, queueVars, clientVars, i, dealVars, relocVars>>

(* The test for room reads the neighbour's word; the lock is a later step. *)
ProbeRoom ==
  /\ spc = "probe" /\ j < BucketNum
  /\ neighbour # off /\ RoomIn(neighbour)
  /\ spc' = "lock"
  /\ UNCHANGED <<indexVars, dline, queueVars, clientVars, i, dealVars, relocVars>>

ProbeNext ==
  /\ spc = "probe" /\ j < BucketNum
  /\ neighbour = off \/ ~RoomIn(neighbour)
  /\ j' = j + 1
  /\ UNCHANGED <<indexVars, dline, queueVars, clientVars, spc, i, dealVars,
                 hashOff, migrate, target>>

(* The bug: the line without a new place is tried again. *)
BugProbeAgain ==
  /\ spc = "probe" /\ j = BucketNum
  /\ spc' = "reloc"
  /\ UNCHANGED <<indexVars, dline, queueVars, clientVars, i, dealVars, relocVars>>

ProbeEnd ==
  /\ spc = "probe" /\ j = BucketNum
  /\ spc' = "reloc" /\ i' = i + 1
  /\ UNCHANGED <<indexVars, dline, queueVars, clientVars, dealVars, relocVars>>

BugRelocFromLeft(b, k) == FromLeft(bitmap[b], k - 1)
RelocSlot(b, k) == FromRight(bitmap[b], k)

LockNeighbour ==
  /\ spc = "lock"
  /\ llock' = [llock EXCEPT ![neighbour] = Byte(@ + 1)]
  /\ target' = RelocSlot(neighbour, Byte(llock[neighbour] + 1))
  /\ spc' = IF target' = NoSlot THEN "unlock" ELSE "copy"
  /\ UNCHANGED <<bitmap, freecount, rlock, dline, posted, arrived, clientVars, i,
                 dealVars, hashOff, j, migrate>>
  /\ FillsSilently(neighbour)

(* No slot for the lock: undo it and give the whole relocation up. *)
UnlockNeighbour ==
  /\ spc = "unlock"
  /\ llock' = [llock EXCEPT ![neighbour] = Byte(@ - 1)]
  /\ spc' = "store"
  /\ UNCHANGED <<bitmap, freecount, rlock, dline, queueVars, clientVars, i,
                 dealVars, relocVars>>

(* The bug: only the key is copied. *)
BugCopyKeyOnly ==
  /\ spc = "copy"
  /\ dline' = [dline EXCEPT ![<<neighbour, target>>].key = dline[<<off, i>>].key]
  /\ spc' = "validate"
  /\ UNCHANGED <<indexVars, queueVars, clientVars, i, dealVars, relocVars>>

(* The bug: the original is dropped before the copy is valid. *)
BugDropFirst ==
  /\ spc = "copy"
  /\ dline' = [dline EXCEPT ![<<neighbour, target>>].key = dline[<<off, i>>].key,
                            ![<<neighbour, target>>].value = dline[<<off, i>>].value,
                            ![<<off, i>>].valid = 0]
  /\ spc' = "validate"
  /\ UNCHANGED <<indexVars, queueVars, clientVars, i, dealVars, relocVars>>

CopyLine ==
  /\ spc = "copy"
  /\ dline' = [dline EXCEPT ![<<neighbour, target>>].key = dline[<<off, i>>].key,
                            ![<<neighbour, target>>].value = dline[<<off, i>>].value]
  /\ spc' = "validate"
  /\ UNCHANGED <<indexVars, queueVars, clientVars, i, dealVars, relocVars>>

ValidateCopy ==
  /\ spc = "validate"
  /\ dline' = [dline EXCEPT ![<<neighbour, target>>].valid = VALID]
  /\ spc' = "drop"
  /\ UNCHANGED <<indexVars, queueVars, clientVars, i, dealVars, relocVars>>

DropOriginal ==
  /\ spc = "drop"
  /\ dline' = [dline EXCEPT ![<<off, i>>].valid = 0]
  /\ tmpBitmap' = tmpBitmap \ {i}
  /\ tmpFree' = Byte(tmpFree + 1)
  /\ migrate' = migrate - 1
  /\ IF migrate' = 0 THEN spc' = "store" /\ UNCHANGED i
                     ELSE spc' = "reloc" /\ i' = i + 1
  /\ target' = NoSlot
  /\ UNCHANGED <<indexVars, queueVars, clientVars, off, rlockReal, llockReal,
                 opcode, old, hashOff, j>>

---------------------------------------------------------------------------
Client(c) ==
  \/ \E k \in Keys : LockRefused(c, k)
  \/ \E k \in Sought : StartSearch(c, k)
  \/ \E k \in Keys, v \in Values, op \in Opcodes : LockGranted(c, k, v, op)
  \/ Write(c) \/ WriteNotify(c)
  \/ ScanHome(c) \/ ScanNeighbour(c) \/ ScanBucketEnd(c) \/ EndSearch(c)
  \/ Break(c) \/ CallFlushed(c)

Deal == \/ DealBegin \/ RemoteSkip \/ RemoteRetire \/ CommitUpsert
        \/ CommitDelete \/ RemoteDone \/ LocalSlot \/ LocalDone
        \/ ScanSlot \/ ScanDone \/ IndexStore

Relocate == \/ RelocPick \/ RelocSkip \/ RelocDone
            \/ ProbeRoom \/ ProbeNext \/ ProbeEnd
            \/ LockNeighbour \/ UnlockNeighbour
            \/ CopyLine \/ ValidateCopy \/ DropOriginal

Server == PollRecv \/ PostRecv \/ Deal \/ Relocate

Next == (\E c \in Clients : Client(c)) \/ Server

Spec == Init /\ [][Next]_vars

(* The server thread and the NICs keep running: server_check never sleeps, *)
(* and a posted write or read is carried out.  Nothing says that a client  *)
(* ever starts another call.                                               *)
FairSpec ==
  /\ Spec /\ WF_vars(Server)
  /\ \A c \in Clients :
       WF_vars(\/ Write(c) \/ WriteNotify(c) \/ ScanHome(c)
               \/ ScanNeighbour(c) \/ ScanBucketEnd(c) \/ EndSearch(c))

---------------------------------------------------------------------------
(* Every variable holds a value of its C type. *)
IndexType ==
  /\ bitmap \in [Buckets -> SUBSET Slots]
  /\ freecount \in [Buckets -> 0..255]
  /\ llock \in [Buckets -> 0..255]
  /\ rlock \in [Buckets -> 0..MaxRlock]
LineType  == dline \in [Lines -> DataLine]
QueueType == posted \in Nat /\ arrived \in Seq(Buckets) /\ lost \subseteq Buckets
ClientType ==
  /\ pc \in [Clients -> {"idle", "write", "scan", "return", "broken"}]
  /\ req \in [Clients -> DataLine]
  /\ grant \in [Clients -> [slot : Slots \cup {NoSlot}, last : BOOLEAN]]
  /\ scan \in [Clients -> [exist : 0..3, value : Values \cup {NoValue},
                           bucket : 0..(BucketNum - 1), pos : 0..LineNum]]
  /\ fresh \subseteq {c \in Clients : pc[c] = "write"}
ControlType ==
  /\ spc \in {"poll", "repost", "begin", "remote", "commit", "local", "scan",
              "store", "reloc", "probe", "lock", "unlock", "copy", "validate",
              "drop"}
  /\ i \in -1..LineNum
DealType ==
  /\ off \in Buckets
  /\ rlockReal \in 0..MaxRlock /\ llockReal \in 0..255
  /\ tmpBitmap \subseteq Slots /\ tmpFree \in 0..255
  /\ opcode \in {0, UPSERT, DELETE} /\ old \in Lines \cup {NoLine}
RelocType ==
  /\ hashOff \in 0..(IndexNum - 1) /\ j \in 0..BucketNum /\ migrate \in 0..2
  /\ target \in Slots \cup {NoSlot}

TypeOK == IndexType /\ LineType /\ QueueType /\ ClientType
            /\ ControlType /\ DealType /\ RelocType

(* The loop counters are in their loops (the strengthening that makes      *)
(* TypeOK inductive): a slot is only accessed with a counter in range.     *)
LoopsInRange ==
  /\ spc \in {"commit", "probe", "lock", "copy", "validate", "drop"} => i \in Slots
  /\ spc = "commit" => rlockReal > 0
  /\ spc = "local" => i \in -1..(LineNum - 1)
  /\ spc \in {"remote", "scan", "reloc"} => i \in 0..LineNum
  /\ spc \in {"reloc", "probe", "lock", "copy", "validate", "drop"}
       => migrate \in 1..2
  /\ spc \in {"lock", "unlock", "copy", "validate", "drop"}
       => j \in 0..(BucketNum - 1)

(* Two clients that locked a bucket since its last reset own different     *)
(* slots: fetch-and-add, the bitmap and the scan for the k-th free bit     *)
(* never hand a slot to two of them (client_write, api.cpp:560-608).       *)
SlotExclusive ==
  \A c, d \in fresh :
    c # d /\ Home[req[c].key] = Home[req[d].key] => grant[c].slot # grant[d].slot

(* Why: a lock taken since the last reset names the free slot of its rank, *)
(* and the count of locks is above the rank.                               *)
LockRanks ==
  \A c \in fresh :
    LET b == Home[req[c].key] IN
      /\ grant[c].slot \in Free(bitmap[b])
      /\ Cardinality(FreeBefore(bitmap[b], grant[c].slot)) < rlock[b]

(* deal_pending works on a copy and stores it over the live word; what     *)
(* clients add to the word in between is lost.  That is sound only because *)
(* the bucket is full during the whole pass, so every such client is       *)
(* turned away (api.cpp:354-470).                                          *)
Dealing == spc \notin {"poll", "repost"}
FullWhileDealing == Dealing => freecount[off] <= llock[off] + rlock[off]

(* The free count is the number of clear bits (storage.h:62-64). *)
FreeCountExact ==
  \A b \in Buckets : freecount[b] = Cardinality(Free(bitmap[b]))

(* A bucket that looks as if it had a free slot has one for the next lock: *)
(* "cannot find a free slot, metadata error!" (api.cpp:606) never happens. *)
FreeCountHonest ==
  \A b \in Buckets : HasFree(b) => GrantSlot(b) # NoSlot

(* A VALID line stays protected by its committed bit or by a local lock,   *)
(* so the rank arithmetic can give its slot to nobody else.                *)
LocallyLocked(b) == {s \in Free(bitmap[b]) :
                       Cardinality(FreeAfter(bitmap[b], s)) < llock[b]}
ValidCovered ==
  \A b \in Buckets, s \in Slots :
    dline[<<b, s>>].valid = VALID =>
      \/ s \in bitmap[b] \cup LocallyLocked(b)
      \/ Dealing /\ b = off /\ s \in tmpBitmap

(* At most one announcement of a bucket exists until it has been tidied. *)
Announcements(b) ==
  {<<"client", c>> : c \in {d \in fresh : grant[d].last /\ Home[req[d].key] = b}}
    \cup {<<"queue", n>> : n \in {m \in 1..Len(arrived) : arrived[m] = b}}
    \cup (IF spc # "poll" /\ off = b THEN {<<"server", 0>>} ELSE {})
OneAnnouncement == \A b \in Buckets : Cardinality(Announcements(b)) <= 1

(* A bucket that refuses calls although slots of it are uncommitted is     *)
(* announced.  The announcement is a guess from the word that the fetch-   *)
(* and-add returned (api.cpp:621).  It is missing only if the very client  *)
(* that got the last slot failed before it wrote, or if relocate           *)
(* (api.cpp:309), or a call that found no slot for its lock                *)
(* (api.cpp:605), took the last one: these announce nothing, and nobody    *)
(* announces the bucket after them.                                        *)
FullIsAnnounced ==
  \A b \in HomeBuckets :
    freecount[b] > 0 /\ ~HasFree(b) => Announcements(b) # {} \/ b \in lost

(* No receive request is lost: the NIC can always deliver again. *)
RecvConserved ==
  posted + Len(arrived) + (IF spc = "repost" THEN 1 ELSE 0) = RecvDepth

(* A key has one VALID line, but for the moment in which relocate has      *)
(* copied it and not yet dropped the original.                             *)
ValidLines(k) == {l \in Lines : dline[l].key = k /\ dline[l].valid = VALID}
KeyUnique ==
  \A k \in Keys : Cardinality(ValidLines(k)) <= (IF spc = "drop" THEN 2 ELSE 1)

(* An announced bucket is tidied: its immediate waits for a receive        *)
(* request, then for the server, which works through a bounded pass.       *)
AnnouncedTidied ==
  \A b \in HomeBuckets : Announcements(b) # {} ~> Announcements(b) = {}

(* Every call that was granted a slot ends, also the one that announces    *)
(* its bucket while the server has no receive request left (ib.cpp:245).   *)
WritesEnd == \A c \in Clients : pc[c] = "write" ~> pc[c] # "write"
===========================================================================
