# Reno-Hash in TLA+

TLA+ models of [Reno-Hash](../src/README.md), a hash table in the memory of one
server that clients read and write with one-sided RDMA, with the TLC
configurations that check them and TLAPS proofs of what matters most.
Line numbers below are lines of the repository's sources.

## 1. The system

### Components, their state and their operations

| part | source | state it keeps | operations |
|---|---|---|---|
| index word of a bucket | `storage.h:61-67`, `api.cpp:66-81` | one 64-bit word per bucket: `rlock` (4 bytes), `llock`, `freecount`, `pendingmap` (unused), `bitmap` | fetch-and-add by clients, plain byte stores by the server |
| data lines | `storage.h:45-59` | per slot: key, value, `valid` (0 dead, 1 VALID, 2 pending UPSERT, 3 pending DELETE) | RDMA write and read, stores of the server |
| client operations | `api.cpp:473-650` | locals of a call, a registered reply buffer | `client_upsert`, `client_del` (both `client_write`), `client_search` |
| server tidying | `api.cpp:144-160, 228-471` | locals of a pass | `server_check`, `deal_pending`, `search_old`, `relocate`, `findRelocateSlot` |
| local operations | `api.cpp:83-226`, `exp.cpp:284-313` | none | `server_insert`, `server_search` |
| RDMA verbs | `ib.cpp:278-453` | send and receive queues, completion queues | `rdma_read`, `rdma_write` (plain, with immediate, fetch-and-add), `rdma_srq_recv`, `post_cq` |
| connection set-up | `tcp.cpp`, `ib.cpp:12-276`, `main.cpp` | sockets, the numbers of both sides' queue pairs, the states of the queue pairs | `buildServer`, `buildClient`, `sock_read`, `sock_write`, `setup_ib`, `change_qp_state_rts` |
| initialisation, recovery | `api.cpp:5-81`, `storage.cpp` | the mapped region | `server_init`, `index_init`, `server_recover`, `server_exit` |
| workload harness | `exp.cpp` | key files, threads, timers | `clientRunWorkload`, `runWorkload`, `randomRead`, `randomWrite`, `localInsert` |
| hash, siphash, configuration, `trxn.h` | | none | pure functions, constants, macros |

Keys hash to one of `IndexLineNum` *home buckets*; a *group* is a home bucket and
the `BUCKET_NUM_PER_GROUP - 1` buckets after it, so the last group ends in tail
buckets that are nobody's home. A bucket has `LINE_NUM_PER_BUCKET` slots.

### How they interact

Nothing orders a client and the server but the memory they share.

1. A write fetch-and-adds 1 to `rlock`. The word that comes back tells it how
   many locks came before; if `freecount > llock + rlock` it takes the free slot
   of that rank *from the left* and writes its line there, marked pending.
   Otherwise it gives up and leaves its lock behind.
2. The call that takes the last free slot writes *with immediate*: the
   immediate is the number of the bucket, it consumes a posted receive request,
   and `server_check` polls it.
3. `server_check` posts a new receive request and runs `deal_pending`: it copies
   the index word, commits the pending lines (retiring the older line of the
   key wherever in the group it is), commits lines that were placed locally,
   clears the bits of dead lines, relocates up to two lines if fewer than two
   slots are free, and stores the copy over the live word, with both counts 0.
4. `relocate` locks a slot of another bucket of the line's group with `llock`,
   which hands out free slots *from the right*, and leaves it locked until that
   bucket's own next pass.
5. A search reads the whole group with one RDMA read, which is not atomic, and
   parses it: pending lines of the home bucket override VALID ones.

Before any of this, client nodes and the server exchange the numbers of their
queue pairs over TCP; the server answers nobody until all nodes have come.

### What is hard here, and what makes it correct

* *Two rank arithmetics over one bitmap.* Clients count free bits from the left
  with `rlock`, the server from the right with `llock`; only the test
  `freecount > llock + rlock` keeps the two apart. Correct: a slot has one owner,
  a VALID line is never within anybody's reach, `freecount` is the number of
  clear bits.
* *The word is read, copied, and overwritten without atomicity.* Correct only if
  no client is granted anything in between.
* *A pass moves the table through states nobody asked for*: the old line dead and
  the new one pending, two VALID copies of a line. Correct: the table is a map
  for its clients at every one of those steps.
* *Searches overlap passes.* Correct: a key that is there is found, with its
  last value.
* *Announcements.* Correct: one per filled bucket, none lost, each ending in a
  tidied bucket, although receive requests are few.
* *Clients that fail half way* (an error completion, a crash) leave a lock behind, or
  a slot granted and not written. Correct: nobody else's line and no count suffers.
* *One completion queue for all threads of a node*, and nothing in a completion
  that the code reads says whose it is. Correct: a call takes its own completion.
* *Set-up over TCP with shared buffers, unchecked results and no timeouts.*
  Correct: linked nodes end with queue pairs that point at each other.

`PROJECT.json` lists every hazard at its line with the properties that cover it.

## 2. Modules

| module | what it is |
|---|---|
| `RenoIndex` | the index word: bitmap as the set of committed slots, ranks from the left and the right, unsigned differences |
| `RenoTable` | **the core**: clients, NIC queues, the server thread; one action per step that touches shared memory |
| `RenoMap` | abstract specification: a map whose writes take effect in one step, and are lost only if their client fails |
| `RenoTableMap` | `RenoTable` as an implementation of `RenoMap` (refinement mapping), `server_search`, the properties of searches |
| `RenoClaims` | what comments say and the code does not do |
| `RenoLocal` | `server_insert` in a loop, with the passes of `RenoTable` run inside the call |
| `RenoWord` | the index word of one bucket as an integer: fetch-and-add on the whole, stores of bytes, shifted masks, the carry out of `rlock` |
| `RenoConnect` | the set-up of connections, with faults |
| `RenoHarness` | the threads of a client node, their queue pairs and the send completion queue they share |
| `RenoClient` | abstract specification: what `RenoTable` takes a client to be: each call begins with a read or a fetch-and-add, a slot that it grants is written once, before the next call begins |
| `RenoIndexProofs` | lemmas on the arithmetic of `RenoIndex`: ranks, counts of free slots, what the scans find |
| `RenoTableProofs` | theorems of `RenoTable`: types, slots, receive requests |
| `RenoCountProofs` | theorems of `RenoTable`: protection of VALID lines, free counts with and without deletes, announcements |
| `RenoMapProofs` | theorems of `RenoTableMap`: one line per key, the refinement of `RenoMap`, searches |
| `RenoLocalProofs` | theorems of `RenoLocal` |
| `RenoWordProofs` | theorems of `RenoWord`, on the word as one integer |
| `RenoHarnessProofs`, `RenoConnectProofs` | theorems of `RenoHarness` and `RenoConnect` |
| `MCRenoTable`, `MCRenoLocal` | constants for TLC |

`RenoTable` EXTENDS `RenoIndex`; `RenoTableMap` EXTENDS `RenoTable` and
instantiates `RenoMap`; `RenoLocal` composes `server_insert` with `Deal` and
`Relocate` of `RenoTable`. `RenoWord` EXTENDS `RenoIndex` and shows for how long
its separate fields are a fair picture of the word. `RenoHarness` instantiates
`RenoClient`: the client of `RenoTable` is what a thread's calls, completions and
reply buffer amount to.

### How `RenoTable` corresponds to the code

*State.* `bitmap`, `freecount`, `llock`, `rlock` are the fields of `ILine`,
`dline` is `DLine`, `posted` and `arrived` are the shared receive queue and its
completion queue. `pc`, `req`, `grant`, `scan` are a client's locals; `spc`,
`off`, `i`, `rlockReal`, `llockReal`, `tmpBitmap`, `tmpFree`, `old`, `hashOff`,
`j`, `migrate`, `target` are the server thread's, under the source's names.
`opcode` is `dLine->valid` of the slot at hand, kept over the two steps of a
commit. `fresh` is a history variable: the clients whose lock was taken since
the last reset of their bucket. `lost` is another: the buckets that something filled since their last
pass and that nobody will announce (`FillsSilently`: relocate or a call that finds no slot for its lock takes the last
slot; `Break`: the client that got it fails before its write). Locals that are dead are reset, so that they do
not multiply states.

*Grain.* An action writes shared memory at most once:
`RemoteRetire` (the old line goes), `CommitUpsert`/`CommitDelete` (the new line
changes), `CopyLine`, `ValidateCopy`, `DropOriginal`, `LockNeighbour`,
`UnlockNeighbour`, `IndexStore`. A client reads a group one line at a time.
`client_write` is its fetch-and-add (`LockGranted`, `LockRefused`: what it then
computes from the returned word it computes alone) and its RDMA write (`Write`,
`WriteNotify`). Three steps are coarser than the code:

* the declarations of `deal_pending` (343-354) read the four fields one after the
  other; `DealBegin` reads them at once. Only `rlock` can change in between, and
  `MIN` bounds it by `freecount - llock`, which it has reached already.
* `RemoteRetire` reads a line's `valid` and key, searches the group, and kills the
  old line in one step. Only a writer that is late (finding `late_write`) could
  act in between.
* a data line is written and read at once, where the NIC may tear a line of
  several hundred bytes between key, value and `valid`.

*Failing clients.* The clients in `Mortal` may take `Break` at any point of a call,
before or after its request has reached the server: an error completion makes
the call return (`api.cpp:573`, `:632`, `:491`), a crash ends it. A queue pair in the
error state flushes whatever is posted to it, so the calls that follow change
nothing (`CallFlushed`).

*Two searches.* `client_search` is a step for each line; `server_search` is one operator, `ServerSearch` of
`RenoTableMap`, which `RenoLocal` uses. `client_search` has a case for lines in state RELOC (`api.cpp:507`) that
`server_search` lacks; no line is ever put into that state.

The NIC's fetch-and-add and the CPU's plain byte stores to the same word are
each taken as atomic; the two are not guaranteed to be atomic towards each other
on all hardware.

*Undefined and out-of-range behaviour.* One-byte fields wrap (`Byte`), `rlock`
differences are unsigned (`UintMod`). The reply buffer of a thread with order 1
or more is misplaced (`api.cpp:580` adds a byte offset to a `uint64_t` pointer),
so a client here is thread 0 of a client node: `IsClient` of `RenoHarness`
checks that correspondence, and holds for thread 0 only.

### `RenoWord`

One bucket: `word` is `ILine[off]`, `tmp` the copy of `deal_pending`. Clients and the
server act on it with the arithmetic of the code, down to the masks
(`~BIT_FLAG >> i` shifts a negative `int`). `UintMod` stands for 2^32 and is
small, so the lock count comes round within a few steps. What a pass finds in
the data lines is free (`pending`, `valid`, `moved`), so every way a line may change
state is tried in each combination; deletes are left out, since they make the
count wrong by themselves (finding `delete_leak`).

### `RenoHarness`

`main`, `order` are `clientRunWorkload`; `pc`, `left` a thread's place in
`runWorkload`; `sq`, `failed` its queue pair; `cq` is `send_cq`, `recvBuf` the reply
buffers. A line of the file is a search or an upsert as the workload allows. The
NIC carries a request out, then completes it, or gives up at any time and flushes
the queue pair. What the server answers is free: this module is about who hears
which answer. `ibv_poll_cq` returns the first completion to whoever polls. Three history variables tie a
thread to `RenoClient`: `begun` counts its reads and locks that the NIC carried out, `landed` its writes, and
`granted` says that the last request carried out is a lock that found a free slot. So a thread that locks
or reads again with a grant in hand, or writes without one, takes no step of `RenoClient`.

### `RenoConnect`

Messages cross in two units (a client's node number and its queue pairs; the
server's queue pairs and its addresses), because `sock_read` and `sock_write`
loop and the receive buffer is one for all nodes. Faults are switched by the
constant `Faults`: `bind` and `accept` may fail, a node may `die` before it is connected, a
node may come `early`. A failing `accept` goes unnoticed, since `bind`'s result is
tested again (`tcp.cpp:52`): `sock_read` then spins on socket -1 until its unsigned length
has come round, reports success, and the message before is registered once more;
a node is left in the backlog and reset when the server closes its socket
(`ConnectionReset`). If that happens before any message has come, the buffer still is as `malloc` left it, and the node number in it may be
any index (`Stray`): the stores of `tcp.cpp:74-77` then end the process or go wide (`RegisterStray`).
The assert after `ibv_modify_qp` may end either side that turns to a queue pair nobody told it of (`ib.cpp:217` in
`ServerRtr`, `:230` in `RtrRefused`). What `main` ignores is ignored: the server goes on to
`server_check` with `built = -1`, a refused node runs its workload.

## 3. Runs

| run | instance | checks | shows |
|---|---|---|---|
| `upserts_2c` | 2 mortal clients, 1 home, 2 buckets, 3 slots | `SlotExclusive` `FullWhileDealing` `OneAnnouncement` `FullIsAnnounced` `RecvConserved` `FreeCountExact` | two clients racing for slots while the server tidies: no slot granted twice; a bucket under a pass is full for every client, so overwriting its word loses nothing; one announcement per fill, and none missing unless the very client that got the last slot failed before it wrote; no receive request lost; the count stays exact whatever failed clients leave behind |
| `homes_1c` | 1 mortal client, 2 homes, groups of 2, 1 receive request, fairness | `FreeCountExact` `ValidCovered` `FullIsAnnounced` `AnnouncedTidied` `WritesEnd` | buckets that relocate into each other and into a tail bucket, with a client bumping `rlock` between the room test and the lock; a full bucket goes unannounced only if relocate or a client that failed got its last slot; each announced bucket is tidied; each granted write ends, also the one whose announcement has to wait for a receive request |
| `map_1c` | 1 mortal client, 2 keys in one home: k1 updated with 2 values, deleted and sought, k2 filling buckets | `TypeOK` `KeyUnique` `FreeCountHonest` `SearchHits` `ImplementsMap` | the table is a map at every step of a pass, also when its client fails (its last write then has taken effect or never will; no other write is lost); a bucket that counts a free slot has one, even though DELETE miscounts; a search torn across a pass finds a key that is there |
| `local` | 2 keys in 2 homes, one of them inserted with 2 values, groups of 3, no network | `ValidCovered` `InsertHonest` `StaysFound` `NothingLost` | `server_insert` for ever: a key once found stays found through every pass, and each value once stored stays stored in its group, also where a line with another value hides it from a search |
| `connect` | 3 nodes, all faults, fairness | `TypeOK` `PairedQPs` `AnsweredMeansMet` `ReadFailsOnlyEarly` `AllServed` | linked nodes are wired to their own queue pair; an answered read vouches for the whole handshake, although nobody looks at results; a first read fails only in the window that `sleep(1)` is for; without faults all get to their first read |
| `threads` | 3 threads, 2 calls each, failing queue pairs, fairness | `TypeOK` `OwnCompletion` `IsClient` `RunEnds` | no thread takes another's completion, thanks to the join alone; thread 0 writes a slot exactly when the lock just before granted it, as the client of `RenoTable` does; a run ends whatever fails |
| `word` | 4 slots, counts that wrap at 10, up to 10 fetch-and-adds between passes | `FieldsApart` `GrantsApart` `FreeCountExact` | until the locks of a round add up to 2^32 the fields do not disturb each other, no slot is granted twice and every pass leaves the count exact; without the condition `~wrapped` TLC refutes all three |

Runs that TLC must refute, each a disagreement of the code with its own words:

| run | property | what happens |
|---|---|---|
| `late_write` | `WriterHoldsSlot` | two clients lock a bucket; the second fills and announces it; the pass resets the locks before the first has written (`api.cpp:469`, "2. lock remote bucket" `:560`). Its write lands in a slot that is free again, so it may overwrite another's |
| `reloc_slot` | `RelocSlotFree` | relocate sees room for more than two in a neighbour (`api.cpp:307`); before it has bumped `llock` (`:309`) a client is granted slot after slot there, down to the last; the local lock then names, from the right, the slot that this client is about to write ("if possible, lock one free slot" `:308`) |
| `delete_leak` | `FreeCountExact` | `api.cpp:413` decrements where the comment two lines above says `freecount++` |
| `retry_later` | `RetryLater` | a full bucket whose pass frees nothing has free count 0, is granted to nobody, announced by nobody and never tidied again ("please retry later" `:588`; "minimum 1 after relocation" `storage.h:64`) |
| `stale_read` | `ReadYourWrite` | one client, one key: the search sees the old line VALID, the server commits the new one, the search then sees that VALID too and keeps the first |

The last shows how far `SearchHits` goes: with one home bucket a hit is certain,
the latest value is not (and a hit is not either while a DELETE of the key is pending). `map_1c`
has one client, since with two a late write may destroy another's line.

`FullIsAnnounced` has an exception that the code makes real: when clients take all but the last slot
of a neighbour between the room test (`api.cpp:307`) and `*llock += 1` (`:309`), relocate takes
that one; no client saw itself last, nobody announces the
neighbour, and it refuses writes from then on. The consequence is that of
`retry_later`, by another way. `lost` names such buckets, with those whose last slot went to a client that failed or to a call that found no slot; the property
says that no full bucket is forgotten in any other way.

The room test has another weakness, which no run claims against a text of the repository: the difference is
unsigned (`SlotsLeft`), so a neighbour with refused locks looks almost empty. With more local locks than
free count the unsigned `MIN` (`api.cpp:352`) would yield `rlock` instead of nothing. Upserts only, this does no harm to the counts and
to VALID lines (`homes_1c`, and the theorems without a premise); what else holds in spite of it is not known, and the theorems that
need more say so (`LocksWithRoom`, section 4).

### Bounds, and why they are enough

* `LineNum` 3 instead of 8 (`LINE_NUM_PER_BUCKET`). The thresholds of the code are
  1 (last slot), 2 (relocate below) and 3 (room above 2), so 3 is the smallest
  bucket in which a relocation can take place and a client still be granted a
  slot beside it. 4 in `word`, where states are few.
* `BucketNum` 2 or 3: a group needs one neighbour to relocate to, and a third
  bucket for the probing loop to pass one over. `IndexNum` 1 or 2: two homes
  give overlapping groups, mutual relocation and a tail bucket.
* `Clients`: one or two, all of them in `Mortal` but in the runs TLC must refute. Two are enough for any race on a slot; everything the
  server sees of a client is in the word and the lines.
* `Keys` 1 to 3, `Values` 1 or 2. In `map_1c` the constraint `OneKeyUpdated` names what is
  left out: k2 is only upserted, with one value, and searches are followed while the table holds
  one value. `SearchHits` and the free counts do not look at
  values; the map and `stale_read` need two. `OneKeyTwoValues` does the same for `local`: k1 is inserted with two values, so
  that a line of it may hide one with another value, k3 with one.
* `MaxRlock` is where `rlock` stops counting. It is larger than `LineNum`, hence
  than every free count: no test of the code tells such counts apart (`HasFree`,
  `IsLast` and `RoomIn` included: stopping *at* the free count would hide the
  unsigned wrap of `RoomIn`). The carry out of 32 bits is `RenoWord`'s.
* `RecvDepth` is `NODE_NUM`; 1 in `homes_1c` and `map_1c`, so that there are fewer receive
  requests than buckets to announce and a client has to wait for one.
* `UintMod` is any number beyond all differences; 65536.
* Symmetry over clients is used in `upserts_2c` only, which has no temporal
  property.
* `word`: `UintMod` 10 is more than twice `LineNum`, so that the unsigned tests and the signed
  `skipcount` come out as with 2^32 as long as no count has wrapped; `MaxLocks` 10 reaches the
  carry into `llock`.
* `threads`: 3 threads and 2 calls each; a third thread could only take completions as the
  second does. Thread 0 can fail and go on, and be followed by threads that do not.
* `CHECK_DEADLOCK FALSE` in `connect` (the handshake ends, or a faulty one waits for ever), in
  `threads` (the program ends) and in `word` (the bound `MaxLocks`). The table never
  stops (a client can always be refused), so deadlock is checked everywhere else.

### Fairness

`FairSpec` of `RenoTable`: weak fairness of the server thread (`server_check` is a
busy loop) and of each client's RDMA requests once made. The NIC retries a
write with immediate for ever when there is no receive request (`rnr_retry = 7`,
`ib.cpp:245`), which is what the fairness of `WriteNotify` says. Nothing is assumed of
starting another call, so liveness never rests on a client coming back.
`WritesEnd` counts a failed client as ended.
`FairSpec` of `RenoConnect`: processes are scheduled and TCP delivers.
`FairSpec` of `RenoHarness`: threads are scheduled, and the NIC answers every request or
gives up on it (`timeout` and `retry_cnt`, `ib.cpp:242-247`).

## 4. Proofs

The theorems hold for every value of the constants that satisfies the
assumptions named in the modules (`LineNumAssumption`, `UintModAssumption`,
`TableAssumption` for the table, `WordAssumption` for the word), and include failing clients. Hypotheses beyond
that are stated in the theorem, and listed here with the reason. Each invariant proof has one
step per action; actions that leave the variables of a conjunct alone are grouped.

| theorem | states | beyond the assumptions |
|---|---|---|
| `TypeCorrect` | `RenoTable!TypeOK` | |
| `NoSharedSlot` | `SlotExclusive` | |
| `ReceivesConserved` | `RecvConserved` | |
| `ValidLinesCovered` | `ValidCovered` | |
| `FreeCountIsExact`, `NoMetadataError` | `FreeCountExact`, `FreeCountHonest` | upserts only |
| `NoMetadataErrorWithDeletes` | `FreeCountHonest` | `LocksWithRoom` |
| `AnnouncedOnce`, `NoGrantWhileDealing` | `OneAnnouncement`, `FullWhileDealing` | upserts only |
| `AnnouncedOnceWithDeletes` | `OneAnnouncement`, `FullWhileDealing` | `LocksWithRoom` |
| `FullBucketAnnounced` | `FullIsAnnounced` | |
| `KeysHaveOneLine`, `TableIsMap` | `KeyUnique`, `ImplementsMap` | one client, `LocksWithRoom` |
| `SearchesHit` | `SearchHits` | one client, `LocksWithRoom`, `MovesForward` |
| `LocalLinesCovered`, `InsertsFindSlots`, `LocalLosesNothing`, `LocalFindsForEver` | `ValidCovered`, `InsertHonest`, `NothingLost`, `StaysFound` of `RenoLocal` | |
| `WordFieldsApart`, `WordGrantsApart`, `WordCountExact` | `FieldsApart`, `GrantsApart`, `FreeCountExact` of `RenoWord` | |
| `HarnessTypeCorrect`, `CompletionsOwned`, `ThreadZeroIsClient` | `RenoHarness!TypeOK`, `OwnCompletion`, `IsClient` | |
| `ConnectTypeCorrect`, `LinkedNodesPaired`, `AnsweredNodesMet`, `ReadsFailOnlyEarly` | `RenoConnect!TypeOK`, `PairedQPs`, `AnsweredMeansMet`, `ReadFailsOnlyEarly` | |

*Upserts only* (`Opcodes \subseteq {UPSERT}`), because with deletes the count is wrong:
TLC shows it (`delete_leak`), and from a wrong count the other properties about counts have nothing
to stand on. Only what the count *promises* survives deletes. *One client*, because two write into each other's
slots (`late_write`). No theorem restricts the number of home buckets; what several homes can do to each other is stated as a
property of the behaviour instead:

* `LocksWithRoom`: relocate locks a slot of a neighbour only while that bucket has a free one. The code tests for room,
  but a client may take it between the test and the lock (`reloc_slot`), and the test is unsigned.
  Relocation into buckets that clients write to, before, during and after, is all included; only the lock that names no free
  slot is not. With one home bucket nobody but the server locks slots of a neighbour, so the test is enough.
* `MovesForward`: a line that relocate makes VALID in a neighbour comes after the original in the group. Without
  it a line may slip behind a reader, from a neighbour back to the home bucket. With one home bucket it
  always holds: only that bucket is tidied, and its neighbours come after it.

Every hypothesis is met by runs: `upserts_2c` and `homes_1c` only upsert; `map_1c` has one client and one home bucket,
so it satisfies both premises in every behaviour.

### Slots, types and receive requests (`RenoTableProofs`)

* `TypeOK` is not inductive: a step that accesses slot `i` keeps the types only if `i` is in the loop
  that led there. `TypeInv` adds `LoopsInRange`, which says where each counter is at each
  program point. So `TypeCorrect` is also the proof that no pass, with any interleaving of
  clients, accesses a slot or a bucket that does not exist.
* `SlotExclusive` does not follow from itself: two grants are made from different words. `LockInv`
  adds `LockRanks`, that a grant since the last reset names a free slot whose rank (number of free
  slots left of it) is below `rlock`. A new grant has rank exactly `rlock`, so it differs
  from all of them. A reset empties `fresh` for its bucket; nothing else changes a bitmap or lowers
  `rlock`. The bound `MaxRlock` costs a case: at the bound no grant is made, since a
  free slot of that rank does not exist.
* `RecvConserved` is inductive by itself given the types.

### What protects a line, and the free count (`RenoCountProofs`)

* `CoverInv`, for `ValidCovered`. A VALID line has its bit in the word, or is within the local locks'
  reach, or is in the copy of the pass under way. That the copy gets *every* VALID line by the time
  it is stored is `PassCovers`: bits of VALID lines are never cleared in it, step 2 has added
  the VALID ones among the slots it has passed (it uses up one lock per free slot, so the locks left
  are those of the slots to come), and from step 3 on nothing is missing. `LockBounds` keeps `llock` at or below
  the number of free slots (else step 2 would end early, and `Byte` could wrap), except in
  `UnlockNeighbour`'s moment, and says that the target of a move is locally locked.
  `NoneSendsValid`: a client never makes a line VALID. So a late write may
  destroy a line, but never leaves one outside the protection.
* `CountInv`, for `FreeCountExact`. Each of the stores to the copied bitmap goes with one to the copied
  count, but the two agree only if a bit that is set was clear and one that is cleared was set.
  `PassCounts` says so: slots of remote locks still to come, of local locks, and those done with,
  are apart, since `rlockReal` plus the free slots passed plus `llock` is at most the number of free
  slots. `NoDelete`: no DELETE is anywhere.

* `HonestInv`, for `FreeCountHonest` with deletes. A DELETE makes the count too
  small, never too large, but that is not inductive: step 3 of a pass finds the lines that DELETEs
  of step 1 retired in this bucket, whose bits they have cleared already, and counts them up again (`Recount`).
  `PassHonest` says that the copied count plus these is still at most the number of clear bits, and that step 1 never
  commits more lines than the count holds. `CountsBelow`: local locks are at most the free count, and that at most the number of
  clear bits. The first is what `LocksWithRoom` is needed for: a client's fetch-and-add never makes a test about
  `llock` false, a lock of relocate in a full bucket would.

### Announcements (`RenoCountProofs`)

`AnnounceInv` adds to `CoverInv` that an announcement is in one place (`AtMostOne`: at the client
that was granted the last slot, in the receive queue, or with the server), that an announced bucket
grants nothing (`AnnouncedIsFull`: so nobody can be told a second time that it took the last
slot), that who holds a last slot was granted it since the last reset (`LastIsFresh`), and that the free count is at most the
number of clear bits (`FreeCountBelow`, from `CountInv` when only upserts occur, from `HonestInv` else).
`OneAnnouncement` and `FullWhileDealing` follow. `LoudInv` has the converse for any homes, clients and opcodes (`FullAnnounced`):
a lock that is not the last leaves a free slot (`NotLastLeavesOne`), so whoever fills a bucket either
announces it or is in `lost`, and an announcement passes from the client to the queue and to the server, whose pass
resets the locks.

### The table is a map (`RenoMapProofs`)

`MapInv` is the invariant of the refinement, for any number of homes. It stands on `HonestInv` and `AnnounceInv`.

* `Owned(b, s)`: the rank of slot `s` is locked remotely and no local lock names it. Remote locks own ranks from the
  left, local ones from the right, and the two do not meet while the bucket's locks are within its free count
  (`OwnedIsNotLocal`). A lock of relocate in a bucket with a free slot takes none of the owned ones
  (`LockLeavesOwned`), and names a slot whose line is dead (`TargetDead`).
* `Writing`: a granted slot is owned, the server has not heard of its bucket, and it comes after everything that pends
  there; so the write becomes the last pending line of its home bucket, the one a search obeys.
* `PendingRanks`: a pending line is in the home bucket of its key, in an owned slot; or its bucket is under
  a pass that will still reach it (`Reached`: step 1 goes over the slots from the left until the
  locks it has copied are used up). So step 1 commits every pending line, first to last.
* `InGroup`: a VALID line is in the group of its key, wherever it was moved.
* `Moving` and `KeyOnce` carry what a pass knows from one of its
  steps to the next: the older line of a key is gone before the new one is committed, a copy is complete before
  it is VALID and VALID before the original is dropped.

With one client, the client and the passes still overlap: it writes to one bucket while another is tidied, and lines are
moved into the bucket that it writes to.

`TableIsMap` then takes the steps one by one. Those of the server that write a line leave
`Lookup` of every key as it was (`RetireLookup`, `CommitLookup`, `CopyLookup`, `MoveLookup`: retiring a
line is invisible because the pending one above it decides, and so on), hence stutter; a grant is the
call of the map (`GrantAccepts`), the write is its effect (`WriteApplies`), and only `Break` loses it (`BreakFails`: the client
fails in the map too). Deletes are included.

`SearchesHit` needs, for a search under way, what it has seen against what is there. `SearchInv` adds
to `MapInv` that among the lines a search without a hit has passed (`Behind`) there is still none that would have been
a hit (`Counts`: in the home bucket any line of the key that is not dead, in a neighbour a VALID one) (`ScanPassed`), that a search that ended without a
hit was right (`ScanFound`), and that a line that is not dead holds a value (`LineValues`). `ScanPassed`
survives commits because none makes a line count that did not (`PassedServer`), and moves because of `MovesForward`: a line that is moved on comes after
the original, and if the reader has passed the copy it has passed the original too. Nobody writes meanwhile, since the
reader is the one client.

### Inserting locally (`RenoLocalProofs`)

`LocalInv` is `CountInv`, which the server's steps keep whatever the clients do, with `Quiet` (nothing is pending, so step 1
of a pass does nothing) and `Moved` (what relocate knows of the line it moves). An insert takes the
free slot of rank `llock` from the right: neither committed nor locally locked, so by `ValidCovered`
no VALID line is there, and afterwards it is protected by the lock itself. This holds for any
number of homes without a premise, which the map does not: here nobody reads or writes while a pass runs.

`LocalFindsForEver` is about `ServerSearch`: by `ServerSearchIs` (in `RenoTableProofs`: the loop as a recursive function is the
declarative `Lookup`) a key is found if and only if a VALID line of its
group holds it (`StoredFound`, since nothing is pending), and a line that is stored stays stored.

### The index word (`RenoWordProofs`)

A word is `Packed(r, l, f, b)`. `Quotient` (division by a number that is not known), `Fields`, `AddsOne` and `PutByte`
say what reading a field, a fetch-and-add and the store of a byte do to it; `BitsOfNum`, `SetBit` and `ClearBit` that a
byte and its set of bits are the same, with the masks of the code; `CommitsAll` and `ClearsAll` that the loops of a pass
add and remove all their slots, by the least slot at which they do not. `WordInv`: until the locks of the round
have added up to `UintMod`, the word is `Packed` of what its history counts and of some set of bits, whose number of clear bits is its
free count; each local lock has a free slot but for the one that relocate is about to give back (`LocksPlaced`: so
`llock` never wraps); granted slots have ranks below `locks` (`TakenRanks`); the upper bytes
of the copy are exact (`TmpExact`). The pass keeps that because the reaches of remote and local locks are apart (`ReachesApart`).

### Harness and set-up (`RenoHarnessProofs`, `RenoConnectProofs`)

* `HarnessInv`: `TakeTurns` (the threads before `order` have ended, those after it have not begun) and
  `OneRequest` (the running thread has one request or one completion, nobody else has any), from
  which `OwnCompletion` follows; `LineBudget` for the types. `ClientInv` adds `GrantTracked`, which ties
  the abstract client's grant to the queue pair and the reply buffer of thread 0.
* `ConnectInv`: how far the server and each node are and what has been sent and heard by then (`ServerStages`,
  `NodeStages`), that a connection is in one place (`OnePlace`), how many units of the reply a node
  can have got (`Answers`), and what the one receive buffer and the table of clients hold of nodes that
  live (`Noted`): the stale buffer after a failed `accept` names a node already registered, and
  is registered again as itself.

### Only model-checked

* *Liveness*: `AnnouncedTidied`, `WritesEnd`, `AllServed`, `RunEnds`. Fairness and ENABLED
  are outside TLAPS as installed. Every other property of a passing run is stated by a theorem,
  under the hypotheses of the table above.

What several homes do to the map and to searches is proved, under the premises above, and not model-checked by a run. What becomes of the map when a premise fails is not claimed.

Induction over data is done by hand where it is needed (loops over slots), since the library's induction theorems take
an operator as a parameter, which the installed provers cannot instantiate. No module declares a RECURSIVE operator.

## 5. Not modelled, and why

* *A failing `ibv_post_send`.* It returns an `errno`, the code tests for -1 (`ib.cpp:300`, `:344`),
  and `post_cq` then polls for a completion that never comes.
* *What threads beyond the first do to the table.* They read the word of their lock from
  outside their reply buffer (`api.cpp:580`); `RenoHarness` has them read any word, and
  `RenoTable` has no such client. The threads do not run at once at all:
  `clientRunWorkload` joins each right after creating it (`exp.cpp:147-148`) although the text says "execute in
  parallel" (`:146`).
* *The text of keys and values.* Two workloads search for the line of the file with its "R "
  prefix (`exp.cpp:187`, `:206`) and never find what they stored; values of 15 bytes are copied
  without a terminator (`:226`). Keys and values are abstract here.
* *What `rdma_srq_recv` really posts*: it clears the wrong structure (`ib.cpp:388`), and the request
  it posts has an uninitialised `next`. The models post one request.
* *Persistence and recovery.* `server_init` maps anonymous memory (`fd = -1`) and jumps to
  the first start; `server_recover` cannot be reached, would leave out the
  tail buckets and computes `DLine` differently (`api.cpp:42`, `:57`).
* *Duplicates in `server_insert`*, which never looks for an older line of its key;
  `localInsert` inserts distinct keys. `RenoLocal` inserts one key twice, also with two values, and claims only
  that both lines are kept, not which one a search finds. *A neighbour that `server_insert` fills* is
  not tidied (`api.cpp:212` passes the home bucket); `RenoLocal` behaves so, and `local` shows
  that nothing is lost by it; that the neighbour waits is not judged. The comment of step 2 of `deal_pending` that
  local locks come only from relocation (`api.cpp:427`) does not hold for
  `server_insert`.
* *Misses of searches with more than one home bucket*: a line moved from a neighbour to
  its home bucket behind the reader. `map_1c` has one home bucket; for more, `SearchesHit` excludes such moves (`MovesForward`).
* Timers, printing, reading of key files, siphash (called by nobody), `trxn.h`
  (flush is called by nobody, the fence is commented out), the configuration.

## 6. Plan

Done: `RenoIndex`, `RenoTable` with failing clients, `RenoMap`, `RenoTableMap`,
`RenoClaims`, `RenoLocal`, `RenoConnect` with all its faults, `RenoHarness`, `RenoClient`,
`RenoWord`; the theorems of section 4.

Next, in this order:

1. The map and searches over two home buckets as runs, on an instance small enough, to see how often the premises
   `LocksWithRoom` and `MovesForward` fail and what is lost then.
2. The unsigned room test on its own (hazard at `api.cpp:307`), as a property about the lines that relocate overwrites.
3. `RenoLifecycle`: first start, exit, normal and crash recovery as written, against the
   region that a clean exit leaves, should the code of recovery become reachable.
