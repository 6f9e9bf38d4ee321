----------------------------- MODULE RenoLocal -----------------------------
(***************************************************************************)
(* The table without the network, as localInsert (exp.cpp:284-313) and the *)
(* commented part of main use it: one process calls server_insert again    *)
(* and again, and tidies a bucket itself, inside the call that fills one.  *)
(* The tidying is deal_pending and relocate of RenoTable; the slots are    *)
(* locked with llock, from the right.                                      *)
(***************************************************************************)
EXTENDS RenoTableMap

Group(k) == Home[k]..(Home[k] + BucketNum - 1)

(* The bucket the loop of server_insert stops at: the first with room. *)
InsertBuckets(k) ==
  {b \in Group(k) : HasFree(b) /\ \A a \in Group(k) : a < b => ~HasFree(a)}

(* The bug: the locks taken before are not counted. *)
BugInsertSlot(b) == RelocSlot(b, 1)
InsertSlot(b) == RelocSlot(b, Byte(llock[b] + 1))

(* The call starts when the previous one has returned ("poll": no pass is  *)
(* under way).                                                             *)
Insert(k, v) ==
  /\ spc = "poll"
  /\ \E b \in InsertBuckets(k) :
       /\ InsertSlot(b) # NoSlot
       /\ llock' = [llock EXCEPT ![b] = Byte(@ + 1)]
       /\ dline' = [dline EXCEPT ![<<b, InsertSlot(b)>>] =
                        [key |-> k, value |-> v, valid |-> VALID]]
       /\ IF freecount[b] <= llock'[b] + rlock[b]
            THEN spc' = "begin" /\ off' = Home[k]
            ELSE UNCHANGED <<spc, off>>
  /\ UNCHANGED <<bitmap, freecount, rlock, queueVars, clientVars, i, rlockReal,
                 llockReal, tmpBitmap, tmpFree, opcode, old, relocVars>>

(* No bucket with room, or no slot for the lock, which is undone. *)
InsertRefused(k) ==
  /\ spc = "poll"
  /\ \A b \in InsertBuckets(k) : InsertSlot(b) = NoSlot
  /\ UNCHANGED vars

LocalNext == \/ \E k \in Keys, v \in Values : Insert(k, v)
             \/ \E k \in Keys : InsertRefused(k)
             \/ Deal \/ Relocate

LocalSpec == Init /\ [][LocalNext]_vars

---------------------------------------------------------------------------
(* A key that server_search finds is found for ever: no pass and no later  *)
(* insert overwrites, drops or moves its line out of its group, and none   *)
(* of the steps in between hides it (api.cpp:162-224, 279-471).            *)
StaysFound ==
  [][\A k \in Keys : ServerSearch(k) # NoValue => ServerSearch(k)' # NoValue]_vars

(* What is stored stays stored, also what a search does not see because an *)
(* earlier line of the group hides it: a value found in a VALID line of a  *)
(* key is in one at all times, so an insert takes nobody's slot, and a     *)
(* pass copies a line whole, into a slot nobody has, before it drops it.   *)
Stored(k) ==
  {dline[l].value : l \in {m \in Lines : /\ m[1] \in Group(k)
                                         /\ dline[m].key = k /\ dline[m].valid = VALID}}
NothingLost == [][\A k \in Keys : Stored(k) \subseteq Stored(k)']_vars

(* server_insert is never left with "target_slot == -1" (api.cpp:199): a   *)
(* bucket that counts a free slot has one.                                 *)
InsertHonest ==
  spc = "poll" => \A b \in Buckets : HasFree(b) => InsertSlot(b) # NoSlot
============================================================================
