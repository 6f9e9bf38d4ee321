------------------------- MODULE RenoHarnessProofs -------------------------
(***************************************************************************)
(* Theorems of RenoHarness, for every number of threads and of calls: every*)
(* variable keeps its type, no thread takes a completion that is not its   *)
(* own, and thread 0 is a client as RenoTable takes it.                    *)
(***************************************************************************)
EXTENDS RenoHarness, SequenceTheorems, TLAPS

USE HarnessAssumption DEF Threads, Words

---------------------------------------------------------------------------
(* OwnCompletion is not inductive: two threads that poll at once would     *)
(* take each other's completions.  TakeTurns keeps them apart: the threads *)
(* before order have ended, those after it have not begun.                 *)
TakeTurns ==
  /\ main # "done" => order < workload.threads
  /\ \A t \in Threads : t < order => pc[t] = "ended"
  /\ \A t \in Threads : t > order => pc[t] = "none"
  /\ order \in Threads => (pc[order] = "none" <=> main \in {"create", "done"})

(* A polling thread waits for the one request of its call, whose kind the  *)
(* polling shows, or for a completion that is alone in the queue.          *)
Request(op, done, w) == [op |-> op, done |-> done, word |-> w]
Completion(t, ok)    == [thread |-> t, ok |-> ok]

Requested(t) == cq = <<>> /\ \E done \in BOOLEAN, w \in Words :
                               sq[t] = <<Request(pc[t], done, w)>>
Answered(t)  == sq[t] = <<>> /\ \E ok \in BOOLEAN : cq = <<Completion(t, ok)>>

OneRequest ==
  /\ \A t \in Threads : IF Polling(t) THEN Requested(t) \/ Answered(t)
                                      ELSE sq[t] = <<>>
  /\ cq # <<>> => \E t \in Threads : Polling(t)

(* A thread writes at most one line per call: the lines it has written,    *)
(* the one its call under way may still write and those it has still to    *)
(* read are never more than op_num.                                        *)
Pending(t) == \/ pc[t] = "lock"
              \/ pc[t] = "write" /\ \E w \in Words : sq[t] = <<Request("write", FALSE, w)>>
LineBudget ==
  \A t \in Threads :
    IF pc[t] = "none" THEN landed[t] = 0
                      ELSE landed[t] + left[t] + (IF Pending(t) THEN 1 ELSE 0) <= OpNum

HarnessInv == TypeOK /\ TakeTurns /\ OneRequest /\ LineBudget

(* What thread 0 was granted, as long as its queue pair works: a slot from *)
(* the lock that found it until the write of the same call.                *)
HoldsGrant ==
  \/ /\ pc[0] = "lock"
     /\ \/ sq[0] = <<Request("lock", TRUE, "free")>>
        \/ sq[0] = <<>> /\ recvBuf[0] = "free"
  \/ pc[0] = "write" /\ \E w \in Words : sq[0] = <<Request("write", FALSE, w)>>
GrantTracked ==
  ~failed[0] => /\ granted[0] <=> HoldsGrant
                /\ cq # <<Completion(0, FALSE)>>
---------------------------------------------------------------------------
Requests    == [op : {"read", "lock", "write"}, done : BOOLEAN, word : Words]
Completions == [thread : Threads, ok : BOOLEAN]

(* Sequences of one element, the only ones that the queues ever hold.      *)
LEMMA OneElement ==
  ASSUME NEW x
  PROVE  /\ <<x>> # <<>> /\ Len(<<x>>) = 1 /\ <<x>>[1] = x
         /\ Head(<<x>>) = x /\ Tail(<<x>>) = <<>>
         /\ <<>> \o [n \in 1..1 |-> x] = <<x>> /\ Append(<<>>, x) = <<x>>
<1>1. Len(<<x>>) = 1 /\ <<x>>[1] = x /\ Head(<<x>>) = x /\ Tail(<<x>>) = <<>>
  OBVIOUS
<1>2. <<x>> # <<>>
  BY <1>1
<1>3. [n \in 1..1 |-> x] \in Seq({x}) /\ Len([n \in 1..1 |-> x]) = 1
  OBVIOUS
<1>4. [n \in 1..1 |-> x] = <<x>>
  <2>1. <<x>> \in Seq({x})
    OBVIOUS
  <2>2. \A k \in 1..1 : [n \in 1..1 |-> x][k] = <<x>>[k]
    BY <1>1
  <2> QED BY <1>1, <1>3, <2>1, <2>2, SeqEqual
<1>5. Append(<<>>, x) = <<x>>
  BY <1>1
<1> QED BY <1>1, <1>2, <1>3, <1>4, <1>5, ConcatEmptySeq

(* A request carried out is not one in flight. *)
LEMMA DoneApart ==
  ASSUME NEW op, NEW w, NEW o, NEW x
  PROVE  <<Request(op, TRUE, w)>> # <<Request(o, FALSE, x)>>
<1>1. Request(op, TRUE, w).done = TRUE /\ Request(o, FALSE, x).done = FALSE
  BY DEF Request
<1>2. Request(op, TRUE, w) # Request(o, FALSE, x)
  BY <1>1
<1> QED BY <1>2, OneElement, Zenon

(* While the process runs, the thread that has begun and not ended is the  *)
(* one the main thread waits for; no other one polls.                      *)
LEMMA TurnOf ==
  ASSUME TypeOK, TakeTurns, NEW t \in Threads, pc[t] \notin {"none", "ended"}
  PROVE  /\ t = order /\ main \notin {"create", "done"}
         /\ \A u \in Threads \ {t} : pc[u] \in {"none", "ended"} /\ ~Polling(u)
<1>1. order \in Int
  BY DEF TypeOK
<1>2. t = order
  BY <1>1 DEF TakeTurns
<1>3. ASSUME NEW u \in Threads \ {t} PROVE pc[u] \in {"none", "ended"}
  BY <1>1, <1>2 DEF TakeTurns
<1> QED BY <1>2, <1>3 DEF TakeTurns, Polling

(* A step of one thread, or of the NIC for it, leaves the other threads    *)
(* without a request.                                                      *)
LEMMA OthersKeepOut ==
  ASSUME TypeOK, TakeTurns, OneRequest,
         NEW t \in Threads, pc[t] \notin {"none", "ended"},
         \A u \in Threads \ {t} : pc'[u] = pc[u] /\ sq'[u] = sq[u],
         \/ Polling(t)' /\ (Requested(t)' \/ Answered(t)')
         \/ ~Polling(t)' /\ sq'[t] = <<>> /\ cq' = <<>>
  PROVE  OneRequest'
<1>1. ASSUME NEW u \in Threads \ {t} PROVE sq'[u] = <<>> /\ ~Polling(u)'
  BY TurnOf DEF OneRequest, Polling
<1>2. cq' # <<>> => Polling(t)'
  OBVIOUS
<1> QED BY <1>1, <1>2 DEF OneRequest

LEMMA BudgetKept ==
  ASSUME LineBudget, NEW t \in Threads,
         \A u \in Threads \ {t} : /\ pc'[u] = pc[u] /\ sq'[u] = sq[u]
                                  /\ left'[u] = left[u] /\ landed'[u] = landed[u],
         pc'[t] # "none",
         landed'[t] + left'[t] + (IF Pending(t)' THEN 1 ELSE 0) <= OpNum
  PROVE  LineBudget'
<1>1. ASSUME NEW u \in Threads \ {t}
      PROVE  IF pc'[u] = "none" THEN landed'[u] = 0
             ELSE landed'[u] + left'[u] + (IF Pending(u)' THEN 1 ELSE 0) <= OpNum
  <2>1. Pending(u)' <=> Pending(u)
    BY DEF Pending
  <2> QED BY <2>1 DEF LineBudget
<1> QED BY <1>1 DEF LineBudget

LEMMA InvInit == Init => HarnessInv
<1> SUFFICES ASSUME Init PROVE HarnessInv
  OBVIOUS
<1>1. workload \in [calls : SUBSET {"search", "upsert"}, threads : 1..ClientPerNode]
  BY DEF Init, Workloads, ClientRunWorkload, RandomRead, RandomWrite, CallsOf
<1>2. TypeOK
  BY <1>1 DEF Init, TypeOK, history
<1>3. TakeTurns
  BY <1>1 DEF Init, TakeTurns
<1>4. OneRequest
  BY DEF Init, OneRequest, Polling
<1>5. LineBudget
  BY DEF Init, LineBudget
<1> QED BY <1>2, <1>3, <1>4, <1>5 DEF HarnessInv

(* The main thread. *)
LEMMA MainNext == ASSUME HarnessInv, Main PROVE HarnessInv'
<1>0. TypeOK /\ TakeTurns /\ OneRequest /\ LineBudget /\ order \in Int
  BY DEF HarnessInv, TypeOK
<1>1. ASSUME Create PROVE HarnessInv'
  <2>1. PICK t \in Threads : t = order /\ pc[t] = "none"
    BY <1>0, <1>1 DEF Create, TakeTurns, TypeOK
  <2>2. /\ main = "create" /\ main' = "join" /\ order' = order
        /\ pc' = [pc EXCEPT ![t] = "open"] /\ left' = [left EXCEPT ![t] = OpNum]
        /\ UNCHANGED <<workload, sq, failed, cq, recvBuf, granted, begun, landed>>
    BY <1>1, <2>1 DEF Create, history
  <2>3. /\ pc'[t] = "open" /\ left'[t] = OpNum
        /\ \A u \in Threads \ {t} : pc'[u] = pc[u] /\ left'[u] = left[u]
    BY <1>0, <2>2 DEF TypeOK
  <2>4. TypeOK'
    BY SMTT(30), <1>0, <2>2 DEF TypeOK
  <2>5. TakeTurns'
    BY <1>0, <2>1, <2>2, <2>3 DEF TakeTurns
  <2>6. OneRequest'
    <3>1. \A u \in Threads : Polling(u)' <=> Polling(u)
      BY <2>1, <2>3 DEF Polling
    <3>2. ASSUME NEW u \in Threads, Polling(u) PROVE pc'[u] = pc[u]
      BY <2>1, <2>3, <3>2 DEF Polling
    <3> QED BY <1>0, <2>2, <3>1, <3>2 DEF OneRequest, Requested, Answered
  <2>7. LineBudget'
    <3>1. landed'[t] = 0 /\ landed' = landed /\ sq' = sq
      BY <1>0, <2>1, <2>2 DEF LineBudget
    <3>2. ~Pending(t)'
      BY <2>3 DEF Pending
    <3> QED BY <1>0, <2>3, <3>1, <3>2, BudgetKept
  <2> QED BY <2>4, <2>5, <2>6, <2>7 DEF HarnessInv
<1>2. ASSUME Join PROVE HarnessInv'
  <2>1. order \in Threads /\ pc[order] = "ended" /\ main = "join"
        /\ order' = order + 1 /\ main' \in {"done", "create"}
        /\ (main' # "done" => order' < workload.threads)
    <3>1. /\ main = "join" /\ pc[order] = "ended" /\ order' = order + 1
          /\ main' = IF order' = workload.threads THEN "done" ELSE "create"
      BY <1>2 DEF Join, NextThread
    <3>2. workload.threads \in 1..ClientPerNode /\ order \in 0..ClientPerNode
      BY <1>0 DEF TypeOK
    <3>3. order < workload.threads
      BY <1>0, <3>1 DEF TakeTurns
    <3>4. order \in Threads
      BY <3>2, <3>3
    <3> QED BY <3>1, <3>2, <3>3, <3>4
  <2>2. UNCHANGED <<workload, pc, left, sq, failed, cq, recvBuf, granted, begun, landed>>
    BY <1>2 DEF Join, NextThread, history
  <2>3. TypeOK'
    <3>1. main' \in {"create", "join", "done", "exit"} /\ order' \in 0..ClientPerNode
      BY <2>1
    <3> QED BY <1>0, <2>2, <3>1 DEF TypeOK
  <2>4. TakeTurns'
    BY <1>0, <2>1, <2>2 DEF TakeTurns
  <2>5. OneRequest' /\ LineBudget'
    BY <1>0, <2>2 DEF OneRequest, LineBudget, Polling, Requested, Answered, Pending
  <2> QED BY <2>3, <2>4, <2>5 DEF HarnessInv
<1> QED BY <1>1, <1>2 DEF Main

(* A step at which a thread neither begins nor ends to poll leaves nothing *)
(* to show but the turn and the budget.                                    *)
LEMMA TurnKept ==
  ASSUME TypeOK, TakeTurns, NEW t \in Threads, pc[t] \notin {"none", "ended"},
         UNCHANGED <<workload, main, order>>,
         pc'[t] # "none", \A u \in Threads \ {t} : pc'[u] = pc[u]
  PROVE  TakeTurns'
<1>1. t = order
  BY TurnOf
<1>2. order \in Int
  BY DEF TypeOK
<1> QED BY <1>1, <1>2 DEF TakeTurns

(* The code of a thread outside of post_cq. *)
LEMMA CallNext ==
  ASSUME HarnessInv, NEW t \in Threads,
         OpenFile(t) \/ Call(t) \/ NoLine(t) \/ ThreadEnd(t)
  PROVE  HarnessInv'
<1>0. TypeOK /\ TakeTurns /\ OneRequest /\ LineBudget
  BY DEF HarnessInv
<1>1. pc[t] \in {"open", "loop"}
  BY DEF OpenFile, Call, NoLine, ThreadEnd
<1>2. /\ t = order /\ sq[t] = <<>> /\ cq = <<>> /\ ~Polling(t)
      /\ left[t] \in Int /\ landed[t] \in Int
      /\ landed[t] + left[t] <= OpNum
  <2>1. t = order /\ \A u \in Threads \ {t} : ~Polling(u)
    BY <1>0, <1>1, TurnOf
  <2>2. ~Polling(t) /\ ~Pending(t)
    BY <1>1 DEF Polling, Pending
  <2>3. left[t] \in Int /\ landed[t] \in Int
    BY <1>0 DEF TypeOK
  <2>4. landed[t] + left[t] <= OpNum
    BY <1>0, <1>1, <2>2, <2>3 DEF LineBudget
  <2> QED BY <1>0, <2>1, <2>2, <2>3, <2>4 DEF OneRequest
<1>3. ASSUME OpenFile(t) PROVE HarnessInv'
  <2>1. UNCHANGED <<workload, order, left, sq, failed, cq, recvBuf, granted, begun, landed>>
    BY <1>3 DEF OpenFile, history
  <2>2. CASE pc' = [pc EXCEPT ![t] = "loop"] /\ main' = main
    <3>1. pc'[t] = "loop" /\ \A u \in Threads \ {t} : pc'[u] = pc[u]
      BY <1>0, <2>2 DEF TypeOK
    <3>2. TypeOK'
      BY <1>0, <2>1, <2>2 DEF TypeOK
    <3>3. TakeTurns'
      BY <1>0, <1>1, <2>1, <2>2, <3>1, TurnKept
    <3>4. OneRequest'
      BY <1>0, <1>1, <1>2, <2>1, <3>1, OthersKeepOut DEF Polling
    <3>5. LineBudget'
      <4>1. ~Pending(t)' /\ pc'[t] # "none"
        BY <3>1 DEF Pending
      <4>2. landed'[t] + left'[t] + 0 <= OpNum
        BY <1>2, <2>1
      <4> QED BY <1>0, <2>1, <3>1, <4>1, <4>2, BudgetKept
    <3> QED BY <3>2, <3>3, <3>4, <3>5 DEF HarnessInv
  <2>3. CASE main' = "exit" /\ pc' = pc
    <3>1. TypeOK'
      BY <1>0, <2>1, <2>3 DEF TypeOK
    <3>2. TakeTurns'
      BY <1>0, <1>1, <1>2, <2>1, <2>3, TurnOf DEF TakeTurns
    <3>3. OneRequest' /\ LineBudget'
      BY <1>0, <2>1, <2>3
        DEF OneRequest, LineBudget, Polling, Requested, Answered, Pending
    <3> QED BY <3>1, <3>2, <3>3 DEF HarnessInv
  <2> QED BY <1>3, <2>2, <2>3 DEF OpenFile
<1>4. ASSUME Call(t) PROVE HarnessInv'
  <2>1. /\ left' = [left EXCEPT ![t] = @ - 1] /\ left[t] > 0
        /\ UNCHANGED <<workload, main, order, failed, cq, recvBuf, granted, begun, landed>>
    BY <1>4 DEF Call, history
  <2>2. PICK op \in {"read", "lock"} :
          /\ pc' = [pc EXCEPT ![t] = op]
          /\ sq' = [sq EXCEPT ![t] = <<Request(op, FALSE, "full")>>]
    BY <1>2, <1>4 DEF Call, Post, Request
  <2>3. /\ pc'[t] = op /\ sq'[t] = <<Request(op, FALSE, "full")>> /\ left'[t] = left[t] - 1
        /\ \A u \in Threads \ {t} : pc'[u] = pc[u] /\ sq'[u] = sq[u] /\ left'[u] = left[u]
    BY <1>0, <2>1, <2>2 DEF TypeOK
  <2>4. TypeOK'
    <3>1. sq' \in [Threads -> Seq(Requests)]
      BY SMTT(30), <1>0, <2>2 DEF TypeOK, Request, Requests
    <3>2. left' \in [Threads -> 0..OpNum]
      <4>1. left[t] \in 0..OpNum /\ left \in [Threads -> 0..OpNum]
        BY <1>0 DEF TypeOK
      <4>2. left[t] - 1 \in 0..OpNum
        BY <2>1, <4>1
      <4> QED BY <2>1, <4>1, <4>2
    <3> QED BY <1>0, <2>1, <2>2, <3>1, <3>2 DEF TypeOK, Requests
  <2>5. TakeTurns'
    BY <1>0, <1>1, <2>1, <2>3, TurnKept
  <2>6. OneRequest'
    <3>1. Polling(t)' /\ Requested(t)'
      BY <1>2, <2>1, <2>3 DEF Polling, Requested
    <3> QED BY <1>0, <1>1, <2>3, <3>1, OthersKeepOut
  <2>7. LineBudget'
    BY <1>0, <1>2, <2>1, <2>3, BudgetKept
  <2> QED BY <2>4, <2>5, <2>6, <2>7 DEF HarnessInv
<1>5. ASSUME NoLine(t) \/ ThreadEnd(t) PROVE HarnessInv'
  <2>1. /\ left' = left \/ (left[t] > 0 /\ left' = [left EXCEPT ![t] = left[t] - 1])
        /\ pc' = pc \/ pc' = [pc EXCEPT ![t] = "ended"]
        /\ UNCHANGED <<workload, main, order, sq, failed, cq, recvBuf, granted, begun, landed>>
    BY <1>5 DEF NoLine, ThreadEnd, history
  <2>2. /\ pc'[t] \in {"open", "loop", "ended"} /\ left'[t] \in Int /\ left'[t] <= left[t]
        /\ \A u \in Threads \ {t} : pc'[u] = pc[u] /\ left'[u] = left[u]
    <3>1. pc'[t] \in {"open", "loop", "ended"} /\ \A u \in Threads \ {t} : pc'[u] = pc[u]
      BY <1>0, <1>1, <2>1 DEF TypeOK
    <3>2. CASE left' = left
      BY <1>2, <3>1, <3>2
    <3>3. CASE left' = [left EXCEPT ![t] = left[t] - 1]
      <4>1. left'[t] = left[t] - 1 /\ \A u \in Threads \ {t} : left'[u] = left[u]
        BY <1>0, <3>3 DEF TypeOK
      <4> QED BY <1>2, <3>1, <4>1
    <3> QED BY <2>1, <3>2, <3>3
  <2>3. TypeOK'
    <3>1. left' \in [Threads -> 0..OpNum]
      <4>1. left[t] \in 0..OpNum /\ left \in [Threads -> 0..OpNum]
        BY <1>0 DEF TypeOK
      <4>2. left[t] > 0 => left[t] - 1 \in 0..OpNum
        BY <4>1
      <4> QED BY <2>1, <4>1, <4>2
    <3> QED BY <1>0, <2>1, <3>1 DEF TypeOK
  <2>4. TakeTurns'
    BY <1>0, <1>1, <2>1, <2>2, TurnKept
  <2>5. OneRequest'
    BY <1>0, <1>1, <1>2, <2>1, <2>2, OthersKeepOut DEF Polling
  <2>6. LineBudget'
    <3>1. ~Pending(t)'
      BY <2>2 DEF Pending
    <3> QED BY <1>0, <1>2, <2>1, <2>2, <3>1, BudgetKept
  <2> QED BY <2>3, <2>4, <2>5, <2>6 DEF HarnessInv
<1> QED BY <1>3, <1>4, <1>5

(* post_cq: the completion that a thread finds in the queue is its own. *)
LEMMA PollNext ==
  ASSUME HarnessInv, NEW t \in Threads, PollError(t) \/ PollLast(t) \/ PollLock(t)
  PROVE  HarnessInv'
<1>0. TypeOK /\ TakeTurns /\ OneRequest /\ LineBudget
  BY DEF HarnessInv
<1>1. Polling(t) /\ cq # <<>> /\ cq' = Tail(cq)
  BY DEF PollError, PollLast, PollLock, Polls
<1>2. pc[t] \in {"read", "lock", "write"} /\ sq[t] = <<>> /\ cq' = <<>>
  <2>1. Answered(t)
    BY <1>0, <1>1 DEF OneRequest, Requested
  <2> QED BY <1>1, <2>1, OneElement DEF Answered, Polling
<1>3. /\ landed[t] \in Int /\ left[t] \in Int
      /\ landed[t] + left[t] + (IF Pending(t) THEN 1 ELSE 0) <= OpNum
  <2>1. landed[t] \in Int /\ left[t] \in Int
    BY <1>0 DEF TypeOK
  <2> QED BY <1>0, <1>2, <2>1 DEF LineBudget
<1>4. UNCHANGED <<workload, main, order, left, failed, recvBuf, granted, begun, landed>>
  BY DEF PollError, PollLast, PollLock, history
<1>5. CASE Return(t)
  <2>1. sq' = sq /\ pc' = [pc EXCEPT ![t] = "loop"]
    BY <1>5 DEF Return
  <2>2. pc'[t] = "loop" /\ \A u \in Threads \ {t} : pc'[u] = pc[u]
    BY <1>0, <2>1 DEF TypeOK
  <2>3. TypeOK'
    <3>1. cq' \in Seq(Completions)
      BY <1>2
    <3> QED BY <1>0, <1>4, <2>1, <3>1 DEF TypeOK, Completions
  <2>4. TakeTurns'
    BY <1>0, <1>2, <1>4, <2>2, TurnKept
  <2>5. OneRequest'
    BY <1>0, <1>2, <2>1, <2>2, OthersKeepOut DEF Polling
  <2>6. LineBudget'
    <3>1. ~Pending(t)'
      BY <2>2 DEF Pending
    <3>2. landed'[t] + left'[t] + 0 <= OpNum
      BY <1>3, <1>4
    <3> QED BY <1>0, <1>4, <2>1, <2>2, <3>1, <3>2, BudgetKept
  <2> QED BY <2>3, <2>4, <2>5, <2>6 DEF HarnessInv
<1>6. CASE pc[t] = "lock" /\ Post(t, "write") /\ pc' = [pc EXCEPT ![t] = "write"]
  <2>1. sq' = [sq EXCEPT ![t] = <<Request("write", FALSE, "full")>>]
    BY <1>2, <1>6 DEF Post, Request
  <2>2. /\ pc'[t] = "write" /\ sq'[t] = <<Request("write", FALSE, "full")>>
        /\ \A u \in Threads \ {t} : pc'[u] = pc[u] /\ sq'[u] = sq[u]
    BY <1>0, <1>6, <2>1 DEF TypeOK
  <2>3. TypeOK'
    <3>1. sq' \in [Threads -> Seq(Requests)]
      BY <1>0, <2>1 DEF TypeOK, Request, Requests
    <3>2. cq' \in Seq(Completions)
      BY <1>2
    <3> QED BY <1>0, <1>4, <1>6, <3>1, <3>2 DEF TypeOK, Requests, Completions
  <2>4. TakeTurns'
    BY <1>0, <1>2, <1>4, <2>2, TurnKept
  <2>5. OneRequest'
    <3>1. Polling(t)' /\ Requested(t)'
      BY <1>2, <2>2 DEF Polling, Requested
    <3> QED BY <1>0, <1>2, <2>2, <3>1, OthersKeepOut
  <2>6. LineBudget'
    <3>1. landed[t] + left[t] + 1 <= OpNum
      BY <1>3, <1>6 DEF Pending
    <3>2. landed'[t] + left'[t] + (IF Pending(t)' THEN 1 ELSE 0) <= OpNum
      BY <1>3, <1>4, <3>1
    <3> QED BY <1>0, <1>4, <2>2, <3>2, BudgetKept
  <2> QED BY <2>3, <2>4, <2>5, <2>6 DEF HarnessInv
<1> QED BY <1>5, <1>6 DEF PollError, PollLast, PollLock

(* The request that the NIC works on is the one its thread polls for.      *)
LEMMA NICFinds ==
  ASSUME HarnessInv, NEW t \in Threads, sq[t] # <<>>
  PROVE  /\ cq = <<>> /\ pc[t] \in {"read", "lock", "write"}
         /\ \E done \in BOOLEAN, w \in Words : sq[t] = <<Request(pc[t], done, w)>>
  BY DEF HarnessInv, OneRequest, Requested, Answered, Polling

(* What Execute does to it. *)
LEMMA ExecuteEffect ==
  ASSUME HarnessInv, NEW t \in Threads, Execute(t)
  PROVE  \E w0, w \in Words :
           /\ sq[t] = <<Request(pc[t], FALSE, w0)>>
           /\ pc[t] # "lock" => w = "full"
           /\ sq'[t] = <<Request(pc[t], TRUE, w)>>
           /\ sq' = [sq EXCEPT ![t] = <<Request(pc[t], TRUE, w)>>]
           /\ granted' = [granted EXCEPT ![t] = w = "free"]
<1>1. sq[t] # <<>> /\ ~Head(sq[t]).done
  BY DEF Execute
<1>2. PICK done \in BOOLEAN, w0 \in Words : sq[t] = <<Request(pc[t], done, w0)>>
  BY <1>1, NICFinds
<1>3. Head(sq[t]) = Request(pc[t], done, w0) /\ Head(sq[t]).op = pc[t]
      /\ Head(sq[t]).done = done
  BY <1>2, OneElement DEF Request
<1>4. done = FALSE
  BY <1>1, <1>2, <1>3
<1>5. sq \in [Threads -> Seq(Requests)]
  BY DEF HarnessInv, TypeOK, Requests
<1>6. PICK w \in Words :
        /\ Head(sq[t]).op # "lock" => w = "full"
        /\ sq' = [sq EXCEPT ![t][1].done = TRUE, ![t][1].word = w]
        /\ granted' = [granted EXCEPT ![t] = w = "free"]
  BY DEF Execute
<1> DEFINE r == Request(pc[t], done, w0)
           q == [r EXCEPT !.done = TRUE]
           p == [q EXCEPT !.word = w]
<1>7. p = Request(pc[t], TRUE, w)
  <2> HIDE DEF r, q, p
  <2>1. r = Request(pc[t], done, w0) /\ q = [r EXCEPT !.done = TRUE]
        /\ p = [q EXCEPT !.word = w]
    BY DEF r, q, p
  <2>2. q = Request(pc[t], TRUE, w0)
    BY <2>1 DEF Request
  <2> QED BY <2>1, <2>2 DEF Request
<1>8. sq'[t] = <<p>>
  <2>1. sq[t] = <<r>> /\ DOMAIN sq = Threads
    BY <1>2, <1>5
  <2> HIDE DEF r
  <2>2. [<<r>> EXCEPT ![1].done = TRUE, ![1].word = w] = <<p>>
    OBVIOUS
  <2>3. sq'[t] = [<<r>> EXCEPT ![1].done = TRUE, ![1].word = w]
    BY <1>6, <2>1
  <2> QED BY <2>2, <2>3
<1>9. sq'[t] = <<Request(pc[t], TRUE, w)>>
  BY <1>7, <1>8
<1>10. sq' = [sq EXCEPT ![t] = <<Request(pc[t], TRUE, w)>>]
  BY <1>5, <1>6, <1>9
<1>11. granted' = [granted EXCEPT ![t] = w = "free"]
  BY <1>3, <1>6
<1>12. sq[t] = <<Request(pc[t], FALSE, w0)>> /\ (pc[t] # "lock" => w = "full")
  BY <1>2, <1>3, <1>4, <1>6
<1> QED BY <1>9, <1>10, <1>11, <1>12

(* The NIC works for the thread whose turn it is. *)
LEMMA NICNext ==
  ASSUME HarnessInv, NEW t \in Threads, NIC(t)
  PROVE  HarnessInv'
<1>0. TypeOK /\ TakeTurns /\ OneRequest /\ LineBudget
  BY DEF HarnessInv
<1>1. sq[t] # <<>>
  BY DEF NIC, Execute, Complete, FailAndFlush
<1>2. PICK done \in BOOLEAN, w0 \in Words :
        cq = <<>> /\ Polling(t) /\ sq[t] = <<Request(pc[t], done, w0)>>
  BY <1>0, <1>1 DEF OneRequest, Requested, Answered
<1>3. pc[t] \in {"read", "lock", "write"}
  BY <1>2 DEF Polling
<1>4. /\ landed[t] \in Nat /\ left[t] \in Nat
      /\ landed[t] + left[t] + (IF Pending(t) THEN 1 ELSE 0) <= OpNum
  <2>1. landed[t] \in 0..OpNum /\ left[t] \in 0..OpNum
    BY <1>0 DEF TypeOK
  <2>2. landed[t] + left[t] + (IF Pending(t) THEN 1 ELSE 0) <= OpNum
    BY <1>0, <1>3 DEF LineBudget
  <2> QED BY <2>1, <2>2
<1>5. Head(sq[t]) = Request(pc[t], done, w0) /\ Len(sq[t]) = 1 /\ Tail(sq[t]) = <<>>
  BY <1>2
<1>6. UNCHANGED <<workload, main, order, pc, left>>
  BY DEF NIC, Execute, Complete, FailAndFlush
<1>7. TakeTurns'
  BY <1>0, <1>3, <1>6, TurnKept
<1>8. ASSUME Execute(t) PROVE HarnessInv'
  <2>1. done = FALSE /\ UNCHANGED <<failed, cq, recvBuf>>
    BY <1>5, <1>8 DEF Execute, Request
  <2>2. PICK w \in Words :
          /\ sq'[t] = <<Request(pc[t], TRUE, w)>>
          /\ sq' = [sq EXCEPT ![t] = <<Request(pc[t], TRUE, w)>>]
          /\ granted' = [granted EXCEPT ![t] = w = "free"]
    BY <1>8, ExecuteEffect
  <2>3. sq'[t] = <<Request(pc[t], TRUE, w)>> /\ \A u \in Threads \ {t} : sq'[u] = sq[u]
    BY <1>0, <2>2 DEF TypeOK
  <2>4. /\ Head(sq[t]).op = pc[t] /\ landed \in [Threads -> 0..OpNum]
        /\ begun[t] \in Nat
    <3>1. Head(sq[t]).op = pc[t]
      BY <1>5 DEF Request
    <3>2. landed \in [Threads -> 0..OpNum] /\ begun[t] \in Nat
      BY <1>0 DEF TypeOK
    <3> QED BY <3>1, <3>2
  <2>5. /\ landed'[t] = IF pc[t] = "write" THEN landed[t] + 1 ELSE landed[t]
        /\ landed' = [landed EXCEPT ![t] = landed'[t]]
        /\ \A u \in Threads \ {t} : landed'[u] = landed[u]
    <3>1. CASE pc[t] = "write"
      BY <1>8, <2>4, <3>1 DEF Execute
    <3>2. CASE pc[t] # "write"
      BY <1>8, <2>4, <3>2 DEF Execute
    <3> QED BY <3>1, <3>2
  <2>6. landed'[t] + left'[t] + (IF Pending(t)' THEN 1 ELSE 0) <= OpNum
    <3>1. CASE pc[t] = "write"
      <4>1. Pending(t) /\ ~Pending(t)'
        <5>1. sq[t] = <<Request("write", FALSE, w0)>>
          BY <1>2, <2>1, <3>1
        <5>2. ASSUME NEW x \in Words, sq'[t] = <<Request("write", FALSE, x)>> PROVE FALSE
          BY <2>3, <5>2, DoneApart, Zenon
        <5> QED BY <1>6, <3>1, <5>1, <5>2 DEF Pending
      <4> QED BY <1>4, <1>6, <2>5, <3>1, <4>1
    <3>2. CASE pc[t] # "write"
      <4>1. Pending(t)' <=> Pending(t)
        BY <1>6, <3>2 DEF Pending
      <4> QED BY <1>4, <1>6, <2>5, <3>2, <4>1
    <3> QED BY <3>1, <3>2
  <2>7. TypeOK'
    <3>1. sq' \in [Threads -> Seq(Requests)]
      BY <1>0, <1>3, <2>2 DEF TypeOK, Request, Requests
    <3>2. granted' \in [Threads -> BOOLEAN]
      BY <1>0, <2>2 DEF TypeOK
    <3>3. landed'[t] \in 0..OpNum
      BY <1>4, <1>6, <2>5, <2>6
    <3>4. landed' \in [Threads -> 0..OpNum]
      BY <1>0, <2>5, <3>3 DEF TypeOK
    <3>5. begun' \in [Threads -> Nat]
      <4>1. begun' = begun \/ begun' = [begun EXCEPT ![t] = begun[t] + 1]
        BY <1>8 DEF Execute
      <4>2. begun \in [Threads -> Nat] /\ begun[t] + 1 \in Nat
        <5>1. begun \in [Threads -> Nat]
          BY <1>0 DEF TypeOK
        <5> QED BY <2>4, <5>1
      <4> QED BY <4>1, <4>2
    <3> QED BY <1>0, <1>6, <2>1, <3>1, <3>2, <3>4, <3>5 DEF TypeOK, Requests
  <2>8. OneRequest'
    <3>1. Polling(t)' /\ Requested(t)'
      BY <1>2, <1>6, <2>1, <2>3 DEF Polling, Requested
    <3> QED BY <1>0, <1>3, <1>6, <2>3, <3>1, OthersKeepOut
  <2>9. LineBudget'
    BY <1>0, <1>3, <1>6, <2>3, <2>5, <2>6, BudgetKept
  <2> QED BY <1>7, <2>7, <2>8, <2>9 DEF HarnessInv
<1>9. ASSUME Complete(t) \/ FailAndFlush(t) PROVE HarnessInv'
  <2>1. PICK ok \in BOOLEAN : cq' = <<Completion(t, ok)>>
    <3>1. CASE Complete(t)
      <4>1. cq' = Append(<<>>, Completion(t, TRUE))
        BY <1>2, <3>1 DEF Complete, Completion
      <4>2. cq' = <<Completion(t, TRUE)>>
        BY <4>1, OneElement
      <4> QED BY <4>2
    <3>2. CASE FailAndFlush(t)
      <4>1. cq' = <<>> \o [n \in 1..1 |-> Completion(t, FALSE)]
        BY <1>2, <1>5, <3>2 DEF FailAndFlush, Completion
      <4>2. cq' = <<Completion(t, FALSE)>>
        BY <4>1, OneElement
      <4> QED BY <4>2
    <3> QED BY <1>9, <3>1, <3>2
  <2>2. sq' = [sq EXCEPT ![t] = <<>>] /\ UNCHANGED <<granted, begun, landed>>
    BY <1>5, <1>9 DEF Complete, FailAndFlush, history
  <2>3. sq'[t] = <<>> /\ \A u \in Threads \ {t} : sq'[u] = sq[u]
    BY <1>0, <2>2 DEF TypeOK
  <2>4. TypeOK'
    <3>1. sq' \in [Threads -> Seq(Requests)]
      BY <1>0, <2>2 DEF TypeOK, Requests
    <3>2. cq' \in Seq(Completions)
      BY <2>1 DEF Completion, Completions
    <3>3. failed' \in [Threads -> BOOLEAN]
      BY <1>0, <1>9 DEF TypeOK, Complete, FailAndFlush
    <3>4. recvBuf' \in [Threads -> Words]
      <4>1. Head(sq[t]).word \in Words
        BY <1>5 DEF Request
      <4> QED BY <1>0, <1>9, <4>1 DEF TypeOK, Complete, FailAndFlush
    <3> QED BY <1>0, <1>6, <2>2, <3>1, <3>2, <3>3, <3>4 DEF TypeOK, Requests, Completions
  <2>5. OneRequest'
    <3>1. Polling(t)' /\ Answered(t)'
      BY <1>2, <1>6, <2>1, <2>3 DEF Polling, Answered
    <3> QED BY <1>0, <1>3, <1>6, <2>3, <3>1, OthersKeepOut
  <2>6. LineBudget'
    <3>1. Pending(t)' => Pending(t)
      BY <1>6, <2>3, OneElement DEF Pending
    <3>2. landed'[t] + left'[t] + (IF Pending(t)' THEN 1 ELSE 0) <= OpNum
      BY <1>4, <1>6, <2>2, <3>1
    <3> QED BY <1>0, <1>3, <1>6, <2>2, <2>3, <3>2, BudgetKept
  <2> QED BY <1>7, <2>4, <2>5, <2>6 DEF HarnessInv
<1> QED BY <1>8, <1>9 DEF NIC

LEMMA InvNext == HarnessInv /\ [Next]_vars => HarnessInv'
<1>1. ASSUME HarnessInv, UNCHANGED vars PROVE HarnessInv'
  <2> USE <1>1 DEF vars, history, HarnessInv
  <2>1. TypeOK'
    BY DEF TypeOK
  <2>2. TakeTurns' /\ LineBudget'
    BY DEF TakeTurns, LineBudget, Pending
  <2>3. OneRequest'
    BY DEF OneRequest, Polling, Requested, Answered
  <2> QED BY <2>1, <2>2, <2>3
<1>2. ASSUME HarnessInv, NEW t \in Threads, Thread(t) PROVE HarnessInv'
  BY <1>2, CallNext, PollNext DEF Thread
<1> QED BY <1>1, <1>2, MainNext, NICNext DEF Next

(* Every variable of a client node keeps its type; above all, no thread    *)
(* counts its lines below zero or writes more lines than it was asked to,  *)
(* whatever becomes of its queue pair (exp.cpp:200-246).                   *)
THEOREM HarnessTypeCorrect == Spec => []TypeOK
<1>1. HarnessInv => TypeOK
  BY DEF HarnessInv
<1> QED BY <1>1, InvInit, InvNext, PTL DEF Spec

(* However many threads a node has, post_cq hands each call the completion *)
(* of its own request and leaves none behind, also when queue pairs fail   *)
(* (ib.cpp:401-438): the join after each create (exp.cpp:148) suffices.    *)
THEOREM CompletionsOwned == Spec => []OwnCompletion
<1>1. HarnessInv => OwnCompletion
  <2> SUFFICES ASSUME HarnessInv, NEW t \in Threads
               PROVE  IF Polling(t) THEN Len(sq[t]) = IF Completed(t) THEN 0 ELSE 1
                                    ELSE sq[t] = <<>> /\ ~Completed(t)
    BY DEF OwnCompletion
  <2>0. TypeOK /\ TakeTurns /\ OneRequest
    BY DEF HarnessInv
  <2>1. CASE Polling(t) /\ Requested(t)
    BY <2>1 DEF Requested, Completed
  <2>2. CASE Polling(t) /\ Answered(t)
    <3>1. PICK ok \in BOOLEAN : cq = <<Completion(t, ok)>>
      BY <2>2 DEF Answered
    <3>2. Len(cq) = 1 /\ cq[1].thread = t /\ sq[t] = <<>>
      BY <2>2, <3>1 DEF Answered, Completion
    <3>3. Completed(t)
      BY <3>2 DEF Completed
    <3> QED BY <2>2, <3>2, <3>3
  <2>3. CASE ~Polling(t)
    <3>1. sq[t] = <<>>
      BY <2>0, <2>3 DEF OneRequest
    <3>2. ASSUME Completed(t) PROVE FALSE
      <4>1. PICK n \in 1..Len(cq) : cq[n].thread = t
        BY <3>2 DEF Completed
      <4>2. PICK u \in Threads : Polling(u)
        BY <2>0, <4>1 DEF OneRequest
      <4>3. PICK ok \in BOOLEAN : cq = <<Completion(u, ok)>>
        BY <2>0, <4>1, <4>2 DEF OneRequest, Requested, Answered
      <4>4. cq[n].thread = u
        BY <4>1, <4>3 DEF Completion
      <4> QED BY <2>3, <4>1, <4>2, <4>4
    <3> QED BY <2>3, <3>1, <3>2
  <2> QED BY <2>0, <2>1, <2>2, <2>3 DEF OneRequest
<1> QED BY <1>1, InvInit, InvNext, PTL DEF Spec

---------------------------------------------------------------------------
(* Thread 0 implements RenoClient: granted follows its pc, its request and *)
(* its part of the reply buffer, so the word it looks at after the lock is *)
(* the one the fetch-and-add returned.                                     *)
ClientInv == HarnessInv /\ GrantTracked
ClientStep == GrantTracked' /\ [Client!Next]_(Client!vars)

(* A step that leaves thread 0 and its requests as they are. *)
LEMMA ZeroKept ==
  ASSUME ClientInv,
         \/ pc'[0] = pc[0] /\ sq'[0] = sq[0]
         \/ pc[0] \notin {"lock", "write"} /\ pc'[0] \notin {"lock", "write"},
         failed'[0] = failed[0], granted'[0] = granted[0],
         recvBuf'[0] = recvBuf[0], begun'[0] = begun[0], landed'[0] = landed[0],
         cq' # <<Completion(0, FALSE)>> \/ cq' = cq
  PROVE  ClientStep
<1>1. HoldsGrant' <=> HoldsGrant
  BY DEF HoldsGrant
<1>2. GrantTracked'
  BY <1>1 DEF ClientInv, GrantTracked
<1>3. UNCHANGED Client!vars
  BY DEF Client!vars
<1> QED BY <1>2, <1>3 DEF ClientStep

(* The completion that the queue holds when thread t polls it.             *)
LEMMA PollFinds ==
  ASSUME HarnessInv, NEW t \in Threads, Polls(t)
  PROVE  /\ pc[t] \in {"read", "lock", "write"} /\ sq[t] = <<>> /\ cq' = <<>>
         /\ \E ok \in BOOLEAN : cq = <<Completion(t, ok)>>
<1>1. Answered(t)
  BY DEF HarnessInv, OneRequest, Requested, Polls
<1> QED BY <1>1, OneElement DEF Answered, Polls, Polling

LEMMA ZeroPolls ==
  ASSUME ClientInv, PollError(0) \/ PollLast(0) \/ PollLock(0)
  PROVE  ClientStep
<1>0. HarnessInv /\ GrantTracked /\ TypeOK /\ 0 \in Threads /\ WordSize * 0 = 0
  BY DEF ClientInv, HarnessInv, WordSize
<1>1. Polls(0) /\ UNCHANGED <<failed, recvBuf, granted, begun, landed>>
  BY DEF PollError, PollLast, PollLock, history
<1>2. /\ pc[0] \in {"read", "lock", "write"} /\ sq[0] = <<>> /\ cq' = <<>>
      /\ \E ok \in BOOLEAN : cq = <<Completion(0, ok)>>
  BY <1>0, <1>1, PollFinds
<1>3. UNCHANGED Client!vars /\ cq' # <<Completion(0, FALSE)>>
  BY <1>1, <1>2, OneElement DEF Client!vars
<1>4. HoldsGrant <=> pc[0] = "lock" /\ recvBuf[0] = "free"
  BY <1>2, OneElement DEF HoldsGrant
<1>5. GrantTracked'
  <2>1. CASE PollError(0)
    <3>1. cq = <<Completion(0, FALSE)>>
      <4>1. PICK ok \in BOOLEAN : cq = <<Completion(0, ok)>>
        BY <1>2
      <4>2. Head(cq).ok = ok /\ ~Head(cq).ok
        BY <2>1, <4>1, OneElement DEF PollError, Completion
      <4>3. ok = FALSE
        BY <4>1, <4>2
      <4> QED BY <4>1, <4>3
    <3> QED BY <1>0, <1>1, <3>1 DEF GrantTracked
  <2>2. CASE PollLast(0)
    <3>1. pc'[0] = "loop" /\ pc[0] # "lock"
      BY <1>0, <2>2 DEF PollLast, Return, TypeOK
    <3>2. ~HoldsGrant' /\ ~HoldsGrant
      BY <1>4, <3>1 DEF HoldsGrant
    <3> QED BY <1>0, <1>1, <1>3, <3>2 DEF GrantTracked
  <2>3. CASE PollLock(0)
    <3>1. WordsRead(0) = {recvBuf[0]}
      BY <1>0 DEF WordsRead
    <3>2. CASE recvBuf[0] = "full" /\ Return(0)
      <4>1. pc'[0] = "loop"
        BY <1>0, <3>2 DEF Return, TypeOK
      <4>2. ~HoldsGrant' /\ ~HoldsGrant
        BY <1>4, <3>2, <4>1 DEF HoldsGrant
      <4> QED BY <1>0, <1>1, <1>3, <4>2 DEF GrantTracked
    <3>3. CASE recvBuf[0] = "free" /\ Post(0, "write") /\ pc' = [pc EXCEPT ![0] = "write"]
      <4>1. pc'[0] = "write" /\ sq'[0] = <<Request("write", FALSE, "full")>>
        <5>1. /\ pc' = [pc EXCEPT ![0] = "write"]
              /\ sq' = [sq EXCEPT ![0] = Append(sq[0], Request("write", FALSE, "full"))]
          BY <3>3 DEF Post, Request
        <5>2. Append(sq[0], Request("write", FALSE, "full")) = <<Request("write", FALSE, "full")>>
          BY <1>2, OneElement
        <5>3. 0 \in DOMAIN pc /\ 0 \in DOMAIN sq
          BY <1>0 DEF TypeOK
        <5> QED BY <5>1, <5>2, <5>3
      <4>2. HoldsGrant' /\ HoldsGrant
        BY <1>4, <2>3, <3>3, <4>1 DEF HoldsGrant, PollLock
      <4> QED BY <1>0, <1>1, <1>3, <4>2 DEF GrantTracked
    <3> QED BY <2>3, <3>1, <3>2, <3>3 DEF PollLock
  <2> QED BY <2>1, <2>2, <2>3
<1> QED BY <1>3, <1>5 DEF ClientStep

LEMMA ZeroExecutes ==
  ASSUME ClientInv, HarnessInv', Execute(0)
  PROVE  ClientStep
<1>0. HarnessInv /\ GrantTracked /\ TypeOK /\ 0 \in Threads
  BY DEF ClientInv, HarnessInv
<1>1. ~failed[0] /\ sq[0] # <<>> /\ ~Head(sq[0]).done
      /\ UNCHANGED <<pc, failed, cq, recvBuf>>
  BY DEF Execute
<1>2. cq = <<>> /\ pc[0] \in {"read", "lock", "write"}
  BY <1>0, <1>1, NICFinds
<1>3. PICK w0 \in Words, w \in Words :
        /\ sq[0] = <<Request(pc[0], FALSE, w0)>>
        /\ pc[0] # "lock" => w = "full"
        /\ sq'[0] = <<Request(pc[0], TRUE, w)>>
        /\ granted' = [granted EXCEPT ![0] = w = "free"]
  BY <1>0, ExecuteEffect
<1>4. Head(sq[0]).op = pc[0]
  BY <1>3, OneElement DEF Request
<1>6. ASSUME NEW x, sq'[0] = <<Request("write", FALSE, x)>> PROVE FALSE
  BY <1>3, <1>6, DoneApart, Zenon
<1>7. sq'[0] # <<>>
  BY <1>3, OneElement
<1>8. /\ landed'[0] = IF pc[0] = "write" THEN landed[0] + 1 ELSE landed[0]
      /\ begun'[0] = IF pc[0] = "write" THEN begun[0] ELSE begun[0] + 1
  BY <1>0, <1>4 DEF Execute, TypeOK
<1>9. granted'[0] = (w = "free")
  BY <1>0, <1>3 DEF TypeOK
<1>10. cq' # <<Completion(0, FALSE)>>
  BY <1>1, <1>2, OneElement
<1>11. CASE pc[0] = "write"
  <2>1. HoldsGrant /\ ~HoldsGrant' /\ w # "free"
    BY <1>1, <1>3, <1>6, <1>11 DEF HoldsGrant
  <2>2. granted[0] /\ ~granted'[0] /\ ~failed'[0]
    BY <1>0, <1>1, <1>9, <1>11, <2>1 DEF GrantTracked
  <2>3. GrantTracked'
    BY <1>10, <2>1, <2>2 DEF GrantTracked
  <2>4. Client!Land
    BY <1>1, <1>8, <1>11, <2>2 DEF Client!Land
  <2> QED BY <2>3, <2>4 DEF ClientStep, Client!Next
<1>12. CASE pc[0] = "read"
  <2>1. ~HoldsGrant /\ ~HoldsGrant' /\ w # "free"
    BY <1>1, <1>3, <1>12 DEF HoldsGrant
  <2>2. ~granted[0] /\ ~granted'[0]
    BY <1>0, <1>1, <1>9, <2>1 DEF GrantTracked
  <2>3. GrantTracked'
    BY <1>10, <2>1, <2>2 DEF GrantTracked
  <2>4. Client!Begin
    BY <1>1, <1>8, <1>12, <2>2 DEF Client!Begin
  <2> QED BY <2>3, <2>4 DEF ClientStep, Client!Next
<1>13. CASE pc[0] = "lock"
  <2>1. ~HoldsGrant
    <3>1. ASSUME sq[0] = <<Request("lock", TRUE, "free")>> PROVE FALSE
      BY <1>3, <3>1, DoneApart, Zenon
    <3> QED BY <1>1, <1>13, <3>1 DEF HoldsGrant
  <2>2. HoldsGrant' <=> w = "free"
    <3>1. sq'[0] = <<Request("lock", TRUE, "free")>> => w = "free"
      <4>1. ASSUME sq'[0] = <<Request("lock", TRUE, "free")>> PROVE w = "free"
        <5>1. Request("lock", TRUE, "free") = Request(pc[0], TRUE, w)
          BY <1>3, <4>1, OneElement, Zenon
        <5> QED BY <5>1 DEF Request
      <4> QED BY <4>1
    <3>2. w = "free" => sq'[0] = <<Request("lock", TRUE, "free")>>
      BY <1>3, <1>13
    <3> QED BY <1>1, <1>7, <1>13, <3>1, <3>2 DEF HoldsGrant
  <2>3. ~granted[0] /\ (granted'[0] <=> w = "free") /\ ~failed'[0]
    BY <1>0, <1>1, <1>9, <1>13, <2>1 DEF GrantTracked
  <2>4. GrantTracked'
    BY <1>10, <2>2, <2>3 DEF GrantTracked
  <2>5. Client!Begin
    BY <1>1, <1>8, <1>13, <2>3 DEF Client!Begin
  <2> QED BY <2>4, <2>5 DEF ClientStep, Client!Next
<1> QED BY <1>2, <1>11, <1>12, <1>13

LEMMA ZeroCompletes ==
  ASSUME ClientInv, Complete(0)
  PROVE  ClientStep
<1>0. HarnessInv /\ GrantTracked /\ TypeOK /\ 0 \in Threads
  BY DEF ClientInv, HarnessInv
<1>1. ~failed[0] /\ sq[0] # <<>> /\ Head(sq[0]).done
      /\ UNCHANGED <<pc, failed, granted, begun, landed>>
  BY DEF Complete, history
<1>2. PICK done \in BOOLEAN, w \in Words :
        cq = <<>> /\ pc[0] \in {"read", "lock", "write"}
        /\ sq[0] = <<Request(pc[0], done, w)>>
  BY <1>0, <1>1, NICFinds
<1>3. Head(sq[0]) = Request(pc[0], done, w) /\ Head(sq[0]).op = pc[0]
      /\ Head(sq[0]).done = done /\ Head(sq[0]).word = w
  BY <1>2, OneElement DEF Request
<1>4. done = TRUE
  BY <1>1, <1>2, <1>3
<1>5. sq'[0] = <<>> /\ recvBuf'[0] = IF pc[0] = "lock" THEN w ELSE recvBuf[0]
  BY <1>0, <1>2, <1>3, OneElement DEF Complete, TypeOK
<1>6. HoldsGrant' <=> HoldsGrant
  <2>1. ASSUME NEW x, sq[0] = <<Request("write", FALSE, x)>> PROVE FALSE
    <3>1. sq[0] = <<Request(pc[0], TRUE, w)>>
      BY <1>2, <1>4
    <3> QED BY <2>1, <3>1, DoneApart, Zenon
  <2>2. CASE pc[0] = "lock"
    <3>1. HoldsGrant' <=> w = "free"
      BY <1>1, <1>5, <2>2, OneElement DEF HoldsGrant
    <3>2. ASSUME sq[0] = <<Request("lock", TRUE, "free")>> PROVE w = "free"
      <4>1. Request("lock", TRUE, "free") = Request(pc[0], TRUE, w)
        <5>1. <<Request("lock", TRUE, "free")>> = <<Request(pc[0], TRUE, w)>>
          BY <1>2, <1>4, <3>2
        <5> QED BY <5>1, OneElement, Zenon
      <4> QED BY <4>1 DEF Request
    <3>3. HoldsGrant <=> w = "free"
      BY <1>1, <1>2, <1>4, <2>2, <3>2 DEF HoldsGrant
    <3> QED BY <3>1, <3>3
  <2>3. CASE pc[0] # "lock"
    <3>1. ~HoldsGrant
      BY <2>1, <2>3 DEF HoldsGrant
    <3>2. ~HoldsGrant'
      BY <1>1, <1>5, <2>3, OneElement DEF HoldsGrant
    <3> QED BY <3>1, <3>2
  <2> QED BY <2>2, <2>3
<1>7. cq' # <<Completion(0, FALSE)>>
  <2>1. cq' = <<Completion(0, TRUE)>>
    <3>1. cq' = Append(<<>>, Completion(0, TRUE))
      BY <1>2 DEF Complete, Completion
    <3> QED BY <3>1, OneElement
  <2>2. Completion(0, TRUE).ok = TRUE /\ Completion(0, FALSE).ok = FALSE
    BY DEF Completion
  <2>3. Completion(0, TRUE) # Completion(0, FALSE)
    BY <2>2
  <2> QED BY <2>1, <2>3, OneElement, Zenon
<1>8. GrantTracked'
  BY <1>0, <1>1, <1>6, <1>7 DEF GrantTracked
<1>9. UNCHANGED Client!vars
  BY <1>1 DEF Client!vars
<1> QED BY <1>8, <1>9 DEF ClientStep

LEMMA ZeroFails ==
  ASSUME ClientInv, FailAndFlush(0)
  PROVE  ClientStep
<1>1. failed'[0] = TRUE /\ UNCHANGED <<granted, begun, landed>> /\ 0 \in Threads
  BY DEF FailAndFlush, history, ClientInv, HarnessInv, TypeOK
<1>2. GrantTracked'
  BY <1>1 DEF GrantTracked
<1>3. CASE failed[0]
  BY <1>1, <1>2, <1>3 DEF ClientStep, Client!vars
<1>4. CASE ~failed[0]
  BY <1>1, <1>2, <1>4 DEF ClientStep, Client!Next, Client!Fail
<1> QED BY <1>3, <1>4

LEMMA ClientNext == ASSUME ClientInv, [Next]_vars PROVE ClientStep
<1>0. HarnessInv /\ HarnessInv' /\ TypeOK /\ TakeTurns /\ 0 \in Threads
  BY InvNext DEF ClientInv, HarnessInv
<1>1. CASE UNCHANGED vars
  BY <1>1, ZeroKept DEF vars, history
<1>2. ASSUME Create PROVE ClientStep
  <2>1. PICK t \in Threads : t = order /\ pc[t] = "none"
    BY <1>0, <1>2 DEF Create, TakeTurns, TypeOK
  <2>2. /\ pc' = [pc EXCEPT ![t] = "open"]
        /\ UNCHANGED <<sq, failed, cq, recvBuf, granted, begun, landed>>
    BY <1>2, <2>1 DEF Create, history
  <2>3. pc'[0] = pc[0] \/ (pc[0] = "none" /\ pc'[0] = "open")
    BY <1>0, <2>1, <2>2 DEF TypeOK
  <2> QED BY <2>2, <2>3, ZeroKept
<1>3. ASSUME Join PROVE ClientStep
  BY <1>3, ZeroKept DEF Join, NextThread, history
<1>4. ASSUME NEW t \in Threads, OpenFile(t) \/ NoLine(t) \/ ThreadEnd(t) PROVE ClientStep
  <2>1. /\ pc' = pc \/ (pc[t] \in {"open", "loop"} /\
                        \E p \in {"loop", "ended"} : pc' = [pc EXCEPT ![t] = p])
        /\ UNCHANGED <<sq, failed, cq, recvBuf, granted, begun, landed>>
    BY <1>4 DEF OpenFile, NoLine, ThreadEnd, history
  <2>2. \/ pc'[0] = pc[0]
        \/ pc[0] \in {"open", "loop"} /\ pc'[0] \in {"loop", "ended"}
    BY <1>0, <2>1 DEF TypeOK
  <2> QED BY <2>1, <2>2, ZeroKept
<1>5. ASSUME NEW t \in Threads, Call(t) PROVE ClientStep
  <2>1. pc[t] = "loop" /\ sq[t] = <<>>
    BY <1>0, <1>5 DEF Call, HarnessInv, OneRequest, Polling
  <2>2. PICK op \in {"read", "lock"} :
          /\ pc' = [pc EXCEPT ![t] = op]
          /\ sq' = [sq EXCEPT ![t] = <<Request(op, FALSE, "full")>>]
    BY <1>5, <2>1, OneElement DEF Call, Post, Request
  <2>3. UNCHANGED <<failed, cq, recvBuf, granted, begun, landed>>
    BY <1>5 DEF Call, history
  <2>4. CASE t # 0
    <3>1. pc'[0] = pc[0] /\ sq'[0] = sq[0]
      BY <1>0, <2>2, <2>4 DEF TypeOK
    <3> QED BY <2>3, <3>1, ZeroKept
  <2>5. CASE t = 0
    <3>1. pc'[0] = op /\ sq'[0] = <<Request(op, FALSE, "full")>>
      BY <1>0, <2>2, <2>5 DEF TypeOK
    <3>2. ~HoldsGrant
      BY <2>1, <2>5 DEF HoldsGrant
    <3>3. ~HoldsGrant'
      <4>1. sq'[0] # <<>> /\ sq'[0] # <<Request("lock", TRUE, "free")>>
        <5>1. sq'[0] # <<>>
          BY <3>1, OneElement
        <5>2. sq'[0] # <<Request("lock", TRUE, "free")>>
          BY <3>1, DoneApart, Zenon
        <5> QED BY <5>1, <5>2
      <4> QED BY <3>1, <4>1 DEF HoldsGrant
    <3>4. GrantTracked'
      BY <2>3, <3>2, <3>3 DEF ClientInv, GrantTracked
    <3> QED BY <2>3, <3>4 DEF ClientStep, Client!vars
  <2> QED BY <2>4, <2>5
<1>6. ASSUME NEW t \in Threads, t # 0, PollError(t) \/ PollLast(t) \/ PollLock(t)
      PROVE  ClientStep
  <2>1. UNCHANGED <<failed, recvBuf, granted, begun, landed>> /\ Polls(t)
    BY <1>6 DEF PollError, PollLast, PollLock, history
  <2>2. pc'[0] = pc[0] /\ sq'[0] = sq[0]
    BY <1>0, <1>6 DEF PollError, PollLast, PollLock, Return, Post, TypeOK
  <2>3. cq' # <<Completion(0, FALSE)>>
    BY <1>0, <2>1, PollFinds, OneElement
  <2> QED BY <2>1, <2>2, <2>3, ZeroKept
<1>7. ASSUME NEW t \in Threads, t # 0, Execute(t) PROVE ClientStep
  <2>1. UNCHANGED <<pc, failed, cq, recvBuf>> /\ begun'[0] = begun[0] /\ landed'[0] = landed[0]
    <3>1. UNCHANGED <<pc, failed, cq, recvBuf>>
      BY <1>7 DEF Execute
    <3>2. \/ landed' = [landed EXCEPT ![t] = landed[t] + 1] /\ begun' = begun
          \/ begun' = [begun EXCEPT ![t] = begun[t] + 1] /\ landed' = landed
      BY <1>7 DEF Execute
    <3>3. begun'[0] = begun[0] /\ landed'[0] = landed[0]
      <4>1. 0 \in DOMAIN begun /\ 0 \in DOMAIN landed
        BY <1>0 DEF TypeOK
      <4> QED BY <1>7, <3>2, <4>1
    <3> QED BY <3>1, <3>3
  <2>2. sq'[0] = sq[0] /\ granted'[0] = granted[0]
    <3>1. PICK w \in Words :
            /\ sq' = [sq EXCEPT ![t] = <<Request(pc[t], TRUE, w)>>]
            /\ granted' = [granted EXCEPT ![t] = w = "free"]
      BY <1>0, <1>7, ExecuteEffect
    <3> QED BY <1>0, <1>7, <3>1 DEF TypeOK
  <2> QED BY <2>1, <2>2, ZeroKept
<1>8. ASSUME NEW t \in Threads, t # 0, Complete(t) \/ FailAndFlush(t) PROVE ClientStep
  <2>1. UNCHANGED <<pc, granted, begun, landed>> /\ sq[t] # <<>>
    BY <1>8 DEF Complete, FailAndFlush, history
  <2>2. sq'[0] = sq[0] /\ failed'[0] = failed[0] /\ recvBuf'[0] = recvBuf[0]
    BY <1>0, <1>8 DEF Complete, FailAndFlush, TypeOK
  <2>3. Len(cq') = 1 /\ cq'[1].thread = t
    <3>1. cq = <<>> /\ Len(sq[t]) = 1
      BY <1>0, <2>1, NICFinds, OneElement
    <3>2. CASE Complete(t)
      <4>1. cq' = Append(<<>>, Completion(t, TRUE))
        BY <3>1, <3>2 DEF Complete, Completion
      <4> QED BY <4>1, OneElement DEF Completion
    <3>3. CASE FailAndFlush(t)
      <4>1. cq' = <<>> \o [n \in 1..1 |-> Completion(t, FALSE)]
        BY <3>1, <3>3 DEF FailAndFlush, Completion
      <4> QED BY <4>1, OneElement DEF Completion
    <3> QED BY <1>8, <3>2, <3>3
  <2>4. cq' # <<Completion(0, FALSE)>>
    BY <1>8, <2>3, OneElement DEF Completion
  <2> QED BY <2>1, <2>2, <2>4, ZeroKept
<1> QED BY <1>0, <1>1, <1>2, <1>3, <1>4, <1>5, <1>6, <1>7, <1>8,
           ZeroPolls, ZeroExecutes, ZeroCompletes, ZeroFails
        DEF Next, Main, Thread, NIC

(* Thread 0 of a node is to the server's memory what RenoTable takes a     *)
(* client to be: it writes a slot exactly when the fetch-and-add just      *)
(* before granted it one, and neither locks nor reads again before it has  *)
(* written (client_write, api.cpp:555-639), however many threads share its *)
(* completion queue.                                                       *)
THEOREM ThreadZeroIsClient == Spec => IsClient
<1>1. Init => ClientInv /\ Client!Init
  <2>1. Init => HarnessInv
    BY InvInit
  <2>2. ASSUME Init PROVE GrantTracked /\ Client!Init
    <3>1. /\ pc[0] = "none" /\ failed[0] = FALSE /\ granted[0] = FALSE /\ cq = <<>>
          /\ begun[0] = 0 /\ landed[0] = 0
      BY <2>2 DEF Init
    <3>2. GrantTracked
      BY <3>1, OneElement DEF GrantTracked, HoldsGrant
    <3>3. Client!Init
      BY <3>1 DEF Client!Init
    <3> QED BY <3>2, <3>3
  <2> QED BY <2>1, <2>2 DEF ClientInv
<1>2. ClientInv /\ [Next]_vars => ClientInv' /\ [Client!Next]_(Client!vars)
  BY ClientNext, InvNext DEF ClientInv, ClientStep
<1> QED BY <1>1, <1>2, PTL DEF Spec, IsClient, Client!Spec
============================================================================
