---------------------------- MODULE RenoHarness ----------------------------
(***************************************************************************)
(* A client node: the threads of the workload harness (exp.cpp) and the    *)
(* verbs they call (rdma_read, rdma_write, post_cq of ib.cpp).  Every      *)
(* thread has its own queue pair and its own part of the reply buffers,    *)
(* but all of them poll the one send completion queue of the node and take *)
(* whatever completion comes first.  What the requests do to the server is *)
(* RenoTable's matter; here a lock finds any word.                         *)
(***************************************************************************)
EXTENDS Integers, Sequences

CONSTANTS
  ClientPerNode,   \* CLIENT_PER_NODE
  OpNum,           \* op_num, the calls of a thread
  QPsFail          \* whether a queue pair may fail

ASSUME HarnessAssumption ==
  ClientPerNode \in Nat \ {0} /\ OpNum \in Nat /\ QPsFail \in BOOLEAN

Threads  == 0..(ClientPerNode - 1)
Words    == {"full", "free"}     \* an index word, as client_write tests it
WordSize == 8                    \* sizeof(uint64_t)

(* What a run consists of: the calls its lines may ask for, and how many   *)
(* threads make them, one after the other or (1) the main thread itself.   *)
CallsOf(type) == CASE type = 0        -> {"search"}
                   [] type \in {1, 2} -> {"search", "upsert"}
                   [] OTHER           -> {"upsert"}
ClientRunWorkload == [calls : {CallsOf(type) : type \in 0..4},
                      threads : {ClientPerNode}]
RandomRead  == [calls |-> {"search"}, threads |-> 1]
RandomWrite == [calls |-> {"upsert"}, threads |-> 1]
Workloads   == ClientRunWorkload \cup {RandomRead, RandomWrite}

VARIABLES
  workload,   \* what the node runs
  main,       \* the main thread: create, join, done, exit
  order,      \* i, the thread it is about to create or to join
  pc,         \* none, open, loop, read, lock, write (polling), ended
  left,       \* the lines a thread has still to read
  sq,         \* the requests of each queue pair: [op, done, word]
  failed,     \* whether the queue pair is in the error state
  cq,         \* send_cq: [thread, ok]; no field the code reads says whose
  recvBuf,    \* the word in each thread's part of recv_buf
  granted,    \* history: the last request of a thread that was carried out
              \* is a lock that found a free slot
  begun,      \* history: how many of its reads and locks were carried out
  landed      \* history: how many lines a thread has written

history == <<granted, begun, landed>>
vars == <<workload, main, order, pc, left, sq, failed, cq, recvBuf, history>>

Init ==
  /\ workload \in Workloads
  /\ main = "create" /\ order = 0
  /\ pc     = [t \in Threads |-> "none"]
  /\ left   = [t \in Threads |-> 0]
  /\ sq     = [t \in Threads |-> <<>>]
  /\ failed = [t \in Threads |-> FALSE]
  /\ cq = <<>>
  /\ recvBuf \in [Threads -> Words]      \* malloc
  /\ granted = [t \in Threads |-> FALSE]
  /\ begun = [t \in Threads |-> 0] /\ landed = [t \in Threads |-> 0]

---------------------------------------------------------------------------
(* clientRunWorkload; for one thread also the drivers that call directly.  *)
Create ==
  /\ main = "create" /\ main' = "join"
  /\ pc'   = [pc EXCEPT ![order] = "open"]
  /\ left' = [left EXCEPT ![order] = OpNum]
  /\ UNCHANGED <<workload, order, sq, failed, cq, recvBuf, history>>

NextThread ==
  /\ order' = order + 1
  /\ main' = IF order' = workload.threads THEN "done" ELSE "create"
  /\ UNCHANGED <<workload, pc, left, sq, failed, cq, recvBuf, history>>

(* The bug: all threads are created before any is joined. *)
BugJoin ==
  /\ main = "join"
  /\ order + 1 = workload.threads => \A t \in Threads : pc[t] \in {"none", "ended"}
  /\ NextThread

Join ==
  /\ main = "join" /\ pc[order] = "ended"
  /\ NextThread

---------------------------------------------------------------------------
(* A thread.  A file that is missing ends the whole process.               *)
OpenFile(t) ==
  /\ pc[t] = "open"
  /\ \/ pc' = [pc EXCEPT ![t] = "loop"] /\ UNCHANGED main
     \/ main' = "exit" /\ UNCHANGED pc
  /\ UNCHANGED <<workload, order, left, sq, failed, cq, recvBuf, history>>

Post(t, op) == sq' = [sq EXCEPT ![t] = Append(@, [op |-> op, done |-> FALSE,
                                                  word |-> "full"])]

(* One line of the file is one call: a search posts its read, an upsert    *)
(* its fetch-and-add.                                                      *)
Call(t) ==
  /\ pc[t] = "loop" /\ left[t] > 0
  /\ left' = [left EXCEPT ![t] = @ - 1]
  /\ \/ /\ "search" \in workload.calls
        /\ Post(t, "read") /\ pc' = [pc EXCEPT ![t] = "read"]
     \/ /\ "upsert" \in workload.calls
        /\ Post(t, "lock") /\ pc' = [pc EXCEPT ![t] = "lock"]
  /\ UNCHANGED <<workload, main, order, failed, cq, recvBuf, history>>

(* The bug: the loop runs up to op_num and not below it. *)
BugNoLine(t) ==
  /\ pc[t] = "loop" /\ left[t] >= 0
  /\ left' = [left EXCEPT ![t] = @ - 1]
  /\ UNCHANGED <<workload, main, order, pc, sq, failed, cq, recvBuf, history>>

(* The file has fewer lines than op_num. *)
NoLine(t) ==
  /\ pc[t] = "loop" /\ left[t] > 0
  /\ left' = [left EXCEPT ![t] = @ - 1]
  /\ UNCHANGED <<workload, main, order, pc, sq, failed, cq, recvBuf, history>>

ThreadEnd(t) ==
  /\ pc[t] = "loop" /\ left[t] = 0
  /\ pc' = [pc EXCEPT ![t] = "ended"]
  /\ UNCHANGED <<workload, main, order, left, sq, failed, cq, recvBuf, history>>

(* post_cq spins until the queue holds a completion, and takes the first.  *)
Polling(t) == pc[t] \in {"read", "lock", "write"}
Polls(t)  == Polling(t) /\ cq # <<>> /\ cq' = Tail(cq)
Return(t) == pc' = [pc EXCEPT ![t] = "loop"] /\ UNCHANGED sq

(* The bug: the loop of post_cq goes on after an error. *)
BugPollError(t) ==
  /\ Polls(t) /\ ~Head(cq).ok
  /\ UNCHANGED <<workload, main, order, pc, left, sq, failed, recvBuf, history>>

(* An error: the call returns -1, and the next one is made. *)
PollError(t) ==
  /\ Polls(t) /\ ~Head(cq).ok
  /\ Return(t)
  /\ UNCHANGED <<workload, main, order, left, failed, recvBuf, history>>

(* The end of a search, or of the write of an upsert. *)
PollLast(t) ==
  /\ Polls(t) /\ Head(cq).ok /\ pc[t] # "lock"
  /\ Return(t)
  /\ UNCHANGED <<workload, main, order, left, failed, recvBuf, history>>

(* The word comes back to the part of recv_buf with the thread's number;   *)
(* the code then looks WordSize times further, since it adds the offset to *)
(* a uint64_t pointer: outside of the buffer for every thread but the      *)
(* first, where any word may be.                                           *)
WordsRead(t) ==
  IF WordSize * t \in Threads THEN {recvBuf[WordSize * t]} ELSE Words

PollLock(t) ==
  /\ Polls(t) /\ Head(cq).ok /\ pc[t] = "lock"
  /\ \E w \in WordsRead(t) :
       \/ w = "full" /\ Return(t)
       \/ w = "free" /\ Post(t, "write") /\ pc' = [pc EXCEPT ![t] = "write"]
  /\ UNCHANGED <<workload, main, order, left, failed, recvBuf, history>>

---------------------------------------------------------------------------
(* The NIC works a queue pair off in order: it has the request carried out *)
(* at the server, then completes it.                                       *)
Execute(t) ==
  /\ ~failed[t] /\ sq[t] # <<>> /\ ~Head(sq[t]).done
  /\ \E w \in Words :
       /\ Head(sq[t]).op # "lock" => w = "full"
       /\ sq' = [sq EXCEPT ![t][1].done = TRUE, ![t][1].word = w]
       /\ granted' = [granted EXCEPT ![t] = w = "free"]
  /\ IF Head(sq[t]).op = "write"
       THEN landed' = [landed EXCEPT ![t] = @ + 1] /\ UNCHANGED begun
       ELSE begun' = [begun EXCEPT ![t] = @ + 1] /\ UNCHANGED landed
  /\ UNCHANGED <<workload, main, order, pc, left, failed, cq, recvBuf>>

Complete(t) ==
  /\ ~failed[t] /\ sq[t] # <<>> /\ Head(sq[t]).done
  /\ cq' = Append(cq, [thread |-> t, ok |-> TRUE])
  /\ recvBuf' = [recvBuf EXCEPT ![t] = IF Head(sq[t]).op = "lock"
                                         THEN Head(sq[t]).word ELSE @]
  /\ sq' = [sq EXCEPT ![t] = Tail(@)]
  /\ UNCHANGED <<workload, main, order, pc, left, failed, history>>

(* The retries run out, before or after the server carried the request     *)
(* out; from then on every request of the queue pair ends with an error.   *)
FailAndFlush(t) ==
  /\ sq[t] # <<>> /\ (QPsFail \/ failed[t])
  /\ failed' = [failed EXCEPT ![t] = TRUE]
  /\ cq' = cq \o [n \in 1..Len(sq[t]) |-> [thread |-> t, ok |-> FALSE]]
  /\ sq' = [sq EXCEPT ![t] = <<>>]
  /\ UNCHANGED <<workload, main, order, pc, left, recvBuf, history>>

---------------------------------------------------------------------------
Running == main # "exit"
Main      == Running /\ (Create \/ Join)
Thread(t) == Running /\ (\/ OpenFile(t) \/ Call(t) \/ NoLine(t) \/ ThreadEnd(t)
                         \/ PollError(t) \/ PollLast(t) \/ PollLock(t))
NIC(t)    == Running /\ (Execute(t) \/ Complete(t) \/ FailAndFlush(t))

Next == Main \/ \E t \in Threads : Thread(t) \/ NIC(t)

Spec == Init /\ [][Next]_vars

(* Threads are scheduled; every request is answered or times out. *)
FairSpec == /\ Spec /\ WF_vars(Main)
            /\ \A t \in Threads : WF_vars(Thread(t)) /\ WF_vars(NIC(t))

---------------------------------------------------------------------------
TypeOK ==
  /\ workload \in [calls : SUBSET {"search", "upsert"}, threads : 1..ClientPerNode]
  /\ main \in {"create", "join", "done", "exit"} /\ order \in 0..ClientPerNode
  /\ pc \in [Threads -> {"none", "open", "loop", "read", "lock", "write", "ended"}]
  /\ left \in [Threads -> 0..OpNum]
  /\ sq \in [Threads -> Seq([op : {"read", "lock", "write"},
                            done : BOOLEAN, word : Words])]
  /\ failed \in [Threads -> BOOLEAN]
  /\ cq \in Seq([thread : Threads, ok : BOOLEAN])
  /\ recvBuf \in [Threads -> Words]
  /\ granted \in [Threads -> BOOLEAN]
  /\ begun \in [Threads -> Nat] /\ landed \in [Threads -> 0..OpNum]

(* A call under way has one request, or the completion of it; a call that  *)
(* has returned has left neither behind: no thread takes a completion that *)
(* is not its own, though nothing in a completion tells (ib.cpp:401-438;   *)
(* the join of exp.cpp:148 alone keeps the threads apart).                 *)
Completed(t) == \E n \in 1..Len(cq) : cq[n].thread = t
OwnCompletion ==
  \A t \in Threads :
    IF Polling(t) THEN Len(sq[t]) = IF Completed(t) THEN 0 ELSE 1
                  ELSE sq[t] = <<>> /\ ~Completed(t)

Client == INSTANCE RenoClient
  WITH phase  <- IF failed[0] THEN "broken"
                 ELSE IF granted[0] THEN "write" ELSE "idle",
       begun  <- begun[0],
       landed <- landed[0]

(* Thread 0 is a client of RenoTable: it writes a slot exactly when the    *)
(* fetch-and-add just before granted it one, and with a grant in hand it   *)
(* neither locks nor reads before it has written, although the lock, its   *)
(* completion, the word in the reply buffer and the write are separate,    *)
(* and any of them may fail (client_write, api.cpp:555-639).  For other    *)
(* threads this does not hold, see WordsRead.                              *)
IsClient == Client!Spec

(* The run comes to its end, also when queue pairs fail on the way.        *)
RunEnds == <>(main \in {"done", "exit"})
============================================================================
