---------------------------- MODULE RenoConnect ----------------------------
(***************************************************************************)
(* How client nodes and the server meet (main.cpp, tcp.cpp, setup_ib and   *)
(* change_qp_state_rts of ib.cpp): over TCP each client node tells the     *)
(* server its queue pairs and learns the server's, once all client nodes   *)
(* have come; then each side connects its queue pairs and the first RDMA   *)
(* read may follow.  A message crosses in Units parts, one at a time;      *)
(* sock_read and sock_write loop until they have moved them all.           *)
(***************************************************************************)
EXTENDS Integers, Sequences, FiniteSets

CONSTANTS
  Nodes,   \* the client nodes, NODE_NUM - 1 of them, by number
  Faults   \* what may go wrong: "bind", "accept" (server), "die" (clients),
           \* "early" (a client comes before the server listens)

ASSUME NodesAssumption == IsFiniteSet(Nodes) /\ Nodes \subseteq Nat \ {0}
ASSUME FaultsAssumption == Faults \subseteq {"bind", "accept", "die", "early"}

ServerNode == 0
NoSocket == 0   \* the -1 that accept returns
Unset == 0      \* a field that nobody has filled in: zero, or garbage
Stray == -1     \* garbage in a node number: an index outside of all arrays
Units == 2      \* the parts of a message: of the client, its node number and
                \* its queue pairs; of the server, its queue pairs and addresses

VARIABLES
  (* the server *)
  spc,           \* start, setup, accept, read, register, reply, rtr, rts,
                 \* serve (server_check), dead
  built,         \* what buildServer returned: 0, -1, or 1 as long as it runs
  serverQPs,     \* which setup_ib made its queue pairs: the 1st or the 2nd
  ibInfoServer,  \* the queue pairs it announces
  cur, got,      \* the socket it reads, and the units read from it
  recvBuf,       \* the last client message: its node, and who sent the rest
  socks,         \* sockArrary: the sockets served so far
  ibInfoClient,  \* whose queue pairs it has noted for each node
  replied,       \* units of replies written to all sockets together
  sqp,           \* its queue pair for each node: [state, dest]
  (* the client nodes *)
  cpc,           \* start, connect, send, recv, rts, run, done, error, dead
  linked,        \* whether buildClient returned 0
  sent, heard,   \* units written and read
  cqp,           \* the node's queue pairs: [state, dest]
  (* the network *)
  backlog,       \* connections not accepted yet
  up, down       \* units on their way on each socket

serverVars == <<spc, built, serverQPs, ibInfoServer, cur, got, recvBuf, socks,
                ibInfoClient, replied, sqp>>
nodeVars   == <<cpc, linked, sent, heard, cqp>>
netVars    == <<backlog, up, down>>
vars       == <<serverVars, nodeVars, netVars>>

Reset == [state |-> "reset", dest |-> Unset]

Init ==
  /\ spc = "start" /\ built = 1 /\ serverQPs = 0 /\ ibInfoServer = 0
  /\ cur = ServerNode /\ got = 0 /\ socks = <<>> /\ replied = 0
  /\ recvBuf \in [node : Nodes \cup {ServerNode, Stray}, from : {Unset}]  \* malloc
  /\ ibInfoClient = [n \in Nodes \cup {ServerNode} |-> Unset]
  /\ sqp = [n \in Nodes |-> Reset]
  /\ cpc = [n \in Nodes |-> "start"]
  /\ linked = [n \in Nodes |-> FALSE]
  /\ sent = [n \in Nodes |-> 0] /\ heard = [n \in Nodes |-> 0]
  /\ cqp = [n \in Nodes |-> Reset]
  /\ backlog = <<>>
  /\ up = [n \in Nodes |-> 0] /\ down = [n \in Nodes |-> 0]

---------------------------------------------------------------------------
(* The server.  setup_ib makes new queue pairs and notes their numbers;    *)
(* server_init calls it, and buildServer calls it again.                   *)
SetupIB ==
  /\ serverQPs' = serverQPs + 1
  /\ ibInfoServer' = serverQPs'
  /\ sqp' = [n \in Nodes |-> Reset]

ServerInit ==
  /\ spc = "start" /\ SetupIB
  /\ spc' = "setup"
  /\ UNCHANGED <<built, cur, got, recvBuf, socks, ibInfoClient, replied,
                 nodeVars, netVars>>

(* Socket, bind, listen; main goes on to server_check even when it fails. *)
Listen ==
  /\ spc = "setup" /\ SetupIB
  /\ \/ spc' = "accept" /\ UNCHANGED built
     \/ "bind" \in Faults /\ spc' = "serve" /\ built' = -1
  /\ UNCHANGED <<cur, got, recvBuf, socks, ibInfoClient, replied,
                 nodeVars, netVars>>

Listening == spc \in {"accept", "read", "register", "reply"}

Accept ==
  /\ spc = "accept" /\ Len(socks) < Cardinality(Nodes)
  /\ backlog # <<>>
  /\ cur' = Head(backlog) /\ backlog' = Tail(backlog)
  /\ got' = 0 /\ spc' = "read"
  /\ UNCHANGED <<built, serverQPs, ibInfoServer, recvBuf, socks, ibInfoClient,
                 replied, sqp, nodeVars, up, down>>

(* accept fails, but it is bind's result that is tested (tcp.cpp:52).      *)
(* sock_read gets -1 from read until its unsigned length has come round,   *)
(* and reports success: the message before is taken once more.             *)
AcceptFails ==
  /\ "accept" \in Faults
  /\ spc = "accept" /\ Len(socks) < Cardinality(Nodes)
  /\ cur' = NoSocket /\ got' = 0 /\ spc' = "register"
  /\ UNCHANGED <<built, serverQPs, ibInfoServer, recvBuf, socks, ibInfoClient,
                 replied, sqp, nodeVars, netVars>>

(* sock_read: the first unit of a message is the node, the other the rest. *)
Store(buf, unit, n) ==
  IF unit = 1 THEN [buf EXCEPT !.node = n] ELSE [buf EXCEPT !.from = n]

(* The bug: the message is taken after the first read. *)
BugReadUnit ==
  /\ spc = "read" /\ up[cur] > 0
  /\ up' = [up EXCEPT ![cur] = @ - 1]
  /\ recvBuf' = Store(recvBuf, got + 1, cur)
  /\ got' = got + 1
  /\ spc' = "register"
  /\ UNCHANGED <<built, serverQPs, ibInfoServer, cur, socks, ibInfoClient,
                 replied, sqp, nodeVars, backlog, down>>

ReadUnit ==
  /\ spc = "read" /\ up[cur] > 0
  /\ up' = [up EXCEPT ![cur] = @ - 1]
  /\ recvBuf' = Store(recvBuf, got + 1, cur)
  /\ got' = got + 1
  /\ spc' = IF got' = Units THEN "register" ELSE "read"
  /\ UNCHANGED <<built, serverQPs, ibInfoServer, cur, socks, ibInfoClient,
                 replied, sqp, nodeVars, backlog, down>>

(* The peer is gone: read returns 0, sock_read the short count, and that   *)
(* is no error.  After a reset, read returns -1 once (which passes for a   *)
(* huge count) and then 0: the total comes out one short, negative only    *)
(* when nothing had come.                                                  *)
ReadEnds ==
  /\ spc = "read" /\ cpc[cur] = "dead"
  /\ \/ spc' = "register" /\ UNCHANGED built
     \/ got = 0 /\ spc' = "serve" /\ built' = -1
  /\ UNCHANGED <<serverQPs, ibInfoServer, cur, got, recvBuf, socks,
                 ibInfoClient, replied, sqp, nodeVars, netVars>>

(* A message holds the queue pairs of its own sender and zeros for others. *)
Register ==
  /\ spc = "register" /\ recvBuf.node # Stray
  /\ socks' = Append(socks, cur)
  /\ ibInfoClient' = [ibInfoClient EXCEPT ![recvBuf.node] =
                        IF recvBuf.from = recvBuf.node THEN recvBuf.from ELSE Unset]
  /\ spc' = "accept"
  /\ UNCHANGED <<built, serverQPs, ibInfoServer, cur, got, recvBuf, replied,
                 sqp, nodeVars, netVars>>

(* Nobody has filled the buffer yet (the first accept failed, or the first *)
(* node died), and its node number is any uint32: the stores to the tables *)
(* of clients go wide.  They end the process, or it goes on; what they may *)
(* overwrite besides the tables, in which no node has been noted yet, is   *)
(* left out.                                                               *)
RegisterStray ==
  /\ spc = "register" /\ recvBuf.node = Stray
  /\ socks' = Append(socks, cur)
  /\ spc' \in {"accept", "dead"}
  /\ UNCHANGED <<built, serverQPs, ibInfoServer, cur, got, recvBuf, ibInfoClient,
                 replied, sqp, nodeVars, netVars>>

(* The bug: the server counts itself among the nodes it waits for. *)
BugAllAccepted ==
  /\ spc = "accept" /\ Len(socks) = Cardinality(Nodes) + 1
  /\ spc' = "reply"
  /\ UNCHANGED <<built, serverQPs, ibInfoServer, cur, got, recvBuf, socks,
                 ibInfoClient, replied, sqp, nodeVars, netVars>>

AllAccepted ==
  /\ spc = "accept" /\ Len(socks) = Cardinality(Nodes)
  /\ spc' = "reply"
  /\ UNCHANGED <<built, serverQPs, ibInfoServer, cur, got, recvBuf, socks,
                 ibInfoClient, replied, sqp, nodeVars, netVars>>

(* The replies go out in the order of the sockets, whole by whole.  Writing *)
(* to a peer that is gone may still work, or end the server with SIGPIPE;   *)
(* to no socket at all, sock_write goes round like sock_read.               *)
BugReplyTo == socks[1]    \* the socket is not taken from the array
ReplyTo == socks[replied \div Units + 1]

ReplyUnit ==
  /\ spc = "reply" /\ replied < Units * Len(socks)
  /\ \/ /\ replied' = replied + 1
        /\ down' = [n \in Nodes |-> down[n] + IF n = ReplyTo THEN 1 ELSE 0]
        /\ UNCHANGED spc
     \/ /\ ReplyTo # NoSocket /\ cpc[ReplyTo] = "dead" /\ spc' = "dead"
        /\ UNCHANGED <<replied, down>>
  /\ UNCHANGED <<built, serverQPs, ibInfoServer, cur, got, recvBuf, socks,
                 ibInfoClient, sqp, nodeVars, backlog, up>>

(* change_qp_state_rts: every queue pair to RTR, towards the queue pair    *)
(* noted for its node, then every one to RTS.  An assert ends the process  *)
(* when a state change fails, as it may towards a queue pair never noted.  *)
ServerRtr ==
  /\ spc = "reply" /\ replied = Units * Len(socks)
  /\ \/ /\ sqp' = [n \in Nodes |-> [state |-> "rtr", dest |-> ibInfoClient[n]]]
        /\ spc' = "rtr"
     \/ /\ \E n \in Nodes : ibInfoClient[n] = Unset
        /\ spc' = "dead" /\ UNCHANGED sqp
  /\ UNCHANGED <<built, serverQPs, ibInfoServer, cur, got, recvBuf, socks,
                 ibInfoClient, replied, nodeVars, netVars>>

ServerRts ==
  /\ spc = "rtr"
  /\ sqp' = [n \in Nodes |-> [sqp[n] EXCEPT !.state = "rts"]]
  /\ spc' = "serve" /\ built' = 0
  /\ UNCHANGED <<serverQPs, ibInfoServer, cur, got, recvBuf, socks,
                 ibInfoClient, replied, nodeVars, netVars>>

---------------------------------------------------------------------------
(* A client node: main, buildClient, the first call of its workload.       *)
ClientStart(n) ==
  /\ cpc[n] = "start"
  /\ cpc' = [cpc EXCEPT ![n] = "connect"]
  /\ UNCHANGED <<serverVars, linked, sent, heard, cqp, netVars>>

Connect(n) ==
  /\ cpc[n] = "connect" /\ Listening
  /\ cpc' = [cpc EXCEPT ![n] = "send"]
  /\ backlog' = Append(backlog, n)
  /\ UNCHANGED <<serverVars, linked, sent, heard, cqp, up, down>>

(* Nobody listens: buildClient returns -1, which main does not look at. *)
ConnectRefused(n) ==
  /\ cpc[n] = "connect" /\ ~Listening
  /\ spc \in {"start", "setup"} => "early" \in Faults
  /\ cpc' = [cpc EXCEPT ![n] = "run"]
  /\ UNCHANGED <<serverVars, linked, sent, heard, cqp, netVars>>

SendUnit(n) ==
  /\ cpc[n] = "send"
  /\ up'   = [up EXCEPT ![n] = @ + 1]
  /\ sent' = [sent EXCEPT ![n] = @ + 1]
  /\ cpc'  = [cpc EXCEPT ![n] = IF sent'[n] = Units THEN "recv" ELSE "send"]
  /\ UNCHANGED <<serverVars, linked, heard, cqp, backlog, down>>

(* The bug: what the first read brought is taken for the whole. *)
BugRecvUnit(n) ==
  /\ cpc[n] = "recv" /\ down[n] > 0
  /\ down'  = [down EXCEPT ![n] = @ - 1]
  /\ heard' = [heard EXCEPT ![n] = @ + 1]
  /\ cpc'   = [cpc EXCEPT ![n] = "rts"]
  /\ UNCHANGED <<serverVars, linked, sent, cqp, backlog, up>>

RecvUnit(n) ==
  /\ cpc[n] = "recv" /\ down[n] > 0
  /\ down'  = [down EXCEPT ![n] = @ - 1]
  /\ heard' = [heard EXCEPT ![n] = @ + 1]
  /\ cpc'   = [cpc EXCEPT ![n] = IF heard'[n] = Units THEN "rts" ELSE "recv"]
  /\ UNCHANGED <<serverVars, linked, sent, cqp, backlog, up>>

(* The server is gone: a short count again passes for success, unless it   *)
(* is a reset before the first unit.                                       *)
RecvEnds(n) ==
  /\ cpc[n] = "recv" /\ spc = "dead"
  /\ \/ cpc' = [cpc EXCEPT ![n] = "rts"]
     \/ heard[n] = 0 /\ cpc' = [cpc EXCEPT ![n] = "run"]
  /\ UNCHANGED <<serverVars, linked, sent, heard, cqp, netVars>>

(* close(sockfd) resets a connection that the server has not accepted.     *)
(* write then returns -1 once, which passes for progress, and the next one *)
(* raises SIGPIPE; read returns -1 and then 0: short by one, an error.     *)
ConnectionReset(n) ==
  /\ cpc[n] \in {"send", "recv"} /\ ~Listening
  /\ \E i \in 1..Len(backlog) : backlog[i] = n
  /\ cpc' = [cpc EXCEPT ![n] = IF @ = "send" THEN "dead" ELSE "run"]
  /\ UNCHANGED <<serverVars, linked, sent, heard, cqp, netVars>>

(* change_qp_state_rts, towards the queue pairs the server announced, or   *)
(* towards none if nothing was heard of it: then the assert may end the    *)
(* process, as on the server.                                              *)
ClientRts(n) ==
  /\ cpc[n] = "rts"
  /\ cqp' = [cqp EXCEPT ![n] =
               [state |-> "rts",
                dest  |-> IF heard[n] > 0 THEN ibInfoServer ELSE Unset]]
  /\ linked' = [linked EXCEPT ![n] = TRUE]
  /\ cpc' = [cpc EXCEPT ![n] = "run"]
  /\ UNCHANGED <<serverVars, sent, heard, netVars>>

RtrRefused(n) ==
  /\ cpc[n] = "rts" /\ heard[n] = 0
  /\ cpc' = [cpc EXCEPT ![n] = "dead"]
  /\ UNCHANGED <<serverVars, linked, sent, heard, cqp, netVars>>

(* The first read of the workload.  It is answered when the server's queue *)
(* pair is ready to receive from this one; when it is not, the NIC gives   *)
(* up after retry_cnt = 7 tries.  A queue pair still in RESET refuses the  *)
(* request, rdma_read misses that (it tests for -1), and post_cq polls for *)
(* ever.                                                                   *)
Wired(n) == /\ cqp[n] = [state |-> "rts", dest |-> serverQPs]
            /\ sqp[n].state # "reset" /\ sqp[n].dest = n

FirstRead(n) ==
  /\ cpc[n] = "run" /\ cqp[n].state = "rts"
  /\ cpc' = [cpc EXCEPT ![n] = IF Wired(n) /\ spc # "dead" THEN "done" ELSE "error"]
  /\ UNCHANGED <<serverVars, linked, sent, heard, cqp, netVars>>

Die(n) ==
  /\ "die" \in Faults /\ cpc[n] \in {"connect", "send", "recv"}
  /\ cpc' = [cpc EXCEPT ![n] = "dead"]
  /\ UNCHANGED <<serverVars, linked, sent, heard, cqp, netVars>>

---------------------------------------------------------------------------
Server == \/ ServerInit \/ Listen \/ Accept \/ AcceptFails \/ ReadUnit \/ ReadEnds
          \/ Register \/ RegisterStray \/ AllAccepted \/ ReplyUnit \/ ServerRtr \/ ServerRts

Node(n) == \/ ClientStart(n) \/ Connect(n) \/ ConnectRefused(n)
           \/ SendUnit(n) \/ RecvUnit(n) \/ RecvEnds(n)
           \/ ConnectionReset(n) \/ ClientRts(n) \/ RtrRefused(n) \/ FirstRead(n)

Next == Server \/ \E n \in Nodes : Node(n) \/ Die(n)

Spec == Init /\ [][Next]_vars

(* Processes are scheduled and TCP delivers. *)
FairSpec == Spec /\ WF_vars(Server) /\ \A n \in Nodes : WF_vars(Node(n))

---------------------------------------------------------------------------
TypeOK ==
  /\ spc \in {"start", "setup", "accept", "read", "register", "reply", "rtr",
              "serve", "dead"}
  /\ built \in {-1, 0, 1}
  /\ serverQPs \in 0..2 /\ ibInfoServer \in 0..2
  /\ cur \in Nodes \cup {ServerNode} /\ got \in 0..Units
  /\ recvBuf \in [node : Nodes \cup {ServerNode, Stray}, from : Nodes \cup {Unset}]
  /\ socks \in Seq(Nodes \cup {NoSocket}) /\ replied \in Nat
  /\ ibInfoClient \in [Nodes \cup {ServerNode} -> Nodes \cup {Unset}]
  /\ sqp \in [Nodes -> [state : {"reset", "rtr", "rts"}, dest : Nodes \cup {Unset}]]
  /\ cpc \in [Nodes -> {"start", "connect", "send", "recv", "rts", "run", "done",
                        "error", "dead"}]
  /\ linked \in [Nodes -> BOOLEAN]
  /\ sent \in [Nodes -> 0..Units] /\ heard \in [Nodes -> 0..Units]
  /\ cqp \in [Nodes -> [state : {"reset", "rts"}, dest : 0..2]]
  /\ backlog \in Seq(Nodes)
  /\ up \in [Nodes -> 0..Units] /\ down \in [Nodes -> 0..Units]

(* Once the server serves, a node that is linked has its queue pairs and   *)
(* the server's pointing at each other, also when other nodes died half    *)
(* way: the receive buffer that all of them share (tcp.cpp:47-77) never    *)
(* mixes two nodes up for good, and nobody is told of the queue pairs of   *)
(* the first setup_ib (api.cpp:55, tcp.cpp:20).                            *)
PairedQPs ==
  spc = "serve" /\ built = 0 => \A n \in Nodes : linked[n] => Wired(n)

(* A first read that is answered vouches for the whole handshake, although *)
(* main ignores what buildClient and buildServer return (main.cpp:59, 63)  *)
(* and sock_read passes short and failed reads for success (tcp.cpp:200):  *)
(* both messages crossed in full and the server noted this node's.         *)
AnsweredMeansMet ==
  \A n \in Nodes : cpc[n] = "done" =>
    /\ sent[n] = Units /\ heard[n] = Units /\ linked[n] /\ built # -1
    /\ ibInfoClient[n] = n /\ \E i \in 1..Len(socks) : socks[i] = n

(* A linked node whose first read fails came before the server's queue     *)
(* pairs could receive, the window that sleep(1) is to cover (main.cpp:65),*)
(* or found the server dead: no fault of another node, and no failed       *)
(* accept, makes it fail later.                                            *)
ReadFailsOnlyEarly ==
  [][\A n \in Nodes : cpc[n] = "run" /\ cpc'[n] = "error" =>
       spc \in {"reply", "dead"}]_vars

(* When nothing goes wrong, every node gets to its first read and the      *)
(* server to server_check: nobody waits for the other for ever, although   *)
(* the server answers nobody before all have come (tcp.cpp:49-99, 153-160).*)
NothingWrong == /\ built # -1
                /\ \A i \in 1..Len(socks) : socks[i] # NoSocket
                /\ \A n \in Nodes : /\ cpc[n] # "dead"
                                    /\ cpc[n] = "run" => cqp[n].state = "rts"
AllServed ==
  []NothingWrong =>
    <>(spc = "serve" /\ \A n \in Nodes : cpc[n] \in {"done", "error"})
============================================================================
