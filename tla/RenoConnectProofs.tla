-------------------------- MODULE RenoConnectProofs --------------------------
(***************************************************************************)
(* Proofs about RenoConnect, for any set of client nodes and any of the    *)
(* faults: type correctness, that linked nodes and the server end up with  *)
(* their queue pairs pointing at each other, that a first read which is    *)
(* answered vouches for the whole handshake, and that one which fails came *)
(* too early or met a dead server.                                         *)
(***************************************************************************)
EXTENDS RenoConnect, SequenceTheorems, TLAPS

USE NodesAssumption, FaultsAssumption
    DEF ServerNode, NoSocket, Unset, Units, Stray

(* n is served: its socket is in sockArrary. *)
Served(n) == \E i \in 1..Len(socks) : socks[i] = n
Waits(n)  == \E i \in 1..Len(backlog) : backlog[i] = n
Reading   == spc \in {"read", "register"}

(* buildServer answers the nodes, or has answered them. *)
Answering == spc \in {"reply", "rtr", "dead"} \/ (spc = "serve" /\ built = 0)
(* change_qp_state_rts has been through with the server's queue pairs. *)
Connected == spc = "rtr" \/ (spc = "serve" /\ built = 0)

(* How far the server is: which setup_ib made the queue pairs it announces,*)
(* what it is reading, what buildServer has returned.                      *)
ServerStages ==
  /\ serverQPs = (IF spc = "start" THEN 0 ELSE IF spc = "setup" THEN 1 ELSE 2)
  /\ ibInfoServer = serverQPs
  /\ spc = "read" => cur \in Nodes /\ got < Units
  /\ spc = "serve" <=> built # 1
  /\ ~Answering => replied = 0
  /\ replied <= Units * Len(socks)
  /\ \A n \in Nodes :
       IF Connected THEN sqp[n].state # "reset" /\ sqp[n].dest = ibInfoClient[n]
                    ELSE sqp[n] = Reset

(* How far a client node is, and what it has then sent and heard. *)
NodeStages ==
  \A n \in Nodes :
    /\ cpc[n] \in {"start", "connect", "send"} => sent[n] < Units
    /\ cpc[n] \in {"recv", "rts"} \/ linked[n] => sent[n] = Units
    /\ up[n] <= sent[n]
    /\ (cpc[n] = "rts" \/ linked[n]) /\ spc # "dead" => heard[n] = Units
    /\ linked[n] => cpc[n] \in {"run", "done", "error"}
    /\ cpc[n] = "done" => linked[n] /\ heard[n] = Units
    /\ cqp[n] = IF linked[n]
                  THEN [state |-> "rts", dest |-> IF heard[n] > 0 THEN 2 ELSE Unset]
                  ELSE Reset

(* A connection is in one place: not accepted yet, being read, or served.  *)
OnePlace ==
  /\ \A i, j \in 1..Len(backlog) : backlog[i] = backlog[j] => i = j
  /\ \A i, j \in 1..Len(socks) :
       socks[i] = socks[j] /\ socks[i] # NoSocket => i = j
  /\ \A n \in Nodes :
       /\ ~(Served(n) /\ Waits(n))
       /\ Reading /\ cur = n => ~Served(n) /\ ~Waits(n)
       /\ cpc[n] \in {"start", "connect"} =>
            ~Served(n) /\ ~Waits(n) /\ ~(Reading /\ cur = n)

(* The units of the reply that a node has heard or that are on their way   *)
(* to it: two for each socket before the one the server writes to.         *)
Answers ==
  \A n \in Nodes :
    /\ ~Served(n) => down[n] + heard[n] = 0
    /\ \A k \in 1..Len(socks) : socks[k] = n =>
         down[n] + heard[n] = IF replied >= Units * k THEN Units
                              ELSE IF replied = Units * k - 1 THEN 1 ELSE 0

(* What the shared buffer and ibInfoClient hold of a node that lives.      *)
Noted ==
  /\ spc = "read" /\ got = 1 => recvBuf.node = cur
  /\ spc = "register" /\ cur \in Nodes /\ cpc[cur] # "dead" =>
       recvBuf.node = cur /\ recvBuf.from = cur
  /\ \A n \in Nodes : Served(n) /\ cpc[n] # "dead" =>
       /\ recvBuf.node = n => recvBuf.from = n
       /\ ibInfoClient[n] = n

ConnectInv == TypeOK /\ ServerStages /\ NodeStages /\ OnePlace /\ Answers /\ Noted
---------------------------------------------------------------------------
(* What the server's steps and a node's leave alone. *)
NodeStep(n) == Node(n) \/ Die(n)

LEMMA ServerLeaves == Server => UNCHANGED <<cpc, linked, sent, heard, cqp>>
  BY DEF Server, ServerInit, Listen, SetupIB, Accept, AcceptFails, ReadUnit,
         ReadEnds, Register, RegisterStray, AllAccepted, ReplyUnit, ServerRtr, ServerRts, nodeVars

LEMMA NodeLeaves ==
  ASSUME NEW n \in Nodes, NodeStep(n)
  PROVE  UNCHANGED serverVars
  BY DEF NodeStep, Node, Die, ClientStart, Connect, ConnectRefused, SendUnit,
         RecvUnit, RecvEnds, ConnectionReset, ClientRts, RtrRefused, FirstRead

LEMMA InitInv == Init => ConnectInv
<1> SUFFICES ASSUME Init PROVE ConnectInv
  OBVIOUS
<1>1. TypeOK
  BY DEF Init, TypeOK, Reset
<1>2. ServerStages
  BY DEF Init, ServerStages, Answering, Connected
<1>3. NodeStages
  BY DEF Init, NodeStages, Reset
<1>4. OnePlace
  BY DEF Init, OnePlace, Served, Waits, Reading
<1>5. Answers
  BY DEF Init, Answers
<1>6. Noted
  BY DEF Init, Noted, Served
<1> QED BY <1>1, <1>2, <1>3, <1>4, <1>5, <1>6 DEF ConnectInv

---------------------------------------------------------------------------
(* Types. *)
LEMMA AnswersBound ==
  ASSUME TypeOK, Answers
  PROVE  /\ \A n \in Nodes : down[n] + heard[n] <= Units
         /\ \A n \in Nodes : replied < Units * Len(socks) /\ n = ReplyTo
                             => down[n] + heard[n] < Units
<1> SUFFICES ASSUME NEW n \in Nodes
             PROVE  /\ down[n] + heard[n] <= Units
                    /\ replied < Units * Len(socks) /\ n = ReplyTo
                         => down[n] + heard[n] < Units
  OBVIOUS
<1>1. down[n] + heard[n] <= Units
  <2>1. CASE Served(n)
    BY <2>1 DEF Served, Answers, TypeOK
  <2>2. CASE ~Served(n)
    BY <2>2 DEF Answers, TypeOK
  <2> QED BY <2>1, <2>2
<1>2. ASSUME replied < Units * Len(socks), n = ReplyTo
      PROVE  down[n] + heard[n] < Units
  <2> DEFINE k == replied \div Units + 1
  <2>1. replied \in Nat /\ Len(socks) \in Nat
    BY DEF TypeOK
  <2>2. k \in 1..Len(socks) /\ replied < Units * k
    BY <1>2, <2>1
  <2>3. socks[k] = n
    BY <1>2 DEF ReplyTo
  <2> HIDE DEF k
  <2> QED BY <2>1, <2>2, <2>3 DEF Answers
<1> QED BY <1>1, <1>2

LEMMA HeardDown ==
  ASSUME TypeOK, NEW n \in Nodes PROVE down[n] \in 0..Units /\ heard[n] \in 0..Units
<1>1. down[n] \in 0..Units
  BY DEF TypeOK
<1>2. heard[n] \in 0..Units
  BY DEF TypeOK
<1> QED BY <1>1, <1>2

(* Before it answers anybody, nobody hears. *)
LEMMA QuietBefore ==
  ASSUME TypeOK, ServerStages, Answers, ~Answering
  PROVE  \A n \in Nodes : down[n] = 0 /\ heard[n] = 0
<1> SUFFICES ASSUME NEW n \in Nodes PROVE down[n] = 0 /\ heard[n] = 0
  OBVIOUS
<1>1. replied = 0
  BY DEF ServerStages
<1>2. down[n] \in Nat /\ heard[n] \in Nat
  BY HeardDown
<1>3. CASE Served(n)
  BY <1>1, <1>2, <1>3 DEF Served, Answers
<1>4. CASE ~Served(n)
  BY <1>2, <1>4 DEF Answers
<1> QED BY <1>3, <1>4

LEMMA TypeServer ==
  ASSUME TypeOK, ServerStages, OnePlace, Answers, NodeStages, Server PROVE TypeOK'
<1>0. UNCHANGED <<cpc, linked, sent, heard, cqp>>
  BY ServerLeaves
<1>1. CASE ServerInit
  BY <1>0, <1>1 DEF TypeOK, ServerInit, SetupIB, netVars, ServerStages, Reset
<1>11. CASE Listen
  BY <1>0, <1>11 DEF TypeOK, Listen, SetupIB, netVars, ServerStages, Reset
<1>2. CASE Accept
  <2>1. Head(backlog) \in Nodes /\ Tail(backlog) \in Seq(Nodes)
    BY <1>2 DEF TypeOK, Accept
  <2> QED BY <1>0, <1>2, <2>1 DEF TypeOK, Accept
<1>3. CASE AcceptFails
  BY <1>0, <1>3 DEF TypeOK, AcceptFails, netVars
<1>12. CASE ReadEnds
  BY <1>0, <1>12 DEF TypeOK, ReadEnds, netVars
<1>13. CASE AllAccepted
  BY <1>0, <1>13 DEF TypeOK, AllAccepted, netVars
<1>4. CASE ReadUnit
  BY <1>0, <1>4 DEF TypeOK, ReadUnit, Store, ServerStages
<1>5. CASE Register \/ RegisterStray
  <2>1. Append(socks, cur) \in Seq(Nodes \cup {NoSocket})
    BY DEF TypeOK
  <2> QED BY <1>0, <1>5, <2>1 DEF TypeOK, Register, RegisterStray, netVars
<1>6. CASE ReplyUnit
  <2>1. down' \in [Nodes -> 0..Units]
    <3>1. CASE down' = [m \in Nodes |-> down[m] + IF m = ReplyTo THEN 1 ELSE 0]
      <4>1. \A m \in Nodes : m = ReplyTo => down[m] < Units
        <5> SUFFICES ASSUME NEW m \in Nodes, m = ReplyTo PROVE down[m] < Units
          OBVIOUS
        <5>1. CASE replied < Units * Len(socks)
          <6>1. down[m] + heard[m] < Units
            BY <5>1, AnswersBound
          <6>2. down[m] \in 0..Units /\ heard[m] \in 0..Units
            BY HeardDown
          <6> QED BY <6>1, <6>2
        <5> QED BY <1>6, <5>1 DEF ReplyUnit
      <4>2. \A m \in Nodes : down[m] \in 0..Units
        BY HeardDown
      <4>3. \A m \in Nodes : down'[m] \in 0..Units
        BY <3>1, <4>1, <4>2
      <4> QED BY <3>1, <4>3
    <3> QED BY <1>6, <3>1 DEF TypeOK, ReplyUnit
  <2> QED BY <1>0, <1>6, <2>1 DEF TypeOK, ReplyUnit
<1>7. CASE ServerRtr \/ ServerRts
  <2>1. sqp' \in [Nodes -> [state : {"reset", "rtr", "rts"}, dest : Nodes \cup {Unset}]]
    <3>1. CASE ServerRts
      <4>1. \A m \in Nodes : sqp'[m] = [state |-> "rts", dest |-> sqp[m].dest]
        BY <3>1 DEF TypeOK, ServerRts
      <4>2. \A m \in Nodes : sqp[m].dest \in Nodes \cup {Unset}
        BY DEF TypeOK
      <4>3. sqp' = [m \in Nodes |-> sqp'[m]]
        BY <3>1 DEF ServerRts
      <4> QED BY <4>1, <4>2, <4>3
    <3> QED BY <1>7, <3>1 DEF TypeOK, ServerRtr
  <2> QED BY <1>0, <1>7, <2>1 DEF TypeOK, ServerRtr, ServerRts, netVars
<1> QED BY <1>1, <1>2, <1>3, <1>4, <1>5, <1>6, <1>7, <1>11, <1>12, <1>13 DEF Server

LEMMA TypeNode ==
  ASSUME TypeOK, ServerStages, OnePlace, Answers, NodeStages,
         NEW n \in Nodes, NodeStep(n) PROVE TypeOK'
<1>0. UNCHANGED serverVars
  BY NodeLeaves
<1>1. CASE \/ ClientStart(n) \/ ConnectRefused(n) \/ RecvEnds(n)
           \/ ConnectionReset(n) \/ RtrRefused(n) \/ FirstRead(n) \/ Die(n)
  BY SMTT(30), <1>0, <1>1 DEF TypeOK, ClientStart, ConnectRefused, RecvEnds, ConnectionReset,
                    RtrRefused, FirstRead, Die, netVars, serverVars
<1>2. CASE Connect(n)
  BY <1>0, <1>2 DEF TypeOK, Connect, serverVars
<1>3. CASE SendUnit(n)
  <2>1. sent[n] + 1 \in 0..Units /\ up[n] + 1 \in 0..Units
    <3>1. sent[n] \in 0..Units /\ up[n] \in 0..Units
      BY DEF TypeOK
    <3>2. sent[n] < Units /\ up[n] <= sent[n]
      BY <1>3 DEF SendUnit, NodeStages
    <3> QED BY <3>1, <3>2
  <2>2. sent' \in [Nodes -> 0..Units] /\ up' \in [Nodes -> 0..Units]
    BY <1>3, <2>1 DEF TypeOK, SendUnit
  <2>3. cpc' = [cpc EXCEPT ![n] = "recv"] \/ cpc' = [cpc EXCEPT ![n] = "send"]
    BY <1>3 DEF TypeOK, SendUnit
  <2> QED BY <1>0, <1>3, <2>2, <2>3 DEF TypeOK, SendUnit, serverVars
<1>4. CASE RecvUnit(n)
  <2>1. heard[n] + 1 \in 0..Units /\ down[n] - 1 \in 0..Units
    <3>1. heard[n] \in 0..Units /\ down[n] \in 0..Units
      BY DEF TypeOK
    <3>2. down[n] > 0 /\ down[n] + heard[n] <= Units
      BY <1>4, AnswersBound DEF RecvUnit
    <3> QED BY <3>1, <3>2
  <2>2. heard' \in [Nodes -> 0..Units] /\ down' \in [Nodes -> 0..Units]
    BY <1>4, <2>1 DEF TypeOK, RecvUnit
  <2>3. cpc' = [cpc EXCEPT ![n] = "recv"] \/ cpc' = [cpc EXCEPT ![n] = "rts"]
    BY <1>4 DEF TypeOK, RecvUnit
  <2> QED BY <1>0, <1>4, <2>2, <2>3 DEF TypeOK, RecvUnit, serverVars
<1>5. CASE ClientRts(n)
  BY <1>0, <1>5 DEF TypeOK, ClientRts, netVars, serverVars
<1> QED BY <1>1, <1>2, <1>3, <1>4, <1>5 DEF NodeStep, Node
---------------------------------------------------------------------------
LEMMA ServerStagesNext ==
  ASSUME ConnectInv, Server PROVE ServerStages'
<1>0. TypeOK /\ ServerStages
  BY DEF ConnectInv
<1> USE DEF Answering, Connected
<1>1. CASE ServerInit \/ Listen
  BY SMTT(30), <1>0, <1>1 DEF ServerInit, Listen, SetupIB, ServerStages
<1>2. CASE Accept \/ AcceptFails \/ AllAccepted
  <2>1. UNCHANGED <<built, serverQPs, ibInfoServer, socks, replied, sqp, ibInfoClient>>
    BY <1>2 DEF Accept, AcceptFails, AllAccepted
  <2>2. spc = "accept" /\ spc' \in {"read", "register", "reply"}
    BY <1>2 DEF Accept, AcceptFails, AllAccepted
  <2>3. spc' = "read" => cur' \in Nodes /\ got' < Units
    <3>1. backlog # <<>> => Head(backlog) \in Nodes
      BY <1>0 DEF TypeOK
    <3> QED BY <1>2, <3>1 DEF Accept, AcceptFails, AllAccepted
  <2> QED BY <1>0, <2>1, <2>2, <2>3 DEF ServerStages
<1>3. CASE ReadUnit \/ ReadEnds
  <2>1. UNCHANGED <<serverQPs, ibInfoServer, cur, socks, replied, sqp, ibInfoClient>>
    BY <1>3 DEF ReadUnit, ReadEnds
  <2>2. spc = "read"
    BY <1>3 DEF ReadUnit, ReadEnds
  <2>3. \/ spc' \in {"read", "register"} /\ built' = built
        \/ spc' = "serve" /\ built' = -1
    BY <1>3 DEF ReadUnit, ReadEnds
  <2>4. spc' = "read" => got' < Units
    BY <1>0, <1>3 DEF ReadUnit, ReadEnds, ServerStages, TypeOK
  <2> QED BY <1>0, <2>1, <2>2, <2>3, <2>4 DEF ServerStages
<1>4. CASE Register \/ RegisterStray
  <2>1. Len(socks') = Len(socks) + 1 /\ replied = 0
    BY <1>0, <1>4 DEF Register, RegisterStray, TypeOK, ServerStages
  <2> QED BY <1>0, <1>4, <2>1 DEF Register, RegisterStray, ServerStages, TypeOK
<1>5. CASE ReplyUnit
  <2>1. replied' <= Units * Len(socks)
    BY <1>0, <1>5 DEF ReplyUnit, TypeOK
  <2> QED BY <1>0, <1>5, <2>1 DEF ReplyUnit, ServerStages
<1>6. CASE ServerRtr
  BY <1>0, <1>6 DEF ServerRtr, ServerStages
<1>7. CASE ServerRts
  BY <1>0, <1>7 DEF ServerRts, ServerStages, TypeOK
<1> QED BY <1>1, <1>2, <1>3, <1>4, <1>5, <1>6, <1>7 DEF Server

LEMMA NodeStagesNext ==
  ASSUME ConnectInv, NEW n \in Nodes, NodeStep(n) PROVE NodeStages'
<1>0. TypeOK /\ NodeStages /\ ServerStages /\ Answers
  BY DEF ConnectInv
<1>1. UNCHANGED <<spc, serverQPs, ibInfoServer>>
  BY NodeLeaves DEF serverVars
<1>2. \A m \in Nodes \ {n} :
        /\ cpc'[m] = cpc[m] /\ sent'[m] = sent[m] /\ linked'[m] = linked[m]
        /\ up'[m] = up[m] /\ heard'[m] = heard[m] /\ cqp'[m] = cqp[m]
  BY <1>0 DEF NodeStep, Node, Die, ClientStart, Connect, ConnectRefused, SendUnit,
         RecvUnit, RecvEnds, ConnectionReset, ClientRts, RtrRefused, FirstRead, netVars, TypeOK
<1> DEFINE Stage ==
      /\ cpc[n] \in {"start", "connect", "send"} => sent[n] < Units
      /\ cpc[n] \in {"recv", "rts"} \/ linked[n] => sent[n] = Units
      /\ up[n] <= sent[n]
      /\ (cpc[n] = "rts" \/ linked[n]) /\ spc # "dead" => heard[n] = Units
      /\ linked[n] => cpc[n] \in {"run", "done", "error"}
      /\ cpc[n] = "done" => linked[n] /\ heard[n] = Units
      /\ cqp[n] = IF linked[n]
                    THEN [state |-> "rts", dest |-> IF heard[n] > 0 THEN 2 ELSE Unset]
                    ELSE Reset
<1>3. Stage
  BY <1>0 DEF NodeStages
<1>4. SUFFICES Stage'
  BY <1>0, <1>1, <1>2 DEF NodeStages
<1>5. CASE \/ ClientStart(n) \/ Connect(n) \/ ConnectRefused(n) \/ RecvEnds(n)
           \/ ConnectionReset(n) \/ RtrRefused(n) \/ Die(n)
  <2>1. UNCHANGED <<sent, heard, linked, cqp, up>>
    BY <1>5 DEF ClientStart, Connect, ConnectRefused, RecvEnds, ConnectionReset,
                RtrRefused, Die, netVars
  <2>2. \/ cpc[n] \in {"start", "connect"} /\ cpc'[n] \in {"connect", "send"}
        \/ cpc[n] = "recv" /\ cpc'[n] = "rts" /\ spc = "dead"
        \/ cpc[n] \in {"connect", "send", "recv", "rts"} /\ cpc'[n] \in {"run", "dead"}
    BY <1>0, <1>5 DEF ClientStart, Connect, ConnectRefused, RecvEnds,
                ConnectionReset, RtrRefused, Die, TypeOK
  <2> QED BY <1>1, <1>3, <2>1, <2>2
<1>6. CASE SendUnit(n)
  <2>1. sent'[n] = sent[n] + 1 /\ up'[n] = up[n] + 1 /\ sent[n] + 1 <= Units
    <3>1. sent[n] < Units /\ sent[n] \in Nat
      <4>1. sent[n] \in 0..Units
        <5>1. TypeOK
          BY <1>0
        <5> QED BY <5>1 DEF TypeOK
      <4>2. cpc[n] = "send"
        BY <1>6 DEF SendUnit
      <4> QED BY <1>3, <4>1, <4>2
    <3>2. sent'[n] = sent[n] + 1 /\ up'[n] = up[n] + 1
      BY <1>0, <1>6 DEF SendUnit, TypeOK
    <3> QED BY <3>1, <3>2
  <2>2. cpc[n] = "send" /\ cpc'[n] = IF sent'[n] = Units THEN "recv" ELSE "send"
    BY <1>0, <1>6 DEF SendUnit, TypeOK
  <2>3. UNCHANGED <<heard, linked, cqp>> /\ sent[n] \in Nat /\ up[n] \in Nat
    BY <1>0, <1>6 DEF SendUnit, TypeOK
  <2> QED BY <1>1, <1>3, <2>1, <2>2, <2>3
<1>7. CASE RecvUnit(n)
  <2>1. heard'[n] = heard[n] + 1 /\ cpc[n] = "recv"
    BY <1>0, <1>7 DEF RecvUnit, TypeOK
  <2>2. cpc'[n] = IF heard'[n] = Units THEN "rts" ELSE "recv"
    BY <1>0, <1>7 DEF RecvUnit, TypeOK
  <2>3. UNCHANGED <<sent, up, linked, cqp>>
    BY <1>7 DEF RecvUnit
  <2> QED BY <1>1, <1>3, <2>1, <2>2, <2>3
<1>8. CASE ClientRts(n)
  <2>1. cpc[n] = "rts" /\ cpc'[n] = "run" /\ linked'[n] = TRUE
    BY <1>0, <1>8 DEF ClientRts, TypeOK
  <2>2. UNCHANGED <<sent, heard, up>>
    BY <1>8 DEF ClientRts, netVars
  <2>3. ibInfoServer = 2 \/ heard[n] = 0
    <3>1. CASE spc \in {"start", "setup"}
      BY <1>0, <3>1, QuietBefore DEF Answering
    <3>2. CASE spc \notin {"start", "setup"}
      BY <1>0, <3>2 DEF ServerStages
    <3> QED BY <3>1, <3>2
  <2>4. cqp'[n] = [state |-> "rts", dest |-> IF heard[n] > 0 THEN 2 ELSE Unset]
    BY <1>0, <1>8, <2>3 DEF ClientRts, TypeOK
  <2> QED BY <1>1, <1>3, <2>1, <2>2, <2>4
<1>9. CASE FirstRead(n)
  <2>1. UNCHANGED <<sent, heard, up, linked, cqp>>
    BY <1>9 DEF FirstRead, netVars
  <2>2. cpc[n] = "run" /\ cqp[n].state = "rts" /\ cpc'[n] \in {"done", "error"}
    BY <1>0, <1>9 DEF FirstRead, TypeOK
  <2>3. linked[n]
    BY <1>3, <2>2 DEF Reset
  <2>4. cpc'[n] = "done" => spc # "dead"
    BY <1>0, <1>9 DEF FirstRead, TypeOK
  <2> QED BY <1>1, <1>3, <2>1, <2>2, <2>3, <2>4
<1> QED BY <1>5, <1>6, <1>7, <1>8, <1>9 DEF NodeStep, Node
---------------------------------------------------------------------------
LEMMA OnePlaceServer ==
  ASSUME ConnectInv, Server PROVE OnePlace'
<1>0. TypeOK /\ OnePlace /\ cpc' = cpc
  BY ServerLeaves DEF ConnectInv
<1>1. ASSUME socks' = socks, backlog' = backlog,
             Reading' => (Reading /\ cur' = cur) \/ cur' = NoSocket
      PROVE  OnePlace'
  BY <1>0, <1>1 DEF OnePlace, Served, Waits
<1>2. CASE \/ ServerInit \/ Listen \/ AcceptFails \/ ReadUnit \/ ReadEnds
           \/ AllAccepted \/ ReplyUnit \/ ServerRtr \/ ServerRts
  BY <1>1, <1>2 DEF ServerInit, Listen, AcceptFails, ReadUnit, ReadEnds,
                    AllAccepted, ReplyUnit, ServerRtr, ServerRts, Reading, netVars
<1>3. CASE Accept
  <2>1. backlog # <<>> /\ backlog \in Seq(Nodes)
    BY <1>0, <1>3 DEF Accept, TypeOK
  <2>2. /\ Len(backlog') = Len(backlog) - 1
        /\ \A k \in 1..Len(backlog') : backlog'[k] = backlog[k + 1] /\ k + 1 \in 1..Len(backlog)
        /\ cur' = backlog[1] /\ 1 \in 1..Len(backlog)
    BY <1>3, <2>1 DEF Accept
  <2>3. socks' = socks /\ spc' = "read" /\ Len(backlog) \in Nat
    BY <1>3, <2>1 DEF Accept
  <2>4. \A m \in Nodes : Waits(m)' => Waits(m)
    BY <2>2 DEF Waits
  <2>5. \A m \in Nodes : Served(m)' <=> Served(m)
    BY <2>3 DEF Served
  <2>6. Waits(cur') /\ \A m \in Nodes : m = cur' => ~Waits(m)'
    BY <1>0, <2>2, <2>3 DEF Waits, OnePlace
  <2>7. \A k, l \in 1..Len(backlog') : backlog'[k] = backlog'[l] => k = l
    BY <1>0, <2>2, <2>3 DEF OnePlace
  <2> QED BY <1>0, <2>3, <2>4, <2>5, <2>6, <2>7 DEF OnePlace
<1>4. CASE Register \/ RegisterStray
  <2>1. socks \in Seq(Nodes \cup {NoSocket}) /\ cur \in Nodes \cup {NoSocket}
    BY <1>0 DEF TypeOK
  <2>2. /\ Len(socks') = Len(socks) + 1 /\ socks'[Len(socks) + 1] = cur
        /\ \A k \in 1..Len(socks) : socks'[k] = socks[k]
        /\ Len(socks) \in Nat
    BY <1>4, <2>1 DEF Register, RegisterStray
  <2>3. backlog' = backlog /\ ~Reading' /\ Reading
    BY <1>4 DEF Register, RegisterStray, Reading, netVars
  <2>4. \A m \in Nodes : Served(m)' => Served(m) \/ cur = m
    BY <2>2 DEF Served
  <2>5. \A m \in Nodes : Waits(m)' <=> Waits(m)
    BY <2>3 DEF Waits
  <2>6. \A k, l \in 1..Len(socks') :
          socks'[k] = socks'[l] /\ socks'[k] # NoSocket => k = l
    <3>1. ASSUME NEW k \in 1..Len(socks), socks[k] = cur, cur # NoSocket PROVE FALSE
      BY <1>0, <2>1, <2>3, <3>1 DEF OnePlace, Served
    <3> QED BY <1>0, <2>2, <3>1 DEF OnePlace
  <2> QED BY <1>0, <2>3, <2>4, <2>5, <2>6 DEF OnePlace
<1> QED BY <1>2, <1>3, <1>4 DEF Server

LEMMA OnePlaceNode ==
  ASSUME ConnectInv, NEW n \in Nodes, NodeStep(n) PROVE OnePlace'
<1>0. TypeOK /\ OnePlace /\ UNCHANGED <<socks, spc, cur>>
  BY NodeLeaves DEF ConnectInv, serverVars
<1>1. \A m \in Nodes : Served(m)' <=> Served(m)
  BY <1>0 DEF Served
<1>2. Reading' <=> Reading
  BY <1>0 DEF Reading
<1>3. CASE Connect(n)
  <2>1. backlog \in Seq(Nodes) /\ Len(backlog) \in Nat
    BY <1>0 DEF TypeOK
  <2>2. /\ Len(backlog') = Len(backlog) + 1 /\ backlog'[Len(backlog) + 1] = n
        /\ \A k \in 1..Len(backlog) : backlog'[k] = backlog[k]
    BY <1>3, <2>1 DEF Connect
  <2>3. \A m \in Nodes : Waits(m)' => Waits(m) \/ m = n
    BY <2>2 DEF Waits
  <2>4. ~Served(n) /\ ~Waits(n) /\ ~(Reading /\ cur = n)
    BY <1>0, <1>3 DEF Connect, OnePlace
  <2>5. \A k, l \in 1..Len(backlog') : backlog'[k] = backlog'[l] => k = l
    BY <1>0, <2>1, <2>2, <2>4 DEF OnePlace, Waits
  <2>6. cpc'[n] = "send" /\ \A m \in Nodes : m # n => cpc'[m] = cpc[m]
    BY <1>0, <1>3 DEF Connect, TypeOK
  <2> QED BY <1>0, <1>1, <1>2, <2>3, <2>4, <2>5, <2>6 DEF OnePlace
<1>4. CASE ~Connect(n)
  <2>1. backlog' = backlog
    BY <1>4 DEF NodeStep, Node, Die, ClientStart, ConnectRefused, SendUnit, RecvUnit,
                RecvEnds, ConnectionReset, ClientRts, RtrRefused, FirstRead, netVars
  <2>2. \A m \in Nodes : cpc'[m] \in {"start", "connect"} => cpc[m] \in {"start", "connect"}
    BY <1>0, <1>4 DEF NodeStep, Node, Die, ClientStart, ConnectRefused, SendUnit,
                RecvUnit, RecvEnds, ConnectionReset, ClientRts, RtrRefused, FirstRead, TypeOK
  <2> QED BY <1>0, <1>1, <1>2, <2>1, <2>2 DEF OnePlace, Waits
<1> QED BY <1>3, <1>4

---------------------------------------------------------------------------
LEMMA AnswersServer ==
  ASSUME ConnectInv, Server PROVE Answers'
<1>0. TypeOK /\ ServerStages /\ OnePlace /\ Answers /\ UNCHANGED <<cpc, heard>>
  BY ServerLeaves DEF ConnectInv
<1>1. CASE \/ ServerInit \/ Listen \/ Accept \/ AcceptFails \/ ReadUnit \/ ReadEnds
           \/ AllAccepted \/ ServerRtr \/ ServerRts
  <2>1. UNCHANGED <<socks, replied, down>>
    BY <1>1 DEF ServerInit, Listen, Accept, AcceptFails, ReadUnit, ReadEnds,
                AllAccepted, ServerRtr, ServerRts, netVars
  <2> QED BY <1>0, <2>1 DEF Answers, Served
<1>2. CASE Register \/ RegisterStray
  <2>1. replied = 0 /\ \A m \in Nodes : down[m] = 0 /\ heard[m] = 0
    <3>1. ~Answering
      BY <1>2 DEF Register, RegisterStray, Answering
    <3> QED BY <1>0, <3>1, QuietBefore DEF ServerStages
  <2>2. UNCHANGED <<replied, down>> /\ Len(socks') \in Nat
    BY <1>0, <1>2 DEF Register, RegisterStray, netVars, TypeOK
  <2> QED BY <1>0, <2>1, <2>2 DEF Answers
<1>3. CASE ReplyUnit
  <2>1. CASE UNCHANGED <<replied, down>>
    BY <1>0, <1>3, <2>1 DEF ReplyUnit, Answers, Served
  <2>2. CASE /\ replied' = replied + 1
             /\ down' = [m \in Nodes |-> down[m] + IF m = ReplyTo THEN 1 ELSE 0]
    <3> DEFINE r == replied \div Units + 1
    <3>1. replied \in Nat /\ Len(socks) \in Nat /\ replied < Units * Len(socks)
      BY <1>0, <1>3 DEF ReplyUnit, TypeOK
    <3>2. r \in 1..Len(socks) /\ (replied = Units * r - 2 \/ replied = Units * r - 1)
      BY <3>1
    <3>3. ReplyTo = socks[r]
      BY DEF ReplyTo
    <3> HIDE DEF r
    <3>4. ASSUME NEW m \in Nodes, NEW k \in 1..Len(socks), socks[k] = m
          PROVE  down'[m] + heard[m] = IF replied' >= Units * k THEN Units
                              ELSE IF replied' = Units * k - 1 THEN 1 ELSE 0
      <4>1. down[m] + heard[m] = IF replied >= Units * k THEN Units
                              ELSE IF replied = Units * k - 1 THEN 1 ELSE 0
        BY <1>0, <3>4 DEF Answers
      <4>2. m # NoSocket /\ down[m] \in Nat /\ heard[m] \in Nat
        BY <1>0 DEF TypeOK
      <4>3. CASE k = r
        <5>1. down'[m] = down[m] + 1
          BY <2>2, <3>3, <3>4, <4>3
        <5>2. CASE replied = Units * r - 2
          <6>1. replied' = Units * k - 1 /\ down[m] + heard[m] = 0
            BY <2>2, <3>1, <3>2, <4>1, <4>3, <5>2
          <6> QED BY <3>1, <3>2, <4>2, <5>1, <6>1
        <5>3. CASE replied = Units * r - 1
          <6>1. replied' = Units * k /\ down[m] + heard[m] = 1
            BY <2>2, <3>1, <3>2, <4>1, <4>3, <5>3
          <6> QED BY <3>1, <3>2, <4>2, <5>1, <6>1
        <5> QED BY <3>2, <5>2, <5>3
      <4>4. CASE k # r
        <5>1. socks[r] # m
          BY <1>0, <3>2, <3>4, <4>2, <4>4 DEF OnePlace
        <5>2. down'[m] = down[m]
          BY <2>2, <3>3, <4>2, <5>1
        <5> QED BY <2>2, <3>1, <3>2, <4>1, <4>2, <4>4, <5>2
      <4> QED BY <4>3, <4>4
    <3>5. ASSUME NEW m \in Nodes, ~Served(m) PROVE down'[m] + heard[m] = 0
      <4>1. m # ReplyTo
        BY <3>2, <3>3, <3>5 DEF Served
      <4>2. down'[m] = down[m]
        <5>1. down[m] \in 0..Units
          <6>1. TypeOK
            BY <1>0
          <6> QED BY <6>1 DEF TypeOK
        <5> QED BY <2>2, <4>1, <5>1
      <4> QED BY <1>0, <3>5, <4>2 DEF Answers
    <3>6. socks' = socks /\ heard' = heard
      BY <1>0, <1>3 DEF ReplyUnit
    <3> QED BY <3>4, <3>5, <3>6 DEF Answers, Served
  <2> QED BY <1>3, <2>1, <2>2 DEF ReplyUnit
<1> QED BY <1>1, <1>2, <1>3 DEF Server

LEMMA AnswersNode ==
  ASSUME ConnectInv, NEW n \in Nodes, NodeStep(n) PROVE Answers'
<1>0. TypeOK /\ Answers /\ UNCHANGED <<socks, replied>>
  BY NodeLeaves DEF ConnectInv, serverVars
<1>1. \A m \in Nodes : down'[m] + heard'[m] = down[m] + heard[m]
  <2>1. CASE RecvUnit(n)
    <3> SUFFICES ASSUME NEW m \in Nodes PROVE down'[m] + heard'[m] = down[m] + heard[m]
      OBVIOUS
    <3>1. down[m] \in Int /\ heard[m] \in Int
      BY <1>0 DEF TypeOK
    <3>2. CASE m = n
      <4>1. down'[n] = down[n] - 1 /\ heard'[n] = heard[n] + 1
        BY <1>0, <2>1 DEF RecvUnit, TypeOK
      <4> QED BY <3>1, <3>2, <4>1
    <3>3. CASE m # n
      BY <1>0, <2>1, <3>3 DEF RecvUnit, TypeOK
    <3> QED BY <3>2, <3>3
  <2>2. CASE ~RecvUnit(n)
    <3>1. UNCHANGED <<down, heard>>
      BY <2>2 DEF NodeStep, Node, Die, ClientStart, Connect, ConnectRefused, SendUnit,
                  RecvEnds, ConnectionReset, ClientRts, RtrRefused, FirstRead, netVars
    <3> QED BY <3>1
  <2> QED BY <2>1, <2>2
<1> QED BY <1>0, <1>1 DEF Answers, Served
---------------------------------------------------------------------------
LEMMA NotedServer ==
  ASSUME ConnectInv, Server PROVE Noted'
<1>0. TypeOK /\ ServerStages /\ OnePlace /\ Noted /\ cpc' = cpc
  BY ServerLeaves DEF ConnectInv
<1>1. CASE \/ ServerInit \/ Listen \/ Accept \/ AcceptFails \/ AllAccepted
           \/ ReplyUnit \/ ServerRtr \/ ServerRts
  <2>1. UNCHANGED <<recvBuf, socks, ibInfoClient>>
    BY <1>1 DEF ServerInit, Listen, Accept, AcceptFails, AllAccepted, ReplyUnit,
                ServerRtr, ServerRts
  <2>2. spc' = "read" => got' = 0
    BY <1>1 DEF ServerInit, Listen, Accept, AcceptFails, AllAccepted, ReplyUnit,
                ServerRtr, ServerRts
  <2>3. spc' = "register" => cur' = NoSocket
    BY <1>1 DEF ServerInit, Listen, Accept, AcceptFails, AllAccepted, ReplyUnit,
                ServerRtr, ServerRts
  <2> QED BY <1>0, <2>1, <2>2, <2>3 DEF Noted, Served
<1>2. CASE ReadUnit
  <2>1. UNCHANGED <<cur, socks, ibInfoClient>>
    BY <1>2 DEF ReadUnit
  <2>2. cur \in Nodes /\ got \in {0, 1} /\ ~Served(cur) /\ spc = "read"
    BY <1>0, <1>2 DEF ReadUnit, ServerStages, OnePlace, Reading, TypeOK
  <2>3. CASE got = 0
    <3>1. recvBuf' = [recvBuf EXCEPT !.node = cur] /\ spc' = "read" /\ got' = 1
      BY <1>2, <2>3 DEF ReadUnit, Store
    <3>2. recvBuf'.node = cur
      BY <1>0, <3>1 DEF TypeOK
    <3> QED BY <1>0, <2>1, <2>2, <3>1, <3>2 DEF Noted, Served
  <2>4. CASE got = 1
    <3>1. recvBuf' = [recvBuf EXCEPT !.from = cur] /\ spc' = "register" /\ got' = 2
      BY <1>2, <2>4 DEF ReadUnit, Store
    <3>2. recvBuf'.node = cur /\ recvBuf'.from = cur
      BY <1>0, <2>2, <2>4, <3>1 DEF TypeOK, Noted
    <3> QED BY <1>0, <2>1, <2>2, <3>1, <3>2 DEF Noted, Served
  <2> QED BY <2>2, <2>3, <2>4
<1>3. CASE ReadEnds
  <2>1. UNCHANGED <<cur, recvBuf, socks, ibInfoClient>>
    BY <1>3 DEF ReadEnds
  <2>2. cpc[cur] = "dead" /\ spc' # "read"
    BY <1>3 DEF ReadEnds
  <2> QED BY <1>0, <2>1, <2>2 DEF Noted, Served
<1>4. CASE Register
  <2>1. UNCHANGED <<cur, recvBuf>> /\ spc = "register" /\ spc' = "accept"
    BY <1>4 DEF Register
  <2>2. \A m \in Nodes : Served(m)' => Served(m) \/ cur = m
    <3>1. socks \in Seq(Nodes \cup {NoSocket}) /\ cur \in Nodes \cup {NoSocket}
      BY <1>0 DEF TypeOK
    <3>2. /\ Len(socks') = Len(socks) + 1 /\ socks'[Len(socks) + 1] = cur
          /\ \A k \in 1..Len(socks) : socks'[k] = socks[k]
          /\ Len(socks) \in Nat
      BY <1>4, <3>1 DEF Register
    <3> QED BY <3>2 DEF Served
  <2>3. \A m \in Nodes : Served(m)' /\ cpc[m] # "dead" /\ recvBuf.node = m
                          => recvBuf.from = m
    BY <1>0, <2>1, <2>2 DEF Noted
  <2>4. \A m \in Nodes : Served(m)' /\ cpc[m] # "dead" => ibInfoClient'[m] = m
    <3> SUFFICES ASSUME NEW m \in Nodes, Served(m)', cpc[m] # "dead"
                 PROVE  ibInfoClient'[m] = m
      OBVIOUS
    <3>1. CASE recvBuf.node = m
      <4>1. recvBuf.from = m
        BY <2>3, <3>1
      <4> QED BY <1>0, <1>4, <3>1, <4>1 DEF Register, TypeOK
    <3>2. CASE recvBuf.node # m
      <4>1. Served(m)
        BY <1>0, <2>1, <2>2, <3>2 DEF Noted
      <4>2. ibInfoClient'[m] = ibInfoClient[m]
        BY <1>0, <1>4, <3>2 DEF Register, TypeOK
      <4> QED BY <1>0, <4>1, <4>2 DEF Noted
    <3> QED BY <3>1, <3>2
  <2> QED BY <1>0, <2>1, <2>3, <2>4 DEF Noted
<1>5. CASE RegisterStray
  <2>1. UNCHANGED <<cur, recvBuf, ibInfoClient>> /\ spc = "register"
    BY <1>5 DEF RegisterStray
  <2>2. spc' \in {"accept", "dead"} /\ recvBuf.node = Stray
    BY <1>5 DEF RegisterStray
  <2>3. \A m \in Nodes : Served(m)' => Served(m) \/ cur = m
    <3>1. socks \in Seq(Nodes \cup {NoSocket}) /\ cur \in Nodes \cup {NoSocket}
      BY <1>0 DEF TypeOK
    <3>2. /\ Len(socks') = Len(socks) + 1 /\ socks'[Len(socks) + 1] = cur
          /\ \A k \in 1..Len(socks) : socks'[k] = socks[k]
          /\ Len(socks) \in Nat
      BY <1>5, <3>1 DEF RegisterStray
    <3> QED BY <3>2 DEF Served
  <2>4. cur \in Nodes => cpc[cur] = "dead"
    BY <1>0, <2>1, <2>2 DEF Noted
  <2> QED BY <1>0, <2>1, <2>2, <2>3, <2>4 DEF Noted
<1> QED BY <1>1, <1>2, <1>3, <1>4, <1>5 DEF Server

LEMMA NotedNode ==
  ASSUME ConnectInv, NEW n \in Nodes, NodeStep(n) PROVE Noted'
<1>0. TypeOK /\ Noted /\ UNCHANGED serverVars
  BY NodeLeaves DEF ConnectInv
<1>1. \A m \in Nodes : cpc[m] = "dead" => cpc'[m] = "dead"
  BY <1>0 DEF NodeStep, Node, Die, ClientStart, Connect, ConnectRefused, SendUnit,
              RecvUnit, RecvEnds, ConnectionReset, ClientRts, RtrRefused, FirstRead, TypeOK
<1> QED BY <1>0, <1>1 DEF Noted, Served, serverVars

---------------------------------------------------------------------------
LEMMA InvUnchanged == ConnectInv /\ UNCHANGED vars => ConnectInv'
<1> SUFFICES ASSUME ConnectInv, UNCHANGED vars PROVE ConnectInv'
  OBVIOUS
<1> USE DEF vars, serverVars, nodeVars, netVars
<1>1. TypeOK'
  BY DEF ConnectInv, TypeOK
<1>2. ServerStages'
  BY DEF ConnectInv, ServerStages, Answering, Connected
<1>3. NodeStages' /\ Noted' /\ Answers'
  BY DEF ConnectInv, NodeStages, Noted, Answers, Served
<1>4. OnePlace'
  BY DEF ConnectInv, OnePlace, Served, Waits, Reading
<1> QED BY <1>1, <1>2, <1>3, <1>4 DEF ConnectInv

LEMMA InvNext == ConnectInv /\ [Next]_vars => ConnectInv'
<1> SUFFICES ASSUME ConnectInv, [Next]_vars PROVE ConnectInv'
  OBVIOUS
<1>0. TypeOK /\ ServerStages /\ NodeStages /\ OnePlace /\ Answers
  BY DEF ConnectInv
<1>1. CASE Server
  <2>1. TypeOK' /\ ServerStages' /\ OnePlace' /\ Answers' /\ Noted'
    BY <1>0, <1>1, TypeServer, ServerStagesNext, OnePlaceServer, AnswersServer, NotedServer
  <2>2. NodeStages'
    <3>1. UNCHANGED <<cpc, linked, sent, heard, cqp>>
      BY <1>1, ServerLeaves
    <3>2. ASSUME NEW m \in Nodes PROVE up'[m] <= sent[m]
      <4>1. up[m] <= sent[m] /\ up[m] \in Int /\ sent[m] \in Int
        BY <1>0 DEF NodeStages, TypeOK
      <4>2. up'[m] = up[m] \/ (m = cur /\ up'[m] = up[m] - 1)
        BY <1>0, <1>1 DEF Server, ServerInit, Listen, Accept, AcceptFails, ReadUnit,
             ReadEnds, Register, RegisterStray, AllAccepted, ReplyUnit, ServerRtr, ServerRts,
             netVars, TypeOK
      <4> QED BY <4>1, <4>2
    <3>3. spc = "dead" => FALSE
      BY <1>1 DEF Server, ServerInit, Listen, Accept, AcceptFails, ReadUnit, ReadEnds,
                  Register, RegisterStray, AllAccepted, ReplyUnit, ServerRtr, ServerRts
    <3> QED BY <1>0, <3>1, <3>2, <3>3 DEF NodeStages
  <2> QED BY <2>1, <2>2 DEF ConnectInv
<1>2. ASSUME NEW n \in Nodes, NodeStep(n) PROVE ConnectInv'
  <2>1. TypeOK' /\ NodeStages' /\ OnePlace' /\ Answers' /\ Noted'
    BY <1>0, <1>2, TypeNode, NodeStagesNext, OnePlaceNode, AnswersNode, NotedNode
  <2>2. ServerStages'
    BY <1>0, <1>2, NodeLeaves DEF ServerStages, Answering, Connected, serverVars
  <2> QED BY <2>1, <2>2 DEF ConnectInv
<1> QED BY <1>1, <1>2, InvUnchanged DEF Next, NodeStep

(* Every variable keeps its type: in particular no socket ever carries     *)
(* more units than the one message sent over it, and nobody counts up more *)
(* than a message (sock_read, sock_write, tcp.cpp:176-228).                *)
THEOREM ConnectTypeCorrect == Spec => []TypeOK
<1>1. Init => ConnectInv
  BY InitInv
<1>2. ConnectInv /\ [Next]_vars => ConnectInv'
  BY InvNext
<1>3. ConnectInv => TypeOK
  BY DEF ConnectInv
<1> QED BY <1>1, <1>2, <1>3, PTL DEF Spec

---------------------------------------------------------------------------
(* A linked node, as long as the server lives, has heard a whole reply,    *)
(* was served, and has its queue pairs noted.                              *)
LEMMA LinkedIsServed ==
  ASSUME ConnectInv, NEW n \in Nodes, linked[n], heard[n] = Units
  PROVE  /\ Answering /\ Served(n) /\ ibInfoClient[n] = n /\ sent[n] = Units
         /\ cqp[n] = [state |-> "rts", dest |-> serverQPs]
<1>0. TypeOK /\ ServerStages /\ NodeStages /\ Answers /\ Noted
  BY DEF ConnectInv
<1>1. Answering
  BY <1>0, QuietBefore
<1>2. Served(n)
  <2>1. down[n] \in Nat
    BY <1>0 DEF TypeOK
  <2> QED BY <1>0, <2>1 DEF Answers
<1>3. sent[n] = Units /\ cpc[n] # "dead"
  BY <1>0 DEF NodeStages
<1>4. ibInfoClient[n] = n
  BY <1>0, <1>2, <1>3 DEF Noted
<1>5. serverQPs = 2
  BY <1>0, <1>1 DEF ServerStages, Answering
<1>6. cqp[n] = [state |-> "rts", dest |-> 2]
  BY <1>0 DEF NodeStages
<1> QED BY <1>1, <1>2, <1>3, <1>4, <1>5, <1>6

LEMMA LinkedIsWired ==
  ASSUME ConnectInv, NEW n \in Nodes, linked[n], Connected
  PROVE  Wired(n) /\ heard[n] = Units
<1>0. TypeOK /\ ServerStages /\ NodeStages
  BY DEF ConnectInv
<1>1. heard[n] = Units
  BY <1>0 DEF NodeStages, Connected
<1>2. cqp[n] = [state |-> "rts", dest |-> serverQPs] /\ ibInfoClient[n] = n
  BY <1>1, LinkedIsServed
<1>3. sqp[n].state # "reset" /\ sqp[n].dest = ibInfoClient[n]
  BY <1>0 DEF ServerStages
<1> QED BY <1>1, <1>2, <1>3 DEF Wired

(* However many nodes there are and whichever of them die half way, once   *)
(* the server serves, every node that is linked and the server have their  *)
(* queue pairs pointing at each other (buildServer, tcp.cpp:20-113).       *)
THEOREM LinkedNodesPaired == Spec => []PairedQPs
<1>1. Init => ConnectInv
  BY InitInv
<1>2. ConnectInv /\ [Next]_vars => ConnectInv'
  BY InvNext
<1>3. ConnectInv => PairedQPs
  BY LinkedIsWired DEF PairedQPs, Connected
<1> QED BY <1>1, <1>2, <1>3, PTL DEF Spec
---------------------------------------------------------------------------
(* Before the server's queue pairs are ready no first read is answered, so *)
(* an answered one keeps all that LinkedIsServed says.                     *)
LEMMA DoneIsMet ==
  ASSUME ConnectInv, NEW n \in Nodes, cpc[n] = "done"
  PROVE  /\ sent[n] = Units /\ heard[n] = Units /\ linked[n] /\ built # -1
         /\ ibInfoClient[n] = n /\ \E k \in 1..Len(socks) : socks[k] = n
<1>1. linked[n] /\ heard[n] = Units
  BY DEF ConnectInv, NodeStages
<1>2. Answering /\ Served(n) /\ ibInfoClient[n] = n /\ sent[n] = Units
  BY <1>1, LinkedIsServed
<1>3. built # -1
  BY <1>2 DEF Answering, ConnectInv, ServerStages
<1> QED BY <1>1, <1>2, <1>3 DEF Served

(* An answered first read vouches for the whole handshake, although main   *)
(* looks at no result of it and short reads pass for success.              *)
THEOREM AnsweredNodesMet == Spec => []AnsweredMeansMet
<1>1. Init => ConnectInv
  BY InitInv
<1>2. ConnectInv /\ [Next]_vars => ConnectInv'
  BY InvNext
<1>3. ConnectInv => AnsweredMeansMet
  BY DoneIsMet DEF AnsweredMeansMet
<1> QED BY <1>1, <1>2, <1>3, PTL DEF Spec

---------------------------------------------------------------------------
(* The first read of a linked node, step by step.                          *)
ReadFailsEarly ==
  \A n \in Nodes : cpc[n] = "run" /\ cpc'[n] = "error" => spc \in {"reply", "dead"}

LEMMA FirstReadStep == ConnectInv /\ [Next]_vars => ReadFailsEarly
<1> SUFFICES ASSUME ConnectInv, [Next]_vars, NEW n \in Nodes,
                    cpc[n] = "run", cpc'[n] = "error", spc \notin {"reply", "dead"}
             PROVE  FALSE
  BY DEF ReadFailsEarly
<1>0. TypeOK /\ ServerStages /\ NodeStages
  BY DEF ConnectInv
<1>1. FirstRead(n)
  <2>1. ~Server /\ ~UNCHANGED vars
    BY ServerLeaves DEF vars, nodeVars
  <2>2. PICK m \in Nodes : NodeStep(m)
    BY <2>1 DEF Next, NodeStep
  <2> QED BY <1>0, <2>2 DEF NodeStep, Node, Die, ClientStart, Connect, ConnectRefused,
             SendUnit, RecvUnit, RecvEnds, ConnectionReset, ClientRts, RtrRefused, FirstRead, TypeOK
<1>2. linked[n]
  <2>1. cqp[n].state = "rts"
    BY <1>1 DEF FirstRead
  <2>2. ~linked[n] => cqp[n] = Reset
    BY <1>0 DEF NodeStages
  <2>3. linked[n] \in BOOLEAN /\ Reset.state = "reset"
    BY <1>0 DEF TypeOK, Reset
  <2> QED BY <2>1, <2>2, <2>3
<1>3. heard[n] = Units
  BY <1>0, <1>2 DEF NodeStages
<1>4. Connected
  BY <1>2, <1>3, LinkedIsServed DEF Answering, Connected
<1>5. Wired(n)
  BY <1>2, <1>4, LinkedIsWired
<1> QED BY <1>0, <1>1, <1>5 DEF FirstRead, TypeOK

(* A linked node whose first read fails came before the server's queue     *)
(* pairs could receive, or found the server dead: the death of another     *)
(* node, a failed accept or a mixed-up buffer never makes it fail later    *)
(* (main.cpp:63-66, tcp.cpp:45-99).                                        *)
THEOREM ReadsFailOnlyEarly == Spec => ReadFailsOnlyEarly
<1>1. Init => ConnectInv
  BY InitInv
<1>2. ConnectInv /\ [Next]_vars => ConnectInv'
  BY InvNext
<1>3. ConnectInv /\ [Next]_vars => [ReadFailsEarly]_vars
  BY FirstReadStep
<1> QED BY <1>1, <1>2, <1>3, PTL DEF Spec, ReadFailsOnlyEarly, ReadFailsEarly
==============================================================================
