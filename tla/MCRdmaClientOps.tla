-------------------------- MODULE MCRdmaClientOps --------------------------
(* Two hosts on a link, for RdmaClientOps. *)
EXTENDS RdmaClientOps

Hosts == {"h0", "h1"}

\* OpSendRecv.cc with two operators, and on the same hosts a PassiveDestroy client
\* and a client with flows
Clients == {"op0", "op1", "flow", "passive"}
Places == [op0 |-> "h0", op1 |-> "h1", flow |-> "h0", passive |-> "h1"]
Peers == [op0 |-> "op1", op1 |-> "op0", flow |-> "passive", passive |-> "flow"]
OpClients == {"op0", "op1"}
PassiveClients == {"passive"}
FlowCounts == [op0 |-> 0, op1 |-> 0, flow |-> 2, passive |-> 1]
MessageSizes == {2}

\* As many SENDs as RECVs of the peer, in an order that waits in no circle
Lists == {
    [op0 |-> <<1, 2>>, op1 |-> <<Recv, Recv>>],
    [op0 |-> <<2, Recv>>, op1 |-> <<Recv, 2>>],
    [op0 |-> <<1, Recv, 2>>, op1 |-> <<Recv, 1, Recv>>],
    [op0 |-> <<1, Recv>>, op1 |-> <<1, Recv>>] }
BothBuilds == {FALSE, TRUE}

\* Only a PassiveDestroy client and the client it sends to, in the multithreaded build
PassivePair == {"passive", "sink"}
PassivePlaces == [passive |-> "h1", sink |-> "h0"]
PassivePeers == [passive |-> "sink", sink |-> "passive"]
PassiveFlows == [passive |-> 1, sink |-> 0]
NoLists == {<<>>}
MtpBuild == {TRUE}

\* Two operators alone
OpPlaces == [op0 |-> "h0", op1 |-> "h1"]
OpPeers == [op0 |-> "op1", op1 |-> "op0"]
OpFlows == [op0 |-> 0, op1 |-> 0]
PingPong == {[op0 |-> <<1, Recv>>, op1 |-> <<Recv, 1>>]}

\* What the theorem EventsRunOut of RdmaClientOpsProofs assumes of the lists
ASSUME ListsMatch == ProgramsMatch

=============================================================================
