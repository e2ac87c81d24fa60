--------------------------- MODULE MessageChannel ---------------------------
(***************************************************************************)
(* What an RDMA connection promises to the collective layer.  A connection *)
(* is the queue pair of one RdmaClient.  The client pushes messages on it  *)
(* (RdmaClient::DoSend); the stack below calls HandleRxComplete at the     *)
(* receiver once per message, and HandleTxComplete at the sender once per  *)
(* message, after the receiver's call: the last acknowledgement of a       *)
(* message answers its last data packet.                                   *)
(*                                                                         *)
(* RdmaTransport, the packet-level model of RdmaHw, is shown to implement  *)
(* this specification; ThreadBlock, the collective layer, is built on it.  *)
(***************************************************************************)
EXTENDS Naturals

CONSTANT Conn            \* the connections

VARIABLES
    pushed,              \* messages pushed on the connection
    received,            \* messages announced to the receiving application
    acked                \* messages announced to the sending application

chanVars == <<pushed, received, acked>>

ChanInit ==
    /\ pushed   = [c \in Conn |-> 0]
    /\ received = [c \in Conn |-> 0]
    /\ acked    = [c \in Conn |-> 0]

\* RdmaClient::DoSend -> PushMessagetoQp
Push(c) ==
    /\ pushed' = [pushed EXCEPT ![c] = @ + 1]
    /\ UNCHANGED <<received, acked>>

\* RdmaDriver::MessageRxComplete -> RdmaClient::HandleRxComplete
RxComplete(c) ==
    /\ received[c] < pushed[c]
    /\ received' = [received EXCEPT ![c] = @ + 1]
    /\ UNCHANGED <<pushed, acked>>

\* RdmaDriver::MessageTxComplete -> RdmaClient::HandleTxComplete
TxComplete(c) ==
    /\ acked[c] < received[c]
    /\ acked' = [acked EXCEPT ![c] = @ + 1]
    /\ UNCHANGED <<pushed, received>>

ChanNext ==
    \E c \in Conn : Push(c) \/ RxComplete(c) \/ TxComplete(c)

ChanSpec == ChanInit /\ [][ChanNext]_chanVars
=============================================================================
