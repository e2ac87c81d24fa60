---------------------------- MODULE ThreadBlock ----------------------------
(***************************************************************************)
(* The collective layer: GPUNode, its ThreadBlocks and the steps they      *)
(* execute (src/allstack).  The program of every thread block comes from   *)
(* an MSCCL XML file; a step may wait for a step of another thread block   *)
(* of the same GPU, may send a message on the block's connection and may   *)
(* consume a message from the peer's connection.                           *)
(*                                                                         *)
(* The layer is event driven.  The events are the start of a block, the    *)
(* expiry of a scheduled CompleteStep, and the two completion callbacks of *)
(* RdmaClient; they are actions guarded by an empty call stack.  One event *)
(* can run a long synchronous chain: CompleteStep notifies the GPU, which  *)
(* resumes waiting blocks, whose nop steps complete on the spot and notify *)
(* again.  That recursion is the variable stack: each frame is a call that *)
(* has not returned, and one action executes the top frame.                *)
(*                                                                         *)
(* A scheduled CompleteStep may fire at any later time here.               *)
(* TimedThreadBlock adds the delays of the code.                           *)
(***************************************************************************)
EXTENDS Integers, Sequences, FiniteSets

CONSTANTS
    GPU,        \* the GPU nodes
    TB,         \* the thread blocks of all of them
    NoTB,       \* "no thread block"
    Node,       \* Node[t]: the GPU of thread block t
    Blocks,     \* Blocks[g]: GPUNode::m_threadblocks of g
    Steps,      \* Steps[t]: ThreadBlock::m_steps of t
    Peer        \* Peer[t]: the block that receives what t sends, or NoTB

RecvAndSend == {"rrcs", "rrs", "rcs"}           \* receive, then send
RecvTypes   == {"r", "rrc"} \cup RecvAndSend
StepTypes   == {"nop", "re", "s"} \cup RecvTypes

\* A ThreadBlockStep.  dep = NoTB: the step waits for no other block; else it
\* waits for step deps of block dep.  hasdep: completion is announced.
Step == [type : StepTypes, dep : TB \cup {NoTB}, deps : Nat, hasdep : BOOLEAN]

OnGPU(g) == {t \in TB : Node[t] = g}

\* The blocks are finitely many, no block is empty (StartApplication dereferences
\* m_steps.begin()), and a block receives from at most one other (its recv
\* attribute).
ASSUME ProgramAssumption ==
    /\ IsFiniteSet(TB)
    /\ NoTB \notin TB
    /\ Node \in [TB -> GPU]
    /\ Blocks \in [GPU -> Seq(TB)]
    /\ Steps \in [TB -> Seq(Step)]
    /\ \A t \in TB : Len(Steps[t]) > 0
    /\ Peer \in [TB -> TB \cup {NoTB}]
    /\ \A t, u \in TB : Peer[t] = Peer[u] /\ Peer[t] # NoTB => t = u

VARIABLES
    started,      \* started[t]: StartApplication of t has run
    cur,          \* m_currentStep, 1-based; Len(Steps[t]) + 1 is m_steps.end()
    waitDep,      \* m_waitDep with m_depid, m_deps: NoWait or the latched step
    pending,      \* scheduled CompleteStep events that have not fired
    recvNum,      \* m_recv_message_num
    sendNum,      \* m_total_send_message_num_trace
    finishFlag,   \* m_step_finish_flag
    tbStatus,     \* GPUNode::m_tb_status
    leftCount,    \* GPUNode::m_tb_complete_count
    qpFinished,   \* FinishQp was called for the client of the block
    stack,        \* calls in progress, innermost first
    crashed,      \* an end() iterator was dereferenced
    pushed, received, acked      \* the connections (MessageChannel)

Channel == INSTANCE MessageChannel WITH Conn <- TB

tbVars == <<started, cur, waitDep, pending, recvNum, sendNum, finishFlag>>
gpuVars == <<tbStatus, leftCount, qpFinished>>
chanVars == <<pushed, received, acked>>
vars == <<tbVars, gpuVars, chanVars, stack, crashed>>

NoWait == [tb |-> NoTB, s |-> 0]

Frame == [op : {"start", "do", "complete", "notify", "advance"},
          tb : TB, s : Nat, i : Nat \ {0}]
Call(op, t) == [op |-> op, tb |-> t, s |-> 0, i |-> 1]
Notify(t, s, i) == [op |-> "notify", tb |-> t, s |-> s, i |-> i]

AtEnd(t) == cur[t] = Len(Steps[t]) + 1
CurStep(t) == Steps[t][cur[t]]

----------------------------------------------------------------------------
\* Steps are numbered from 0 in the XML file and from 1 here, so that the
\* initial -1 of m_tb_status is 0 and deps = k is "step k of the file, plus 1".
Init ==
    /\ started    = [t \in TB |-> FALSE]
    /\ cur        = [t \in TB |-> 1]
    /\ waitDep    = [t \in TB |-> NoWait]
    /\ pending    = [t \in TB |-> 0]
    /\ recvNum    = [t \in TB |-> 0]
    /\ sendNum    = [t \in TB |-> 0]
    /\ finishFlag = [t \in TB |-> FALSE]
    /\ tbStatus   = [t \in TB |-> 0]
    /\ leftCount  = [g \in GPU |-> Cardinality(OnGPU(g))]
    /\ qpFinished = [t \in TB |-> FALSE]
    /\ stack      = <<>>
    /\ crashed    = FALSE
    /\ Channel!ChanInit

\* GPUNode::FinishedTBCallback
FinishedTBCallback(g) ==
    /\ leftCount' = [leftCount EXCEPT ![g] = @ - 1]
    /\ qpFinished' = IF leftCount[g] = 1
                     THEN [t \in TB |-> qpFinished[t] \/ Node[t] = g]
                     ELSE qpFinished

----------------------------------------------------------------------------
(***************************************************************************)
(* The calls.  Each takes the frames below it on the stack.                *)
(***************************************************************************)

\* Undefined behaviour: the code dereferences m_steps.end().  Nothing is
\* specified after it.
Crash ==
    /\ crashed' = TRUE
    /\ stack' = <<>>
    /\ UNCHANGED <<tbVars, gpuVars, chanVars>>

\* Names ending in OffByOne, and SendsIgnored, WaitKept, ScheduleTwice and
\* ConsumeAndSend, are wrong variants that the mutants of the project put in place
\* of the definition that follows them; the specification does not use them.

\* The checks the code makes: m_recv_message_num > 0 (DoRecv...), outstanding
\* sends (CompleteThreadBlock), CheckDep, and ThreadBlock::UpdateTBStatus.
HasMessageOffByOne(t) == recvNum[t] >= 0
HasMessage(t) == recvNum[t] > 0
SendsIgnored(t) == FALSE
SendsOutstanding(t) == sendNum[t] > 0
ReadyOffByOne(step) == step.dep = NoTB \/ tbStatus[step.dep] + 1 >= step.deps
Ready(step) == step.dep = NoTB \/ tbStatus[step.dep] >= step.deps
ResumesOffByOne(u, t, s) == waitDep[u].tb = t /\ waitDep[u].s < s
Resumes(u, t, s) == waitDep[u].tb = t /\ waitDep[u].s <= s
WaitKept(u) == waitDep' = waitDep
WaitOver(u) == waitDep' = [waitDep EXCEPT ![u] = NoWait]

\* Schedule(..., &ThreadBlock::CompleteStep, this)
ScheduleTwice(t) == pending' = [pending EXCEPT ![t] = @ + 2]
ScheduleComplete(t) == pending' = [pending EXCEPT ![t] = @ + 1]

\* m_total_send_message_num_trace + 1 and RdmaClient::DoSend
SendMessage(t) ==
    /\ sendNum' = [sendNum EXCEPT ![t] = @ + 1]
    /\ pushed' = [pushed EXCEPT ![t] = @ + 1]

ConsumeAndSend(t) == ScheduleComplete(t) /\ SendMessage(t)
\* A message is given to the current step, which is of a receiving type: the
\* rest of the step is scheduled, and a type that also sends, sends at once.
ConsumeMessage(t) ==
    /\ ScheduleComplete(t)
    /\ IF CurStep(t).type \in RecvAndSend
       THEN SendMessage(t)
       ELSE UNCHANGED <<sendNum, pushed>>

\* ThreadBlock::DoStep with DoReduce, DoSend, DoRecv...
DoStep(t, rest) ==
    /\ UNCHANGED <<started, cur, waitDep, finishFlag, gpuVars, received,
                   acked, crashed>>
    /\ \/ /\ CurStep(t).type = "nop"
          /\ stack' = <<Call("complete", t)>> \o rest
          /\ UNCHANGED <<pending, recvNum, sendNum, pushed>>
       \/ /\ CurStep(t).type = "re"
          /\ ScheduleComplete(t)
          /\ stack' = rest
          /\ UNCHANGED <<recvNum, sendNum, pushed>>
       \/ /\ CurStep(t).type = "s"
          /\ ScheduleComplete(t)
          /\ SendMessage(t)
          /\ stack' = rest
          /\ UNCHANGED recvNum
       \/ /\ CurStep(t).type \in RecvTypes
          /\ HasMessage(t)
          /\ recvNum' = [recvNum EXCEPT ![t] = @ - 1]
          /\ ConsumeMessage(t)
          /\ stack' = rest
       \/ /\ CurStep(t).type \in RecvTypes
          /\ ~HasMessage(t)              \* RdmaClient::DoRecv only logs
          /\ stack' = rest
          /\ UNCHANGED <<pending, recvNum, sendNum, pushed>>

\* ThreadBlock::StartStep with CheckDep
StartStep(t, rest) ==
    LET step == CurStep(t)
    IN /\ waitDep' = [waitDep EXCEPT ![t] =
                        IF Ready(step) THEN NoWait ELSE [tb |-> step.dep, s |-> step.deps]]
       /\ stack' = IF Ready(step) THEN <<Call("do", t)>> \o rest ELSE rest
       /\ UNCHANGED <<started, cur, pending, recvNum, sendNum, finishFlag,
                      gpuVars, chanVars, crashed>>

\* ThreadBlock::CompleteStep up to the return of GPUNode::UpdateTBStatus
CompleteStep(t, rest) ==
    /\ IF CurStep(t).hasdep
       THEN /\ tbStatus' = [tbStatus EXCEPT ![t] = cur[t]]
            /\ stack' = <<Notify(t, cur[t], 1), Call("advance", t)>> \o rest
       ELSE /\ stack' = <<Call("advance", t)>> \o rest
            /\ UNCHANGED tbStatus
    /\ UNCHANGED <<tbVars, leftCount, qpFinished, chanVars, crashed>>

\* One iteration of the loop of GPUNode::UpdateTBStatus, with
\* ThreadBlock::UpdateTBStatus of the block it visits
UpdateTBStatus(f, rest) ==
    LET all == Blocks[Node[f.tb]]
        u   == all[f.i]
        more == <<Notify(f.tb, f.s, f.i + 1)>> \o rest
    IN \/ /\ f.i > Len(all)
          /\ stack' = rest
          /\ UNCHANGED <<tbVars, gpuVars, chanVars, crashed>>
       \/ /\ f.i <= Len(all)
          /\ Resumes(u, f.tb, f.s)
          /\ WaitOver(u)
          /\ stack' = <<Call("do", u)>> \o more
          /\ UNCHANGED <<started, cur, pending, recvNum, sendNum, finishFlag,
                         gpuVars, chanVars, crashed>>
       \/ /\ f.i <= Len(all)
          /\ ~Resumes(u, f.tb, f.s)
          /\ stack' = more
          /\ UNCHANGED <<tbVars, gpuVars, chanVars, crashed>>

\* The rest of ThreadBlock::CompleteStep: m_currentStep++, then StartStep or
\* CompleteThreadBlock
Advance(t, rest) ==
    /\ cur' = [cur EXCEPT ![t] = @ + 1]
    /\ UNCHANGED <<started, waitDep, pending, recvNum, sendNum,
                   tbStatus, chanVars, crashed>>
    /\ \/ /\ cur[t] < Len(Steps[t])
          /\ stack' = <<Call("start", t)>> \o rest
          /\ UNCHANGED <<finishFlag, leftCount, qpFinished>>
       \/ /\ cur[t] = Len(Steps[t])
          /\ SendsOutstanding(t)
          /\ finishFlag' = [finishFlag EXCEPT ![t] = TRUE]
          /\ stack' = rest
          /\ UNCHANGED <<leftCount, qpFinished>>
       \/ /\ cur[t] = Len(Steps[t])
          /\ ~SendsOutstanding(t)
          /\ FinishedTBCallback(Node[t])
          /\ stack' = rest
          /\ UNCHANGED finishFlag

\* The innermost call runs.  All but the notification loop dereference
\* m_currentStep.
Run(f, rest) ==
    \/ f.op # "notify"   /\ AtEnd(f.tb)  /\ Crash
    \/ f.op = "start"    /\ ~AtEnd(f.tb) /\ StartStep(f.tb, rest)
    \/ f.op = "do"       /\ ~AtEnd(f.tb) /\ DoStep(f.tb, rest)
    \/ f.op = "complete" /\ ~AtEnd(f.tb) /\ CompleteStep(f.tb, rest)
    \/ f.op = "advance"  /\ ~AtEnd(f.tb) /\ Advance(f.tb, rest)
    \/ f.op = "notify"   /\ UpdateTBStatus(f, rest)

Execute == stack # <<>> /\ Run(Head(stack), Tail(stack))

----------------------------------------------------------------------------
(***************************************************************************)
(* The events.                                                             *)
(***************************************************************************)
Idle == stack = <<>> /\ ~crashed

\* Every block starts at collective_start_time, before any message can arrive
\* and any scheduled event can fire.
Running == Idle /\ \A t \in TB : started[t]

\* ThreadBlock::StartApplication
StartApplication(t) ==
    /\ Idle
    /\ ~started[t]
    /\ started' = [started EXCEPT ![t] = TRUE]
    /\ stack' = <<Call("start", t)>>
    /\ UNCHANGED <<cur, waitDep, pending, recvNum, sendNum, finishFlag,
                   gpuVars, chanVars, crashed>>

\* The simulator fires a scheduled CompleteStep.
FireCompleteStep(t) ==
    /\ Running
    /\ pending[t] > 0
    /\ pending' = [pending EXCEPT ![t] = @ - 1]
    /\ stack' = <<Call("complete", t)>>
    /\ UNCHANGED <<started, cur, waitDep, recvNum, sendNum, finishFlag,
                   gpuVars, chanVars, crashed>>

\* ThreadBlock::RecvMessageDone at the peer of u.  The current step is looked
\* at, not whether it waits for a message.
RecvMessageDone(u) ==
    LET t == Peer[u]
    IN /\ Running
       /\ t \in TB
       /\ received[u] < pushed[u]
       /\ received' = [received EXCEPT ![u] = @ + 1]
       /\ acked' = acked
       /\ UNCHANGED <<started, cur, waitDep, finishFlag, gpuVars, stack, crashed>>
       /\ IF ~AtEnd(t) /\ CurStep(t).type \in RecvTypes
          THEN /\ ConsumeMessage(t)
               /\ UNCHANGED recvNum
          ELSE /\ recvNum' = [recvNum EXCEPT ![t] = @ + 1]
               /\ UNCHANGED <<pending, sendNum, pushed>>

\* ThreadBlock::SendMessageDone with SendMessageNumChanged
SendMessageDone(t) ==
    /\ Running
    /\ Channel!TxComplete(t)
    /\ sendNum' = [sendNum EXCEPT ![t] = @ - 1]
    /\ IF sendNum[t] = 1 /\ finishFlag[t]
       THEN /\ finishFlag' = [finishFlag EXCEPT ![t] = FALSE]
            /\ FinishedTBCallback(Node[t])
       ELSE UNCHANGED <<finishFlag, leftCount, qpFinished>>
    /\ UNCHANGED <<started, cur, waitDep, pending, recvNum, tbStatus, stack, crashed>>

Event(t) ==
    \/ StartApplication(t)
    \/ FireCompleteStep(t)
    \/ RecvMessageDone(t)
    \/ SendMessageDone(t)

Next == Execute \/ \E t \in TB : Event(t)

Spec == Init /\ [][Next]_vars

\* Events that are due happen: the simulator runs every scheduled event, the
\* transport completes every message, and a call returns.
Fairness ==
    /\ WF_vars(Execute)
    /\ \A t \in TB : WF_vars(Event(t))

FairSpec == Spec /\ Fairness

----------------------------------------------------------------------------
(***************************************************************************)
(* Properties.                                                             *)
(***************************************************************************)

\* Every variable has its type.
TypeOK ==
    /\ started    \in [TB -> BOOLEAN]
    /\ cur        \in [TB -> Nat]
    /\ \A t \in TB : cur[t] \in 1 .. Len(Steps[t]) + 1
    /\ waitDep    \in [TB -> [tb : TB \cup {NoTB}, s : Nat]]
    /\ pending    \in [TB -> Nat]
    /\ recvNum    \in [TB -> Nat]
    /\ sendNum    \in [TB -> Int]
    /\ finishFlag \in [TB -> BOOLEAN]
    /\ tbStatus   \in [TB -> Nat]
    /\ leftCount  \in [GPU -> Int]
    /\ qpFinished \in [TB -> BOOLEAN]
    /\ stack      \in Seq(Frame)
    /\ crashed    \in BOOLEAN
    /\ pushed     \in [TB -> Nat]
    /\ received   \in [TB -> Nat]
    /\ acked      \in [TB -> Nat]

\* Steps run in dependency order (ThreadBlock::CheckDep, GPUNode's status
\* table): a step that waits for a step of another block is completed only
\* after that step has been announced.
DependencyOrder ==
    \A t \in TB : \A k \in 1 .. cur[t] - 1 :
        LET step == Steps[t][k]
        IN step.dep # NoTB => tbStatus[step.dep] >= step.deps

\* ThreadBlock never has two CompleteStep events scheduled: a step in progress
\* is completed once (RecvMessageDone and the Do... functions).
OneCompletion == \A t \in TB : pending[t] <= 1

\* A message is consumed on arrival only by a step that waits for a message: not
\* by one that waits for another block, nor by one that has its message and is
\* being completed (the comment in ThreadBlock::RecvMessageDone).
ConsumedWhileWaiting ==
    [][\A u \in TB :
          LET t == Peer[u]
          IN received'[u] > received[u] /\ pending'[t] > pending[t]
                => pending[t] = 0 /\ waitDep[t] = NoWait]_vars

\* A block sends what its program says: no more messages than the sending
\* steps it has reached, and at the end exactly as many.
SendsFollowProgram ==
    \A t \in TB :
        LET sends == {k \in DOMAIN Steps[t] : Steps[t][k].type \in RecvAndSend \cup {"s"}}
        IN /\ pushed[t] <= Cardinality({k \in sends : k <= cur[t]})
           /\ AtEnd(t) => pushed[t] = Cardinality(sends)

\* GPUNode::FinishedTBCallback destroys the queue pairs only when it may: at
\* that time, and ever after, each block of the GPU is through its program and
\* each message it sent has been acknowledged.
QpIdleWhenFinished ==
    \A t \in TB : qpFinished[t] => AtEnd(t) /\ acked[t] = pushed[t]

\* The code never dereferences m_steps.end().
NoCrash == ~crashed

\* Every collective ends: each GPU finishes its queue pairs.
Completes == <>(\A t \in TB : qpFinished[t])
============================================================================
