-------------------------- MODULE ThreadBlockProofs --------------------------
(***************************************************************************)
(* ThreadBlock keeps its types, and never destroys a queue pair in use,    *)
(* for every set of GPUs and blocks, every program and every timing.  In   *)
(* behaviours in which a message is consumed on arrival only by a step     *)
(* that waits for one, it also keeps the order of steps, completes each    *)
(* step once and sends what the program says.                              *)
(***************************************************************************)
EXTENDS ThreadBlock, FiniteSetTheorems, TLAPS

Op == {"start", "do", "complete", "notify", "advance"}

\* Pushing a call leaves a stack.
LEMMA CallPush ==
    ASSUME NEW t \in TB, NEW rest \in Seq(Frame), NEW op \in Op
    PROVE  <<Call(op, t)>> \o rest \in Seq(Frame)
<1>1. Call(op, t) \in Frame
  BY DEF Call, Frame, Op
<1> QED
  BY <1>1

\* So does pushing a notification, alone or above a call.
LEMMA NotifyPush ==
    ASSUME NEW t \in TB, NEW rest \in Seq(Frame), NEW s \in Nat, NEW i \in Nat \ {0}
    PROVE  /\ <<Notify(t, s, i)>> \o rest \in Seq(Frame)
           /\ <<Notify(t, s, i), Call("advance", t)>> \o rest \in Seq(Frame)
<1>1. Call("advance", t) \in Frame /\ Notify(t, s, i) \in Frame
  BY DEF Call, Notify, Frame
<1> QED
  BY <1>1

\* A block that is not at its end has a current step.
LEMMA CurrentStep ==
    ASSUME TypeOK, NEW t \in TB, ~AtEnd(t)
    PROVE  /\ CurStep(t) \in Step
           /\ cur[t] \in 1 .. Len(Steps[t])
<1>1. cur[t] \in 1 .. Len(Steps[t]) /\ Steps[t] \in Seq(Step)
  BY ProgramAssumption DEF TypeOK, AtEnd
<1> QED
  BY <1>1 DEF CurStep

\* The frame that runs, and those below it.
LEMMA TopFrame ==
    ASSUME TypeOK, Execute
    PROVE  /\ Head(stack) \in Frame
           /\ Tail(stack) \in Seq(Frame)
           /\ Run(Head(stack), Tail(stack))
<1>1. stack \in Seq(Frame) /\ stack # <<>>
  BY DEF TypeOK, Execute
<1>2. \A s \in Seq(Frame) : s # <<>> => Head(s) \in Frame /\ Tail(s) \in Seq(Frame)
  OBVIOUS
<1> QED
  BY <1>1, <1>2, Zenon DEF Execute

\* The calls preserve the types.
LEMMA RunType ==
    ASSUME TypeOK, NEW f \in Frame, NEW rest \in Seq(Frame), Run(f, rest)
    PROVE  TypeOK'
<1> DEFINE t == f.tb
<1>0. t \in TB /\ f.s \in Nat /\ f.i \in Nat \ {0}
  BY DEF Frame
<1> HIDE DEF t
<1>1. CASE Crash
  <2>1. <<>> \in Seq(Frame)
    OBVIOUS
  <2> QED
    BY <1>1, <2>1 DEF Crash, TypeOK, tbVars, gpuVars, chanVars
<1>2. CASE ~AtEnd(t) /\ StartStep(t, rest)
  <2>1. CurStep(t) \in Step
    BY <1>0, <1>2, CurrentStep
  <2>2. stack' \in Seq(Frame)
    BY <1>0, <1>2, CallPush DEF StartStep, Op
  <2>3. waitDep' \in [TB -> [tb : TB \cup {NoTB}, s : Nat]]
    BY <1>0, <1>2, <2>1 DEF StartStep, TypeOK, Step, NoWait
  <2> QED
    BY <1>2, <2>2, <2>3 DEF StartStep, TypeOK, gpuVars, chanVars
<1>3. CASE ~AtEnd(t) /\ DoStep(t, rest)
  <2>1. CurStep(t) \in Step
    BY <1>0, <1>3, CurrentStep
  <2>2. stack' \in Seq(Frame)
    BY <1>0, <1>3, CallPush DEF DoStep, Op
  <2>3. /\ pending' \in [TB -> Nat]
        /\ recvNum' \in [TB -> Nat]
        /\ sendNum' \in [TB -> Int]
        /\ pushed' \in [TB -> Nat]
    <3>1. pending \in [TB -> Nat] /\ recvNum \in [TB -> Nat]
          /\ sendNum \in [TB -> Int] /\ pushed \in [TB -> Nat]
      BY DEF TypeOK
    <3>2. pending' = pending \/ ScheduleComplete(t)
      BY <1>3 DEF DoStep, ConsumeMessage
    <3>3. UNCHANGED <<sendNum, pushed>> \/ SendMessage(t)
      BY <1>3 DEF DoStep, ConsumeMessage
    <3>4. recvNum' = recvNum \/ (recvNum[t] > 0 /\ recvNum' = [recvNum EXCEPT ![t] = @ - 1])
      BY <1>3 DEF DoStep, HasMessage
    <3>5. pending' \in [TB -> Nat]
      BY <1>0, <3>1, <3>2 DEF ScheduleComplete
    <3>6. sendNum' \in [TB -> Int] /\ pushed' \in [TB -> Nat]
      <4>1. CASE UNCHANGED <<sendNum, pushed>>
        BY <3>1, <4>1
      <4>2. CASE SendMessage(t)
        <5>1. sendNum' \in [TB -> Int]
          BY <1>0, <3>1, <4>2 DEF SendMessage
        <5>2. pushed' \in [TB -> Nat]
          BY <1>0, <3>1, <4>2 DEF SendMessage
        <5> QED
          BY <5>1, <5>2
      <4> QED
        BY <3>3, <4>1, <4>2
    <3>7. recvNum' \in [TB -> Nat]
      BY <1>0, <3>1, <3>4
    <3> QED
      BY <3>5, <3>6, <3>7
  <2>4. UNCHANGED <<started, cur, waitDep, finishFlag, gpuVars, received, acked, crashed>>
    BY <1>3 DEF DoStep
  <2> QED
    BY <2>2, <2>3, <2>4 DEF TypeOK, gpuVars
<1>4. CASE ~AtEnd(t) /\ CompleteStep(t, rest)
  <2>1. cur[t] \in Nat
    BY <1>0 DEF TypeOK
  <2>2. stack' \in Seq(Frame)
    <3>1. <<Call("advance", t)>> \o rest \in Seq(Frame)
      BY <1>0, CallPush DEF Op
    <3>2. <<Notify(t, cur[t], 1), Call("advance", t)>> \o rest \in Seq(Frame)
      BY <1>0, <2>1, NotifyPush
    <3> QED
      BY <1>4, <3>1, <3>2 DEF CompleteStep
  <2>3. tbStatus' \in [TB -> Nat]
    BY <1>0, <1>4, <2>1 DEF CompleteStep, TypeOK
  <2> QED
    BY <1>4, <2>2, <2>3 DEF CompleteStep, TypeOK, tbVars, chanVars
<1>5. CASE ~AtEnd(t) /\ Advance(t, rest)
  <2>1. cur[t] \in 1 .. Len(Steps[t]) /\ Len(Steps[t]) \in Nat /\ Node[t] \in GPU
    BY <1>0, <1>5, CurrentStep, ProgramAssumption
  <2>2. stack' \in Seq(Frame)
    BY <1>0, <1>5, CallPush DEF Advance, Op
  <2>3. /\ cur' \in [TB -> Nat]
        /\ \A u \in TB : cur'[u] \in 1 .. Len(Steps[u]) + 1
    <3>1. cur' = [cur EXCEPT ![t] = @ + 1]
      BY <1>5 DEF Advance
    <3>2. cur \in [TB -> Nat] /\ \A u \in TB : cur[u] \in 1 .. Len(Steps[u]) + 1
      BY DEF TypeOK
    <3> QED
      BY <1>0, <2>1, <3>1, <3>2
  <2>4. /\ finishFlag' \in [TB -> BOOLEAN]
        /\ leftCount' \in [GPU -> Int]
        /\ qpFinished' \in [TB -> BOOLEAN]
    <3>1. /\ finishFlag \in [TB -> BOOLEAN]
          /\ leftCount \in [GPU -> Int]
          /\ qpFinished \in [TB -> BOOLEAN]
      BY DEF TypeOK
    <3>2. finishFlag' = finishFlag \/ finishFlag' = [finishFlag EXCEPT ![t] = TRUE]
      BY <1>5 DEF Advance
    <3>3. UNCHANGED <<leftCount, qpFinished>> \/ FinishedTBCallback(Node[t])
      BY <1>5 DEF Advance
    <3>4. finishFlag' \in [TB -> BOOLEAN]
      BY <1>0, <3>1, <3>2
    <3>5. leftCount' \in [GPU -> Int]
      BY <2>1, <3>1, <3>3 DEF FinishedTBCallback
    <3>6. qpFinished' \in [TB -> BOOLEAN]
      BY <3>1, <3>3 DEF FinishedTBCallback
    <3> QED
      BY <3>4, <3>5, <3>6
  <2>5. UNCHANGED <<started, waitDep, pending, recvNum, sendNum, tbStatus, chanVars, crashed>>
    BY <1>5 DEF Advance
  <2> QED
    BY <2>2, <2>3, <2>4, <2>5 DEF TypeOK, chanVars
<1>6. CASE UpdateTBStatus(f, rest)
  <2> USE DEF t
  <2> DEFINE all == Blocks[Node[t]]
             u == all[f.i]
  <2>1. all \in Seq(TB) /\ (f.i \in 1 .. Len(all) => u \in TB)
    BY <1>0, ProgramAssumption
  <2>2. <<Notify(t, f.s, f.i + 1)>> \o rest \in Seq(Frame)
    BY <1>0, NotifyPush
  <2>3. <<Call("do", u)>> \o (<<Notify(t, f.s, f.i + 1)>> \o rest) \in Seq(Frame)
        \/ f.i \notin 1 .. Len(all)
    BY <2>1, <2>2, CallPush DEF Op
  <2>4. \/ stack' = rest
        \/ stack' = <<Notify(t, f.s, f.i + 1)>> \o rest
        \/ /\ f.i <= Len(all)
           /\ stack' = <<Call("do", u)>> \o (<<Notify(t, f.s, f.i + 1)>> \o rest)
    BY <1>6 DEF UpdateTBStatus, WaitOver
  <2>5. stack' \in Seq(Frame)
    <3>1. CASE stack' = rest
      BY <3>1
    <3>2. CASE stack' = <<Notify(t, f.s, f.i + 1)>> \o rest
      BY <2>2, <3>2
    <3>3. CASE f.i <= Len(all)
               /\ stack' = <<Call("do", u)>> \o (<<Notify(t, f.s, f.i + 1)>> \o rest)
      <4>1. f.i \in 1 .. Len(all)
        BY <1>0, <2>1, <3>3
      <4> QED
        BY <2>3, <3>3, <4>1
    <3> QED
      BY <2>4, <3>1, <3>2, <3>3
  <2>6. /\ waitDep' = waitDep \/ waitDep' = [waitDep EXCEPT ![u] = NoWait]
        /\ UNCHANGED <<started, cur, pending, recvNum, sendNum, finishFlag,
                      gpuVars, chanVars, crashed>>
    BY <1>6 DEF UpdateTBStatus, WaitOver, tbVars
  <2>7. waitDep' \in [TB -> [tb : TB \cup {NoTB}, s : Nat]]
    <3>1. waitDep \in [TB -> [tb : TB \cup {NoTB}, s : Nat]]
      BY DEF TypeOK
    <3>2. NoWait \in [tb : TB \cup {NoTB}, s : Nat]
      BY DEF NoWait
    <3> QED
      BY <2>6, <3>1, <3>2
  <2> QED
    BY <2>5, <2>6, <2>7 DEF TypeOK, gpuVars, chanVars
<1> QED
  BY <1>1, <1>2, <1>3, <1>4, <1>5, <1>6 DEF Run, t

\* The events preserve the types.
LEMMA EventType ==
    ASSUME TypeOK, NEW u \in TB, Event(u)
    PROVE  TypeOK'
<1>1. CASE StartApplication(u)
  <2>1. <<Call("start", u)>> \in Seq(Frame)
    BY DEF Call, Frame
  <2> QED
    BY <1>1, <2>1 DEF StartApplication, TypeOK, gpuVars, chanVars
<1>2. CASE FireCompleteStep(u)
  <2>1. <<Call("complete", u)>> \in Seq(Frame)
    BY DEF Call, Frame
  <2>2. pending' \in [TB -> Nat]
    BY <1>2 DEF FireCompleteStep, TypeOK
  <2> QED
    BY <1>2, <2>1, <2>2 DEF FireCompleteStep, TypeOK, gpuVars, chanVars
<1>3. CASE RecvMessageDone(u)
  <2> DEFINE t == Peer[u]
  <2>0. /\ pending \in [TB -> Nat] /\ recvNum \in [TB -> Nat]
        /\ sendNum \in [TB -> Int] /\ pushed \in [TB -> Nat] /\ received \in [TB -> Nat]
    BY DEF TypeOK
  <2>1. t \in TB /\ received' = [received EXCEPT ![u] = @ + 1]
    BY <1>3 DEF RecvMessageDone
  <2>2. received' \in [TB -> Nat]
    BY <2>0, <2>1
  <2>3. /\ pending' = pending \/ ScheduleComplete(t)
        /\ UNCHANGED <<sendNum, pushed>> \/ SendMessage(t)
        /\ recvNum' = recvNum \/ recvNum' = [recvNum EXCEPT ![t] = @ + 1]
    BY <1>3 DEF RecvMessageDone, ConsumeMessage
  <2> HIDE DEF t
  <2>4. pending' \in [TB -> Nat]
    BY <2>0, <2>1, <2>3 DEF ScheduleComplete
  <2>5. sendNum' \in [TB -> Int]
    BY <2>0, <2>1, <2>3 DEF SendMessage
  <2>6. pushed' \in [TB -> Nat]
    BY <2>0, <2>1, <2>3 DEF SendMessage
  <2>7. recvNum' \in [TB -> Nat]
    BY <2>0, <2>1, <2>3
  <2>8. UNCHANGED <<started, cur, waitDep, finishFlag, gpuVars, stack, crashed, acked>>
    BY <1>3 DEF RecvMessageDone
  <2> QED
    BY <2>2, <2>4, <2>5, <2>6, <2>7, <2>8 DEF TypeOK, gpuVars
<1>4. CASE SendMessageDone(u)
  <2>1. Node[u] \in GPU
    BY ProgramAssumption
  <2>2. /\ UNCHANGED <<leftCount, qpFinished>> \/ FinishedTBCallback(Node[u])
        /\ finishFlag' = finishFlag \/ finishFlag' = [finishFlag EXCEPT ![u] = FALSE]
        /\ sendNum' = [sendNum EXCEPT ![u] = @ - 1]
        /\ acked' = [acked EXCEPT ![u] = @ + 1]
        /\ UNCHANGED <<started, cur, waitDep, pending, recvNum, tbStatus, stack,
                       crashed, pushed, received>>
    BY <1>4 DEF SendMessageDone, Channel!TxComplete
  <2>0. /\ leftCount \in [GPU -> Int] /\ qpFinished \in [TB -> BOOLEAN]
        /\ finishFlag \in [TB -> BOOLEAN]
        /\ sendNum \in [TB -> Int] /\ acked \in [TB -> Nat]
    BY DEF TypeOK
  <2>3. leftCount' \in [GPU -> Int]
    BY <2>0, <2>1, <2>2 DEF FinishedTBCallback
  <2>4. qpFinished' \in [TB -> BOOLEAN]
    BY <2>0, <2>2 DEF FinishedTBCallback
  <2>5. finishFlag' \in [TB -> BOOLEAN]
    BY <2>0, <2>2
  <2>6. sendNum' \in [TB -> Int] /\ acked' \in [TB -> Nat]
    BY <2>0, <2>2
  <2> QED
    BY <2>2, <2>3, <2>4, <2>5, <2>6 DEF TypeOK
<1> QED
  BY <1>1, <1>2, <1>3, <1>4 DEF Event

LEMMA TypeInit == ASSUME Init PROVE TypeOK
<1>1. \A g \in GPU : Cardinality(OnGPU(g)) \in Nat
  BY ProgramAssumption, FS_Subset, FS_CardinalityType DEF OnGPU
<1>2. \A t \in TB : Len(Steps[t]) \in Nat
  BY ProgramAssumption
<1>3. <<>> \in Seq(Frame)
  OBVIOUS
<1>4. pushed \in [TB -> Nat] /\ received \in [TB -> Nat] /\ acked \in [TB -> Nat]
  BY DEF Init, Channel!ChanInit
<1>5. NoWait \in [tb : TB \cup {NoTB}, s : Nat]
  BY DEF NoWait
<1>6. /\ cur \in [TB -> Nat]
      /\ \A t \in TB : cur[t] \in 1 .. Len(Steps[t]) + 1
  BY <1>2 DEF Init
<1>7. leftCount \in [GPU -> Int]
  BY <1>1 DEF Init
<1>8. waitDep \in [TB -> [tb : TB \cup {NoTB}, s : Nat]]
  BY <1>5 DEF Init
<1>9. /\ pending \in [TB -> Nat] /\ recvNum \in [TB -> Nat]
      /\ sendNum \in [TB -> Int] /\ tbStatus \in [TB -> Nat]
  BY DEF Init
<1>10. /\ started \in [TB -> BOOLEAN] /\ finishFlag \in [TB -> BOOLEAN]
       /\ qpFinished \in [TB -> BOOLEAN] /\ stack = <<>> /\ crashed \in BOOLEAN
  BY Zenon DEF Init
<1> QED
  BY <1>3, <1>4, <1>6, <1>7, <1>8, <1>9, <1>10, Zenon DEF TypeOK

LEMMA TypeStep == ASSUME TypeOK, [Next]_vars PROVE TypeOK'
<1>1. CASE Execute
  BY <1>1, TopFrame, RunType
<1>2. CASE \E t \in TB : Event(t)
  BY <1>2, EventType
<1>3. CASE UNCHANGED vars
  BY <1>3 DEF vars, tbVars, gpuVars, chanVars, TypeOK
<1> QED
  BY <1>1, <1>2, <1>3 DEF Next

\* Every variable of the collective layer keeps its type; in particular the
\* current step of a block stays within its program or at its end, and the
\* number of messages held for it is never negative.
THEOREM TypeCorrect == Spec => []TypeOK
<1>1. Init => TypeOK
  BY TypeInit
<1>2. TypeOK /\ [Next]_vars => TypeOK'
  BY TypeStep
<1> QED
  BY <1>1, <1>2, PTL DEF Spec

----------------------------------------------------------------------------
(***************************************************************************)
(* Queue pairs are idle when they are destroyed.  QpIdleWhenFinished is    *)
(* not inductive: FinishedTBCallback decides by a counter, so the counter  *)
(* must be tied to the blocks that are not done, and being done must mean  *)
(* that no acknowledgement is outstanding.                                 *)
(***************************************************************************)

\* The block has reported its end to its GPU.
Done(t) == AtEnd(t) /\ ~finishFlag[t]

Undone(g) == {t \in TB : Node[t] = g /\ ~Done(t)}

\* m_total_send_message_num_trace counts the messages not yet acknowledged.
SendCount ==
    \A t \in TB : /\ acked[t] <= received[t]
                  /\ received[t] <= pushed[t]
                  /\ sendNum[t] = pushed[t] - acked[t]

\* m_step_finish_flag: through with the program, acknowledgements missing.
FlagMeaning == \A t \in TB : finishFlag[t] => AtEnd(t) /\ sendNum[t] > 0

DoneMeaning == \A t \in TB : Done(t) => sendNum[t] = 0

\* m_tb_complete_count counts the blocks that have not reported.
LeftMeaning == \A g \in GPU : leftCount[g] = Cardinality(Undone(g))

FinishedMeaning == \A t \in TB : qpFinished[t] => Undone(Node[t]) = {}

FinishInv ==
    /\ TypeOK
    /\ SendCount
    /\ FlagMeaning
    /\ DoneMeaning
    /\ LeftMeaning
    /\ FinishedMeaning

\* What most steps do to the state FinishInv speaks of: at most one block, not
\* at its end, sends a message, and at most one message is delivered.
Quiet ==
    /\ UNCHANGED <<cur, finishFlag, leftCount, qpFinished, acked>>
    /\ \/ UNCHANGED <<sendNum, pushed>>
       \/ \E t \in TB : ~AtEnd(t) /\ SendMessage(t)
    /\ \/ UNCHANGED received
       \/ \E u \in TB : /\ received[u] < pushed[u]
                        /\ received' = [received EXCEPT ![u] = @ + 1]

LEMMA QuietKeeps == FinishInv /\ TypeOK' /\ Quiet => FinishInv'
<1> SUFFICES ASSUME FinishInv, TypeOK', Quiet PROVE FinishInv'
  OBVIOUS
<1>1. \A t \in TB : /\ AtEnd(t)' <=> AtEnd(t)
                    /\ Done(t)' <=> Done(t)
                    /\ finishFlag'[t] = finishFlag[t]
  BY DEF Quiet, AtEnd, Done
<1>2. /\ pushed \in [TB -> Nat] /\ received \in [TB -> Nat]
      /\ acked \in [TB -> Nat] /\ sendNum \in [TB -> Int]
  BY DEF FinishInv, TypeOK
<1>3. \A t \in TB : /\ pushed'[t] >= pushed[t]
                    /\ sendNum'[t] - pushed'[t] = sendNum[t] - pushed[t]
                    /\ AtEnd(t) => sendNum'[t] = sendNum[t]
  <2>1. CASE UNCHANGED <<sendNum, pushed>>
    BY <1>2, <2>1
  <2>2. ASSUME NEW u \in TB, ~AtEnd(u), SendMessage(u)
        PROVE  \A t \in TB : /\ pushed'[t] >= pushed[t]
                             /\ sendNum'[t] - pushed'[t] = sendNum[t] - pushed[t]
                             /\ AtEnd(t) => sendNum'[t] = sendNum[t]
    BY <1>2, <2>2 DEF SendMessage
  <2> QED
    BY <2>1, <2>2 DEF Quiet
<1>4. \A t \in TB : received[t] <= received'[t] /\ received'[t] <= pushed'[t]
  <2>1. \A t \in TB : received[t] <= pushed[t] /\ pushed'[t] \in Nat
    BY DEF FinishInv, SendCount, TypeOK
  <2>2. CASE UNCHANGED received
    BY <1>2, <1>3, <2>1, <2>2
  <2>3. ASSUME NEW u \in TB, received[u] < pushed[u],
               received' = [received EXCEPT ![u] = @ + 1]
        PROVE  \A t \in TB : received[t] <= received'[t] /\ received'[t] <= pushed'[t]
    BY <1>2, <1>3, <2>1, <2>3
  <2> QED
    BY <2>2, <2>3 DEF Quiet
<1>5. SendCount'
  <2>1. \A t \in TB : /\ acked'[t] = acked[t] /\ acked[t] \in Nat /\ sendNum[t] \in Int
                      /\ received'[t] \in Nat /\ received[t] \in Nat
                      /\ pushed'[t] \in Nat /\ pushed[t] \in Nat /\ sendNum'[t] \in Int
    BY <1>2 DEF TypeOK, Quiet
  <2> QED
    BY <1>3, <1>4, <2>1 DEF FinishInv, SendCount
<1>6. FlagMeaning'
  BY <1>1, <1>3 DEF FinishInv, FlagMeaning
<1>7. DoneMeaning'
  BY <1>1, <1>3 DEF FinishInv, DoneMeaning, Done
<1>8. \A g : Undone(g)' = Undone(g)
  BY <1>1 DEF Undone
<1>9. LeftMeaning' /\ FinishedMeaning'
  BY <1>8 DEF FinishInv, LeftMeaning, FinishedMeaning, Quiet
<1> QED
  BY <1>5, <1>6, <1>7, <1>9 DEF FinishInv

\* A block reports its end: the counter still counts the others, and the queue
\* pairs are finished exactly when there is no other.
LEMMA ReportKeeps ==
    ASSUME FinishInv, NEW t \in TB, ~Done(t), Done(t)',
           \A u \in TB \ {t} : Done(u)' <=> Done(u),
           FinishedTBCallback(Node[t])
    PROVE  LeftMeaning' /\ FinishedMeaning'
<1>1. \A g \in GPU : /\ IsFiniteSet(Undone(g))
                     /\ Cardinality(Undone(g)) \in Nat
                     /\ leftCount[g] = Cardinality(Undone(g))
  BY ProgramAssumption, FS_Subset, FS_CardinalityType DEF Undone, FinishInv, LeftMeaning
<1>2. Node[t] \in GPU /\ t \in Undone(Node[t])
  BY ProgramAssumption DEF Undone
<1>3. Undone(Node[t])' = Undone(Node[t]) \ {t}
  BY DEF Undone
<1>4. \A g : g # Node[t] => Undone(g)' = Undone(g)
  BY DEF Undone
<1>5. Cardinality(Undone(Node[t])') = Cardinality(Undone(Node[t])) - 1
  BY <1>1, <1>2, <1>3, FS_RemoveElement
<1>6. LeftMeaning'
  <2>1. leftCount \in [GPU -> Int] /\ leftCount' = [leftCount EXCEPT ![Node[t]] = @ - 1]
    BY DEF FinishInv, TypeOK, FinishedTBCallback
  <2> SUFFICES ASSUME NEW g \in GPU PROVE leftCount'[g] = Cardinality(Undone(g)')
    BY DEF LeftMeaning
  <2>2. CASE g = Node[t]
    BY <1>1, <1>5, <2>1, <2>2
  <2>3. CASE g # Node[t]
    BY <1>1, <1>4, <2>1, <2>3
  <2> QED
    BY <2>2, <2>3
<1>7. FinishedMeaning'
  <2> SUFFICES ASSUME NEW u \in TB, qpFinished'[u] PROVE Undone(Node[u])' = {}
    BY DEF FinishedMeaning
  <2>1. CASE qpFinished[u]
    BY <1>3, <1>4, <2>1 DEF FinishInv, FinishedMeaning
  <2>2. CASE ~qpFinished[u]
    <3>1. leftCount[Node[t]] = 1 /\ Node[u] = Node[t]
      BY <2>2 DEF FinishedTBCallback
    <3>2. Cardinality(Undone(Node[t])') = 0
      BY <1>1, <1>2, <1>5, <3>1
    <3>3. IsFiniteSet(Undone(Node[t])')
      BY <1>1, <1>2, <1>3, FS_RemoveElement
    <3> QED
      BY <3>1, <3>2, <3>3, FS_EmptySet
  <2> QED
    BY <2>1, <2>2
<1> QED
  BY <1>6, <1>7

\* Every call but the end of CompleteStep is quiet.
LEMMA RunQuiet ==
    ASSUME TypeOK, NEW f \in Frame, NEW rest \in Seq(Frame), Run(f, rest),
           ~(f.op = "advance" /\ ~AtEnd(f.tb) /\ Advance(f.tb, rest))
    PROVE  Quiet
<1> DEFINE t == f.tb
<1>0. t \in TB
  BY DEF Frame
<1> HIDE DEF t
<1>1. CASE Crash
  BY <1>1 DEF Crash, Quiet, tbVars, gpuVars, chanVars
<1>2. CASE StartStep(t, rest)
  BY <1>2 DEF StartStep, Quiet, gpuVars, chanVars
<1>3. CASE ~AtEnd(t) /\ DoStep(t, rest)
  <2>1. UNCHANGED <<cur, finishFlag, gpuVars, received, acked>>
    BY <1>3 DEF DoStep
  <2>2. UNCHANGED <<sendNum, pushed>> \/ SendMessage(t)
    BY <1>3 DEF DoStep, ConsumeMessage
  <2> QED
    BY <1>0, <1>3, <2>1, <2>2 DEF Quiet, gpuVars
<1>4. CASE CompleteStep(t, rest)
  BY <1>4 DEF CompleteStep, Quiet, tbVars, chanVars
<1>5. CASE UpdateTBStatus(f, rest)
  BY <1>5 DEF UpdateTBStatus, WaitOver, Quiet, tbVars, gpuVars, chanVars
<1> QED
  BY <1>1, <1>2, <1>3, <1>4, <1>5 DEF Run, t

LEMMA AdvanceKeeps ==
    ASSUME FinishInv, TypeOK', NEW t \in TB, NEW rest, ~AtEnd(t), Advance(t, rest)
    PROVE  FinishInv'
<1>1. /\ cur[t] \in 1 .. Len(Steps[t])
      /\ Len(Steps[t]) \in Nat
      /\ cur \in [TB -> Nat] /\ cur' = [cur EXCEPT ![t] = @ + 1]
  <2>1. TypeOK /\ cur[t] \in 1 .. Len(Steps[t])
    BY CurrentStep DEF FinishInv
  <2>2. Len(Steps[t]) \in Nat
    BY ProgramAssumption
  <2>3. cur \in [TB -> Nat]
    BY <2>1 DEF TypeOK
  <2> QED
    BY <2>1, <2>2, <2>3 DEF Advance
<1>2. UNCHANGED <<sendNum, pushed, received, acked>> /\ sendNum \in [TB -> Int]
  BY DEF Advance, chanVars, FinishInv, TypeOK
<1>3. SendCount'
  BY <1>2 DEF FinishInv, SendCount
<1>4. ~Done(t) /\ ~finishFlag[t]
  BY DEF Done, FinishInv, FlagMeaning
<1>5. \A u \in TB \ {t} : AtEnd(u)' <=> AtEnd(u)
  BY <1>1 DEF AtEnd
<1>6. finishFlag \in [TB -> BOOLEAN]
  BY DEF FinishInv, TypeOK
<1>7. CASE cur[t] < Len(Steps[t]) /\ UNCHANGED <<finishFlag, leftCount, qpFinished>>
  <2>1. ~AtEnd(t)' /\ \A u \in TB : Done(u)' <=> Done(u)
    BY <1>1, <1>4, <1>5, <1>7 DEF AtEnd, Done
  <2>2. \A g : Undone(g)' = Undone(g)
    BY <2>1 DEF Undone
  <2>3. FlagMeaning' /\ DoneMeaning'
    BY <1>2, <1>4, <1>5, <1>7, <2>1 DEF FinishInv, FlagMeaning, DoneMeaning
  <2> QED
    BY <1>3, <1>7, <2>2, <2>3 DEF FinishInv, LeftMeaning, FinishedMeaning
<1>8. CASE /\ cur[t] = Len(Steps[t]) /\ sendNum[t] > 0
           /\ finishFlag' = [finishFlag EXCEPT ![t] = TRUE]
           /\ UNCHANGED <<leftCount, qpFinished>>
  <2>1. AtEnd(t)' /\ finishFlag'[t]
    BY <1>1, <1>6, <1>8 DEF AtEnd
  <2>2. \A u \in TB : Done(u)' <=> Done(u)
    BY <1>4, <1>5, <1>6, <1>8, <2>1 DEF Done
  <2>3. \A g : Undone(g)' = Undone(g)
    BY <2>2 DEF Undone
  <2>4. FlagMeaning' /\ DoneMeaning'
    BY <1>2, <1>5, <1>6, <1>8, <2>1, <2>2 DEF FinishInv, FlagMeaning, DoneMeaning
  <2> QED
    BY <1>3, <1>8, <2>3, <2>4 DEF FinishInv, LeftMeaning, FinishedMeaning
<1>9. CASE /\ cur[t] = Len(Steps[t]) /\ sendNum[t] <= 0
           /\ FinishedTBCallback(Node[t])
           /\ UNCHANGED finishFlag
  <2>1. Done(t)' /\ \A u \in TB \ {t} : Done(u)' <=> Done(u)
    BY <1>1, <1>4, <1>5, <1>9 DEF AtEnd, Done
  <2>2. LeftMeaning' /\ FinishedMeaning'
    BY <1>4, <1>9, <2>1, ReportKeeps
  <2>3. sendNum'[t] = 0
    <3>1. sendNum[t] = pushed[t] - acked[t] /\ acked[t] <= received[t] /\ received[t] <= pushed[t]
      BY DEF FinishInv, SendCount
    <3>2. pushed[t] \in Nat /\ acked[t] \in Nat /\ received[t] \in Nat
      BY DEF FinishInv, TypeOK
    <3> QED
      BY <1>2, <1>9, <3>1, <3>2
  <2>4. FlagMeaning' /\ DoneMeaning'
    BY <1>2, <1>4, <1>5, <1>9, <2>1, <2>3 DEF FinishInv, FlagMeaning, DoneMeaning, Done
  <2> QED
    BY <1>3, <2>2, <2>4 DEF FinishInv
<1> QED
  <2>1. sendNum[t] \in Int
    BY DEF FinishInv, TypeOK
  <2>2. SendsOutstanding(t) \/ (~SendsOutstanding(t) /\ sendNum[t] <= 0)
    BY <2>1 DEF SendsOutstanding
  <2> QED
    BY <1>7, <1>8, <1>9, <2>2 DEF Advance, SendsOutstanding

LEMMA SendMessageDoneKeeps ==
    ASSUME FinishInv, TypeOK', NEW t \in TB, SendMessageDone(t)
    PROVE  FinishInv'
<1>1. /\ UNCHANGED <<cur, pushed, received>>
      /\ sendNum' = [sendNum EXCEPT ![t] = @ - 1]
      /\ acked[t] < received[t]
      /\ acked' = [acked EXCEPT ![t] = @ + 1]
  BY DEF SendMessageDone, Channel!TxComplete
<1>2. /\ pushed \in [TB -> Nat] /\ received \in [TB -> Nat]
      /\ acked \in [TB -> Nat] /\ sendNum \in [TB -> Int]
      /\ finishFlag \in [TB -> BOOLEAN]
  BY DEF FinishInv, TypeOK
<1>3. SendCount'
  BY <1>1, <1>2 DEF FinishInv, SendCount
<1>4. \A u \in TB : AtEnd(u)' <=> AtEnd(u)
  BY <1>1 DEF AtEnd
<1>5. sendNum[t] > 0 /\ ~Done(t)
  <2>1. sendNum[t] > 0
    BY <1>1, <1>2 DEF FinishInv, SendCount
  <2> QED
    BY <2>1 DEF FinishInv, DoneMeaning
<1>6. CASE sendNum[t] = 1 /\ finishFlag[t]
  <2>1. finishFlag' = [finishFlag EXCEPT ![t] = FALSE] /\ FinishedTBCallback(Node[t])
    BY <1>6 DEF SendMessageDone
  <2>2. Done(t)' /\ \A u \in TB \ {t} : Done(u)' <=> Done(u)
    BY <1>2, <1>4, <1>6, <2>1 DEF Done, FinishInv, FlagMeaning
  <2>3. LeftMeaning' /\ FinishedMeaning'
    BY <1>5, <2>1, <2>2, ReportKeeps
  <2>4. sendNum'[t] = 0 /\ ~finishFlag'[t]
    BY <1>1, <1>2, <1>6, <2>1
  <2>5. FlagMeaning' /\ DoneMeaning'
    BY <1>1, <1>2, <1>4, <2>1, <2>2, <2>4 DEF FinishInv, FlagMeaning, DoneMeaning, Done
  <2> QED
    BY <1>3, <2>3, <2>5 DEF FinishInv
<1>7. CASE ~(sendNum[t] = 1 /\ finishFlag[t])
  <2>1. UNCHANGED <<finishFlag, leftCount, qpFinished>>
    BY <1>7 DEF SendMessageDone
  <2>2. \A u \in TB : Done(u)' <=> Done(u)
    BY <1>4, <2>1 DEF Done
  <2>3. \A g : Undone(g)' = Undone(g)
    BY <2>2 DEF Undone
  <2>4. FlagMeaning' /\ DoneMeaning'
    BY <1>1, <1>2, <1>4, <1>5, <1>7, <2>1, <2>2
       DEF FinishInv, FlagMeaning, DoneMeaning
  <2> QED
    BY <1>3, <2>1, <2>3, <2>4 DEF FinishInv, LeftMeaning, FinishedMeaning
<1> QED
  BY <1>6, <1>7

\* The other events are quiet.
LEMMA EventQuiet ==
    ASSUME TypeOK, NEW u \in TB, Event(u), ~SendMessageDone(u)
    PROVE  Quiet
<1>1. CASE StartApplication(u)
  BY <1>1 DEF StartApplication, Quiet, gpuVars, chanVars
<1>2. CASE FireCompleteStep(u)
  BY <1>2 DEF FireCompleteStep, Quiet, gpuVars, chanVars
<1>3. CASE RecvMessageDone(u)
  <2> DEFINE t == Peer[u]
  <2>1. /\ t \in TB
        /\ UNCHANGED <<cur, finishFlag, gpuVars, acked>>
        /\ received[u] < pushed[u]
        /\ received' = [received EXCEPT ![u] = @ + 1]
    BY <1>3 DEF RecvMessageDone
  <2>2. UNCHANGED <<sendNum, pushed>> \/ (~AtEnd(t) /\ SendMessage(t))
    BY <1>3 DEF RecvMessageDone, ConsumeMessage
  <2> QED
    BY <2>1, <2>2 DEF Quiet, gpuVars
<1> QED
  BY <1>1, <1>2, <1>3 DEF Event

\* A queue pair is destroyed only when its block and all blocks of the GPU are
\* through with their programs and every message sent has been acknowledged,
\* and none is sent on it afterwards (GPUNode::FinishedTBCallback,
\* ThreadBlock::CompleteThreadBlock, SendMessageNumChanged).
THEOREM QpIdle == Spec => []QpIdleWhenFinished
<1>1. Init => FinishInv
  <2> SUFFICES ASSUME Init PROVE FinishInv
    OBVIOUS
  <2>1. TypeOK
    BY TypeInit
  <2>2. \A t \in TB : ~AtEnd(t)
    <3>1. \A t \in TB : Len(Steps[t]) \in Nat \ {0}
      BY ProgramAssumption
    <3> QED
      BY <3>1 DEF Init, AtEnd
  <2>3. \A g \in GPU : Undone(g) = OnGPU(g)
    BY <2>2 DEF Undone, OnGPU, Done
  <2>4. SendCount
    BY DEF Init, Channel!ChanInit, SendCount
  <2>5. FlagMeaning /\ DoneMeaning /\ LeftMeaning /\ FinishedMeaning
    BY <2>2, <2>3 DEF Init, FlagMeaning, DoneMeaning, LeftMeaning, FinishedMeaning, Done
  <2> QED
    BY <2>1, <2>4, <2>5 DEF FinishInv
<1>2. FinishInv /\ [Next]_vars => FinishInv'
  <2> SUFFICES ASSUME FinishInv, [Next]_vars PROVE FinishInv'
    OBVIOUS
  <2>0. TypeOK /\ TypeOK'
    BY TypeStep DEF FinishInv
  <2>1. CASE Execute
    <3> DEFINE f == Head(stack)
               rest == Tail(stack)
    <3>1. f \in Frame /\ rest \in Seq(Frame) /\ Run(f, rest) /\ f.tb \in TB
      BY <2>0, <2>1, TopFrame DEF Frame
    <3> HIDE DEF f, rest
    <3>2. CASE f.op = "advance" /\ ~AtEnd(f.tb) /\ Advance(f.tb, rest)
      BY <2>0, <3>1, <3>2, AdvanceKeeps
    <3>3. CASE ~(f.op = "advance" /\ ~AtEnd(f.tb) /\ Advance(f.tb, rest))
      BY <2>0, <3>1, <3>3, RunQuiet, QuietKeeps
    <3> QED
      BY <3>2, <3>3
  <2>2. ASSUME NEW t \in TB, Event(t) PROVE FinishInv'
    <3>1. CASE SendMessageDone(t)
      BY <2>0, <3>1, SendMessageDoneKeeps
    <3>2. CASE ~SendMessageDone(t)
      BY <2>0, <2>2, <3>2, EventQuiet, QuietKeeps
    <3> QED
      BY <3>1, <3>2
  <2>3. CASE UNCHANGED vars
    BY <2>0, <2>3, QuietKeeps DEF vars, tbVars, gpuVars, chanVars, Quiet
  <2> QED
    BY <2>1, <2>2, <2>3 DEF Next
<1>3. FinishInv => QpIdleWhenFinished
  <2> SUFFICES ASSUME FinishInv, NEW t \in TB, qpFinished[t]
               PROVE  AtEnd(t) /\ acked[t] = pushed[t]
    BY DEF QpIdleWhenFinished
  <2>1. Done(t)
    BY DEF FinishInv, FinishedMeaning, Undone
  <2>2. sendNum[t] = 0 /\ sendNum[t] = pushed[t] - acked[t]
    BY <2>1 DEF FinishInv, DoneMeaning, SendCount
  <2>3. pushed[t] \in Nat /\ acked[t] \in Nat
    BY DEF FinishInv, TypeOK
  <2> QED
    BY <2>1, <2>2, <2>3 DEF Done
<1> QED
  BY <1>1, <1>2, <1>3, PTL DEF Spec

----------------------------------------------------------------------------
(***************************************************************************)
(* What would hold if RecvMessageDone did what its comment says: if a      *)
(* message were consumed on arrival only by a step that waits for it       *)
(* (ConsumedWhileWaiting), then for every program, every timing and every  *)
(* nesting of notifications, steps would run in dependency order, none     *)
(* would be completed twice and no end() iterator would be dereferenced.   *)
(* The FastRing run shows that the code does not see to that; by these     *)
(* theorems nothing else in it can break the three properties.             *)
(*                                                                         *)
(* The argument is a token for each block: of its scheduled CompleteStep   *)
(* events and its calls in progress there is at most one, and none while   *)
(* the block waits for another (Tokens, Resting).                          *)
(***************************************************************************)

\* A call of the block, as opposed to a loop that notifies of one of its steps
IsCall(f, t) == f.op # "notify" /\ f.tb = t

InCalls(q, t) == \E i \in DOMAIN q : IsCall(q[i], t)
InStart(q, t) == \E i \in DOMAIN q : q[i].op = "start" /\ q[i].tb = t
OneEach(q) == \A i, j \in DOMAIN q : q[i].op # "notify" /\ IsCall(q[j], q[i].tb) => i = j
Announces(q, status) == \A i \in DOMAIN q : q[i].op = "notify" => status[q[i].tb] >= q[i].s

Tokens ==
    /\ OneEach(stack)
    /\ \A t \in TB : pending[t] <= 1 /\ (pending[t] > 0 => ~InCalls(stack, t))

Resting ==
    \A t \in TB : AtEnd(t) \/ waitDep[t] # NoWait \/ ~started[t] =>
        pending[t] = 0 /\ ~InCalls(stack, t)

Unstarted == \A t \in TB : ~started[t] => cur[t] = 1 /\ waitDep[t] = NoWait

\* A block waits for what its current step depends on.
Latched ==
    \A t \in TB : waitDep[t] # NoWait =>
        ~AtEnd(t) /\ waitDep[t] = [tb |-> CurStep(t).dep, s |-> CurStep(t).deps]

\* A step that has passed CheckDep may run, until the next one is started.
ReadyNow ==
    \A t \in TB :
        started[t] /\ ~AtEnd(t) /\ waitDep[t] = NoWait /\ ~InStart(stack, t) => Ready(CurStep(t))

\* The status table only grows, and a loop notifies of what is in it.
Status == (\A t \in TB : tbStatus[t] <= cur[t]) /\ Announces(stack, tbStatus)

OrderInv ==
    /\ TypeOK
    /\ Tokens /\ Resting /\ Unstarted /\ Latched /\ ReadyNow /\ Status
    /\ DependencyOrder /\ NoCrash

----------------------------------------------------------------------------
LEMMA PushFacts ==
    ASSUME NEW f \in Frame, NEW q \in Seq(Frame)
    PROVE  /\ \A t \in TB : InCalls(<<f>> \o q, t) <=> IsCall(f, t) \/ InCalls(q, t)
           /\ \A t \in TB : InStart(<<f>> \o q, t) <=> (f.op = "start" /\ f.tb = t) \/ InStart(q, t)
           /\ OneEach(<<f>> \o q) <=> OneEach(q) /\ (f.op # "notify" => ~InCalls(q, f.tb))
           /\ \A status : Announces(<<f>> \o q, status) <=>
                Announces(q, status) /\ (f.op = "notify" => status[f.tb] >= f.s)
<1> DEFINE p == <<f>> \o q
<1>1. /\ Len(q) \in Nat /\ DOMAIN q = 1 .. Len(q)
      /\ DOMAIN p = 1 .. Len(q) + 1
      /\ p[1] = f /\ \A i \in 1 .. Len(q) : p[i + 1] = q[i]
  OBVIOUS
<1> HIDE DEF p
<1>2. \A i \in DOMAIN p : i = 1 \/ (i - 1 \in DOMAIN q /\ p[i] = q[i - 1])
  <2>1. ASSUME NEW i \in DOMAIN p, i # 1 PROVE i - 1 \in DOMAIN q /\ p[i] = q[i - 1]
    <3>1. i - 1 \in 1 .. Len(q) /\ (i - 1) + 1 = i
      BY <1>1, <2>1
    <3> QED
      BY <1>1, <3>1
  <2> QED
    BY <2>1
<1>3. 1 \in DOMAIN p /\ \A i \in DOMAIN q : i + 1 \in DOMAIN p /\ p[i + 1] = q[i] /\ i + 1 # 1
  BY <1>1
<1>4. \A t \in TB : InCalls(p, t) <=> IsCall(f, t) \/ InCalls(q, t)
  BY <1>1, <1>2, <1>3 DEF InCalls
<1>5. \A t \in TB : InStart(p, t) <=> (f.op = "start" /\ f.tb = t) \/ InStart(q, t)
  <2>1. ASSUME NEW t \in TB, InStart(p, t) PROVE (f.op = "start" /\ f.tb = t) \/ InStart(q, t)
    BY <1>1, <1>2, <2>1, Zenon DEF InStart
  <2>2. ASSUME NEW t \in TB, (f.op = "start" /\ f.tb = t) \/ InStart(q, t) PROVE InStart(p, t)
    BY <1>1, <1>3, <2>2, Zenon DEF InStart
  <2> QED
    BY <2>1, <2>2
<1>6. OneEach(p) <=> OneEach(q) /\ (f.op # "notify" => ~InCalls(q, f.tb))
  <2>1. ASSUME OneEach(p) PROVE OneEach(q)
    <3> SUFFICES ASSUME NEW i \in DOMAIN q, NEW j \in DOMAIN q,
                        q[i].op # "notify", IsCall(q[j], q[i].tb)
                 PROVE  i = j
      BY DEF OneEach
    <3>1. i + 1 = j + 1
      BY <1>3, <2>1 DEF OneEach
    <3> QED
      BY <1>1, <3>1
  <2>2. ASSUME OneEach(p), f.op # "notify", NEW j \in DOMAIN q, IsCall(q[j], f.tb) PROVE FALSE
    BY <1>1, <1>3, <2>2 DEF OneEach
  <2>3. ASSUME OneEach(q), f.op # "notify" => ~InCalls(q, f.tb) PROVE OneEach(p)
    <3> SUFFICES ASSUME NEW i \in DOMAIN p, NEW j \in DOMAIN p,
                        p[i].op # "notify", IsCall(p[j], p[i].tb)
                 PROVE  i = j
      BY DEF OneEach
    <3>1. CASE i = 1 /\ j # 1
      BY <1>1, <1>2, <2>3, <3>1 DEF InCalls
    <3>2. CASE i # 1 /\ j = 1
      BY <1>1, <1>2, <2>3, <3>2 DEF InCalls, IsCall
    <3>3. CASE i # 1 /\ j # 1
      <4>1. i - 1 = j - 1
        BY <1>2, <2>3, <3>3 DEF OneEach
      <4> QED
        BY <1>1, <4>1
    <3> QED
      BY <3>1, <3>2, <3>3
  <2> QED
    BY <2>1, <2>2, <2>3 DEF InCalls
<1>7. \A status : Announces(p, status) <=>
        Announces(q, status) /\ (f.op = "notify" => status[f.tb] >= f.s)
  <2>1. ASSUME NEW status, Announces(p, status)
        PROVE  Announces(q, status) /\ (f.op = "notify" => status[f.tb] >= f.s)
    BY <1>1, <1>3, <2>1, Zenon DEF Announces
  <2>2. ASSUME NEW status, Announces(q, status), f.op = "notify" => status[f.tb] >= f.s
        PROVE  Announces(p, status)
    BY <1>1, <1>2, <2>2, Zenon DEF Announces
  <2> QED
    BY <2>1, <2>2
<1> QED
  BY <1>4, <1>5, <1>6, <1>7 DEF p

LEMMA EmptyFacts ==
    /\ \A t \in TB : ~InCalls(<<>>, t) /\ ~InStart(<<>>, t)
    /\ OneEach(<<>>) /\ \A status : Announces(<<>>, status)
BY DEF InCalls, InStart, OneEach, Announces

\* The stack is its innermost call on the others.
LEMMA StackFacts ==
    ASSUME TypeOK, stack # <<>>
    PROVE  stack = <<Head(stack)>> \o Tail(stack)
<1>1. stack \in Seq(Frame)
  BY DEF TypeOK
<1>2. \A q \in Seq(Frame) : q # <<>> => q = <<Head(q)>> \o Tail(q)
  OBVIOUS
<1> QED
  BY <1>1, <1>2

LEMMA StartIsCall == ASSUME NEW q, NEW t, InStart(q, t) PROVE InCalls(q, t)
BY DEF InStart, InCalls, IsCall

\* The block whose call runs holds its only token, and its step may run.
LEMMA CallFacts ==
    ASSUME OrderInv, NEW f \in Frame, NEW rest \in Seq(Frame), stack = <<f>> \o rest,
           f.op # "notify"
    PROVE  /\ f.tb \in TB /\ started[f.tb] /\ ~AtEnd(f.tb) /\ waitDep[f.tb] = NoWait
           /\ pending[f.tb] = 0 /\ ~InCalls(rest, f.tb) /\ ~InStart(rest, f.tb)
           /\ f.op # "start" => Ready(CurStep(f.tb))
           /\ \A u \in TB \ {f.tb} : /\ InCalls(stack, u) <=> InCalls(rest, u)
                                     /\ InStart(stack, u) <=> InStart(rest, u)
           /\ OneEach(rest) /\ Announces(rest, tbStatus)
<1>1. f.tb \in TB
  BY DEF Frame
<1>2. InCalls(stack, f.tb)
  BY <1>1, PushFacts DEF IsCall
<1>3. started[f.tb] /\ ~AtEnd(f.tb) /\ waitDep[f.tb] = NoWait
  BY <1>1, <1>2 DEF OrderInv, Resting
<1>4. pending[f.tb] = 0
  <2>1. ~(pending[f.tb] > 0) /\ pending[f.tb] \in Nat
    BY <1>1, <1>2 DEF OrderInv, Tokens, TypeOK
  <2> QED
    BY <2>1
<1>5. OneEach(rest) /\ ~InCalls(rest, f.tb) /\ Announces(rest, tbStatus)
  BY PushFacts DEF OrderInv, Tokens, Status
<1>6. ~InStart(rest, f.tb)
  BY <1>5, StartIsCall
<1>7. \A u \in TB \ {f.tb} : /\ InCalls(stack, u) <=> InCalls(rest, u)
                             /\ InStart(stack, u) <=> InStart(rest, u)
  BY PushFacts DEF IsCall
<1>8. f.op # "start" => Ready(CurStep(f.tb))
  <2>1. InStart(stack, f.tb) <=> f.op = "start" \/ InStart(rest, f.tb)
    BY <1>1, PushFacts
  <2> QED
    BY <1>1, <1>3, <1>6, <2>1 DEF OrderInv, ReadyNow
<1> QED
  BY <1>1, <1>3, <1>4, <1>5, <1>6, <1>7, <1>8

\* What the status table may do while no block moves
StatusGrows == \A u \in TB : tbStatus[u] <= tbStatus'[u] /\ tbStatus'[u] <= cur[u]

LEMMA StatusStill == ASSUME OrderInv, UNCHANGED <<cur, tbStatus>> PROVE StatusGrows
<1>1. \A u \in TB : tbStatus[u] <= cur[u] /\ tbStatus[u] \in Nat
  BY DEF OrderInv, Status, TypeOK
<1> QED
  BY <1>1 DEF StatusGrows

LEMMA Unmoved ==
    ASSUME OrderInv, TypeOK', UNCHANGED <<cur, crashed>>, StatusGrows
    PROVE  /\ \A u \in TB : /\ AtEnd(u)' <=> AtEnd(u)
                            /\ CurStep(u)' = CurStep(u)
                            /\ ~AtEnd(u) /\ Ready(CurStep(u)) => Ready(CurStep(u))'
           /\ DependencyOrder'
           /\ NoCrash'
           /\ \A u \in TB : tbStatus'[u] <= cur'[u]
<1>1. \A u \in TB : (AtEnd(u)' <=> AtEnd(u)) /\ CurStep(u)' = CurStep(u)
  BY DEF AtEnd, CurStep
<1>2. \A u \in TB : tbStatus[u] \in Nat /\ tbStatus'[u] \in Nat
  BY DEF OrderInv, TypeOK
<1>3. ASSUME NEW u \in TB, ~AtEnd(u), Ready(CurStep(u)) PROVE Ready(CurStep(u))'
  <2>1. CurStep(u) \in Step
    BY <1>3, CurrentStep DEF OrderInv
  <2> QED
    BY <1>1, <1>2, <1>3, <2>1 DEF Ready, StatusGrows, Step
<1>4. DependencyOrder'
  <2> SUFFICES ASSUME NEW u \in TB, NEW k \in 1 .. cur[u] - 1, Steps[u][k].dep # NoTB
               PROVE  tbStatus'[Steps[u][k].dep] >= Steps[u][k].deps
    BY DEF DependencyOrder
  <2>1. cur[u] \in 1 .. Len(Steps[u]) + 1 /\ Steps[u] \in Seq(Step)
    BY ProgramAssumption DEF OrderInv, TypeOK
  <2>2. Steps[u][k] \in Step
    BY <2>1
  <2>3. tbStatus[Steps[u][k].dep] >= Steps[u][k].deps
    BY DEF OrderInv, DependencyOrder
  <2>4. Steps[u][k].dep \in TB /\ Steps[u][k].deps \in Nat
    BY <2>2 DEF Step
  <2> QED
    BY <1>2, <2>3, <2>4 DEF StatusGrows
<1> QED
  BY <1>1, <1>3, <1>4 DEF OrderInv, NoCrash, StatusGrows

\* A step of one block that does not move it
OnlyBlock(t) ==
    /\ started'[t] /\ ~AtEnd(t)
    /\ \A u \in TB \ {t} :
         /\ started'[u] = started[u] /\ waitDep'[u] = waitDep[u]
         /\ pending'[u] = pending[u]
         /\ InCalls(stack', u) <=> InCalls(stack, u)
         /\ InStart(stack', u) <=> InStart(stack, u)
    /\ OneEach(stack') /\ Announces(stack', tbStatus')
    /\ pending'[t] <= 1 /\ (pending'[t] > 0 => ~InCalls(stack', t))
    /\ waitDep'[t] # NoWait =>
            /\ pending'[t] = 0 /\ ~InCalls(stack', t)
            /\ waitDep'[t] = [tb |-> CurStep(t).dep, s |-> CurStep(t).deps]
    /\ waitDep'[t] = NoWait /\ ~InStart(stack', t) => Ready(CurStep(t))

LEMMA OneBlock ==
    ASSUME OrderInv, TypeOK', UNCHANGED <<cur, crashed>>, StatusGrows,
           NEW t \in TB, OnlyBlock(t)
    PROVE  OrderInv'
<1> USE DEF OnlyBlock
<1>1. Tokens'
  <2>1. ASSUME NEW u \in TB, u # t PROVE pending'[u] <= 1 /\ (pending'[u] > 0 => ~InCalls(stack', u))
    BY <2>1 DEF OrderInv, Tokens
  <2> QED
    BY <2>1 DEF Tokens
<1>2. Resting'
  <2>1. ASSUME NEW u \in TB, u # t, AtEnd(u)' \/ waitDep'[u] # NoWait \/ ~started'[u]
        PROVE  pending'[u] = 0 /\ ~InCalls(stack', u)
    BY <2>1, Unmoved DEF OrderInv, Resting
  <2>2. ASSUME AtEnd(t)' \/ waitDep'[t] # NoWait \/ ~started'[t]
        PROVE  pending'[t] = 0 /\ ~InCalls(stack', t)
    BY <2>2, Unmoved
  <2> QED
    BY <2>1, <2>2 DEF Resting
<1>3. Unstarted'
  BY DEF OrderInv, Unstarted
<1>4. Latched'
  <2>1. \A u \in TB : waitDep'[u] # NoWait =>
            ~AtEnd(u) /\ waitDep'[u] = [tb |-> CurStep(u).dep, s |-> CurStep(u).deps]
    BY DEF OrderInv, Latched
  <2> QED
    BY <2>1, Unmoved DEF Latched
<1>5. ReadyNow'
  <2>1. ASSUME NEW u \in TB, started'[u], ~AtEnd(u)', waitDep'[u] = NoWait, ~InStart(stack', u)
        PROVE  Ready(CurStep(u))'
    <3>1. CASE u = t
      BY <2>1, <3>1, Unmoved
    <3>2. CASE u # t
      BY <2>1, <3>2, Unmoved DEF OrderInv, ReadyNow
    <3> QED
      BY <3>1, <3>2
  <2> QED
    BY <2>1 DEF ReadyNow
<1>6. Status' /\ DependencyOrder' /\ NoCrash'
  BY Unmoved DEF OrderInv, Status
<1> QED
  BY <1>1, <1>2, <1>3, <1>4, <1>5, <1>6 DEF OrderInv

\* A step that moves no token
LEMMA NoBlock ==
    ASSUME OrderInv, TypeOK', UNCHANGED <<cur, tbStatus, crashed, started, waitDep, pending>>,
           \A u \in TB : /\ InCalls(stack', u) <=> InCalls(stack, u)
                         /\ InStart(stack', u) <=> InStart(stack, u),
           OneEach(stack'), Announces(stack', tbStatus)
    PROVE  OrderInv'
<1>0. StatusGrows
  BY StatusStill
<1>1. Tokens'
  BY DEF OrderInv, Tokens
<1>2. Resting' /\ Unstarted' /\ Latched' /\ ReadyNow'
  <2>1. Resting'
    BY <1>0, Unmoved DEF OrderInv, Resting
  <2>2. Unstarted'
    BY DEF OrderInv, Unstarted
  <2>3. Latched'
    BY <1>0, Unmoved DEF OrderInv, Latched
  <2>4. ReadyNow'
    BY <1>0, Unmoved DEF OrderInv, ReadyNow
  <2> QED
    BY <2>1, <2>2, <2>3, <2>4
<1>3. Status' /\ DependencyOrder' /\ NoCrash'
  BY <1>0, Unmoved DEF OrderInv, Status
<1> QED
  BY <1>1, <1>2, <1>3 DEF OrderInv

----------------------------------------------------------------------------
(***************************************************************************)
(* The calls.  In each lemma f is the innermost one and rest are the       *)
(* others.                                                                 *)
(***************************************************************************)
LEMMA StartKeeps ==
    ASSUME OrderInv, TypeOK', NEW f \in Frame, NEW rest \in Seq(Frame), stack = <<f>> \o rest,
           f.op = "start", StartStep(f.tb, rest)
    PROVE  OrderInv'
<1> DEFINE t == f.tb
<1>1. /\ t \in TB /\ started[t] /\ ~AtEnd(t) /\ waitDep[t] = NoWait
      /\ pending[t] = 0 /\ ~InCalls(rest, t) /\ ~InStart(rest, t)
      /\ \A u \in TB \ {t} : /\ InCalls(stack, u) <=> InCalls(rest, u)
                             /\ InStart(stack, u) <=> InStart(rest, u)
      /\ OneEach(rest) /\ Announces(rest, tbStatus)
  BY CallFacts
<1> HIDE DEF t
<1>2. UNCHANGED <<started, cur, pending, tbStatus, crashed>>
  BY DEF StartStep, gpuVars
<1>3. StatusGrows
  BY <1>2, StatusStill
<1>4. waitDep' = [waitDep EXCEPT ![t] = IF Ready(CurStep(t)) THEN NoWait
                                        ELSE [tb |-> CurStep(t).dep, s |-> CurStep(t).deps]]
  BY DEF StartStep, t
<1>5. waitDep \in [TB -> [tb : TB \cup {NoTB}, s : Nat]]
  BY DEF OrderInv, TypeOK
<1>6. CASE Ready(CurStep(t))
  <2>1. Call("do", t) \in Frame /\ Call("do", t).op = "do" /\ Call("do", t).tb = t
    BY <1>1 DEF Call, Frame
  <2>2. stack' = <<Call("do", t)>> \o rest
    BY <1>6 DEF StartStep, t
  <2>3. /\ \A u \in TB \ {t} : /\ InCalls(stack', u) <=> InCalls(rest, u)
                               /\ InStart(stack', u) <=> InStart(rest, u)
        /\ OneEach(stack') /\ Announces(stack', tbStatus')
    BY <1>1, <1>2, <2>1, <2>2, PushFacts DEF IsCall
  <2>4. waitDep'[t] = NoWait /\ \A u \in TB \ {t} : waitDep'[u] = waitDep[u]
    BY <1>1, <1>4, <1>5, <1>6
  <2>9. OnlyBlock(t)
    BY <1>1, <1>2, <1>6, <2>3, <2>4 DEF OnlyBlock
  <2> QED
    BY <1>1, <1>2, <1>3, <2>9, OneBlock
<1>7. CASE ~Ready(CurStep(t))
  <2>1. stack' = rest
    BY <1>7 DEF StartStep, t
  <2>2. waitDep'[t] = [tb |-> CurStep(t).dep, s |-> CurStep(t).deps]
        /\ \A u \in TB \ {t} : waitDep'[u] = waitDep[u]
    BY <1>1, <1>4, <1>5, <1>7
  <2>3. waitDep'[t] # NoWait
    BY <1>7, <2>2 DEF Ready, NoWait
  <2>9. OnlyBlock(t)
    BY <1>1, <1>2, <1>3, <2>1, <2>2, <2>3 DEF OnlyBlock
  <2> QED
    BY <1>1, <1>2, <1>3, <2>9, OneBlock
<1> QED
  BY <1>6, <1>7

LEMMA DoKeeps ==
    ASSUME OrderInv, TypeOK', NEW f \in Frame, NEW rest \in Seq(Frame), stack = <<f>> \o rest,
           f.op = "do", DoStep(f.tb, rest)
    PROVE  OrderInv'
<1> DEFINE t == f.tb
<1>1. /\ t \in TB /\ started[t] /\ ~AtEnd(t) /\ waitDep[t] = NoWait
      /\ pending[t] = 0 /\ ~InCalls(rest, t) /\ ~InStart(rest, t)
      /\ Ready(CurStep(t))
      /\ \A u \in TB \ {t} : /\ InCalls(stack, u) <=> InCalls(rest, u)
                             /\ InStart(stack, u) <=> InStart(rest, u)
      /\ OneEach(rest) /\ Announces(rest, tbStatus)
  BY CallFacts
<1> HIDE DEF t
<1>2. UNCHANGED <<started, cur, waitDep, tbStatus, crashed>>
  BY DEF DoStep, gpuVars
<1>3. StatusGrows
  BY <1>2, StatusStill
<1>4. \/ stack' = <<Call("complete", t)>> \o rest /\ pending' = pending
      \/ stack' = rest /\ (pending' = pending \/ ScheduleComplete(t))
  BY DEF DoStep, ConsumeMessage, t
<1>5. pending \in [TB -> Nat]
  BY DEF OrderInv, TypeOK
<1>6. CASE stack' = <<Call("complete", t)>> \o rest /\ pending' = pending
  <2>1. /\ Call("complete", t) \in Frame
        /\ Call("complete", t).op = "complete" /\ Call("complete", t).tb = t
    BY <1>1 DEF Call, Frame
  <2>2. /\ \A u \in TB \ {t} : /\ InCalls(stack', u) <=> InCalls(rest, u)
                               /\ InStart(stack', u) <=> InStart(rest, u)
        /\ OneEach(stack') /\ Announces(stack', tbStatus')
    BY <1>1, <1>2, <1>6, <2>1, PushFacts DEF IsCall
  <2>3. pending'[t] = 0 /\ waitDep'[t] = NoWait /\ started'[t]
    BY <1>1, <1>2, <1>6
  <2>4. \A u \in TB : started'[u] = started[u] /\ waitDep'[u] = waitDep[u] /\ pending'[u] = pending[u]
    BY <1>2, <1>6
  <2>9. OnlyBlock(t)
    BY <1>1, <2>2, <2>3, <2>4 DEF OnlyBlock
  <2> QED
    BY <1>1, <1>2, <1>3, <2>9, OneBlock
<1>7. CASE stack' = rest /\ (pending' = pending \/ ScheduleComplete(t))
  <2>1. pending'[t] <= 1 /\ \A u \in TB \ {t} : pending'[u] = pending[u]
    BY <1>1, <1>5, <1>7 DEF ScheduleComplete
  <2>9. OnlyBlock(t)
    BY <1>1, <1>2, <1>7, <2>1 DEF OnlyBlock
  <2> QED
    BY <1>1, <1>2, <1>3, <2>9, OneBlock
<1> QED
  BY <1>4, <1>6, <1>7

LEMMA CompleteKeeps ==
    ASSUME OrderInv, TypeOK', NEW f \in Frame, NEW rest \in Seq(Frame), stack = <<f>> \o rest,
           f.op = "complete", CompleteStep(f.tb, rest)
    PROVE  OrderInv'
<1> DEFINE t == f.tb
           adv == <<Call("advance", t)>> \o rest
<1>1. /\ t \in TB /\ started[t] /\ ~AtEnd(t) /\ waitDep[t] = NoWait
      /\ pending[t] = 0 /\ ~InCalls(rest, t) /\ ~InStart(rest, t)
      /\ Ready(CurStep(t))
      /\ \A u \in TB \ {t} : /\ InCalls(stack, u) <=> InCalls(rest, u)
                             /\ InStart(stack, u) <=> InStart(rest, u)
      /\ OneEach(rest) /\ Announces(rest, tbStatus)
  BY CallFacts
<1>2. UNCHANGED <<started, cur, waitDep, pending, crashed>>
  BY DEF CompleteStep, tbVars
<1>3. /\ cur[t] \in Nat /\ tbStatus[t] <= cur[t]
      /\ tbStatus \in [TB -> Nat] /\ \A u \in TB : tbStatus[u] <= cur[u] /\ cur[u] \in Nat
  BY <1>1 DEF OrderInv, Status, TypeOK
<1>4. \/ tbStatus' = tbStatus /\ stack' = adv
      \/ /\ tbStatus' = [tbStatus EXCEPT ![t] = cur[t]]
         /\ stack' = <<Notify(t, cur[t], 1), Call("advance", t)>> \o rest
  BY DEF CompleteStep
<1> HIDE DEF t
<1>5. StatusGrows
  <2>1. CASE tbStatus' = tbStatus
    BY <1>3, <2>1 DEF StatusGrows
  <2>2. CASE tbStatus' = [tbStatus EXCEPT ![t] = cur[t]]
    BY <1>1, <1>3, <2>2 DEF StatusGrows
  <2> QED
    BY <1>4, <2>1, <2>2
<1>6. Announces(rest, tbStatus')
  <2>1. \A i \in DOMAIN rest : rest[i].tb \in TB /\ rest[i].s \in Nat
    <3>1. \A i \in DOMAIN rest : rest[i] \in Frame
      OBVIOUS
    <3> QED
      BY <3>1 DEF Frame
  <2>2. \A u \in TB : tbStatus'[u] \in Nat
    BY DEF TypeOK
  <2> QED
    BY <1>1, <1>3, <1>5, <2>1, <2>2 DEF Announces, StatusGrows
<1>7. Call("advance", t) \in Frame /\ Call("advance", t).op = "advance" /\ Call("advance", t).tb = t
  BY <1>1 DEF Call, Frame
<1>8. /\ adv \in Seq(Frame)
      /\ \A u \in TB \ {t} : /\ InCalls(adv, u) <=> InCalls(rest, u)
                             /\ InStart(adv, u) <=> InStart(rest, u)
      /\ OneEach(adv) /\ Announces(adv, tbStatus')
  BY <1>1, <1>6, <1>7, PushFacts DEF IsCall
<1>9. CASE tbStatus' = tbStatus /\ stack' = adv
  <2>1. pending'[t] = 0 /\ waitDep'[t] = NoWait /\ started'[t]
    BY <1>1, <1>2
  <2> HIDE DEF adv
  <2>9. OnlyBlock(t)
    BY <1>1, <1>2, <1>8, <1>9, <2>1 DEF OnlyBlock
  <2> QED
    BY <1>1, <1>2, <1>5, <2>9, OneBlock
<1>10. CASE /\ tbStatus' = [tbStatus EXCEPT ![t] = cur[t]]
            /\ stack' = <<Notify(t, cur[t], 1), Call("advance", t)>> \o rest
  <2> DEFINE n == Notify(t, cur[t], 1)
  <2>1. n \in Frame /\ n.op = "notify" /\ n.tb = t /\ n.s = cur[t]
    BY <1>1, <1>3 DEF Notify, Frame
  <2>2. stack' = <<n>> \o adv
    BY <1>7, <1>10, <2>1
  <2>3. tbStatus'[t] >= cur[t]
    BY <1>1, <1>3, <1>10
  <2> HIDE DEF n, adv
  <2>4. /\ \A u \in TB \ {t} : /\ InCalls(stack', u) <=> InCalls(adv, u)
                               /\ InStart(stack', u) <=> InStart(adv, u)
        /\ OneEach(stack') /\ Announces(stack', tbStatus')
    BY <1>8, <2>1, <2>2, <2>3, PushFacts DEF IsCall
  <2>5. pending'[t] = 0 /\ waitDep'[t] = NoWait /\ started'[t]
    BY <1>1, <1>2
  <2>9. OnlyBlock(t)
    BY <1>1, <1>2, <1>8, <2>4, <2>5, SMTT(30) DEF OnlyBlock
  <2> QED
    BY <1>1, <1>2, <1>5, <2>9, OneBlock
<1> QED
  BY <1>4, <1>9, <1>10

LEMMA AdvanceOrder ==
    ASSUME OrderInv, TypeOK', NEW f \in Frame, NEW rest \in Seq(Frame), stack = <<f>> \o rest,
           f.op = "advance", Advance(f.tb, rest)
    PROVE  OrderInv'
<1> DEFINE t == f.tb
           begin == <<Call("start", t)>> \o rest
<1>1. /\ t \in TB /\ started[t] /\ ~AtEnd(t) /\ waitDep[t] = NoWait
      /\ pending[t] = 0 /\ ~InCalls(rest, t) /\ ~InStart(rest, t)
      /\ Ready(CurStep(t))
      /\ \A u \in TB \ {t} : /\ InCalls(stack, u) <=> InCalls(rest, u)
                             /\ InStart(stack, u) <=> InStart(rest, u)
      /\ OneEach(rest) /\ Announces(rest, tbStatus)
  BY CallFacts
<1>2. UNCHANGED <<started, waitDep, pending, tbStatus, crashed>>
  BY DEF Advance
<1>3. /\ cur \in [TB -> Nat] /\ cur' = [cur EXCEPT ![t] = @ + 1]
      /\ cur[t] \in 1 .. Len(Steps[t]) /\ Len(Steps[t]) \in Nat
  <2>1. cur[t] \in 1 .. Len(Steps[t])
    BY <1>1, CurrentStep DEF OrderInv
  <2>2. Len(Steps[t]) \in Nat
    BY <1>1, ProgramAssumption
  <2> QED
    BY <2>1, <2>2 DEF Advance, OrderInv, TypeOK
<1>4. \/ cur[t] < Len(Steps[t]) /\ stack' = begin
      \/ cur[t] = Len(Steps[t]) /\ stack' = rest
  BY DEF Advance
<1> HIDE DEF t
<1>5. Call("start", t) \in Frame /\ Call("start", t).op = "start" /\ Call("start", t).tb = t
  BY <1>1 DEF Call, Frame
<1>6. /\ \A u \in TB \ {t} : /\ InCalls(begin, u) <=> InCalls(rest, u)
                             /\ InStart(begin, u) <=> InStart(rest, u)
      /\ InStart(begin, t)
      /\ OneEach(begin) /\ Announces(begin, tbStatus)
  BY <1>1, <1>5, PushFacts DEF IsCall
<1> HIDE DEF begin
<1>7. /\ \A u \in TB \ {t} : /\ InCalls(stack', u) <=> InCalls(stack, u)
                             /\ InStart(stack', u) <=> InStart(stack, u)
      /\ OneEach(stack') /\ Announces(stack', tbStatus')
  BY <1>1, <1>2, <1>4, <1>6
<1>8. \A u \in TB \ {t} : /\ cur'[u] = cur[u]
                          /\ AtEnd(u)' <=> AtEnd(u)
                          /\ CurStep(u)' = CurStep(u)
                          /\ Ready(CurStep(u))' <=> Ready(CurStep(u))
  <2>1. \A u \in TB \ {t} : cur'[u] = cur[u]
    BY <1>1, <1>3
  <2> QED
    BY <1>2, <2>1 DEF AtEnd, CurStep, Ready
<1>9. AtEnd(t)' => ~InCalls(stack', t)
  BY <1>1, <1>3, <1>4 DEF AtEnd
<1>10. ~AtEnd(t)' => InStart(stack', t)
  BY <1>1, <1>3, <1>4, <1>6 DEF AtEnd
<1>11. pending'[t] = 0 /\ waitDep'[t] = NoWait /\ started'[t]
  BY <1>1, <1>2
<1>12. Tokens'
  <2>1. ASSUME NEW u \in TB, u # t PROVE pending'[u] <= 1 /\ (pending'[u] > 0 => ~InCalls(stack', u))
    BY <1>2, <1>7, <2>1 DEF OrderInv, Tokens
  <2>2. pending'[t] <= 1 /\ ~(pending'[t] > 0)
    BY <1>11
  <2> QED
    BY <1>7, <2>1, <2>2 DEF Tokens
<1>13. Resting'
  <2>1. ASSUME NEW u \in TB, u # t, AtEnd(u)' \/ waitDep'[u] # NoWait \/ ~started'[u]
        PROVE  pending'[u] = 0 /\ ~InCalls(stack', u)
    BY <1>2, <1>7, <1>8, <2>1 DEF OrderInv, Resting
  <2> QED
    BY <1>9, <1>11, <2>1 DEF Resting
<1>14. Unstarted'
  BY <1>2, <1>8, <1>11 DEF OrderInv, Unstarted
<1>15. Latched'
  <2>1. ASSUME NEW u \in TB, waitDep'[u] # NoWait
        PROVE  ~AtEnd(u)' /\ waitDep'[u] = [tb |-> CurStep(u)'.dep, s |-> CurStep(u)'.deps]
    <3>1. u # t
      BY <1>11, <2>1
    <3> QED
      BY <1>2, <1>8, <2>1, <3>1 DEF OrderInv, Latched
  <2> QED
    BY <2>1 DEF Latched
<1>16. ReadyNow'
  <2>1. ASSUME NEW u \in TB, started'[u], ~AtEnd(u)', waitDep'[u] = NoWait, ~InStart(stack', u)
        PROVE  Ready(CurStep(u))'
    <3>1. u # t
      BY <1>10, <2>1
    <3> QED
      BY <1>2, <1>7, <1>8, <2>1, <3>1 DEF OrderInv, ReadyNow
  <2> QED
    BY <2>1 DEF ReadyNow
<1>17. Status'
  <2>1. ASSUME NEW u \in TB PROVE tbStatus'[u] <= cur'[u]
    <3>1. tbStatus[u] <= cur[u] /\ tbStatus[u] \in Nat /\ cur[u] \in Nat
      BY DEF OrderInv, Status, TypeOK
    <3> QED
      BY <1>2, <1>3, <3>1
  <2> QED
    BY <1>7, <2>1 DEF Status
<1>18. DependencyOrder'
  <2> SUFFICES ASSUME NEW u \in TB, NEW k \in 1 .. cur'[u] - 1, Steps[u][k].dep # NoTB
               PROVE  tbStatus[Steps[u][k].dep] >= Steps[u][k].deps
    BY <1>2 DEF DependencyOrder
  <2>1. CASE k \in 1 .. cur[u] - 1
    BY <2>1 DEF OrderInv, DependencyOrder
  <2>2. CASE k \notin 1 .. cur[u] - 1
    <3>1. u = t /\ k = cur[t]
      BY <1>1, <1>3, <1>8, <2>2
    <3> QED
      BY <1>1, <3>1 DEF Ready, CurStep
  <2> QED
    BY <2>1, <2>2
<1> QED
  BY <1>2, <1>12, <1>13, <1>14, <1>15, <1>16, <1>17, <1>18 DEF OrderInv, NoCrash

LEMMA NotifyKeeps ==
    ASSUME OrderInv, TypeOK', NEW f \in Frame, NEW rest \in Seq(Frame), stack = <<f>> \o rest,
           f.op = "notify", UpdateTBStatus(f, rest)
    PROVE  OrderInv'
<1> DEFINE all == Blocks[Node[f.tb]]
           u == all[f.i]
           n == Notify(f.tb, f.s, f.i + 1)
           more == <<n>> \o rest
<1>1. f.tb \in TB /\ f.s \in Nat /\ f.i \in Nat \ {0}
  BY DEF Frame
<1>2. n \in Frame /\ n.op = "notify" /\ n.tb = f.tb /\ n.s = f.s
  BY <1>1 DEF Notify, Frame
<1>3. /\ \A t \in TB : /\ InCalls(stack, t) <=> InCalls(rest, t)
                       /\ InStart(stack, t) <=> InStart(rest, t)
      /\ OneEach(rest) /\ Announces(rest, tbStatus) /\ tbStatus[f.tb] >= f.s
  BY <1>1, PushFacts DEF IsCall, OrderInv, Tokens, Status
<1>4. /\ UNCHANGED <<started, cur, pending, tbStatus, crashed>>
      /\ \/ waitDep' = waitDep /\ stack' = rest
         \/ waitDep' = waitDep /\ stack' = more
         \/ /\ f.i <= Len(all) /\ Resumes(u, f.tb, f.s)
            /\ waitDep' = [waitDep EXCEPT ![u] = NoWait]
            /\ stack' = <<Call("do", u)>> \o more
  BY DEF UpdateTBStatus, WaitOver, tbVars, gpuVars
<1>5. f.i <= Len(all) => u \in TB
  <2>1. all \in Seq(TB)
    BY <1>1, ProgramAssumption
  <2> QED
    BY <1>1, <2>1
<1> HIDE DEF n, u
<1>6. /\ more \in Seq(Frame)
      /\ \A t \in TB : /\ InCalls(more, t) <=> InCalls(rest, t)
                       /\ InStart(more, t) <=> InStart(rest, t)
      /\ OneEach(more) /\ Announces(more, tbStatus)
  BY <1>1, <1>2, <1>3, PushFacts DEF IsCall
<1> HIDE DEF more
<1>7. CASE waitDep' = waitDep /\ stack' = rest
  BY <1>3, <1>4, <1>7, NoBlock
<1>8. CASE waitDep' = waitDep /\ stack' = more
  BY <1>3, <1>4, <1>6, <1>8, NoBlock
<1>9. CASE /\ f.i <= Len(all) /\ Resumes(u, f.tb, f.s)
           /\ waitDep' = [waitDep EXCEPT ![u] = NoWait]
           /\ stack' = <<Call("do", u)>> \o more
  <2>1. u \in TB /\ waitDep[u] # NoWait
    BY <1>1, <1>5, <1>9, ProgramAssumption DEF Resumes, NoWait
  <2>2. ~AtEnd(u) /\ waitDep[u] = [tb |-> CurStep(u).dep, s |-> CurStep(u).deps]
    BY <2>1 DEF OrderInv, Latched
  <2>3. CurStep(u) \in Step
    BY <2>1, <2>2, CurrentStep DEF OrderInv
  <2>4. Ready(CurStep(u))
    <3>1. tbStatus[f.tb] \in Nat
      BY <1>1 DEF OrderInv, TypeOK
    <3>2. CurStep(u).dep = f.tb /\ CurStep(u).deps <= f.s /\ CurStep(u).deps \in Nat
      BY <1>9, <2>2, <2>3 DEF Resumes, Step
    <3> QED
      BY <1>1, <1>3, <3>1, <3>2 DEF Ready
  <2>5. pending[u] = 0 /\ ~InCalls(rest, u) /\ started[u]
    <3>1. pending[u] = 0 /\ ~InCalls(rest, u)
      BY <1>3, <2>1 DEF OrderInv, Resting
    <3>2. started[u]
      BY <2>1 DEF OrderInv, Unstarted
    <3> QED
      BY <3>1, <3>2
  <2>6. Call("do", u) \in Frame /\ Call("do", u).op = "do" /\ Call("do", u).tb = u
    BY <2>1 DEF Call, Frame
  <2>7. /\ \A t \in TB \ {u} : /\ InCalls(stack', t) <=> InCalls(stack, t)
                               /\ InStart(stack', t) <=> InStart(stack, t)
        /\ OneEach(stack') /\ Announces(stack', tbStatus')
    BY <1>3, <1>4, <1>6, <1>9, <2>1, <2>5, <2>6, PushFacts DEF IsCall
  <2>8. waitDep'[u] = NoWait /\ \A t \in TB \ {u} : waitDep'[t] = waitDep[t]
    BY <1>9, <2>1 DEF OrderInv, TypeOK
  <2>9. pending'[u] = 0 /\ started'[u]
    BY <1>4, <2>5
  <2>10. OnlyBlock(u)
    BY <1>4, <2>2, <2>4, <2>7, <2>8, <2>9 DEF OnlyBlock
  <2>11. StatusGrows
    BY <1>4, StatusStill
  <2> QED
    BY <1>4, <2>1, <2>10, <2>11, OneBlock
<1> QED
  BY <1>4, <1>7, <1>8, <1>9

LEMMA RunKeeps ==
    ASSUME OrderInv, TypeOK', NEW f \in Frame, NEW rest \in Seq(Frame), stack = <<f>> \o rest,
           Run(f, rest)
    PROVE  OrderInv'
<1>1. f.op # "notify" => ~AtEnd(f.tb)
  BY CallFacts
<1>2. CASE f.op = "start" /\ StartStep(f.tb, rest)
  BY <1>2, StartKeeps
<1>3. CASE f.op = "do" /\ DoStep(f.tb, rest)
  BY <1>3, DoKeeps
<1>4. CASE f.op = "complete" /\ CompleteStep(f.tb, rest)
  BY <1>4, CompleteKeeps
<1>5. CASE f.op = "advance" /\ Advance(f.tb, rest)
  BY <1>5, AdvanceOrder
<1>6. CASE f.op = "notify" /\ UpdateTBStatus(f, rest)
  BY <1>6, NotifyKeeps
<1> QED
  BY <1>1, <1>2, <1>3, <1>4, <1>5, <1>6 DEF Run

----------------------------------------------------------------------------
(***************************************************************************)
(* The events.                                                             *)
(***************************************************************************)

\* The step of ConsumedWhileWaiting
Waiting ==
    \A u \in TB :
        LET t == Peer[u]
        IN received'[u] > received[u] /\ pending'[t] > pending[t]
              => pending[t] = 0 /\ waitDep[t] = NoWait

\* An event of a block, which has no call in progress, puts one on the stack.
LEMMA FirstCall ==
    ASSUME NEW t \in TB, NEW op \in Op, op # "notify", stack = <<>>,
           stack' = <<Call(op, t)>>
    PROVE  /\ \A u \in TB \ {t} : /\ InCalls(stack', u) <=> InCalls(stack, u)
                                  /\ InStart(stack', u) <=> InStart(stack, u)
           /\ OneEach(stack') /\ \A status : Announces(stack', status)
           /\ op = "start" => InStart(stack', t)
<1> DEFINE c == Call(op, t)
<1>1. c \in Frame /\ c.op = op /\ c.tb = t
  BY DEF Call, Frame, Op
<1>2. <<>> \in Seq(Frame) /\ stack' = <<c>> \o <<>>
  BY <1>1
<1> HIDE DEF c
<1> DEFINE none == <<>>
<1>0. /\ \A u \in TB : InCalls(<<c>> \o none, u) <=> IsCall(c, u) \/ InCalls(none, u)
      /\ \A u \in TB : InStart(<<c>> \o none, u) <=> (c.op = "start" /\ c.tb = u) \/ InStart(none, u)
      /\ OneEach(<<c>> \o none) <=> OneEach(none) /\ (c.op # "notify" => ~InCalls(none, c.tb))
      /\ \A status : Announces(<<c>> \o none, status) <=>
            Announces(none, status) /\ (c.op = "notify" => status[c.tb] >= c.s)
  <2>1. none \in Seq(Frame)
    BY <1>2
  <2> HIDE DEF none
  <2> QED
    BY <1>1, <2>1, PushFacts
<1> HIDE DEF none
<1>3. \A u \in TB : /\ InCalls(stack', u) <=> IsCall(c, u)
                    /\ InStart(stack', u) <=> c.op = "start" /\ c.tb = u
                    /\ ~InCalls(stack, u) /\ ~InStart(stack, u)
  BY <1>0, <1>2, EmptyFacts DEF none
<1>4. OneEach(stack')
  BY <1>0, <1>1, <1>2, EmptyFacts DEF none
<1>5. ASSUME NEW status PROVE Announces(stack', status)
  <2>1. stack' = <<c>> \o none /\ Announces(none, status)
    BY <1>2, EmptyFacts DEF none
  <2> QED
    BY <1>0, <1>1, <2>1, Zenon
<1> QED
  BY <1>1, <1>3, <1>4, <1>5 DEF IsCall

LEMMA StartApplicationKeeps ==
    ASSUME OrderInv, TypeOK', NEW t \in TB, StartApplication(t)
    PROVE  OrderInv'
<1>1. /\ UNCHANGED <<cur, waitDep, pending, tbStatus, crashed>>
      /\ stack = <<>> /\ stack' = <<Call("start", t)>>
      /\ ~started[t] /\ started' = [started EXCEPT ![t] = TRUE]
  BY DEF StartApplication, Idle, gpuVars
<1>2. started'[t] /\ \A u \in TB \ {t} : started'[u] = started[u]
  BY <1>1 DEF OrderInv, TypeOK
<1>3. waitDep'[t] = NoWait /\ pending'[t] = 0
  BY <1>1 DEF OrderInv, Unstarted, Resting
<1>4. ~AtEnd(t)
  <2>1. cur[t] = 1
    BY <1>1 DEF OrderInv, Unstarted
  <2>2. Len(Steps[t]) \in Nat \ {0}
    BY ProgramAssumption
  <2> QED
    BY <2>1, <2>2 DEF AtEnd
<1>5. /\ \A u \in TB \ {t} : /\ InCalls(stack', u) <=> InCalls(stack, u)
                             /\ InStart(stack', u) <=> InStart(stack, u)
      /\ OneEach(stack') /\ Announces(stack', tbStatus') /\ InStart(stack', t)
  BY <1>1, FirstCall DEF Op
<1>6. OnlyBlock(t)
  BY <1>1, <1>2, <1>3, <1>4, <1>5 DEF OnlyBlock
<1>7. StatusGrows
  BY <1>1, StatusStill
<1> QED
  BY <1>1, <1>6, <1>7, OneBlock

\* A block with nothing on the stack whose step may run
LEMMA AtRest ==
    ASSUME OrderInv, stack = <<>>, NEW t \in TB, started[t], ~AtEnd(t), waitDep[t] = NoWait
    PROVE  Ready(CurStep(t))
BY EmptyFacts DEF OrderInv, ReadyNow

LEMMA FireKeeps ==
    ASSUME OrderInv, TypeOK', NEW t \in TB, FireCompleteStep(t)
    PROVE  OrderInv'
<1>1. /\ UNCHANGED <<started, cur, waitDep, tbStatus, crashed>>
      /\ stack = <<>> /\ stack' = <<Call("complete", t)>>
      /\ pending[t] > 0 /\ pending' = [pending EXCEPT ![t] = @ - 1] /\ started[t]
  BY DEF FireCompleteStep, Running, Idle, gpuVars
<1>2. pending[t] = 1 /\ pending'[t] = 0 /\ \A u \in TB \ {t} : pending'[u] = pending[u]
  <2>1. pending[t] <= 1 /\ pending \in [TB -> Nat]
    BY DEF OrderInv, Tokens, TypeOK
  <2> QED
    BY <1>1, <2>1
<1>3. ~AtEnd(t) /\ waitDep[t] = NoWait
  BY <1>2 DEF OrderInv, Resting
<1>4. Ready(CurStep(t))
  BY <1>1, <1>3, AtRest
<1>5. /\ \A u \in TB \ {t} : /\ InCalls(stack', u) <=> InCalls(stack, u)
                             /\ InStart(stack', u) <=> InStart(stack, u)
      /\ OneEach(stack') /\ Announces(stack', tbStatus')
  BY <1>1, FirstCall DEF Op
<1>6. OnlyBlock(t)
  BY <1>1, <1>2, <1>3, <1>4, <1>5 DEF OnlyBlock
<1>7. StatusGrows
  BY <1>1, StatusStill
<1> QED
  BY <1>1, <1>6, <1>7, OneBlock

LEMMA RecvKeeps ==
    ASSUME OrderInv, TypeOK', NEW u \in TB, RecvMessageDone(u), Waiting
    PROVE  OrderInv'
<1> DEFINE t == Peer[u]
<1>1. /\ UNCHANGED <<started, cur, waitDep, tbStatus, crashed, stack>>
      /\ stack = <<>> /\ t \in TB /\ started[t]
      /\ received' = [received EXCEPT ![u] = @ + 1]
  BY DEF RecvMessageDone, Running, Idle, gpuVars
<1>2. pending \in [TB -> Nat] /\ received \in [TB -> Nat]
  BY DEF OrderInv, TypeOK
<1>3. OneEach(stack') /\ Announces(stack', tbStatus')
  BY <1>1, EmptyFacts
<1>4. (pending' = pending) \/ (~AtEnd(t) /\ ScheduleComplete(t))
  BY DEF RecvMessageDone, ConsumeMessage
<1>5. Waiting /\ u \in TB
  OBVIOUS
<1>6. received'[u] > received[u] /\ pending'[t] > pending[t]
        => pending[t] = 0 /\ waitDep[t] = NoWait
  BY <1>5 DEF Waiting
<1> HIDE DEF t
<1>7. CASE pending' = pending
  BY <1>1, <1>3, <1>7, NoBlock
<1>8. CASE ~AtEnd(t) /\ ScheduleComplete(t)
  <2>1. /\ pending'[t] = pending[t] + 1 /\ \A v \in TB \ {t} : pending'[v] = pending[v]
        /\ received'[u] = received[u] + 1
    BY <1>1, <1>2, <1>8 DEF ScheduleComplete
  <2>2. pending'[t] = 1 /\ waitDep[t] = NoWait
    BY <1>1, <1>2, <1>6, <2>1
  <2>3. Ready(CurStep(t))
    BY <1>1, <1>8, <2>2, AtRest
  <2>4. ~InCalls(stack', t)
    BY <1>1, EmptyFacts
  <2>5. OnlyBlock(t)
    BY <1>1, <1>3, <1>8, <2>1, <2>2, <2>3, <2>4 DEF OnlyBlock
  <2>6. StatusGrows
    BY <1>1, StatusStill
  <2> QED
    BY <1>1, <2>5, <2>6, OneBlock
<1> QED
  BY <1>4, <1>7, <1>8

LEMMA OrderStep ==
    ASSUME OrderInv, [Next]_vars, [Waiting]_vars
    PROVE  OrderInv'
<1>1. TypeOK /\ TypeOK'
  BY TypeStep DEF OrderInv
<1>2. CASE UNCHANGED vars
  <2>1. UNCHANGED <<started, cur, waitDep, pending, tbStatus, stack, crashed>>
    BY <1>2 DEF vars, tbVars, gpuVars
  <2>2. OneEach(stack') /\ Announces(stack', tbStatus)
    BY <2>1 DEF OrderInv, Tokens, Status
  <2> QED
    BY <1>1, <2>1, <2>2, NoBlock
<1>3. CASE Execute
  <2>1. stack # <<>>
    BY <1>3 DEF Execute
  <2>2. /\ Head(stack) \in Frame /\ Tail(stack) \in Seq(Frame)
        /\ Run(Head(stack), Tail(stack)) /\ stack = <<Head(stack)>> \o Tail(stack)
    BY <1>1, <1>3, <2>1, TopFrame, StackFacts
  <2> QED
    BY <1>1, <2>2, RunKeeps
<1>4. ASSUME NEW t \in TB, Event(t), Waiting PROVE OrderInv'
  <2>1. CASE SendMessageDone(t)
    <3>1. UNCHANGED <<started, cur, waitDep, pending, tbStatus, stack, crashed>>
      BY <2>1 DEF SendMessageDone
    <3>2. OneEach(stack') /\ Announces(stack', tbStatus)
      BY <3>1 DEF OrderInv, Tokens, Status
    <3> QED
      BY <1>1, <3>1, <3>2, NoBlock
  <2> QED
    BY <1>1, <1>4, <2>1, StartApplicationKeeps, FireKeeps, RecvKeeps DEF Event
<1> QED
  BY <1>2, <1>3, <1>4 DEF Next

LEMMA OrderInit == ASSUME Init PROVE OrderInv
<1>1. TypeOK
  BY TypeInit
<1>2. /\ stack = <<>> /\ crashed = FALSE
      /\ \A t \in TB : /\ started[t] = FALSE /\ cur[t] = 1 /\ waitDep[t] = NoWait
                       /\ pending[t] = 0 /\ tbStatus[t] = 0
  BY DEF Init
<1>3. \A t \in TB : pending[t] <= 1 /\ tbStatus[t] <= cur[t] /\ ~InCalls(stack, t)
  BY <1>2, EmptyFacts
<1>4. Tokens /\ Status
  BY <1>2, <1>3, EmptyFacts DEF Tokens, Status
<1>5. Resting /\ Unstarted /\ Latched /\ ReadyNow
  BY <1>2, <1>3 DEF Resting, Unstarted, Latched, ReadyNow
<1>6. DependencyOrder /\ NoCrash
  BY <1>2 DEF DependencyOrder, NoCrash
<1> QED
  BY <1>1, <1>4, <1>5, <1>6 DEF OrderInv

LEMMA OrderKept == Spec /\ ConsumedWhileWaiting => []OrderInv
<1>1. Init => OrderInv
  BY OrderInit
<1>2. OrderInv /\ [Next]_vars /\ [Waiting]_vars => OrderInv'
  BY OrderStep
<1>3. ConsumedWhileWaiting <=> [][Waiting]_vars
  BY DEF ConsumedWhileWaiting, Waiting
<1> QED
  BY <1>1, <1>2, <1>3, PTL DEF Spec

\* If messages were consumed only by a step that waits for one, every step
\* would be completed after the step it depends on has been announced, for
\* every program and every timing (CheckDep, GPUNode::UpdateTBStatus).
THEOREM OrderIfWaiting == Spec /\ ConsumedWhileWaiting => []DependencyOrder
<1>1. OrderInv => DependencyOrder
  BY DEF OrderInv
<1> QED
  BY <1>1, OrderKept, PTL

\* Under the same condition m_currentStep is never dereferenced at
\* m_steps.end(), however deep the notifications nest (CompleteStep, StartStep).
THEOREM NoCrashIfWaiting == Spec /\ ConsumedWhileWaiting => []NoCrash
<1>1. OrderInv => NoCrash
  BY DEF OrderInv
<1> QED
  BY <1>1, OrderKept, PTL

\* Under the same condition no block ever has two CompleteStep events scheduled.
THEOREM OneCompletionIfWaiting == Spec /\ ConsumedWhileWaiting => []OneCompletion
<1>1. OrderInv => OneCompletion
  BY DEF OrderInv, Tokens, OneCompletion
<1> QED
  BY <1>1, OrderKept, PTL

----------------------------------------------------------------------------
(***************************************************************************)
(* What a block has sent.  It is what its program says up to the current   *)
(* step, and that step counts once its action has run: it is then being    *)
(* completed, by a scheduled event or by a call (Sent).                    *)
(***************************************************************************)
SendTypes == RecvAndSend \cup {"s"}
SendsUpTo(t, n) == {k \in DOMAIN Steps[t] : Steps[t][k].type \in SendTypes /\ k <= n}

InDone(q, t) == \E i \in DOMAIN q : q[i].op \in {"complete", "advance"} /\ q[i].tb = t
Acted(t) == pending[t] > 0 \/ InDone(stack, t)
Sent(t) == ~AtEnd(t) /\ CurStep(t).type \in SendTypes /\ Acted(t)

SentRight(t) ==
    pushed[t] = Cardinality(SendsUpTo(t, cur[t] - 1)) + IF Sent(t) THEN 1 ELSE 0
SendInv == \A t \in TB : SentRight(t)

LEMMA DonePush ==
    ASSUME NEW f \in Frame, NEW q \in Seq(Frame), NEW t \in TB
    PROVE  InDone(<<f>> \o q, t) <=> (f.op \in {"complete", "advance"} /\ f.tb = t) \/ InDone(q, t)
<1> DEFINE p == <<f>> \o q
<1>1. /\ Len(q) \in Nat /\ DOMAIN q = 1 .. Len(q)
      /\ DOMAIN p = 1 .. Len(q) + 1
      /\ p[1] = f /\ \A i \in 1 .. Len(q) : p[i + 1] = q[i]
  OBVIOUS
<1> HIDE DEF p
<1>2. \A i \in DOMAIN p : i = 1 \/ (i - 1 \in DOMAIN q /\ p[i] = q[i - 1])
  <2>1. ASSUME NEW i \in DOMAIN p, i # 1 PROVE i - 1 \in DOMAIN q /\ p[i] = q[i - 1]
    <3>1. i - 1 \in 1 .. Len(q) /\ (i - 1) + 1 = i
      BY <1>1, <2>1
    <3> QED
      BY <1>1, <3>1
  <2> QED
    BY <2>1
<1>3. 1 \in DOMAIN p /\ \A i \in DOMAIN q : i + 1 \in DOMAIN p /\ p[i + 1] = q[i]
  BY <1>1
<1>4. InDone(p, t) => (f.op \in {"complete", "advance"} /\ f.tb = t) \/ InDone(q, t)
  BY <1>1, <1>2, Zenon DEF InDone
<1>5. (f.op \in {"complete", "advance"} /\ f.tb = t) \/ InDone(q, t) => InDone(p, t)
  BY <1>1, <1>3, Zenon DEF InDone
<1> QED
  BY <1>4, <1>5 DEF p

LEMMA DoneIsCall == ASSUME NEW q, NEW t, InDone(q, t) PROVE InCalls(q, t)
BY DEF InDone, InCalls, IsCall

LEMMA DoneEmpty == \A t \in TB : ~InDone(<<>>, t)
BY DEF InDone

\* One more step of the program
LEMMA NextSend ==
    ASSUME NEW t \in TB, NEW n \in 1 .. Len(Steps[t])
    PROVE  /\ IsFiniteSet(SendsUpTo(t, n)) /\ Cardinality(SendsUpTo(t, n - 1)) \in Nat
           /\ Cardinality(SendsUpTo(t, n)) = Cardinality(SendsUpTo(t, n - 1)) +
                IF Steps[t][n].type \in SendTypes THEN 1 ELSE 0
<1>1. /\ Steps[t] \in Seq(Step) /\ Len(Steps[t]) \in Nat /\ DOMAIN Steps[t] = 1 .. Len(Steps[t])
  BY ProgramAssumption
<1>2. \A m \in Int : IsFiniteSet(SendsUpTo(t, m)) /\ Cardinality(SendsUpTo(t, m)) \in Nat
  <2>1. IsFiniteSet(1 .. Len(Steps[t]))
    BY <1>1, FS_Interval
  <2> QED
    BY <1>1, <2>1, FS_Subset, FS_CardinalityType DEF SendsUpTo
<1>3. CASE Steps[t][n].type \in SendTypes
  <2>1. SendsUpTo(t, n) = SendsUpTo(t, n - 1) \cup {n} /\ n \notin SendsUpTo(t, n - 1)
    BY <1>1, <1>3 DEF SendsUpTo
  <2>2. IsFiniteSet(SendsUpTo(t, n - 1)) /\ Cardinality(SendsUpTo(t, n - 1)) \in Nat
    <3>1. n - 1 \in Int
      BY <1>1
    <3> QED
      BY <1>2, <3>1, Zenon
  <2>3. IsFiniteSet(SendsUpTo(t, n))
        /\ Cardinality(SendsUpTo(t, n)) = Cardinality(SendsUpTo(t, n - 1)) + 1
    BY <2>1, <2>2, FS_AddElement
  <2> QED
    BY <1>3, <2>2, <2>3
<1>4. CASE Steps[t][n].type \notin SendTypes
  <2>1. SendsUpTo(t, n) = SendsUpTo(t, n - 1)
    BY <1>1, <1>4 DEF SendsUpTo
  <2> QED
    BY <1>2, <1>4, <2>1
<1> QED
  BY <1>3, <1>4

\* A step that concerns one block
LEMMA SendOne ==
    ASSUME SendInv, NEW t \in TB, SentRight(t)',
           \A u \in TB \ {t} : /\ cur'[u] = cur[u] /\ pending'[u] = pending[u]
                               /\ pushed'[u] = pushed[u]
                               /\ InDone(stack', u) <=> InDone(stack, u)
    PROVE  SendInv'
<1>1. ASSUME NEW u \in TB \ {t} PROVE SentRight(u)'
  <2>1. SentRight(u)
    BY DEF SendInv
  <2>2. Sent(u)' <=> Sent(u)
    BY DEF Sent, Acted, AtEnd, CurStep
  <2> QED
    BY <2>1, <2>2 DEF SentRight
<1> QED
  BY <1>1 DEF SendInv

\* Nothing that matters changes.
LEMMA SendSame ==
    ASSUME SendInv, UNCHANGED <<cur, pending, pushed>>,
           \A u \in TB : InDone(stack', u) <=> InDone(stack, u)
    PROVE  SendInv'
<1>1. \A u \in TB : Sent(u)' <=> Sent(u)
  BY DEF Sent, Acted, AtEnd, CurStep
<1> QED
  BY <1>1 DEF SendInv, SentRight

LEMMA RunSends ==
    ASSUME OrderInv, TypeOK', SendInv, NEW f \in Frame, NEW rest \in Seq(Frame),
           stack = <<f>> \o rest, f.op # "notify", Run(f, rest)
    PROVE  SendInv'
<1> DEFINE t == f.tb
<1>1. /\ t \in TB /\ ~AtEnd(t) /\ pending[t] = 0 /\ ~InCalls(rest, t)
  BY CallFacts
<1>2. ~InDone(rest, t)
  BY <1>1, DoneIsCall
<1>3. /\ \A u \in TB \ {t} : InDone(stack, u) <=> InDone(rest, u)
      /\ InDone(stack, t) <=> f.op \in {"complete", "advance"}
  BY <1>1, <1>2, DonePush
<1>4. cur[t] \in 1 .. Len(Steps[t])
  BY <1>1, CurrentStep DEF OrderInv
<1>5. SentRight(t) /\ pushed[t] \in Nat /\ Cardinality(SendsUpTo(t, cur[t] - 1)) \in Nat
  BY <1>1, <1>4, NextSend DEF SendInv, OrderInv, TypeOK
<1>6. \A op \in Op : op # "notify" => Call(op, t) \in Frame /\ Call(op, t).op = op /\ Call(op, t).tb = t
  BY <1>1 DEF Call, Frame, Op
<1>7. pushed \in [TB -> Nat] /\ pending \in [TB -> Nat] /\ cur \in [TB -> Nat]
  BY DEF OrderInv, TypeOK
<1> HIDE DEF t
<1>12. \A u \in TB : /\ InDone(<<Call("do", t)>> \o rest, u) <=> InDone(rest, u)
                     /\ InDone(<<Call("start", t)>> \o rest, u) <=> InDone(rest, u)
  <2>1. /\ Call("do", t) \in Frame /\ Call("do", t).op = "do"
        /\ Call("start", t) \in Frame /\ Call("start", t).op = "start"
    BY <1>6 DEF Op
  <2> QED
    BY <2>1, DonePush
<1>8. CASE f.op = "start" /\ StartStep(f.tb, rest)
  <2>1. UNCHANGED <<cur, pending, pushed>> /\ (stack' = rest \/ stack' = <<Call("do", t)>> \o rest)
    BY <1>8 DEF StartStep, chanVars, t
  <2>2. \A u \in TB : InDone(stack', u) <=> InDone(rest, u)
    BY <1>12, <2>1
  <2>3. \A u \in TB : InDone(stack', u) <=> InDone(stack, u)
    BY <1>2, <1>3, <1>8, <2>2
  <2> QED
    BY <2>1, <2>3, SendSame
<1>9. CASE f.op = "complete" /\ CompleteStep(f.tb, rest)
  <2> DEFINE adv == <<Call("advance", t)>> \o rest
             n == Notify(t, cur[t], 1)
  <2>1. /\ UNCHANGED <<cur, pending, pushed>>
        /\ stack' = adv \/ stack' = <<n, Call("advance", t)>> \o rest
    BY <1>9 DEF CompleteStep, tbVars, chanVars, t
  <2>2. adv \in Seq(Frame) /\ \A u \in TB : InDone(adv, u) <=> u = t \/ InDone(rest, u)
    BY <1>6, DonePush DEF Op
  <2>3. n \in Frame /\ n.op = "notify"
    BY <1>1, <1>7 DEF Notify, Frame
  <2>4. <<n, Call("advance", t)>> \o rest = <<n>> \o adv
    BY <1>6, <2>3 DEF Op
  <2> HIDE DEF n, adv
  <2>5. \A u \in TB : InDone(stack', u) <=> InDone(adv, u)
    BY <2>1, <2>2, <2>3, <2>4, DonePush
  <2>6. \A u \in TB : InDone(stack', u) <=> InDone(stack, u)
    BY <1>1, <1>2, <1>3, <1>9, <2>2, <2>5
  <2> QED
    BY <2>1, <2>6, SendSame
<1>10. CASE f.op = "advance" /\ Advance(f.tb, rest)
  <2>1. /\ UNCHANGED <<pending, pushed>> /\ cur' = [cur EXCEPT ![t] = @ + 1]
        /\ stack' = rest \/ stack' = <<Call("start", t)>> \o rest
    BY <1>10 DEF Advance, chanVars, t
  <2>2. \A u \in TB : InDone(stack', u) <=> InDone(rest, u)
    BY <1>12, <2>1
  <2>3. cur'[t] = cur[t] + 1 /\ \A u \in TB \ {t} : cur'[u] = cur[u]
    BY <1>1, <1>7, <2>1
  <2>4. ~Sent(t)'
    BY <1>1, <1>2, <2>1, <2>2 DEF Sent, Acted
  <2>5. Sent(t) <=> Steps[t][cur[t]].type \in SendTypes
    BY <1>1, <1>3, <1>10 DEF Sent, Acted, CurStep
  <2>6. Cardinality(SendsUpTo(t, cur[t])) = Cardinality(SendsUpTo(t, cur[t] - 1)) +
            IF Steps[t][cur[t]].type \in SendTypes THEN 1 ELSE 0
    BY <1>1, <1>4, NextSend
  <2>7. pushed[t] = Cardinality(SendsUpTo(t, cur[t]))
    BY <1>5, <2>5, <2>6 DEF SentRight
  <2>8. pushed'[t] = Cardinality(SendsUpTo(t, cur'[t] - 1)) + 0
    <3>1. cur'[t] - 1 = cur[t] /\ pushed[t] + 0 = pushed[t]
      BY <1>4, <1>5, <2>3
    <3> QED
      BY <2>1, <2>7, <3>1
  <2>9. SentRight(t)'
    BY <2>4, <2>8 DEF SentRight
  <2>10. \A u \in TB \ {t} : /\ cur'[u] = cur[u] /\ pending'[u] = pending[u]
                             /\ pushed'[u] = pushed[u]
                             /\ InDone(stack', u) <=> InDone(stack, u)
    BY <1>3, <2>1, <2>2, <2>3
  <2> QED
    BY <1>1, <2>9, <2>10, SendOne
\* The action of the step sends, or it is not a sending step, or it waits.
<1>11. CASE f.op = "do" /\ DoStep(f.tb, rest)
  <2>1. ~Sent(t) /\ pushed[t] = Cardinality(SendsUpTo(t, cur[t] - 1))
    BY <1>1, <1>3, <1>5, <1>11 DEF Sent, Acted, SentRight
  <2>2. cur' = cur /\ (AtEnd(t)' <=> AtEnd(t)) /\ CurStep(t)' = CurStep(t)
    BY <1>11 DEF DoStep, AtEnd, CurStep
  <2>3. \/ /\ CurStep(t).type \notin SendTypes
           /\ pushed' = pushed
           /\ \/ pending' = pending /\ (stack' = rest \/ stack' = <<Call("complete", t)>> \o rest)
              \/ ScheduleComplete(t) /\ stack' = rest
        \/ pushed' = pushed /\ pending' = pending /\ stack' = rest
        \/ /\ CurStep(t).type \in SendTypes
           /\ pushed' = [pushed EXCEPT ![t] = @ + 1]
           /\ ScheduleComplete(t) /\ stack' = rest
    BY <1>11 DEF DoStep, ConsumeMessage, SendMessage, SendTypes, RecvTypes, RecvAndSend, t
  <2>4. /\ \A u \in TB \ {t} : InDone(stack', u) <=> InDone(rest, u)
        /\ stack' = rest => ~InDone(stack', t)
    <3>1. Call("complete", t) \in Frame /\ Call("complete", t).tb = t
      BY <1>6 DEF Op
    <3>2. \A u \in TB \ {t} : InDone(<<Call("complete", t)>> \o rest, u) <=> InDone(rest, u)
      BY <3>1, DonePush
    <3> QED
      BY <1>2, <2>3, <3>2
  <2>5. \A u \in TB \ {t} : pending'[u] = pending[u] /\ pushed'[u] = pushed[u]
    BY <1>1, <1>7, <2>3 DEF ScheduleComplete
  <2>6. SentRight(t)'
    <3>1. CASE CurStep(t).type \notin SendTypes /\ pushed' = pushed
      <4>1. ~Sent(t)'
        BY <2>2, <3>1 DEF Sent
      <4> QED
        BY <1>5, <2>1, <2>2, <3>1, <4>1 DEF SentRight
    <3>2. CASE pushed' = pushed /\ pending' = pending /\ stack' = rest
      <4>1. ~Sent(t)'
        BY <1>1, <2>4, <3>2 DEF Sent, Acted
      <4> QED
        BY <1>5, <2>1, <2>2, <3>2, <4>1 DEF SentRight
    <3>3. CASE /\ CurStep(t).type \in SendTypes
               /\ pushed' = [pushed EXCEPT ![t] = @ + 1]
               /\ ScheduleComplete(t) /\ stack' = rest
      <4>1. pending'[t] > 0 /\ pushed'[t] = pushed[t] + 1
        BY <1>1, <1>7, <3>3 DEF ScheduleComplete
      <4>2. Sent(t)'
        BY <1>1, <2>2, <3>3, <4>1 DEF Sent, Acted
      <4> QED
        BY <1>5, <2>1, <2>2, <4>1, <4>2 DEF SentRight
    <3> QED
      BY <2>3, <3>1, <3>2, <3>3
  <2> QED
    BY <1>1, <1>3, <2>2, <2>4, <2>5, <2>6, SendOne
<1> QED
  BY <1>1, <1>8, <1>9, <1>10, <1>11 DEF Run, t

LEMMA NotifySends ==
    ASSUME OrderInv, SendInv, NEW f \in Frame, NEW rest \in Seq(Frame),
           stack = <<f>> \o rest, f.op = "notify", UpdateTBStatus(f, rest)
    PROVE  SendInv'
<1> DEFINE u == Blocks[Node[f.tb]][f.i]
           n == Notify(f.tb, f.s, f.i + 1)
           more == <<n>> \o rest
<1>1. f.tb \in TB /\ f.s \in Nat /\ f.i \in Nat \ {0}
  BY DEF Frame
<1>2. n \in Frame /\ n.op = "notify"
  BY <1>1 DEF Notify, Frame
<1>3. /\ UNCHANGED <<cur, pending, pushed>>
      /\ \/ stack' = rest
         \/ stack' = more
         \/ f.i <= Len(Blocks[Node[f.tb]]) /\ stack' = <<Call("do", u)>> \o more
  BY DEF UpdateTBStatus, WaitOver, tbVars, chanVars
<1>4. f.i <= Len(Blocks[Node[f.tb]]) => u \in TB
  <2>1. Blocks[Node[f.tb]] \in Seq(TB)
    BY <1>1, ProgramAssumption
  <2> QED
    BY <1>1, <2>1
<1>5. u \in TB => Call("do", u) \in Frame /\ Call("do", u).op = "do"
  BY DEF Call, Frame
<1> HIDE DEF n, u
<1>6. more \in Seq(Frame) /\ \A t \in TB : InDone(more, t) <=> InDone(rest, t)
  BY <1>2, DonePush
<1>7. \A t \in TB : InDone(stack, t) <=> InDone(rest, t)
  BY DonePush
<1> HIDE DEF more
<1>8. \A t \in TB : InDone(stack', t) <=> InDone(rest, t)
  <2>1. CASE stack' = rest
    BY <2>1
  <2>2. CASE stack' = more
    BY <1>6, <2>2
  <2>3. CASE f.i <= Len(Blocks[Node[f.tb]]) /\ stack' = <<Call("do", u)>> \o more
    BY <1>4, <1>5, <1>6, <2>3, DonePush
  <2> QED
    BY <1>3, <2>1, <2>2, <2>3
<1> QED
  BY <1>3, <1>7, <1>8, SendSame

\* An event puts one call, or none, on the empty stack.
LEMMA FirstDone ==
    ASSUME NEW t \in TB, NEW op \in Op, op # "notify"
    PROVE  \A u \in TB : InDone(<<Call(op, t)>>, u) <=> op \in {"complete", "advance"} /\ u = t
<1> DEFINE c == Call(op, t)
<1>1. c \in Frame /\ c.op = op /\ c.tb = t
  BY DEF Call, Frame, Op
<1>2. Len(<<c>>) = 1 /\ DOMAIN <<c>> = {1} /\ <<c>>[1] = c
  OBVIOUS
<1> HIDE DEF c
<1>3. \A u \in TB : InDone(<<c>>, u) <=> op \in {"complete", "advance"} /\ u = t
  BY <1>1, <1>2, Zenon DEF InDone
<1> QED
  BY <1>3 DEF c

LEMMA EventSends ==
    ASSUME OrderInv, TypeOK', SendInv, NEW v \in TB, Event(v), Waiting
    PROVE  SendInv'
<1>1. pushed \in [TB -> Nat] /\ pending \in [TB -> Nat] /\ cur \in [TB -> Nat] /\ received \in [TB -> Nat]
  BY DEF OrderInv, TypeOK
<1>2. CASE StartApplication(v)
  <2>1. UNCHANGED <<cur, pending, pushed>> /\ stack = <<>> /\ stack' = <<Call("start", v)>>
    BY <1>2 DEF StartApplication, Idle, chanVars
  <2>2. \A u \in TB : InDone(stack', u) <=> InDone(stack, u)
    BY <2>1, FirstDone, DoneEmpty DEF Op
  <2> QED
    BY <2>1, <2>2, SendSame
<1>3. CASE FireCompleteStep(v)
  <2>1. /\ UNCHANGED <<cur, pushed>> /\ stack = <<>> /\ stack' = <<Call("complete", v)>>
        /\ pending[v] > 0 /\ pending' = [pending EXCEPT ![v] = @ - 1]
    BY <1>3 DEF FireCompleteStep, Running, Idle, chanVars
  <2>2. /\ \A u \in TB \ {v} : InDone(stack', u) <=> InDone(stack, u)
        /\ InDone(stack', v)
    BY <2>1, FirstDone, DoneEmpty DEF Op
  <2>3. Sent(v)' <=> Sent(v)
    BY <2>1, <2>2 DEF Sent, Acted, AtEnd, CurStep
  <2>4. SentRight(v)'
    BY <2>1, <2>3 DEF SendInv, SentRight
  <2>5. \A u \in TB \ {v} : pending'[u] = pending[u]
    BY <1>1, <2>1
  <2> QED
    BY <2>1, <2>2, <2>4, <2>5, SendOne
<1>4. CASE SendMessageDone(v)
  <2>1. UNCHANGED <<cur, pending, pushed, stack>>
    BY <1>4 DEF SendMessageDone, Channel!TxComplete
  <2> QED
    BY <2>1, SendSame
<1>5. CASE RecvMessageDone(v)
  <2> DEFINE t == Peer[v]
  <2>1. /\ UNCHANGED <<cur, stack>> /\ stack = <<>> /\ t \in TB
        /\ received' = [received EXCEPT ![v] = @ + 1]
        /\ \/ UNCHANGED <<pending, pushed>>
           \/ ~AtEnd(t) /\ CurStep(t).type \in RecvTypes /\ ConsumeMessage(t)
    BY <1>5 DEF RecvMessageDone, Running, Idle
  <2>2. received'[v] > received[v] /\ pending'[t] > pending[t] => pending[t] = 0
    BY DEF Waiting
  <2> HIDE DEF t
  <2>3. CASE UNCHANGED <<pending, pushed>>
    BY <2>1, <2>3, SendSame
  <2>4. CASE ~AtEnd(t) /\ CurStep(t).type \in RecvTypes /\ ConsumeMessage(t)
    <3>1. /\ pending'[t] = pending[t] + 1 /\ \A u \in TB \ {t} : pending'[u] = pending[u]
          /\ received'[v] = received[v] + 1
      BY <1>1, <2>1, <2>4 DEF ConsumeMessage, ScheduleComplete
    <3>2. pending[t] = 0 /\ pending'[t] = 1
      BY <1>1, <2>1, <2>2, <3>1
    <3>3. ~Sent(t)
      BY <2>1, <3>2, DoneEmpty DEF Sent, Acted
    <3>4. (AtEnd(t)' <=> AtEnd(t)) /\ CurStep(t)' = CurStep(t)
      BY <2>1 DEF AtEnd, CurStep
    <3>5. Sent(t)' <=> CurStep(t).type \in SendTypes
      BY <2>4, <3>2, <3>4 DEF Sent, Acted
    <3>6. CurStep(t).type \in SendTypes <=> CurStep(t).type \in RecvAndSend
      BY <2>4 DEF SendTypes, RecvTypes, RecvAndSend
    <3>7. IF CurStep(t).type \in RecvAndSend THEN pushed' = [pushed EXCEPT ![t] = @ + 1]
                                             ELSE pushed' = pushed
      BY <2>4 DEF ConsumeMessage, SendMessage
    <3>8. /\ pushed'[t] = pushed[t] + IF Sent(t)' THEN 1 ELSE 0
          /\ \A u \in TB \ {t} : pushed'[u] = pushed[u]
      BY <1>1, <2>1, <3>5, <3>6, <3>7
    <3>9. pushed[t] = Cardinality(SendsUpTo(t, cur[t] - 1))
      <4>1. SentRight(t) /\ cur[t] \in 1 .. Len(Steps[t])
        BY <2>1, <2>4, CurrentStep DEF SendInv, OrderInv
      <4>2. Cardinality(SendsUpTo(t, cur[t] - 1)) \in Nat
        BY <2>1, <4>1, NextSend
      <4> QED
        BY <3>3, <4>1, <4>2 DEF SentRight
    <3>10. SentRight(t)'
      BY <2>1, <3>8, <3>9 DEF SentRight
    <3> QED
      BY <2>1, <3>1, <3>8, <3>10, SendOne
  <2> QED
    BY <2>1, <2>3, <2>4
<1> QED
  BY <1>2, <1>3, <1>4, <1>5 DEF Event

LEMMA SendStep ==
    ASSUME OrderInv, SendInv, [Next]_vars, [Waiting]_vars
    PROVE  SendInv'
<1>1. TypeOK /\ TypeOK'
  BY TypeStep DEF OrderInv
<1>2. CASE UNCHANGED vars
  <2>1. UNCHANGED <<cur, pending, pushed, stack>>
    BY <1>2 DEF vars, tbVars, chanVars
  <2> QED
    BY <2>1, SendSame
<1>3. CASE Execute
  <2>1. stack # <<>>
    BY <1>3 DEF Execute
  <2>2. /\ Head(stack) \in Frame /\ Tail(stack) \in Seq(Frame)
        /\ Run(Head(stack), Tail(stack)) /\ stack = <<Head(stack)>> \o Tail(stack)
    BY <1>1, <1>3, <2>1, TopFrame, StackFacts
  <2>3. CASE Head(stack).op = "notify"
    <3>1. UpdateTBStatus(Head(stack), Tail(stack))
      BY <2>2, <2>3 DEF Run
    <3> QED
      BY <2>2, <2>3, <3>1, NotifySends
  <2>4. CASE Head(stack).op # "notify"
    BY <1>1, <2>2, <2>4, RunSends
  <2> QED
    BY <2>3, <2>4
<1>4. ASSUME NEW t \in TB, Event(t), Waiting PROVE SendInv'
  BY <1>1, <1>4, EventSends
<1> QED
  BY <1>2, <1>3, <1>4 DEF Next

LEMMA SendInit == ASSUME Init PROVE SendInv
<1> SUFFICES ASSUME NEW t \in TB PROVE SentRight(t)
  BY DEF SendInv
<1>1. cur[t] = 1 /\ pending[t] = 0 /\ stack = <<>> /\ pushed[t] = 0
  BY DEF Init, Channel!ChanInit
<1>2. ~Sent(t)
  BY <1>1, DoneEmpty DEF Sent, Acted
<1>3. SendsUpTo(t, 0) = {}
  BY ProgramAssumption DEF SendsUpTo
<1>4. Cardinality(SendsUpTo(t, cur[t] - 1)) = 0
  <2>1. cur[t] - 1 = 0
    BY <1>1
  <2> QED
    BY <1>3, <2>1, FS_EmptySet
<1> QED
  BY <1>1, <1>2, <1>4 DEF SentRight

\* Under the same condition a block sends neither more nor fewer messages than its
\* program says, although a step may send from DoStep or from RecvMessageDone.
THEOREM SendsIfWaiting == Spec /\ ConsumedWhileWaiting => []SendsFollowProgram
<1>1. Init => SendInv
  BY SendInit
<1>2. OrderInv /\ SendInv /\ [Next]_vars /\ [Waiting]_vars => SendInv'
  BY SendStep
<1>3. ConsumedWhileWaiting <=> [][Waiting]_vars
  BY DEF ConsumedWhileWaiting, Waiting
<1>4. ASSUME OrderInv, SendInv PROVE SendsFollowProgram
  <2> SUFFICES ASSUME NEW t \in TB
               PROVE  LET sends == {k \in DOMAIN Steps[t] : Steps[t][k].type \in SendTypes}
                      IN /\ pushed[t] <= Cardinality({k \in sends : k <= cur[t]})
                         /\ AtEnd(t) => pushed[t] = Cardinality(sends)
    BY DEF SendsFollowProgram, SendTypes
  <2> DEFINE sends == {k \in DOMAIN Steps[t] : Steps[t][k].type \in SendTypes}
  <2>1. /\ DOMAIN Steps[t] = 1 .. Len(Steps[t]) /\ Len(Steps[t]) \in Nat \ {0}
        /\ cur[t] \in 1 .. Len(Steps[t]) + 1 /\ SentRight(t)
    BY <1>4, ProgramAssumption DEF OrderInv, TypeOK, SendInv
  <2>2. {k \in sends : k <= cur[t]} = SendsUpTo(t, cur[t])
    BY DEF SendsUpTo
  <2>3. CASE ~AtEnd(t)
    <3>1. cur[t] \in 1 .. Len(Steps[t])
      BY <2>1, <2>3 DEF AtEnd
    <3>2. /\ Cardinality(SendsUpTo(t, cur[t] - 1)) \in Nat
          /\ Cardinality(SendsUpTo(t, cur[t])) = Cardinality(SendsUpTo(t, cur[t] - 1)) +
                IF CurStep(t).type \in SendTypes THEN 1 ELSE 0
      BY <3>1, NextSend DEF CurStep
    <3>3. Sent(t) => CurStep(t).type \in SendTypes
      BY DEF Sent
    <3>4. pushed[t] <= Cardinality(SendsUpTo(t, cur[t]))
      BY <2>1, <3>2, <3>3 DEF SentRight
    <3> QED
      BY <2>2, <2>3, <3>4
  <2>4. CASE AtEnd(t)
    <3>1. cur[t] = Len(Steps[t]) + 1 /\ ~Sent(t)
      BY <2>4 DEF AtEnd, Sent
    <3>2. SendsUpTo(t, cur[t]) = sends /\ SendsUpTo(t, cur[t] - 1) = sends
      BY <2>1, <3>1 DEF SendsUpTo
    <3>3. Cardinality(sends) \in Nat
      <4>1. Len(Steps[t]) \in 1 .. Len(Steps[t])
        BY <2>1
      <4>2. IsFiniteSet(SendsUpTo(t, Len(Steps[t])))
        BY <4>1, NextSend
      <4>3. SendsUpTo(t, Len(Steps[t])) = sends
        BY <2>1 DEF SendsUpTo
      <4> QED
        BY <4>2, <4>3, FS_CardinalityType
    <3> HIDE DEF sends
    <3>4. pushed[t] = Cardinality(sends)
      BY <2>1, <3>1, <3>2, <3>3 DEF SentRight
    <3>5. pushed[t] <= Cardinality(SendsUpTo(t, cur[t]))
      BY <3>2, <3>3, <3>4
    <3> QED
      BY <2>2, <3>4, <3>5 DEF sends
  <2> QED
    BY <2>3, <2>4
<1> QED
  BY <1>1, <1>2, <1>3, <1>4, OrderKept, PTL DEF Spec
=============================================================================
