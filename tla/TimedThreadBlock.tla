-------------------------- MODULE TimedThreadBlock --------------------------
(***************************************************************************)
(* ThreadBlock with the delays of the code.  A scheduled CompleteStep      *)
(* fires exactly when its delay has passed, so a message and a step in     *)
(* progress can only race when the message comes soon enough.  How soon    *)
(* depends on the size of the messages: consecutive messages to one block  *)
(* share one connection, and are at least one serialisation time apart.    *)
(*                                                                         *)
(* One tick is REDUCE_TIME = SEND_TIME (1 us); COPY_TIME (0.1 ns) rounds   *)
(* to 0.  Events of one tick are taken in every order.                     *)
(***************************************************************************)
EXTENDS ThreadBlock, SequencesExt

CONSTANT MinGap        \* ticks between two messages to the same block

ASSUME MinGapAssumption == MinGap \in Nat

VARIABLES
    timers,            \* timers[t]: ticks left of each scheduled CompleteStep of t
    gap                \* gap[t]: ticks before another message can reach t

timedVars == <<vars, timers, gap>>

\* A wrong variant for a mutant of the project, the reduction taken for a longer one; the
\* specification does not use it.
ReduceTimeLong == 2
ReduceTime == 1
SendTime   == 1
CopyTime   == 0

\* The delay with which DoReduce, DoSend, DoRecv... schedule CompleteStep
StepDelay(type) ==
    CASE type = "re"   -> ReduceTime
      [] type = "s"    -> SendTime
      [] type = "r"    -> 0
      [] type = "rrc"  -> ReduceTime + CopyTime
      [] type = "rrcs" -> ReduceTime + CopyTime + SendTime
      [] type = "rrs"  -> ReduceTime + SendTime
      [] type = "rcs"  -> CopyTime + SendTime

\* The delay with which RecvMessageDone schedules it
ArrivalDelay(type) ==
    CASE type = "r"    -> 0
      [] type = "rrc"  -> ReduceTime + CopyTime
      [] type = "rrcs" -> ReduceTime + SendTime + CopyTime
      [] type = "rrs"  -> ReduceTime
      [] type = "rcs"  -> SendTime

TimedInit ==
    /\ Init
    /\ timers = [t \in TB |-> <<>>]
    /\ gap    = [t \in TB |-> 0]

\* The block that got one more scheduled event gets a timer.
StartTimers(delay(_)) ==
    timers' = [t \in TB |->
                  IF pending'[t] > pending[t]
                  THEN Append(timers[t], delay(CurStep(t).type))
                  ELSE timers[t]]

TimedExecute ==
    /\ Execute
    /\ StartTimers(StepDelay)
    /\ UNCHANGED gap

TimedStart(t) == StartApplication(t) /\ UNCHANGED <<timers, gap>>

TimedComplete(t) ==
    /\ FireCompleteStep(t)
    /\ \E i \in DOMAIN timers[t] :
          /\ timers[t][i] = 0
          /\ timers' = [timers EXCEPT ![t] = RemoveAt(@, i)]
    /\ UNCHANGED gap

TimedRecv(u) ==
    /\ RecvMessageDone(u)
    /\ gap[Peer[u]] = 0
    /\ gap' = [gap EXCEPT ![Peer[u]] = MinGap]
    /\ StartTimers(ArrivalDelay)

TimedSendDone(t) == SendMessageDone(t) /\ UNCHANGED <<timers, gap>>

\* Time passes only when no event is due.
Tick ==
    /\ Running
    /\ \A t \in TB : \A i \in DOMAIN timers[t] : timers[t][i] > 0
    /\ \E t \in TB : timers[t] # <<>> \/ gap[t] > 0
    /\ timers' = [t \in TB |-> [i \in DOMAIN timers[t] |-> timers[t][i] - 1]]
    /\ gap'    = [t \in TB |-> IF gap[t] > 0 THEN gap[t] - 1 ELSE 0]
    /\ UNCHANGED vars

TimedEvent(t) == TimedStart(t) \/ TimedComplete(t) \/ TimedRecv(t) \/ TimedSendDone(t)

TimedNext == TimedExecute \/ Tick \/ \E t \in TB : TimedEvent(t)

TimedSpec == TimedInit /\ [][TimedNext]_timedVars
=============================================================================
