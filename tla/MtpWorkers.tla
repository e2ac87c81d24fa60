----------------------------- MODULE MtpWorkers -----------------------------
(***************************************************************************)
(* MtpInterface: how the main thread and the worker threads share the      *)
(* systems (logical processes) of a round.  A thread takes a number from   *)
(* g_systemIndex; a number below g_systemCount is a system of the sorted   *)
(* list to work on, any other sends a worker to spin until the main thread *)
(* sets the index back to zero, and the main thread to wait until          *)
(* g_finishedSystemCount says that all systems are done.  The main thread  *)
(* opens two such stages in every round, one to process events and one to  *)
(* receive messages.                                                       *)
(*                                                                         *)
(* There is no lock: a worker may stand between the test of                *)
(* g_globalFinished and the taking of its number for as long as it likes,  *)
(* the end of the simulation included.  What a system does while a thread  *)
(* works on it is MtpKernel's.                                             *)
(***************************************************************************)
EXTENDS Integers, FiniteSets

CONSTANTS
    N,          \* g_systemCount, without the public system 0
    Worker,     \* the threads of RunBefore; g_threadCount counts Main too
    Main,       \* the thread in MtpInterface::Run
    Orders      \* orders the sort of ProcessOneRound may give the systems

System == 1 .. N
Number == 0 .. N - 1
Thread == Worker \cup {Main}

\* Partition() makes Min(m_maxThreads, systemCount) threads.
ASSUME WorkersAssumption ==
    /\ N \in Nat \ {0}
    /\ IsFiniteSet(Worker) /\ Main \notin Worker
    /\ Cardinality(Worker) < N
    /\ Orders # {}
    /\ \A order \in Orders :
        /\ order \in [Number -> System]
        /\ \A i, j \in Number : order[i] = order[j] => i = j
        /\ \A s \in System : \E i \in Number : order[i] = s

VARIABLES
    order,      \* g_sortedSystemIndices
    index,      \* g_systemIndex
    done,       \* g_finishedSystemCount
    recv,       \* g_recvMsgStage
    finished,   \* g_globalFinished
    pc,         \* where a thread is
    lp          \* the system a thread works on, 0 for none

control == <<order, index, done, recv, finished, pc, lp>>

Goto(t, loc) == pc' = [pc EXCEPT ![t] = loc]

\* RunBefore
Init ==
    /\ order \in Orders
    /\ index = N /\ done = 0 /\ recv = FALSE /\ finished = FALSE
    /\ pc = [t \in Thread |-> IF t = Main THEN "sort" ELSE "test"]
    /\ lp = [t \in Thread |-> 0]

----------------------------------------------------------------------------
\* Both kinds of threads.  Names ending in Early, Late and Kept are wrong variants for
\* the mutants of the project; the specification does not use them.

\* index = g_systemIndex.fetch_add (1)
Take(t) ==
    /\ pc[t] = "take"
    /\ index' = index + 1
    /\ \/ /\ index < N
          /\ lp' = [lp EXCEPT ![t] = order[index]]
          /\ Goto(t, "work")
       \/ /\ index >= N
          /\ Goto(t, IF t = Main THEN "wait" ELSE "spin")
          /\ UNCHANGED lp
    /\ UNCHANGED <<order, done, recv, finished>>

\* The end of the call of the system
Worked(t) ==
    /\ pc[t] = "work"
    /\ Goto(t, "count")
    /\ UNCHANGED <<order, index, done, recv, finished, lp>>

\* g_finishedSystemCount.fetch_add (1)
Count(t) ==
    /\ pc[t] = "count"
    /\ done' = done + 1
    /\ lp' = [lp EXCEPT ![t] = 0]
    /\ Goto(t, IF t = Main THEN "take" ELSE "test")
    /\ UNCHANGED <<order, index, recv, finished>>

----------------------------------------------------------------------------
\* ThreadFunc

Test(t) ==
    /\ t # Main
    /\ pc[t] = "test"
    /\ Goto(t, IF finished THEN "out" ELSE "take")
    /\ UNCHANGED <<order, index, done, recv, finished, lp>>

Spin(t) ==
    /\ pc[t] = "spin"
    /\ index < N
    /\ Goto(t, "test")
    /\ UNCHANGED <<order, index, done, recv, finished, lp>>

----------------------------------------------------------------------------
\* Run

\* ProcessOneRound, the sort and stage 1
Sort ==
    /\ pc[Main] = "sort"
    /\ order' \in Orders
    /\ recv' = FALSE
    /\ Goto(Main, "reset")
    /\ UNCHANGED <<index, done, finished, lp>>

\* g_finishedSystemCount.store (0) and g_systemIndex.store (0)
Reset ==
    /\ pc[Main] = "reset"
    /\ done' = 0
    /\ Goto(Main, "open")
    /\ UNCHANGED <<order, index, recv, finished, lp>>

Open ==
    /\ pc[Main] = "open"
    /\ index' = 0
    /\ Goto(Main, "take")
    /\ UNCHANGED <<order, done, recv, finished, lp>>

WaitEarly ==
    /\ pc[Main] = "wait"
    /\ Goto(Main, IF recv THEN "advance" ELSE "public")
    /\ UNCHANGED <<order, index, done, recv, finished, lp>>

WaitLate ==
    /\ pc[Main] = "wait"
    /\ done = N + 1
    /\ Goto(Main, IF recv THEN "advance" ELSE "public")
    /\ UNCHANGED <<order, index, done, recv, finished, lp>>

\* The barriers after stages 1 and 3
Wait ==
    /\ pc[Main] = "wait"
    /\ done = N
    /\ Goto(Main, IF recv THEN "advance" ELSE "public")
    /\ UNCHANGED <<order, index, done, recv, finished, lp>>

\* The end of stage 2 and the beginning of stage 3
Publish ==
    /\ pc[Main] = "public"
    /\ recv' = TRUE
    /\ Goto(Main, "reset")
    /\ UNCHANGED <<order, index, done, finished, lp>>

\* CalculateSmallestTime, which finds whether all systems are finished, and the test
\* of Run
Advance(allFinished) ==
    /\ pc[Main] = "advance"
    /\ finished' = allFinished
    /\ Goto(Main, IF allFinished THEN "close" ELSE "sort")
    /\ UNCHANGED <<order, index, done, recv, lp>>

CloseKept ==
    /\ pc[Main] = "close"
    /\ Goto(Main, "join")
    /\ UNCHANGED <<order, index, done, recv, finished, lp>>

\* RunAfter: the workers that spin are let go, and joined.
Close ==
    /\ pc[Main] = "close"
    /\ index' = 0
    /\ Goto(Main, "join")
    /\ UNCHANGED <<order, done, recv, finished, lp>>

Join ==
    /\ pc[Main] = "join"
    /\ \A w \in Worker : pc[w] = "out"
    /\ Goto(Main, "end")
    /\ UNCHANGED <<order, index, done, recv, finished, lp>>

ThreadStep(t) == Take(t) \/ Worked(t) \/ Count(t) \/ Test(t) \/ Spin(t)
MainStep ==
    \/ Sort \/ Reset \/ Open \/ Wait \/ Publish \/ Close \/ Join
    \/ \E allFinished \in BOOLEAN : Advance(allFinished)

Next == MainStep \/ \E t \in Thread : ThreadStep(t)

Spec == Init /\ [][Next]_control

----------------------------------------------------------------------------
\* Properties

MainLocs == {"sort", "reset", "open", "take", "work", "count", "wait", "public",
             "advance", "close", "join", "end"}
WorkerLocs == {"test", "take", "work", "count", "spin", "out"}

WorkersTypeOK ==
    /\ order \in Orders
    /\ index \in Nat /\ done \in Nat /\ (finished \/ done <= N)
    /\ recv \in BOOLEAN /\ finished \in BOOLEAN
    /\ pc \in [Thread -> MainLocs \cup WorkerLocs]
    /\ pc[Main] \in MainLocs /\ \A w \in Worker : pc[w] \in WorkerLocs
    /\ lp \in [Thread -> 0 .. N]

Busy(t) == pc[t] \in {"work", "count"}
Holders == {t \in Thread : Busy(t)}

\* Two threads never work on one system, and while the main thread runs the public
\* system, computes the next window, sorts or sets the counters, no worker works on
\* any: the two barriers of ProcessOneRound hold, with a worker that may take its
\* number at any time.
Exclusion ==
    /\ \A t, u \in Thread : Busy(t) /\ Busy(u) /\ t # u => lp[t] # lp[u]
    /\ pc[Main] \notin {"take", "work", "count", "wait", "join"} =>
        \A w \in Worker : ~Busy(w)

\* The rounds, as the logical processes see them
Phase == IF finished THEN "stopped" ELSE IF recv /\ pc[Main] # "sort" THEN "receive" ELSE "events"
Untaken == {order[i] : i \in {j \in Number : j >= index}}
Pending == IF pc[Main] \in {"sort", "reset", "open", "close"} THEN System ELSE Untaken
Held == {lp[t] : t \in {u \in Thread : pc[u] = "work"}}

Barrier == INSTANCE MtpBarrier WITH phase <- Phase, pending <- Pending, running <- Held
\* Every stage of a round runs every system exactly once, and nothing of a stage
\* runs before all of the stage before is done.
BarrierSpec == Barrier!Spec

=============================================================================
