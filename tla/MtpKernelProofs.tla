-------------------------- MODULE MtpKernelProofs --------------------------
(***************************************************************************)
(* Part 1, for any number of systems and threads and whatever the order    *)
(* the sort gives: no two threads work on one system, no worker works      *)
(* while the main thread is between two stages, and the rounds are those   *)
(* of MtpBarrier.  The barriers count; the proof ties the count to the     *)
(* threads: within a stage, the systems that are done and those some       *)
(* thread holds are as many as have been taken (Counted).                  *)
(*                                                                         *)
(* Part 2, for any systems, links, handlers and threads that satisfy the   *)
(* assumptions: no system gets an event of its past, the public system     *)
(* runs when all others are at its time, nobody sends to a system that     *)
(* receives, and nothing is left when Run returns.  The argument is the    *)
(* one of conservative parallel simulation.  A message of this round is no *)
(* earlier than the smallest time plus the delay of the link it takes, so  *)
(* no earlier than the granted time of its receiver (Windows); and the     *)
(* barriers of MtpWorkers see to it that all messages of a round are in    *)
(* the lists before the next windows are computed (Mailboxes).             *)
(***************************************************************************)
EXTENDS MtpKernel, FiniteSetTheorems, SequenceTheorems, WellFoundedInduction, TLAPS

----------------------------------------------------------------------------
\* Part 1: the threads

Locs == MainLocs \cup WorkerLocs
InStage == {"take", "work", "count", "wait"}
Between == {"sort", "reset", "open", "public", "advance", "close"}

Typed ==
    /\ order \in Orders
    /\ index \in Nat /\ done \in Nat
    /\ recv \in BOOLEAN /\ finished \in BOOLEAN
    /\ pc \in [Thread -> Locs]
    /\ pc[Main] \in MainLocs /\ \A w \in Worker : pc[w] \in WorkerLocs
    /\ lp \in [Thread -> 0 .. N]

\* What a thread holds was taken in this stage, and by no other thread.
Owned ==
    /\ \A t \in Thread : Busy(t) =>
        \E i \in Number : lp[t] = order[i] /\ (pc[Main] \in InStage \cup {"join"} => i < index)
    /\ \A t, u \in Thread : Busy(t) /\ Busy(u) /\ t # u => lp[t] # lp[u]

Taken(n) == IF n < N THEN n ELSE N
Counted == pc[Main] \in InStage => done + Cardinality(Holders) = Taken(index)

Quiet ==
    /\ pc[Main] \in Between => index >= N /\ \A t \in Thread : ~Busy(t)
    /\ pc[Main] = "wait" => index >= N
    /\ pc[Main] = "open" => done = 0

\* Where the main thread is, as far as the flags tell
Flags ==
    /\ finished <=> pc[Main] \in {"close", "join", "end"}
    /\ pc[Main] \in {"advance", "close", "join", "end"} => recv
    /\ pc[Main] = "public" => ~recv
    /\ ~finished => done <= N
    /\ pc[Main] = "end" => \A w \in Worker : pc[w] = "out"

WInv == Typed /\ Owned /\ Counted /\ Quiet /\ Flags

----------------------------------------------------------------------------
LEMMA Moves ==
    ASSUME Typed, NEW t \in Thread, NEW loc \in Locs, Goto(t, loc),
           t = Main => loc \in MainLocs, t # Main => loc \in WorkerLocs
    PROVE  /\ pc'[t] = loc
           /\ \A u \in Thread : u # t => pc'[u] = pc[u]
           /\ pc' \in [Thread -> Locs]
           /\ pc'[Main] \in MainLocs /\ \A w \in Worker : pc'[w] \in WorkerLocs
           /\ Main \in Thread /\ \A w \in Worker : w \in Thread /\ w # Main
BY WorkersAssumption DEF Typed, Goto, Thread

LEMMA OrderFacts ==
    ASSUME Typed
    PROVE  /\ \A i \in Number : order[i] \in System /\ i \in Nat /\ i < N
           /\ \A i, j \in Number : order[i] = order[j] => i = j
           /\ \A s \in System : \E i \in Number : order[i] = s
           /\ \A k \in Nat : k < N => k \in Number
           /\ N \in Nat
<1>1. N \in Nat /\ \A i \in Number : i \in Nat /\ i < N
  BY WorkersAssumption DEF Number
<1>2. \A k \in Nat : k < N => k \in Number
  BY WorkersAssumption DEF Number
<1> QED
  BY <1>1, <1>2, WorkersAssumption DEF Typed

LEMMA ThreadsFinite ==
    /\ IsFiniteSet(Thread)
    /\ \A H \in SUBSET Thread : IsFiniteSet(H) /\ Cardinality(H) \in Nat
<1>1. IsFiniteSet(Thread)
  BY WorkersAssumption, FS_AddElement DEF Thread
<1>2. ASSUME NEW H \in SUBSET Thread PROVE IsFiniteSet(H) /\ Cardinality(H) \in Nat
  BY <1>1, FS_Subset, FS_CardinalityType
<1> QED
  BY <1>1, <1>2

\* One more holder, one less, the same
LEMMA HoldersMore ==
    ASSUME NEW t \in Thread, ~Busy(t), Busy(t)', \A u \in Thread : u # t => (Busy(u)' <=> Busy(u))
    PROVE  Cardinality(Holders') = Cardinality(Holders) + 1
<1>1. Holders' = Holders \cup {t} /\ t \notin Holders
  BY DEF Holders
<1>2. IsFiniteSet(Holders)
  BY ThreadsFinite DEF Holders
<1> QED
  BY <1>1, <1>2, FS_AddElement

LEMMA HoldersLess ==
    ASSUME NEW t \in Thread, Busy(t), ~Busy(t)', \A u \in Thread : u # t => (Busy(u)' <=> Busy(u))
    PROVE  Cardinality(Holders') = Cardinality(Holders) - 1 /\ Cardinality(Holders) >= 1
<1>1. Holders' = Holders \ {t} /\ t \in Holders
  BY DEF Holders
<1>2. IsFiniteSet(Holders) /\ Cardinality(Holders) \in Nat /\ Cardinality(Holders') \in Nat
  BY ThreadsFinite DEF Holders
<1>3. Cardinality(Holders') = Cardinality(Holders) - 1
  BY <1>1, <1>2, FS_RemoveElement
<1> QED
  BY <1>2, <1>3

LEMMA HoldersSame ==
    ASSUME \A u \in Thread : Busy(u)' <=> Busy(u)
    PROVE  Holders' = Holders
BY DEF Holders

LEMMA NoHolders ==
    /\ (\A t \in Thread : ~Busy(t)) => Cardinality(Holders) = 0
    /\ Cardinality(Holders) = 0 => \A t \in Thread : ~Busy(t)
<1>1. IsFiniteSet(Holders)
  BY ThreadsFinite DEF Holders
<1> QED
  BY <1>1, FS_EmptySet DEF Holders

----------------------------------------------------------------------------
\* The steps of both kinds of threads

LEMMA TakeStep ==
    ASSUME WInv, NEW t \in Thread, Take(t)
    PROVE  WInv'
<1> USE WorkersAssumption
<1>0. Main \in Thread /\ \A w \in Worker : w \in Thread /\ w # Main
  BY DEF Thread
<1>1. CASE index < N /\ lp' = [lp EXCEPT ![t] = order[index]] /\ Goto(t, "work")
  <2>1. /\ pc'[t] = "work" /\ \A u \in Thread : u # t => pc'[u] = pc[u]
        /\ pc' \in [Thread -> Locs]
        /\ pc'[Main] \in MainLocs /\ \A w \in Worker : pc'[w] \in WorkerLocs
    BY <1>1, Moves DEF WInv, Locs, MainLocs, WorkerLocs
  <2>2. pc[t] = "take" /\ index' = index + 1 /\ UNCHANGED <<order, done, recv, finished>>
    BY DEF Take
  <2>3. index \in Number /\ order[index] \in System
    BY <1>1 DEF WInv, Typed, Number, System
  <2>4. lp'[t] = order[index] /\ \A u \in Thread : u # t => lp'[u] = lp[u]
    BY <1>1 DEF WInv, Typed
  <2>5. pc[Main] \in InStage \cup {"join"}
    <3>1. pc[Main] \notin Between
      BY <1>1 DEF WInv, Typed, Quiet
    <3>2. pc[Main] # "end"
      BY <2>2, <1>0 DEF WInv, Flags, Thread
    <3> QED
      BY <3>1, <3>2 DEF WInv, Typed, MainLocs, Between, InStage
  <2>6. pc'[Main] \in InStage \cup {"join"}
        /\ (pc'[Main] \in InStage <=> pc[Main] \in InStage) /\ (pc'[Main] = "join" <=> pc[Main] = "join")
    BY <2>1, <2>2, <2>5, <1>0 DEF InStage
  <2>7. Typed'
    BY <2>1, <2>2, <2>3, <1>1 DEF WInv, Typed, System
  <2>8. Owned'
    <3>1. \A u \in Thread : u # t => (Busy(u)' <=> Busy(u))
      BY <2>1 DEF Busy
    <3>2. \A u \in Thread : u # t /\ Busy(u) => lp[u] # order[index]
      <4>1. ASSUME NEW u \in Thread, u # t, Busy(u) PROVE lp[u] # order[index]
        <5>1. PICK i \in Number : lp[u] = order[i] /\ i < index
          BY <4>1, <2>5 DEF WInv, Owned
        <5>2. i \in Nat /\ index \in Nat
          BY OrderFacts DEF WInv, Typed
        <5>3. i # index
          BY <5>1, <5>2
        <5> QED
          BY <5>1, <5>3, <2>3, OrderFacts DEF WInv
      <4> QED
        BY <4>1
    <3>3. \A u, v \in Thread : Busy(u)' /\ Busy(v)' /\ u # v => lp'[u] # lp'[v]
      BY <3>1, <3>2, <2>4 DEF WInv, Owned
    <3>4. \A u \in Thread : Busy(u)' => \E i \in Number : lp'[u] = order'[i] /\ i < index'
      <4>1. ASSUME NEW u \in Thread, Busy(u)', u # t
            PROVE  \E i \in Number : lp'[u] = order'[i] /\ i < index'
        <5>1. PICK i \in Number : lp[u] = order[i] /\ i < index
          BY <4>1, <3>1, <2>5 DEF WInv, Owned
        <5>2. i \in Nat /\ index \in Nat
          BY OrderFacts DEF WInv, Typed
        <5>3. i < index'
          BY <5>1, <5>2, <2>2
        <5> QED
          BY <5>1, <5>3, <4>1, <2>2, <2>4
      <4>2. lp'[t] = order'[index] /\ index < index'
        BY <2>2, <2>4 DEF WInv, Typed
      <4> QED
        BY <4>1, <4>2, <2>3
    <3> QED
      BY <3>3, <3>4 DEF Owned
  <2>9. Counted'
    <3>1. Cardinality(Holders') = Cardinality(Holders) + 1
      BY <2>1, <2>2, HoldersMore DEF Busy
    <3>2. Cardinality(Holders) \in Nat
      BY ThreadsFinite DEF Holders
    <3> QED
      BY <3>1, <3>2, <2>2, <2>6, <1>1 DEF WInv, Counted, Typed, Taken
  <2>10. Quiet'
    <3>1. pc'[Main] \notin Between /\ pc'[Main] # "wait" /\ pc'[Main] # "open"
      BY <2>1, <2>2, <2>5, <1>0, <1>1 DEF WInv, Quiet, InStage, Between, Typed
    <3> QED
      BY <3>1 DEF Quiet
  <2>11. Flags'
    BY <2>1, <2>2, <2>5, <1>0 DEF WInv, Flags, InStage
  <2> QED
    BY <2>7, <2>8, <2>9, <2>10, <2>11 DEF WInv
<1>2. CASE index >= N /\ Goto(t, IF t = Main THEN "wait" ELSE "spin") /\ UNCHANGED lp
  <2>1. /\ pc'[t] = (IF t = Main THEN "wait" ELSE "spin")
        /\ \A u \in Thread : u # t => pc'[u] = pc[u]
        /\ pc' \in [Thread -> Locs]
        /\ pc'[Main] \in MainLocs /\ \A w \in Worker : pc'[w] \in WorkerLocs
    BY <1>2, Moves DEF WInv, Locs, MainLocs, WorkerLocs
  <2>2. pc[t] = "take" /\ index' = index + 1 /\ UNCHANGED <<order, done, recv, finished>>
    BY DEF Take
  <2>3. \A u \in Thread : Busy(u)' <=> Busy(u)
    BY <2>1, <2>2 DEF Busy
  <2>4. Holders' = Holders
    BY <2>3, HoldersSame
  <2>5. Typed'
    BY <2>1, <2>2, <1>2 DEF WInv, Typed
  <2>6. /\ pc'[Main] \in InStage <=> pc[Main] \in InStage
        /\ \A l : l \notin InStage => (pc'[Main] = l <=> pc[Main] = l)
    BY <2>1, <2>2, <1>0 DEF InStage
  <2>7. Owned'
    <3>1. ASSUME NEW u \in Thread, Busy(u)'
          PROVE  \E i \in Number : lp'[u] = order'[i]
                    /\ (pc'[Main] \in InStage \cup {"join"} => i < index')
      <4>1. PICK i \in Number : lp[u] = order[i] /\ (pc[Main] \in InStage \cup {"join"} => i < index)
        BY <3>1, <2>3 DEF WInv, Owned
      <4>2. pc'[Main] = "join" <=> pc[Main] = "join"
        BY <2>6 DEF InStage
      <4>3. pc'[Main] \in InStage \cup {"join"} => i < index'
        <5>1. i \in Nat /\ index \in Nat
          BY OrderFacts DEF WInv, Typed
        <5> QED
          BY <5>1, <4>1, <4>2, <2>2, <2>6
      <4> QED
        BY <4>1, <4>3, <2>2, <1>2
    <3>2. \A u, v \in Thread : Busy(u)' /\ Busy(v)' /\ u # v => lp'[u] # lp'[v]
      BY <2>3, <1>2 DEF WInv, Owned
    <3> QED
      BY <3>1, <3>2 DEF Owned
  <2>8. Counted'
    BY <2>2, <2>4, <2>6, <1>2 DEF WInv, Typed, Counted, Taken
  <2>9. Quiet'
    BY <2>1, <2>2, <2>3, <1>0, <1>2 DEF WInv, Typed, Quiet, Between
  <2>10. Flags'
    BY <2>1, <2>2, <1>0 DEF WInv, Flags
  <2> QED
    BY <2>5, <2>7, <2>8, <2>9, <2>10 DEF WInv
<1> QED
  BY <1>1, <1>2 DEF Take

LEMMA WorkedStep ==
    ASSUME WInv, NEW t \in Thread, Worked(t)
    PROVE  WInv'
<1>0. Main \in Thread /\ \A w \in Worker : w \in Thread /\ w # Main
  BY WorkersAssumption DEF Thread
<1>1. /\ pc'[t] = "count" /\ \A u \in Thread : u # t => pc'[u] = pc[u]
      /\ pc' \in [Thread -> Locs]
      /\ pc'[Main] \in MainLocs /\ \A w \in Worker : pc'[w] \in WorkerLocs
  BY Moves DEF WInv, Locs, MainLocs, WorkerLocs, Worked
<1>2. pc[t] = "work" /\ UNCHANGED <<order, index, done, recv, finished, lp>>
  BY DEF Worked
<1>3. \A u \in Thread : Busy(u)' <=> Busy(u)
  BY <1>1, <1>2 DEF Busy
<1>4. Holders' = Holders
  BY <1>3, HoldersSame
<1>5. Typed'
  BY <1>1, <1>2 DEF WInv, Typed
<1>6. \A l \in Locs : l \notin {"work", "count"} => (pc'[Main] = l <=> pc[Main] = l)
  BY <1>1, <1>2, <1>0
<1>7. pc'[Main] \in InStage <=> pc[Main] \in InStage
  BY <1>1, <1>2, <1>0 DEF InStage
<1>8. Owned'
  BY <1>2, <1>3, <1>6, <1>7 DEF WInv, Owned, Locs, MainLocs
<1>9. Counted'
  BY <1>2, <1>4, <1>7 DEF WInv, Counted
<1>10. Quiet'
  BY <1>1, <1>2, <1>3, <1>0 DEF WInv, Quiet, Between
<1>11. Flags'
  BY <1>1, <1>2, <1>0 DEF WInv, Flags
<1> QED
  BY <1>5, <1>8, <1>9, <1>10, <1>11 DEF WInv

LEMMA CountStep ==
    ASSUME WInv, NEW t \in Thread, Count(t)
    PROVE  WInv'
<1>0. Main \in Thread /\ \A w \in Worker : w \in Thread /\ w # Main
  BY WorkersAssumption DEF Thread
<1>1. /\ pc'[t] = (IF t = Main THEN "take" ELSE "test")
      /\ \A u \in Thread : u # t => pc'[u] = pc[u]
      /\ pc' \in [Thread -> Locs]
      /\ pc'[Main] \in MainLocs /\ \A w \in Worker : pc'[w] \in WorkerLocs
  BY Moves DEF WInv, Locs, MainLocs, WorkerLocs, Count
<1>2. /\ pc[t] = "count" /\ done' = done + 1 /\ lp' = [lp EXCEPT ![t] = 0]
      /\ UNCHANGED <<order, index, recv, finished>>
  BY DEF Count
<1>3. Busy(t) /\ ~Busy(t)' /\ \A u \in Thread : u # t => (Busy(u)' <=> Busy(u))
  BY <1>1, <1>2 DEF Busy
<1>4. Cardinality(Holders') = Cardinality(Holders) - 1 /\ Cardinality(Holders) >= 1
  BY <1>3, HoldersLess
<1>5. Cardinality(Holders) \in Nat
  BY ThreadsFinite DEF Holders
<1>6. \A u \in Thread : u # t => lp'[u] = lp[u]
  BY <1>2 DEF WInv, Typed
<1>7. Typed'
  <2>1. 0 \in 0 .. N
    BY OrderFacts DEF WInv
  <2> QED
    BY <2>1, <1>1, <1>2 DEF WInv, Typed
<1>8. /\ pc'[Main] \in InStage <=> pc[Main] \in InStage
      /\ \A l : l \notin InStage => (pc'[Main] = l <=> pc[Main] = l)
      /\ pc'[Main] = "wait" <=> pc[Main] = "wait"
  BY <1>1, <1>2, <1>0 DEF InStage
<1>9. Owned'
  <2>1. ASSUME NEW u \in Thread, Busy(u)'
        PROVE  \E i \in Number : lp'[u] = order'[i]
                  /\ (pc'[Main] \in InStage \cup {"join"} => i < index')
    <3>1. u # t /\ Busy(u)
      BY <2>1, <1>3
    <3>2. PICK i \in Number : lp[u] = order[i] /\ (pc[Main] \in InStage \cup {"join"} => i < index)
      BY <3>1 DEF WInv, Owned
    <3>3. pc'[Main] \in InStage \cup {"join"} => i < index'
      BY <3>2, <1>2, <1>8 DEF InStage
    <3> QED
      BY <3>1, <3>2, <3>3, <1>2, <1>6
  <2>2. \A u, v \in Thread : Busy(u)' /\ Busy(v)' /\ u # v => lp'[u] # lp'[v]
    BY <1>3, <1>6 DEF WInv, Owned
  <2> QED
    BY <2>1, <2>2 DEF Owned
<1>10. Counted'
  BY <1>2, <1>4, <1>5, <1>8 DEF WInv, Typed, Counted, Taken
<1>11. Quiet'
  <2>1. pc[Main] \notin Between
    BY <1>0, <1>3 DEF WInv, Quiet
  <2>2. pc'[Main] \notin Between /\ pc'[Main] # "open"
    BY <2>1, <1>8 DEF InStage, Between
  <2> QED
    BY <2>2, <1>2, <1>8 DEF WInv, Quiet
<1>12. Flags'
  <2>1. pc[Main] \notin {"public", "advance", "close"}
    BY <1>0, <1>3 DEF WInv, Quiet, Between
  <2>2. pc'[Main] = "end" => pc[Main] = "end"
    BY <1>8 DEF InStage
  <2>3. pc[Main] # "end"
    BY <1>0, <1>2 DEF WInv, Flags, Thread
  <2>4. finished' <=> pc'[Main] \in {"close", "join", "end"}
    BY <1>2, <1>8 DEF WInv, Flags, InStage
  <2>5. pc'[Main] \in {"advance", "close", "join", "end"} => recv'
    BY <1>2, <1>8 DEF WInv, Flags, InStage
  <2>6. pc'[Main] # "public"
    BY <2>1, <1>8 DEF InStage
  <2>7. ~finished' => done' <= N
    <3>1. CASE pc[Main] \in InStage
      <4>1. done + Cardinality(Holders) = Taken(index) /\ done \in Nat /\ index \in Nat /\ N \in Nat
        BY <3>1, OrderFacts DEF WInv, Counted, Typed
      <4> QED
        BY <4>1, <1>2, <1>4, <1>5 DEF Taken
    <3>2. CASE pc[Main] \notin InStage
      <4>1. pc[Main] \in {"close", "join", "end"}
        BY <3>2, <1>0, <1>3 DEF WInv, Typed, MainLocs, InStage, Quiet, Between
      <4> QED
        BY <4>1, <1>2 DEF WInv, Flags
    <3> QED
      BY <3>1, <3>2
  <2> QED
    BY <2>2, <2>3, <2>4, <2>5, <2>6, <2>7 DEF Flags
<1> QED
  BY <1>7, <1>9, <1>10, <1>11, <1>12 DEF WInv

\* A worker that holds nothing moves.
LEMMA IdleStep ==
    ASSUME WInv, NEW t \in Thread, t # Main, ~Busy(t), ~Busy(t)',
           NEW loc \in WorkerLocs, Goto(t, loc), pc[t] # "out",
           UNCHANGED <<order, index, done, recv, finished, lp>>
    PROVE  WInv'
<1>0. Main \in Thread /\ \A w \in Worker : w \in Thread /\ w # Main
  BY WorkersAssumption DEF Thread
<1>1. /\ \A u \in Thread : u # t => pc'[u] = pc[u]
      /\ pc' \in [Thread -> Locs]
      /\ pc'[Main] \in MainLocs /\ \A w \in Worker : pc'[w] \in WorkerLocs
  BY Moves DEF WInv, Locs
<1>2. pc'[Main] = pc[Main] /\ pc[Main] # "end"
  BY <1>0, <1>1 DEF WInv, Flags, Thread
<1>3. \A u \in Thread : Busy(u)' <=> Busy(u)
  BY <1>1 DEF Busy
<1>4. Holders' = Holders
  BY <1>3, HoldersSame
<1>5. Typed'
  BY <1>1 DEF WInv, Typed
<1>6. Owned'
  BY <1>2, <1>3 DEF WInv, Owned
<1>7. Counted'
  BY <1>2, <1>4 DEF WInv, Counted
<1>8. Quiet'
  BY <1>2, <1>3 DEF WInv, Quiet
<1>9. Flags'
  BY <1>2 DEF WInv, Flags
<1> QED
  BY <1>5, <1>6, <1>7, <1>8, <1>9 DEF WInv

LEMMA TestStep ==
    ASSUME WInv, NEW t \in Thread, Test(t) \/ Spin(t)
    PROVE  WInv'
<1>1. ASSUME Spin(t) PROVE t # Main
  BY <1>1, WorkersAssumption DEF Spin, WInv, Typed, MainLocs
<1>2. t # Main /\ pc[t] \in {"test", "spin"}
  BY <1>1 DEF Test, Spin
<1>3. PICK loc \in {"test", "take", "out"} : Goto(t, loc)
  BY DEF Test, Spin
<1>4. pc'[t] = loc
  BY <1>3, <1>2, Moves DEF WInv, Locs, WorkerLocs
<1>5. ~Busy(t) /\ ~Busy(t)'
  BY <1>2, <1>3, <1>4 DEF Busy
<1>6. UNCHANGED <<order, index, done, recv, finished, lp>>
  BY DEF Test, Spin
<1> QED
  BY <1>2, <1>3, <1>5, <1>6, IdleStep DEF WorkerLocs

----------------------------------------------------------------------------
\* The main thread

\* The main thread moves, and what threads hold is none of its business.
LEMMA MainMoves ==
    ASSUME WInv, ~Busy(Main), NEW loc \in MainLocs \ {"work", "count"}, Goto(Main, loc)
    PROVE  /\ pc'[Main] = loc
           /\ \A w \in Worker : pc'[w] = pc[w]
           /\ \A u \in Thread : Busy(u)' <=> Busy(u)
           /\ Holders' = Holders
           /\ pc' \in [Thread -> Locs] /\ \A w \in Worker : pc'[w] \in WorkerLocs
<1>0. Main \in Thread /\ \A w \in Worker : w \in Thread /\ w # Main
  BY WorkersAssumption DEF Thread
<1>1. /\ pc'[Main] = loc /\ \A u \in Thread : u # Main => pc'[u] = pc[u]
      /\ pc' \in [Thread -> Locs] /\ \A w \in Worker : pc'[w] \in WorkerLocs
  BY <1>0, Moves DEF WInv, Locs
<1>2. \A u \in Thread : Busy(u)' <=> Busy(u)
  BY <1>1 DEF Busy
<1> QED
  BY <1>0, <1>1, <1>2, HoldersSame

\* Between two stages nothing is held, and a step that goes on to the next place between
\* them, or opens the next stage, need only see to the counters and the flags.
LEMMA BetweenStep ==
    ASSUME WInv, pc[Main] \in Between,
           NEW loc \in Between \cup {"take", "join"}, Goto(Main, loc),
           order' \in Orders, index' \in Nat, done' \in Nat, recv' \in BOOLEAN,
           finished' \in BOOLEAN, UNCHANGED lp,
           loc \in Between => index' >= N, loc = "open" => done' = 0,
           loc = "take" => done' = 0 /\ index' = 0, Flags'
    PROVE  WInv'
<1>1. ~Busy(Main) /\ loc \in MainLocs \ {"work", "count"}
  BY DEF Busy, Between, MainLocs
<1>2. /\ pc'[Main] = loc
      /\ \A u \in Thread : Busy(u)' <=> Busy(u)
      /\ Holders' = Holders
      /\ pc' \in [Thread -> Locs] /\ \A w \in Worker : pc'[w] \in WorkerLocs
  BY <1>1, MainMoves
<1>3. \A u \in Thread : ~Busy(u) /\ ~Busy(u)'
  BY <1>2 DEF WInv, Quiet
<1>4. Typed'
  BY <1>1, <1>2 DEF WInv, Typed
<1>5. Owned'
  BY <1>3 DEF Owned
<1>6. Counted'
  <2>1. Cardinality(Holders') = 0
    BY <1>2, <1>3, NoHolders
  <2>2. pc'[Main] \in InStage => done' = 0 /\ index' = 0
    BY <1>2 DEF InStage, Between
  <2>3. N \in Nat /\ N > 0
    BY WorkersAssumption
  <2> QED
    BY <2>1, <2>2, <2>3 DEF Counted, Taken
<1>7. Quiet'
  BY <1>2, <1>3 DEF Quiet, Between
<1> QED
  BY <1>4, <1>5, <1>6, <1>7 DEF WInv

LEMMA MainStepKeeps ==
    ASSUME WInv, MainStep
    PROVE  WInv'
<1>0. /\ index \in Nat /\ done \in Nat /\ order \in Orders /\ recv \in BOOLEAN
      /\ finished \in BOOLEAN /\ N \in Nat /\ N > 0
  BY WorkersAssumption DEF WInv, Typed
<1> USE DEF Between
<1>1. CASE Sort
  <2>1. pc'[Main] = "reset"
    BY <1>1, MainMoves DEF Sort, Busy, MainLocs
  <2>2. Flags'
    BY <1>1, <2>1 DEF Sort, WInv, Flags
  <2>3. index >= N
    BY <1>1 DEF Sort, WInv, Quiet
  <2> QED
    BY <1>0, <1>1, <2>2, <2>3, BetweenStep DEF Sort
<1>2. CASE Reset
  <2>1. pc'[Main] = "open"
    BY <1>2, MainMoves DEF Reset, Busy, MainLocs
  <2>2. Flags'
    BY <1>0, <1>2, <2>1 DEF Reset, WInv, Flags
  <2>3. index >= N
    BY <1>2 DEF Reset, WInv, Quiet
  <2> QED
    BY <1>0, <1>2, <2>2, <2>3, BetweenStep DEF Reset
<1>3. CASE Open
  <2>1. pc'[Main] = "take"
    BY <1>3, MainMoves DEF Open, Busy, MainLocs
  <2>2. Flags'
    BY <1>3, <2>1 DEF Open, WInv, Flags
  <2>3. done = 0
    BY <1>3 DEF Open, WInv, Quiet
  <2> QED
    BY <1>0, <1>3, <2>2, <2>3, BetweenStep DEF Open
<1>4. CASE Wait
  <2>1. PICK loc \in {"public", "advance"} : Goto(Main, loc) /\ (loc = "advance" <=> recv)
    BY <1>4 DEF Wait
  <2>2. ~Busy(Main) /\ loc \in MainLocs \ {"work", "count"}
    BY <1>4 DEF Wait, Busy, MainLocs
  <2>3. /\ pc'[Main] = loc /\ \A w \in Worker : pc'[w] = pc[w]
        /\ \A u \in Thread : Busy(u)' <=> Busy(u)
        /\ pc' \in [Thread -> Locs] /\ \A w \in Worker : pc'[w] \in WorkerLocs
    BY <2>1, <2>2, MainMoves
  <2>4. done = N /\ index >= N /\ UNCHANGED <<order, index, done, recv, finished, lp>>
    BY <1>4 DEF Wait, WInv, Quiet
  <2>5. \A u \in Thread : ~Busy(u)
    <3>1. done + Cardinality(Holders) = Taken(index)
      BY <1>4 DEF Wait, WInv, Counted, InStage
    <3>2. Cardinality(Holders) \in Nat
      BY ThreadsFinite DEF Holders
    <3> QED
      BY <1>0, <2>4, <3>1, <3>2, NoHolders DEF Taken
  <2>6. Typed'
    BY <2>2, <2>3, <2>4 DEF WInv, Typed
  <2>7. Owned'
    BY <2>3, <2>5 DEF Owned
  <2>8. Counted'
    BY <2>3 DEF Counted, InStage
  <2>9. Quiet'
    BY <2>3, <2>4, <2>5 DEF Quiet
  <2>10. Flags'
    BY <1>4, <2>1, <2>3, <2>4 DEF Wait, WInv, Flags
  <2> QED
    BY <2>6, <2>7, <2>8, <2>9, <2>10 DEF WInv
<1>5. CASE Publish
  <2>1. pc'[Main] = "reset"
    BY <1>5, MainMoves DEF Publish, Busy, MainLocs
  <2>2. Flags'
    BY <1>5, <2>1 DEF Publish, WInv, Flags
  <2>3. index >= N
    BY <1>5 DEF Publish, WInv, Quiet
  <2> QED
    BY <1>0, <1>5, <2>2, <2>3, BetweenStep DEF Publish
<1>6. ASSUME NEW allFinished \in BOOLEAN, Advance(allFinished)
      PROVE  WInv'
  <2>1. PICK loc \in {"close", "sort"} : Goto(Main, loc) /\ (loc = "close" <=> allFinished)
    BY <1>6 DEF Advance
  <2>2. pc'[Main] = loc
    BY <1>6, <2>1, MainMoves DEF Advance, Busy, MainLocs
  <2>3. Flags'
    BY <1>6, <2>1, <2>2 DEF Advance, WInv, Flags
  <2>4. index >= N
    BY <1>6 DEF Advance, WInv, Quiet
  <2> QED
    BY <1>0, <1>6, <2>1, <2>3, <2>4, BetweenStep DEF Advance
<1>7. CASE Close
  <2>1. pc'[Main] = "join"
    BY <1>7, MainMoves DEF Close, Busy, MainLocs
  <2>2. Flags'
    BY <1>7, <2>1 DEF Close, WInv, Flags
  <2> QED
    BY <1>0, <1>7, <2>2, BetweenStep DEF Close
<1>8. CASE Join
  <2>1. /\ pc'[Main] = "end" /\ \A w \in Worker : pc'[w] = pc[w]
        /\ \A u \in Thread : Busy(u)' <=> Busy(u)
        /\ pc' \in [Thread -> Locs] /\ \A w \in Worker : pc'[w] \in WorkerLocs
    BY <1>8, MainMoves DEF Join, Busy, MainLocs
  <2>2. \A w \in Worker : pc[w] = "out"
    BY <1>8 DEF Join
  <2>3. UNCHANGED <<order, index, done, recv, finished, lp>> /\ pc[Main] = "join"
    BY <1>8 DEF Join
  <2>4. \A u \in Thread : ~Busy(u)
    BY <2>2, <2>3 DEF Busy, Thread
  <2>5. Typed'
    BY <2>1, <2>3 DEF WInv, Typed, MainLocs
  <2>6. Owned' /\ Quiet'
    BY <2>1, <2>4 DEF Owned, Quiet
  <2>7. Counted'
    BY <2>1 DEF Counted, InStage
  <2>8. Flags'
    BY <2>1, <2>2, <2>3 DEF WInv, Flags
  <2> QED
    BY <2>5, <2>6, <2>7, <2>8 DEF WInv
<1> QED
  BY <1>1, <1>2, <1>3, <1>4, <1>5, <1>6, <1>7, <1>8 DEF MainStep

LEMMA InitHolds == Init => WInv
<1> SUFFICES ASSUME Init PROVE WInv
  OBVIOUS
<1>0. /\ Main \in Thread /\ \A w \in Worker : w \in Thread /\ w # Main
      /\ N \in Nat /\ N > 0 /\ 0 \in 0 .. N
  BY WorkersAssumption DEF Thread
<1>1. pc[Main] = "sort" /\ \A w \in Worker : pc[w] = "test"
  BY <1>0 DEF Init
<1>2. \A t \in Thread : ~Busy(t)
  BY <1>1 DEF Busy, Thread
<1>3. Typed
  BY <1>0, <1>1 DEF Init, Typed, Locs, MainLocs, WorkerLocs
<1>4. Owned
  BY <1>2 DEF Owned
<1>5. Counted /\ Quiet
  BY <1>0, <1>1, <1>2 DEF Init, Counted, Quiet, InStage
<1>6. Flags
  BY <1>0, <1>1 DEF Init, Flags
<1> QED
  BY <1>3, <1>4, <1>5, <1>6 DEF WInv

LEMMA NextKeeps == WInv /\ [Next]_control => WInv'
<1>1. ASSUME WInv, NEW t \in Thread, ThreadStep(t)
      PROVE  WInv'
  BY <1>1, TakeStep, WorkedStep, CountStep, TestStep DEF ThreadStep
<1>2. ASSUME WInv, UNCHANGED control
      PROVE  WInv'
  BY <1>2, Zenon DEF control, WInv, Typed, Owned, Counted, Quiet, Flags, Busy, Holders
<1> QED
  BY <1>1, <1>2, MainStepKeeps DEF Next

----------------------------------------------------------------------------
LEMMA InvGives == WInv => WorkersTypeOK /\ Exclusion
<1> SUFFICES ASSUME WInv PROVE WorkersTypeOK /\ Exclusion
  OBVIOUS
<1>1. WorkersTypeOK
  BY DEF WInv, Typed, Flags, WorkersTypeOK, Locs
<1>2. pc[Main] \notin InStage \cup {"join"} => \A w \in Worker : ~Busy(w)
  <2>1. CASE pc[Main] \in Between
    BY <2>1 DEF WInv, Quiet, Thread
  <2>2. CASE pc[Main] = "end"
    BY <2>2 DEF WInv, Flags, Busy
  <2> QED
    BY <2>1, <2>2 DEF WInv, Typed, MainLocs, InStage, Between
<1>3. Exclusion
  BY <1>2 DEF WInv, Owned, Exclusion, InStage
<1> QED
  BY <1>1, <1>3

\* What the variables of MtpInterface hold: the counters never go below zero, and a
\* round counts no system twice.
THEOREM WorkersTypeCorrect == Spec => []WorkersTypeOK
BY InitHolds, NextKeeps, InvGives, PTL DEF Spec

\* No two threads work on one system, and none does while the main thread is between
\* two stages, for any number of threads and systems.
THEOREM WorkersExclude == Spec => []Exclusion
BY InitHolds, NextKeeps, InvGives, PTL DEF Spec

----------------------------------------------------------------------------
\* The rounds of MtpBarrier

Outside == {"sort", "reset", "open", "close"}

LEMMA UntakenEnds ==
    ASSUME WInv
    PROVE  /\ index >= N => Untaken = {}
           /\ index = 0 => Untaken = System
<1>1. \A i \in Number : i \in Nat /\ i < N /\ order[i] \in System
  BY OrderFacts DEF WInv
<1>2. \A s \in System : \E i \in Number : order[i] = s
  BY OrderFacts DEF WInv
<1>3. index \in Nat /\ N \in Nat
  BY OrderFacts DEF WInv, Typed
<1>4. index >= N => \A i \in Number : ~(i >= index)
  BY <1>1, <1>3
<1>5. index = 0 => \A i \in Number : i >= index
  BY <1>1
<1> QED
  BY <1>1, <1>2, <1>4, <1>5 DEF Untaken

LEMMA TakeMaps ==
    ASSUME WInv, WInv', NEW t \in Thread, Take(t)
    PROVE  \/ \E s \in System : Barrier!Start(s)
           \/ UNCHANGED <<Phase, Pending, Held>>
<1>0. /\ Main \in Thread /\ \A w \in Worker : w \in Thread /\ w # Main
      /\ index \in Nat /\ N \in Nat
  BY WorkersAssumption, OrderFacts DEF Thread, WInv, Typed
<1>1. /\ pc[t] = "take" /\ index' = index + 1 /\ UNCHANGED <<order, done, recv, finished>>
      /\ \A u \in Thread : u # t => pc'[u] = pc[u]
  BY DEF Take, Goto, WInv, Typed
<1>2. CASE index < N
  <2>1. pc'[t] = "work" /\ lp' = [lp EXCEPT ![t] = order[index]]
    BY <1>0, <1>2 DEF Take, Goto, WInv, Typed
  <2>2. index \in Number /\ order[index] \in System
    BY <1>0, <1>2, OrderFacts DEF WInv
  <2>3. lp'[t] = order[index] /\ \A u \in Thread : u # t => lp'[u] = lp[u]
    BY <2>1 DEF WInv, Typed
  <2>4. pc[Main] \notin Outside
    BY <1>0, <1>2 DEF WInv, Quiet, Between, Outside
  <2>5. pc'[Main] \notin Outside
    BY <1>0, <1>1, <2>1, <2>4 DEF Outside
  <2>6. Phase' = Phase
    BY <1>1, <2>4, <2>5 DEF Phase, Outside
  <2>7. Pending = Untaken /\ Pending' = Untaken'
    BY <2>4, <2>5 DEF Pending, Outside
  <2>8. order[index] \in Untaken
    BY <1>0, <2>2 DEF Untaken
  <2>9. Untaken' = Untaken \ {order[index]}
    <3>1. \A j \in Number : j >= index' <=> (j >= index /\ j # index)
      BY <1>0, <1>1, OrderFacts DEF WInv
    <3>2. \A j \in Number : order[j] = order[index] => j = index
      BY <2>2, OrderFacts DEF WInv
    <3>3. Untaken' = {order[i] : i \in {j \in Number : j >= index'}}
      BY <1>1 DEF Untaken
    <3> QED
      BY <3>1, <3>2, <3>3 DEF Untaken
  <2>10. Held' = Held \cup {order[index]}
    BY <1>1, <2>1, <2>3 DEF Held
  <2> QED
    BY <2>2, <2>6, <2>7, <2>8, <2>9, <2>10 DEF Barrier!Start
<1>3. CASE ~(index < N)
  <2>1. pc'[t] = (IF t = Main THEN "wait" ELSE "spin") /\ lp' = lp
    BY <1>0, <1>3 DEF Take, Goto, WInv, Typed
  <2>2. Held' = Held
    BY <1>1, <2>1 DEF Held
  <2>3. pc'[Main] \in Outside <=> pc[Main] \in Outside
    BY <1>0, <1>1, <2>1 DEF Outside
  <2>4. Phase' = Phase
    BY <1>0, <1>1, <2>1 DEF Phase
  <2>5. Untaken = {} /\ Untaken' = {}
    <3>1. index' \in Nat /\ index' >= N
      BY <1>0, <1>1, <1>3
    <3>2. Untaken' = {}
      <4>1. \A i \in Number : ~(i >= index')
        BY <3>1, OrderFacts DEF WInv
      <4> QED
        BY <4>1 DEF Untaken
    <3> QED
      BY <3>2, <1>0, <1>3, UntakenEnds
  <2>6. Pending' = Pending
    BY <2>3, <2>5 DEF Pending, Outside
  <2> QED
    BY <2>2, <2>4, <2>6
<1> QED
  BY <1>2, <1>3

LEMMA WorkedMaps ==
    ASSUME WInv, NEW t \in Thread, Worked(t)
    PROVE  \E s \in System : Barrier!Finish(s)
<1>0. Main \in Thread
  BY DEF Thread
<1>1. /\ pc[t] = "work" /\ pc'[t] = "count" /\ \A u \in Thread : u # t => pc'[u] = pc[u]
      /\ UNCHANGED <<order, index, done, recv, finished, lp>>
  BY DEF Worked, Goto, WInv, Typed
<1>2. lp[t] \in System
  BY <1>1, OrderFacts DEF WInv, Owned, Busy
<1>3. \A u \in Thread : pc[u] = "work" /\ u # t => lp[u] # lp[t]
  BY <1>1 DEF WInv, Owned, Busy
<1>4. Held' = Held \ {lp[t]} /\ lp[t] \in Held
  BY <1>1, <1>3 DEF Held
<1>5. Phase' = Phase
  BY <1>0, <1>1 DEF Phase
<1>6. Pending' = Pending
  <2>1. pc'[Main] \in Outside <=> pc[Main] \in Outside
    BY <1>0, <1>1 DEF Outside
  <2> QED
    BY <1>1, <2>1 DEF Pending, Untaken, Outside
<1> QED
  BY <1>2, <1>4, <1>5, <1>6 DEF Barrier!Finish

\* Steps of a thread that the rounds do not show
LEMMA OtherThreadStepsMap ==
    ASSUME WInv, NEW t \in Thread, Count(t) \/ Test(t) \/ Spin(t)
    PROVE  UNCHANGED <<Phase, Pending, Held>>
<1>0. Main \in Thread
  BY DEF Thread
<1>1. PICK loc \in {"take", "test", "out"} : Goto(t, loc)
  BY DEF Count, Test, Spin
<1>2. /\ pc'[t] = loc /\ \A u \in Thread : u # t => pc'[u] = pc[u]
      /\ pc[t] \in {"count", "test", "spin"}
      /\ UNCHANGED <<order, index, recv, finished>>
  BY <1>1 DEF Count, Test, Spin, Goto, WInv, Typed
<1>3. \A u \in Thread : u # t => lp'[u] = lp[u]
  BY DEF Count, Test, Spin, WInv, Typed
<1>4. Held' = Held
  BY <1>2, <1>3 DEF Held
<1>5. Phase' = Phase
  BY <1>0, <1>2 DEF Phase
<1>6. Pending' = Pending
  <2>1. pc'[Main] \in Outside <=> pc[Main] \in Outside
    BY <1>0, <1>2 DEF Outside
  <2> QED
    BY <1>2, <2>1 DEF Pending, Untaken, Outside
<1> QED
  BY <1>4, <1>5, <1>6

LEMMA MainMaps ==
    ASSUME WInv, WInv', MainStep
    PROVE  Barrier!Receive \/ Barrier!NextRound \/ UNCHANGED <<Phase, Pending, Held>>
<1>0. Main \in Thread /\ Main \notin Worker
  BY WorkersAssumption DEF Thread
<1>1. PICK loc \in MainLocs \ {"work", "count"} : Goto(Main, loc)
  BY DEF MainStep, Sort, Reset, Open, Wait, Publish, Advance, Close, Join, MainLocs
<1>2. /\ pc'[Main] = loc /\ \A u \in Thread : u # Main => pc'[u] = pc[u]
      /\ pc[Main] # "work" /\ UNCHANGED lp
  BY <1>0, <1>1 DEF MainStep, Sort, Reset, Open, Wait, Publish, Advance, Close, Join, Goto,
                    WInv, Typed
<1>3. Held' = Held
  BY <1>2 DEF Held, MainLocs
<1>4. pc[Main] \in Between => Held = {}
  BY DEF WInv, Quiet, Held, Busy
<1>5. pc[Main] \in {"public", "advance"} => Pending = {}
  BY UntakenEnds DEF WInv, Quiet, Between, Pending
<1>6. CASE Sort \/ Reset
  <2>1. pc[Main] \in Outside /\ pc'[Main] \in Outside /\ ~finished /\ UNCHANGED finished
    BY <1>2, <1>6 DEF Sort, Reset, Goto, WInv, Typed, Flags, Outside
  <2>2. Pending' = Pending
    BY <2>1 DEF Pending, Outside
  <2>3. Phase' = Phase
    BY <1>0, <1>6, <2>1 DEF Sort, Reset, Phase, Goto, WInv, Typed
  <2> QED
    BY <1>3, <2>2, <2>3
<1>7. CASE Open \/ Close
  <2>1. pc[Main] \in {"open", "close"} /\ pc'[Main] \in {"take", "join"} /\ index' = 0
        /\ UNCHANGED <<finished, recv>>
    BY <1>0, <1>7 DEF Open, Close, Goto, WInv, Typed
  <2>2. Untaken' = System
    BY <2>1, <1>7, UntakenEnds, OrderFacts DEF Open, Close, WInv, Untaken
  <2>3. Pending' = Pending
    BY <2>1, <2>2 DEF Pending
  <2>4. Phase' = Phase
    BY <2>1 DEF Phase
  <2> QED
    BY <1>3, <2>3, <2>4
<1>8. CASE Wait \/ Join
  <2>1. /\ pc[Main] \in {"wait", "join"} /\ pc'[Main] \in {"public", "advance", "end"}
        /\ UNCHANGED <<order, index, finished, recv>>
    BY <1>0, <1>8 DEF Wait, Join, Goto, WInv, Typed
  <2>2. Pending' = Pending /\ Phase' = Phase
    BY <2>1 DEF Pending, Untaken, Phase
  <2> QED
    BY <1>3, <2>2
<1>9. CASE Publish
  <2>1. /\ pc[Main] = "public" /\ pc'[Main] = "reset" /\ recv' = TRUE /\ ~recv
        /\ ~finished /\ UNCHANGED finished
    BY <1>0, <1>9 DEF Publish, Goto, WInv, Typed, Flags
  <2>2. Phase = "events" /\ Phase' = "receive" /\ Pending' = System
    BY <2>1 DEF Phase, Pending
  <2>3. Pending = {} /\ Held = {}
    BY <2>1, <1>4, <1>5 DEF Between
  <2> QED
    BY <2>2, <2>3, <1>3 DEF Barrier!Receive, Barrier!Over
<1>10. ASSUME NEW allFinished \in BOOLEAN, Advance(allFinished)
       PROVE  Barrier!NextRound
  <2>1. /\ pc[Main] = "advance" /\ pc'[Main] \in {"close", "sort"} /\ recv /\ recv' = recv
        /\ ~finished /\ (finished' <=> pc'[Main] = "close")
    BY <1>0, <1>10 DEF Advance, Goto, WInv, Typed, Flags
  <2>2. Phase = "receive" /\ Phase' \in {"events", "stopped"} /\ Pending' = System
    BY <2>1 DEF Phase, Pending
  <2>3. Pending = {} /\ Held = {}
    BY <2>1, <1>4, <1>5 DEF Between
  <2> QED
    BY <2>2, <2>3, <1>3 DEF Barrier!NextRound, Barrier!Over
<1> QED
  BY <1>6, <1>7, <1>8, <1>9, <1>10 DEF MainStep

\* Whatever the number of threads and the order in which they take systems, every stage
\* of a round runs every system once and is over before the next begins.
THEOREM ImplementsBarrier == Spec => BarrierSpec
<1>1. Init /\ WInv => Barrier!Init
  <2> SUFFICES ASSUME Init, WInv PROVE Barrier!Init
    OBVIOUS
  <2>1. pc[Main] = "sort" /\ ~finished /\ recv = FALSE
    BY DEF Init, Thread
  <2>2. Held = {}
    BY <2>1 DEF WInv, Quiet, Between, Held, Busy
  <2> QED
    BY <2>1, <2>2 DEF Barrier!Init, Phase, Pending
<1>2. WInv /\ WInv' /\ [Next]_control => [Barrier!Next]_(Barrier!vars)
  <2> SUFFICES ASSUME WInv, WInv', [Next]_control PROVE [Barrier!Next]_(Barrier!vars)
    OBVIOUS
  <2>1. ASSUME NEW t \in Thread, ThreadStep(t)
        PROVE  [Barrier!Next]_(Barrier!vars)
    BY <2>1, TakeMaps, WorkedMaps, OtherThreadStepsMap DEF ThreadStep, Barrier!Next, Barrier!vars
  <2>2. CASE MainStep
    BY <2>2, MainMaps DEF Barrier!Next, Barrier!vars
  <2>3. CASE UNCHANGED control
    BY <2>3 DEF control, Barrier!vars, Phase, Pending, Held, Untaken
  <2> QED
    BY <2>1, <2>2, <2>3 DEF Next
<1> QED
  BY <1>1, <1>2, InitHolds, NextKeeps, PTL DEF Spec, BarrierSpec, Barrier!Spec

----------------------------------------------------------------------------
\* Part 2: the systems

Empty(d) == \A s \in Lp : mailbox[d][s] = <<>>

Windows ==
    /\ smallest <= Half
    /\ ~finished =>
        /\ smallest <= nextPublic
        /\ \A s \in Lp : \A e \in events[s] : e.ts >= smallest
        /\ \A e \in events[0] : e.ts >= nextPublic
        /\ \A s \in System : now[s] <= Granted(s)
        /\ \A d \in System, s \in Lp : \A i \in DOMAIN mailbox[d][s] :
            mailbox[d][s][i].ts >= Granted(d)

NoPast == \A s \in Lp : \A e \in events[s] : e.ts >= now[s]

\* A handler runs only under a thread, and within the window.
Handling ==
    \A s \in Lp : call[s] # Idle =>
        /\ ~stopped
        /\ \E t \in Thread : Runs(t, s)
        /\ s # 0 => now[s] >= smallest
        /\ s = 0 => nextPublic <= now[0] /\ now[0] <= smallest

\* A system that has received has an empty mailbox, until the next round.
Mailboxes ==
    /\ Empty(0)
    /\ recv /\ pc[Main] \in InStage => \A d \in System : d \in Untaken \/ d \in Held \/ Empty(d)
    /\ pc[Main] \in {"advance", "close", "join", "end"} => \A d \in System : Empty(d)

\* What a Stop leaves is not before it.
Ends ==
    /\ stopped => \A s \in Lp :
        /\ \A e \in events[s] : e.ts >= now[0]
        /\ \A r \in Lp : \A i \in DOMAIN mailbox[s][r] : mailbox[s][r][i].ts >= now[0]
    /\ finished => AllFinished

KInv == KernelTypeOK /\ Windows /\ NoPast /\ Handling /\ Mailboxes /\ Ends

----------------------------------------------------------------------------
\* Least elements

LEMMA LeastNumber ==
    ASSUME NEW S \in SUBSET Nat, S # {}
    PROVE  \E m \in S : \A n \in S : m <= n
<1>1. PICK m \in S : \A n \in S : ~(<<n, m>> \in OpToRel(<, Nat))
  BY NatLessThanWellFounded, WFMin
<1>2. \A n \in S : ~(n < m)
  BY <1>1 DEF OpToRel
<1> QED
  BY <1>2

LEMMA FirstIsLeast ==
    ASSUME NEW S \in SUBSET Event, S # {}
    PROVE  LET f == CHOOSE e \in S : \A g \in S : ~Earlier(g, e)
           IN  f \in S /\ \A g \in S : f.ts <= g.ts
<1> DEFINE T == {e.ts : e \in S}
<1>1. T \in SUBSET Nat /\ T # {}
  BY DEF Event
<1>2. PICK e \in S : \A t \in T : e.ts <= t
  BY <1>1, LeastNumber
<1> DEFINE A == {g \in S : g.ts = e.ts}
<1> DEFINE U == {g.uid : g \in A}
<1>3. U \in SUBSET Nat /\ U # {}
  BY DEF Event
<1>4. PICK f \in A : \A u \in U : f.uid <= u
  BY <1>3, LeastNumber
<1>5. \A g \in S : ~Earlier(g, f)
  <2>1. ASSUME NEW g \in S PROVE ~Earlier(g, f)
    <3>1. e.ts <= g.ts /\ f.ts = e.ts
      BY <1>2, <1>4
    <3>2. g.ts = f.ts => f.uid <= g.uid
      BY <1>4, <3>1
    <3>3. g.ts \in Nat /\ f.ts \in Nat /\ g.uid \in Nat /\ f.uid \in Nat
      BY <1>4 DEF Event
    <3> QED
      BY <3>1, <3>2, <3>3 DEF Earlier
  <2> QED
    BY <2>1
<1>6. PICK h \in S : h = (CHOOSE k \in S : \A g \in S : ~Earlier(g, k)) /\ \A g \in S : ~Earlier(g, h)
  BY <1>4, <1>5
<1>7. \A g \in S : h.ts <= g.ts
  BY <1>6 DEF Earlier, Event
<1> QED
  BY <1>6, <1>7

LEMMA Nexts ==
    ASSUME KernelTypeOK, NEW s \in Lp
    PROVE  /\ events[s] # {} =>
                First(s) \in events[s] /\ First(s) \in Event
                /\ \A e \in events[s] : First(s).ts <= e.ts
           /\ NextTime(s) \in Nat
           /\ ~stopped => \A e \in events[s] : NextTime(s) <= e.ts
<1>1. events[s] \in SUBSET Event
  BY DEF KernelTypeOK
<1>2. events[s] # {} =>
        First(s) \in events[s] /\ \A e \in events[s] : First(s).ts <= e.ts
  BY <1>1, FirstIsLeast DEF First
<1>3. Max \in Nat
  BY KernelAssumption DEF Max
<1> QED
  BY <1>1, <1>2, <1>3 DEF NextTime, Event

LEMMA LookAheads ==
    ASSUME NEW s \in Lp
    PROVE  /\ LookAhead(s) \in Nat /\ LookAhead(s) <= Half - 1
           /\ LookAhead(0) = 0
           /\ \A r \in Lp : s # 0 /\ r # s /\ <<s, r>> \in Link => LookAhead(s) <= Delay[<<s, r>>]
<1>1. Half - 1 \in Nat
  BY KernelAssumption
<1>2. Delays(s) \in SUBSET Nat
  BY KernelAssumption DEF Delays
<1>3. CASE s = 0
  BY <1>1, <1>3 DEF LookAhead
<1>4. CASE s # 0
  <2> DEFINE D == Delays(s) \cup {Half - 1}
  <2>1. D \in SUBSET Nat /\ D # {}
    BY <1>1, <1>2
  <2>2. \E m \in D : \A n \in D : m <= n
    BY <2>1, LeastNumber
  <2>3. LookAhead(s) \in D /\ \A n \in D : LookAhead(s) <= n
    BY <1>4, <2>2 DEF LookAhead
  <2>4. ASSUME NEW r \in Lp, r # s, <<s, r>> \in Link
        PROVE  LookAhead(s) <= Delay[<<s, r>>]
    <3>1. Delay[<<s, r>>] \in D
      BY <2>4 DEF Delays
    <3> QED
      BY <2>3, <3>1
  <2> QED
    BY <2>1, <2>3, <2>4 DEF LookAhead
<1> QED
  BY <1>3, <1>4

LEMMA Grants ==
    ASSUME KernelTypeOK, smallest <= Half, NEW s \in Lp
    PROVE  /\ Granted(s) \in Nat /\ Granted(s) <= nextPublic
           /\ Granted(s) <= smallest + LookAhead(s) /\ Granted(0) <= smallest
           /\ smallest <= nextPublic => smallest <= Granted(s)
           /\ Granted(s) < Max
           /\ NextTime(s) <= Granted(s) => ~stopped /\ events[s] # {} /\ NextTime(s) = First(s).ts
<1>1. /\ smallest \in Nat /\ nextPublic \in Nat /\ Half \in Nat /\ 0 \in Lp
      /\ LookAhead(s) \in Nat /\ LookAhead(s) <= Half - 1 /\ LookAhead(0) = 0
  BY LookAheads, KernelAssumption, WorkersAssumption DEF KernelTypeOK, Lp
<1>2. Granted(s) \in Nat /\ Granted(s) <= nextPublic /\ Granted(s) <= smallest + LookAhead(s)
      /\ (smallest <= nextPublic => smallest <= Granted(s))
  BY <1>1 DEF Granted, Least
<1>3. Granted(0) <= smallest
  BY <1>1 DEF Granted, Least
<1>4. Granted(s) < Max
  BY <1>1, <1>2 DEF Max
<1>5. NextTime(s) <= Granted(s) => NextTime(s) # Max
  BY <1>1, <1>2, <1>4 DEF Max
<1> QED
  BY <1>2, <1>3, <1>4, <1>5 DEF NextTime

LEMMA Running ==
    ASSUME WInv, NEW t \in Thread, NEW s \in Lp, Runs(t, s)
    PROVE  /\ ~finished /\ ~recv
           /\ s = 0 => pc[Main] = "public" /\ \A u \in Thread : ~Busy(u)
<1>1. CASE s # 0
  BY <1>1 DEF Runs, WInv, Flags
<1>2. CASE s = 0
  BY <1>2 DEF Runs, WInv, Flags, Quiet, Between
<1> QED
  BY <1>1, <1>2

----------------------------------------------------------------------------
\* The steps of a system

\* What the steps of a handler have in common: the threads and the windows stay.
LEMMA GrantedStays ==
    ASSUME UNCHANGED <<smallest, nextPublic>>
    PROVE  \A s \in Lp : Granted(s)' = Granted(s)
BY DEF Granted, Least

LEMMA RunsStays ==
    ASSUME UNCHANGED control
    PROVE  \A t \in Thread, s \in Lp : Runs(t, s)' <=> Runs(t, s)
BY DEF Runs, control

LEMMA MailboxesStay ==
    ASSUME WInv, Mailboxes, NEW t \in Thread, NEW s \in Lp, Runs(t, s), UNCHANGED control, Empty(0)'
    PROVE  Mailboxes'
<1>1. ~recv /\ ~finished
  BY Running
<1>2. pc'[Main] \notin {"advance", "close", "join", "end"} /\ ~recv'
  BY <1>1 DEF control, WInv, Flags
<1> QED
  BY <1>2 DEF Mailboxes

LEMMA HandlerLen == \A k \in Kind : Calls[k] \in Seq(Call) /\ Len(Calls[k]) \in Nat
BY KernelAssumption

LEMMA RunNextStep ==
    ASSUME WInv, KInv, NEW t \in Thread, NEW s \in Lp, Runs(t, s), UNCHANGED control, RunNext(s)
    PROVE  KInv'
<1> DEFINE f == First(s)
<1>0. /\ KernelTypeOK /\ Windows /\ NoPast /\ Handling /\ Mailboxes /\ Ends
      /\ 0 \in Lp /\ System \subseteq Lp
  BY WorkersAssumption DEF KInv, Lp, System
<1>1. ~finished /\ ~finished' /\ ~recv
  BY Running DEF control
<1>2. ~stopped /\ f \in events[s] /\ f \in Event /\ NextTime(s) = f.ts
      /\ \A e \in events[s] : f.ts <= e.ts
  BY <1>0, Grants, Nexts DEF RunNext, Windows
<1>3. f.ts \in Nat /\ f.kind \in Kind /\ Home[f.kind] = s /\ f.ts <= Granted(s)
      /\ f.ts >= smallest /\ (s = 0 => f.ts >= nextPublic /\ f.ts <= smallest)
  <2>1. f.ts \in Nat /\ f.kind \in Kind
    BY <1>2 DEF Event
  <2>2. Home[f.kind] = s /\ f.ts >= smallest /\ (s = 0 => f.ts >= nextPublic)
    BY <1>0, <1>1, <1>2 DEF KernelTypeOK, Windows
  <2>3. f.ts <= Granted(s)
    BY <1>2 DEF RunNext
  <2>4. s = 0 => f.ts <= smallest
    <3>1. Granted(0) <= smallest /\ Granted(0) \in Nat /\ smallest \in Nat
      BY <1>0, Grants DEF Windows, KernelTypeOK
    <3> QED
      BY <2>1, <2>3, <3>1
  <2> QED
    BY <2>1, <2>2, <2>3, <2>4
<1>4. /\ events'[s] = events[s] \ {f} /\ \A r \in Lp : r # s => events'[r] = events[r]
      /\ now'[s] = f.ts /\ \A r \in Lp : r # s => now'[r] = now[r]
      /\ call'[s] = [kind |-> f.kind, next |-> 1] /\ \A r \in Lp : r # s => call'[r] = call[r]
      /\ UNCHANGED <<mailbox, uid, stopped, smallest, nextPublic>>
  BY <1>0 DEF RunNext, KernelTypeOK
<1>5. \A r \in Lp : events'[r] \subseteq events[r]
  BY <1>4
<1>6. KernelTypeOK'
  <2>1. events' \in [Lp -> SUBSET Event]
    BY <1>0 DEF RunNext, KernelTypeOK
  <2>2. now' \in [Lp -> Nat]
    BY <1>0, <1>3 DEF RunNext, KernelTypeOK
  <2>3. call' \in [Lp -> [kind : Kind \cup {"none"}, next : Nat]]
    BY <1>0, <1>3 DEF RunNext, KernelTypeOK
  <2>4. \A r \in Lp : call'[r] # Idle =>
            /\ call'[r].kind \in Kind /\ Home[call'[r].kind] = r
            /\ call'[r].next \in 1 .. Len(Calls[call'[r].kind]) + 1
    <3>1. /\ call'[s].kind \in Kind /\ Home[call'[s].kind] = s
          /\ call'[s].next \in 1 .. Len(Calls[call'[s].kind]) + 1
      BY <1>3, <1>4, HandlerLen
    <3>2. ASSUME NEW r \in Lp, r # s, call'[r] # Idle
          PROVE  /\ call'[r].kind \in Kind /\ Home[call'[r].kind] = r
                 /\ call'[r].next \in 1 .. Len(Calls[call'[r].kind]) + 1
      BY <1>0, <1>4, <3>2, Zenon DEF KernelTypeOK
    <3> QED
      BY <3>1, <3>2
  <2>5. \A r \in Lp : \A e \in events'[r] : Home[e.kind] = r /\ e.uid < uid'[r]
    BY <1>0, <1>4, <1>5 DEF KernelTypeOK
  <2> QED
    BY <1>0, <1>4, <2>1, <2>2, <2>3, <2>4, <2>5, SMTT(30) DEF KernelTypeOK
<1>7. Windows'
  <2>1. \A r \in Lp : Granted(r)' = Granted(r)
    BY <1>4, GrantedStays
  <2>2. \A r \in System : now'[r] <= Granted(r)'
    BY <1>0, <1>1, <1>3, <1>4, <2>1 DEF Windows
  <2>3. \A d \in System, r \in Lp : \A i \in DOMAIN mailbox'[d][r] : mailbox'[d][r][i].ts >= Granted(d)'
    BY <1>0, <1>1, <1>4, <2>1 DEF Windows
  <2>4. /\ \A r \in Lp : \A e \in events'[r] : e.ts >= smallest'
        /\ \A e \in events'[0] : e.ts >= nextPublic'
    BY <1>0, <1>1, <1>4, <1>5 DEF Windows
  <2>5. smallest' <= Half /\ smallest' <= nextPublic'
    BY <1>0, <1>1, <1>4 DEF Windows
  <2> QED
    BY <2>2, <2>3, <2>4, <2>5 DEF Windows
<1>8. NoPast'
  <2>1. \A e \in events'[s] : e.ts >= now'[s]
    BY <1>0, <1>2, <1>3, <1>4 DEF KernelTypeOK, Event
  <2> QED
    BY <1>0, <1>4, <2>1 DEF NoPast
<1>9. Handling'
  <2>1. ASSUME NEW r \in Lp, call'[r] # Idle, r # s
        PROVE  /\ ~stopped' /\ \E u \in Thread : Runs(u, r)'
               /\ r # 0 => now'[r] >= smallest'
               /\ r = 0 => nextPublic' <= now'[0] /\ now'[0] <= smallest'
    BY <1>0, <1>4, <2>1, RunsStays DEF Handling
  <2>2. ~stopped' /\ Runs(t, s)'
    BY <1>2, <1>4, RunsStays
  <2>3. /\ s # 0 => now'[s] >= smallest'
        /\ s = 0 => nextPublic' <= now'[0] /\ now'[0] <= smallest'
    BY <1>3, <1>4, <1>0 DEF KernelTypeOK
  <2> QED
    BY <2>1, <2>2, <2>3 DEF Handling
<1>10. Mailboxes'
  BY <1>0, <1>4, MailboxesStay DEF Mailboxes, Empty
<1>11. Ends'
  BY <1>1, <1>2, <1>4 DEF Ends
<1> QED
  BY <1>6, <1>7, <1>8, <1>9, <1>10, <1>11 DEF KInv

LEMMA CallsFollowLinks ==
    ASSUME NEW k \in Kind, NEW i \in DOMAIN Calls[k], NEW c, c = Calls[k][i],
           Home[k] # 0, Home[c.kind] # Home[k]
    PROVE  <<Home[k], Home[c.kind]>> \in Link /\ c.after >= Delay[<<Home[k], Home[c.kind]>>]
BY KernelAssumption

LEMMA NextField ==
    ASSUME NEW S, NEW r \in [kind : S, next : Nat], NEW n \in Nat
    PROVE  [r EXCEPT !.next = n] = [kind |-> r.kind, next |-> n]
OBVIOUS

\* The call a handler is at
LEMMA Called ==
    ASSUME KInv, NEW s \in Lp, InCall(s)
    PROVE  /\ NextCall(s) \in Call /\ NextCall(s).kind \in Kind /\ NextCall(s).after \in Nat
           /\ Home[NextCall(s).kind] # s =>
                /\ Home[NextCall(s).kind] \in System
                /\ s # 0 => NextCall(s).after >= LookAhead(Home[NextCall(s).kind])
<1> DEFINE k == call[s].kind  i == call[s].next  c == NextCall(s)  d == Home[c.kind]
<1>1. k \in Kind /\ Home[k] = s /\ i \in 1 .. Len(Calls[k]) + 1 /\ i <= Len(Calls[k])
  BY DEF KInv, KernelTypeOK, InCall
<1>2. i \in 1 .. Len(Calls[k]) /\ c = Calls[k][i]
  BY <1>1, HandlerLen DEF NextCall
<1>3. c \in Call /\ i \in DOMAIN Calls[k]
  BY <1>1, <1>2, HandlerLen
<1>4. c.kind \in Kind /\ c.after \in Nat /\ d \in Lp
  BY <1>3, KernelAssumption DEF Call
<1>5. s # 0 /\ d # s => <<s, d>> \in Link /\ c.after >= Delay[<<s, d>>]
  BY <1>1, <1>2, <1>3, CallsFollowLinks
<1>6. d # s => d \in System
  <2>1. s = 0 /\ d # 0 => d \in System
    BY <1>4, WorkersAssumption DEF Lp, System
  <2>2. s # 0 /\ d # s => d \in System
    BY <1>5, KernelAssumption
  <2> QED
    BY <2>1, <2>2
<1>7. ASSUME s # 0, d # s PROVE c.after >= LookAhead(d)
  <2>1. <<s, d>> \in Link /\ <<d, s>> \in Link /\ Delay[<<d, s>>] = Delay[<<s, d>>]
    BY <1>5, <1>7, KernelAssumption
  <2>2. d \in Lp /\ d # 0 /\ Delay[<<d, s>>] \in Nat
    BY <1>6, <1>7, <2>1, KernelAssumption, WorkersAssumption DEF Lp, System
  <2>3. LookAhead(d) <= Delay[<<d, s>>] /\ LookAhead(d) \in Nat
    BY <1>7, <2>1, <2>2, LookAheads
  <2>4. c.after >= Delay[<<s, d>>]
    BY <1>5, <1>7
  <2> QED
    BY <1>4, <2>1, <2>2, <2>3, <2>4
<1> QED
  BY <1>3, <1>4, <1>6, <1>7

\* After a call the handler is at the next.
LEMMA CallMadeKeeps ==
    ASSUME WInv, KInv, NEW t \in Thread, NEW s \in Lp, Runs(t, s), UNCHANGED control,
           InCall(s), CallMade(s), UNCHANGED <<now, stopped, smallest, nextPublic>>
    PROVE  /\ call' \in [Lp -> [kind : Kind \cup {"none"}, next : Nat]]
           /\ \A r \in Lp : call'[r] # Idle =>
                /\ call'[r].kind \in Kind /\ Home[call'[r].kind] = r
                /\ call'[r].next \in 1 .. Len(Calls[call'[r].kind]) + 1
           /\ Handling'
<1>1. /\ call[s] # Idle /\ call[s].next <= Len(Calls[call[s].kind])
      /\ call \in [Lp -> [kind : Kind \cup {"none"}, next : Nat]]
      /\ call[s].kind \in Kind /\ Home[call[s].kind] = s
      /\ call[s].next \in 1 .. Len(Calls[call[s].kind]) + 1
  BY DEF KInv, KernelTypeOK, InCall
<1>2. call' = [call EXCEPT ![s] = [kind |-> call[s].kind, next |-> call[s].next + 1]]
  <2>1. [call[s] EXCEPT !.next = call[s].next + 1] = [kind |-> call[s].kind, next |-> call[s].next + 1]
    BY <1>1, NextField
  <2>2. call' = [call EXCEPT ![s] = [call[s] EXCEPT !.next = call[s].next + 1]]
    BY <1>1 DEF CallMade
  <2> QED
    BY <2>1, <2>2
<1>3. call'[s] = [kind |-> call[s].kind, next |-> call[s].next + 1]
      /\ \A r \in Lp : r # s => call'[r] = call[r]
  BY <1>1, <1>2
<1>4. call' \in [Lp -> [kind : Kind \cup {"none"}, next : Nat]]
  BY <1>1, <1>2
<1>5. ASSUME NEW r \in Lp, call'[r] # Idle
      PROVE  /\ call'[r].kind \in Kind /\ Home[call'[r].kind] = r
             /\ call'[r].next \in 1 .. Len(Calls[call'[r].kind]) + 1
  <2>1. CASE r = s
    <3>1. call[s].next + 1 \in 1 .. Len(Calls[call[s].kind]) + 1
      BY <1>1, HandlerLen
    <3> QED
      BY <1>1, <1>3, <2>1, <3>1
  <2>2. CASE r # s
    BY <1>3, <1>5, <2>2, Zenon DEF KInv, KernelTypeOK
  <2> QED
    BY <2>1, <2>2
<1>6. Handling'
  <2>1. ASSUME NEW r \in Lp, call'[r] # Idle
        PROVE  /\ ~stopped' /\ \E u \in Thread : Runs(u, r)'
               /\ r # 0 => now'[r] >= smallest'
               /\ r = 0 => nextPublic' <= now'[0] /\ now'[0] <= smallest'
    <3>1. call[r] # Idle
      BY <1>1, <1>3, <2>1
    <3> QED
      BY <3>1, RunsStays DEF KInv, Handling
  <2> QED
    BY <2>1 DEF Handling
<1> QED
  BY <1>4, <1>5, <1>6

LEMMA ScheduleStep ==
    ASSUME WInv, KInv, NEW t \in Thread, NEW s \in Lp, Runs(t, s), UNCHANGED control, Schedule(s)
    PROVE  KInv'
<1> DEFINE e == [ts |-> now[s] + NextCall(s).after, uid |-> uid[s], kind |-> NextCall(s).kind]
<1>0. /\ KernelTypeOK /\ Windows /\ NoPast /\ Handling /\ Mailboxes /\ Ends
      /\ 0 \in Lp /\ System \subseteq Lp
  BY WorkersAssumption DEF KInv, Lp, System
<1>1. ~finished /\ ~finished'
  BY Running DEF control
<1>2. ~stopped /\ (s # 0 => now[s] >= smallest) /\ (s = 0 => nextPublic <= now[0])
  BY <1>0 DEF Schedule, InCall, Handling
<1>3. NextCall(s).kind \in Kind /\ NextCall(s).after \in Nat /\ Home[NextCall(s).kind] = s
  BY Called DEF Schedule
<1>4. now[s] \in Nat /\ uid[s] \in Nat /\ smallest \in Nat /\ nextPublic \in Nat
  BY <1>0 DEF KernelTypeOK
<1>5. e \in Event /\ e.ts >= now[s] /\ e.ts >= smallest /\ (s = 0 => e.ts >= nextPublic)
      /\ Home[e.kind] = s
  <2>1. s = 0 => now[s] >= smallest
    BY <1>0, <1>1, <1>2, <1>4 DEF Windows
  <2> QED
    BY <1>2, <1>3, <1>4, <2>1 DEF Event
<1>6. /\ events'[s] = events[s] \cup {e} /\ \A r \in Lp : r # s => events'[r] = events[r]
      /\ uid'[s] = uid[s] + 1 /\ \A r \in Lp : r # s => uid'[r] = uid[r]
      /\ UNCHANGED <<mailbox, now, stopped, smallest, nextPublic>>
  BY <1>0 DEF Schedule, KernelTypeOK
<1>7. InCall(s) /\ CallMade(s)
  BY DEF Schedule
<1>8. KernelTypeOK'
  <2>1. events' \in [Lp -> SUBSET Event]
    BY <1>0, <1>5, SMTT(30) DEF Schedule, KernelTypeOK
  <2>2. uid' \in [Lp -> Nat]
    BY <1>0, <1>4 DEF Schedule, KernelTypeOK
  <2>3. \A r \in Lp : \A g \in events'[r] : Home[g.kind] = r /\ g.uid < uid'[r]
    <3>1. ASSUME NEW g \in events'[s] PROVE Home[g.kind] = s /\ g.uid < uid'[s]
      <4>1. CASE g = e
        BY <1>4, <1>5, <1>6, <4>1
      <4>2. CASE g \in events[s]
        <5>1. Home[g.kind] = s /\ g.uid < uid[s] /\ g.uid \in Nat
          BY <1>0, <4>2 DEF KernelTypeOK, Event
        <5> QED
          BY <1>4, <1>6, <5>1
      <4> QED
        BY <1>6, <3>1, <4>1, <4>2
    <3> QED
      BY <1>0, <1>6, <3>1 DEF KernelTypeOK
  <2> QED
    BY <1>0, <1>6, <1>7, <2>1, <2>2, <2>3, CallMadeKeeps DEF KernelTypeOK
<1>9. Windows'
  <2>1. \A r \in Lp : Granted(r)' = Granted(r)
    BY <1>6, GrantedStays
  <2>2. \A r \in System : now'[r] <= Granted(r)'
    BY <1>0, <1>1, <1>6, <2>1 DEF Windows
  <2>3. \A d \in System, r \in Lp : \A i \in DOMAIN mailbox'[d][r] : mailbox'[d][r][i].ts >= Granted(d)'
    BY <1>0, <1>1, <1>6, <2>1 DEF Windows
  <2>4. /\ \A r \in Lp : \A g \in events'[r] : g.ts >= smallest'
        /\ \A g \in events'[0] : g.ts >= nextPublic'
    BY <1>0, <1>1, <1>5, <1>6 DEF Windows
  <2>5. smallest' <= Half /\ smallest' <= nextPublic'
    BY <1>0, <1>1, <1>6 DEF Windows
  <2> QED
    BY <2>2, <2>3, <2>4, <2>5 DEF Windows
<1>10. NoPast'
  BY <1>0, <1>5, <1>6 DEF NoPast
<1>11. Handling'
  BY <1>6, <1>7, CallMadeKeeps
<1>12. Mailboxes'
  BY <1>0, <1>6, MailboxesStay DEF Mailboxes, Empty
<1>13. Ends'
  BY <1>1, <1>2, <1>6 DEF Ends
<1> QED
  BY <1>8, <1>9, <1>10, <1>11, <1>12, <1>13 DEF KInv

LEMMA ScheduleRemoteStep ==
    ASSUME WInv, KInv, NEW t \in Thread, NEW s \in Lp, Runs(t, s), UNCHANGED control,
           ScheduleRemote(s)
    PROVE  KInv'
<1>0. /\ KernelTypeOK /\ Windows /\ NoPast /\ Handling /\ Mailboxes /\ Ends
      /\ 0 \in Lp /\ System \subseteq Lp /\ 0 \notin System
  BY WorkersAssumption DEF KInv, Lp, System
<1>1. ~finished /\ ~finished'
  BY Running DEF control
<1>2. ~stopped /\ (s # 0 => now[s] >= smallest) /\ (s = 0 => nextPublic <= now[0])
  BY <1>0 DEF ScheduleRemote, InCall, Handling
<1>3. PICK d \in System :
        /\ d = Home[NextCall(s).kind] /\ NextCall(s).kind \in Kind
        /\ NextCall(s).after \in Nat /\ d # s
        /\ s # 0 => NextCall(s).after >= LookAhead(d)
  BY Called DEF ScheduleRemote
<1>4. now[s] \in Nat /\ uid[s] \in Nat /\ smallest \in Nat /\ nextPublic \in Nat
      /\ Granted(d) \in Nat /\ LookAhead(d) \in Nat
      /\ Granted(d) <= nextPublic /\ Granted(d) <= smallest + LookAhead(d)
  BY <1>0, <1>3, Grants, LookAheads DEF KernelTypeOK, Windows
<1>5. PICK m \in Message :
        /\ m = [sent |-> now[s], uid |-> uid[s], ts |-> now[s] + NextCall(s).after,
                kind |-> NextCall(s).kind]
        /\ m.ts >= Granted(d) /\ Home[m.kind] = d
  <2> DEFINE n == [sent |-> now[s], uid |-> uid[s], ts |-> now[s] + NextCall(s).after,
                   kind |-> NextCall(s).kind]
  <2>1. n \in Message /\ n.ts >= Granted(d) /\ Home[n.kind] = d
    BY <1>2, <1>3, <1>4 DEF Message
  <2> QED
    BY <2>1
<1>6. /\ mailbox'[d][s] = Append(mailbox[d][s], m)
      /\ \A c, r \in Lp : ~(c = d /\ r = s) => mailbox'[c][r] = mailbox[c][r]
      /\ mailbox' \in [Lp -> [Lp -> Seq(Message)]]
      /\ UNCHANGED <<events, now, uid, stopped, smallest, nextPublic>>
  <2>1. mailbox \in [Lp -> [Lp -> Seq(Message)]] /\ d \in Lp
    BY <1>0, <1>3 DEF KernelTypeOK
  <2>2. /\ mailbox' = [mailbox EXCEPT ![d] = [mailbox[d] EXCEPT ![s] = Append(mailbox[d][s], m)]]
        /\ UNCHANGED <<events, now, uid, stopped, smallest, nextPublic>>
    BY <1>3, <1>5 DEF ScheduleRemote
  <2>3. Append(mailbox[d][s], m) \in Seq(Message)
    BY <1>5, <2>1, AppendProperties
  <2>4. mailbox'[d] = [mailbox[d] EXCEPT ![s] = Append(mailbox[d][s], m)]
        /\ \A c \in Lp : c # d => mailbox'[c] = mailbox[c]
    BY <2>1, <2>2
  <2>5. mailbox'[d] \in [Lp -> Seq(Message)] /\ mailbox'[d][s] = Append(mailbox[d][s], m)
        /\ \A r \in Lp : r # s => mailbox'[d][r] = mailbox[d][r]
    BY <2>1, <2>3, <2>4
  <2>6. mailbox' \in [Lp -> [Lp -> Seq(Message)]]
    BY <2>1, <2>2, <2>4, <2>5
  <2> QED
    BY <2>2, <2>4, <2>5, <2>6
<1>7. InCall(s) /\ CallMade(s)
  BY DEF ScheduleRemote
<1>8. \A i \in DOMAIN mailbox'[d][s] :
        mailbox'[d][s][i] = m \/ (i \in DOMAIN mailbox[d][s] /\ mailbox'[d][s][i] = mailbox[d][s][i])
  <2>1. mailbox[d][s] \in Seq(Message)
    BY <1>0, <1>3 DEF KernelTypeOK
  <2> QED
    BY <1>5, <1>6, <2>1, AppendProperties
<1>9. KernelTypeOK'
  <2>1. \A c, r \in Lp : \A i \in DOMAIN mailbox'[c][r] : Home[mailbox'[c][r][i].kind] = c
    <3>0. \A c, r \in Lp : \A i \in DOMAIN mailbox[c][r] : Home[mailbox[c][r][i].kind] = c
      BY <1>0, Zenon DEF KernelTypeOK
    <3>1. ASSUME NEW i \in DOMAIN mailbox'[d][s] PROVE Home[mailbox'[d][s][i].kind] = d
      <4>1. d \in Lp
        BY <1>0, <1>3
      <4>2. CASE mailbox'[d][s][i] = m
        BY <1>5, <4>2
      <4>3. CASE i \in DOMAIN mailbox[d][s] /\ mailbox'[d][s][i] = mailbox[d][s][i]
        BY <3>0, <4>1, <4>3
      <4> QED
        BY <1>8, <3>1, <4>2, <4>3
    <3>2. ASSUME NEW c \in Lp, NEW r \in Lp, ~(c = d /\ r = s)
          PROVE  \A i \in DOMAIN mailbox'[c][r] : Home[mailbox'[c][r][i].kind] = c
      <4>1. mailbox'[c][r] = mailbox[c][r]
        BY <1>6, <3>2
      <4> QED
        BY <3>0, <4>1
    <3>3. ASSUME NEW c \in Lp, NEW r \in Lp, NEW i \in DOMAIN mailbox'[c][r]
          PROVE  Home[mailbox'[c][r][i].kind] = c
      <4>1. CASE c = d /\ r = s
        BY <3>1, <3>3, <4>1
      <4>2. CASE ~(c = d /\ r = s)
        BY <3>2, <3>3, <4>2
      <4> QED
        BY <4>1, <4>2
    <3> QED
      BY <3>3
  <2> QED
    BY <1>0, <1>6, <1>7, <2>1, CallMadeKeeps DEF KernelTypeOK
<1>10. Windows'
  <2>1. \A r \in Lp : Granted(r)' = Granted(r)
    BY <1>6, GrantedStays
  <2>2. \A r \in System : now'[r] <= Granted(r)'
    BY <1>0, <1>1, <1>6, <2>1 DEF Windows
  <2>3. \A c \in System, r \in Lp : \A i \in DOMAIN mailbox'[c][r] : mailbox'[c][r][i].ts >= Granted(c)'
    <3>1. \A i \in DOMAIN mailbox'[d][s] : mailbox'[d][s][i].ts >= Granted(d)'
      BY <1>0, <1>1, <1>3, <1>5, <1>8, <2>1 DEF Windows
    <3>2. ASSUME NEW c \in System, NEW r \in Lp, ~(c = d /\ r = s)
          PROVE  \A i \in DOMAIN mailbox'[c][r] : mailbox'[c][r][i].ts >= Granted(c)'
      BY <1>0, <1>1, <1>6, <2>1, <3>2 DEF Windows
    <3> QED
      BY <3>1, <3>2
  <2>4. /\ \A r \in Lp : \A g \in events'[r] : g.ts >= smallest'
        /\ \A g \in events'[0] : g.ts >= nextPublic'
    BY <1>0, <1>1, <1>6 DEF Windows
  <2>5. smallest' <= Half /\ smallest' <= nextPublic'
    BY <1>0, <1>1, <1>6 DEF Windows
  <2> QED
    BY <2>2, <2>3, <2>4, <2>5 DEF Windows
<1>11. NoPast'
  BY <1>0, <1>6 DEF NoPast
<1>12. Handling'
  BY <1>6, <1>7, CallMadeKeeps
<1>13. Mailboxes'
  <2>1. Empty(0)'
    BY <1>0, <1>3, <1>6 DEF Mailboxes, Empty
  <2> QED
    BY <1>0, <2>1, MailboxesStay
<1>14. Ends'
  BY <1>1, <1>2, <1>6 DEF Ends
<1> QED
  BY <1>9, <1>10, <1>11, <1>12, <1>13, <1>14 DEF KInv

LEMMA MessageTyped ==
    ASSUME KernelTypeOK, NEW d \in Lp, NEW r \in Lp, NEW i \in DOMAIN mailbox[d][r]
    PROVE  /\ mailbox[d][r][i] \in Message
           /\ mailbox[d][r][i].ts \in Nat /\ mailbox[d][r][i].kind \in Kind
           /\ Home[mailbox[d][r][i].kind] = d
<1>1. mailbox[d][r] \in Seq(Message)
  BY DEF KernelTypeOK
<1>2. mailbox[d][r][i] \in Message
  <2>1. DOMAIN mailbox[d][r] = 1 .. Len(mailbox[d][r])
    BY <1>1, LenProperties
  <2> QED
    BY <1>1, <2>1, ElementOfSeq
<1>3. \A c, q \in Lp : \A j \in DOMAIN mailbox[c][q] : Home[mailbox[c][q][j].kind] = c
  BY Zenon DEF KernelTypeOK
<1>4. Home[mailbox[d][r][i].kind] = d
  BY <1>3
<1> QED
  BY <1>2, <1>4 DEF Message

\* While the public system runs, no other does.
LEMMA PublicRunsAlone ==
    ASSUME WInv, Handling, pc[Main] = "public", NEW r \in System
    PROVE  call[r] = Idle
<1>1. Main \in Thread /\ r \in Lp /\ r # 0
  BY WorkersAssumption DEF Thread, Lp, System
<1>2. \A u \in Thread : ~Busy(u)
  BY DEF WInv, Quiet, Between
<1>3. \A u \in Thread : ~Runs(u, r)
  BY <1>1, <1>2 DEF Runs, Busy
<1> QED
  BY <1>1, <1>3 DEF Handling

LEMMA ReturnStep ==
    ASSUME WInv, KInv, NEW t \in Thread, NEW s \in Lp, Runs(t, s), UNCHANGED control, Return(s)
    PROVE  KInv'
<1>0. /\ KernelTypeOK /\ Windows /\ NoPast /\ Handling /\ Mailboxes /\ Ends
      /\ 0 \in Lp /\ System \subseteq Lp /\ \A r \in Lp : r # 0 => r \in System
  BY WorkersAssumption DEF KInv, Lp, System
<1>1. ~finished /\ ~finished' /\ (s = 0 => pc[Main] = "public")
  BY Running DEF control
<1>2. /\ call'[s] = Idle /\ \A r \in Lp : r # s => call'[r] = call[r]
      /\ UNCHANGED <<events, mailbox, now, uid, smallest, nextPublic>>
      /\ stopped' = (stopped \/ call[s].kind \in Stops)
  BY <1>0 DEF Return, KernelTypeOK
<1>3. call[s] # Idle /\ ~stopped /\ call[s].kind \in Kind /\ Home[call[s].kind] = s
  BY <1>0 DEF Return, Handling, KernelTypeOK
<1>4. stopped' => s = 0
  BY <1>2, <1>3, KernelAssumption
<1>5. KernelTypeOK'
  <2>1. call' \in [Lp -> [kind : Kind \cup {"none"}, next : Nat]]
    BY <1>0 DEF Return, KernelTypeOK, Idle
  <2>2. \A r \in Lp : call'[r] # Idle =>
            /\ call'[r].kind \in Kind /\ Home[call'[r].kind] = r
            /\ call'[r].next \in 1 .. Len(Calls[call'[r].kind]) + 1
    <3>1. ASSUME NEW r \in Lp, call'[r] # Idle
          PROVE  /\ call'[r].kind \in Kind /\ Home[call'[r].kind] = r
                 /\ call'[r].next \in 1 .. Len(Calls[call'[r].kind]) + 1
      <4>1. call'[r] = call[r]
        BY <1>2, <3>1
      <4> QED
        BY <1>0, <3>1, <4>1, Zenon DEF KernelTypeOK
    <3> QED
      BY <3>1
  <2>3. stopped' \in BOOLEAN
    BY <1>2, <1>3, <1>0 DEF KernelTypeOK
  <2>4. /\ events' = events /\ mailbox' = mailbox /\ now' = now /\ uid' = uid
        /\ smallest' = smallest /\ nextPublic' = nextPublic
    BY <1>2
  <2> QED
    BY <1>0, <2>1, <2>2, <2>3, <2>4 DEF KernelTypeOK
<1>6. Windows'
  <2>1. \A r \in Lp : Granted(r)' = Granted(r)
    BY <1>2, GrantedStays
  <2> QED
    BY <1>0, <1>1, <1>2, <2>1 DEF Windows
<1>7. NoPast'
  BY <1>0, <1>2 DEF NoPast
<1>8. Handling'
  <2>1. ASSUME NEW r \in Lp, call'[r] # Idle
        PROVE  /\ ~stopped' /\ \E u \in Thread : Runs(u, r)'
               /\ r # 0 => now'[r] >= smallest'
               /\ r = 0 => nextPublic' <= now'[0] /\ now'[0] <= smallest'
    <3>1. r # s /\ call[r] # Idle
      BY <1>2, <2>1
    <3>2. ~stopped'
      BY <1>0, <1>1, <1>4, <3>1, PublicRunsAlone
    <3> QED
      BY <1>0, <1>2, <3>1, <3>2, RunsStays DEF Handling
  <2> QED
    BY <2>1 DEF Handling
<1>9. Mailboxes'
  BY <1>0, <1>2, MailboxesStay DEF Mailboxes, Empty
<1>10. Ends'
  <2>1. ASSUME stopped', NEW r \in Lp, NEW e \in events[r]
        PROVE  e.ts >= now[0]
    <3>1. now[0] <= smallest /\ e.ts >= smallest
      BY <1>0, <1>1, <1>3, <1>4, <2>1 DEF Handling, Windows
    <3>2. e.ts \in Nat /\ now[0] \in Nat /\ smallest \in Nat
      BY <1>0, <2>1 DEF KernelTypeOK, Event
    <3> QED
      BY <3>1, <3>2
  <2>2. ASSUME stopped', NEW d \in Lp, NEW r \in Lp, NEW i \in DOMAIN mailbox[d][r]
        PROVE  mailbox[d][r][i].ts >= now[0]
    <3>1. d \in System
      <4>1. mailbox[d][r] # <<>>
        BY <2>2
      <4> QED
        BY <1>0, <4>1 DEF Mailboxes, Empty
    <3>2. now[0] <= smallest /\ smallest <= nextPublic /\ mailbox[d][r][i].ts >= Granted(d)
      BY <1>0, <1>1, <1>3, <1>4, <2>2, <3>1 DEF Handling, Windows
    <3>3. smallest <= Granted(d) /\ Granted(d) \in Nat
      BY <1>0, <2>2, <3>2, Grants DEF Windows
    <3>4. mailbox[d][r][i].ts \in Nat
      BY <1>0, <2>2, MessageTyped
    <3>5. mailbox[d][r][i].ts \in Nat /\ now[0] \in Nat /\ smallest \in Nat
      BY <1>0, <3>4 DEF KernelTypeOK
    <3> QED
      BY <3>2, <3>3, <3>5
  <2> QED
    BY <1>1, <1>2, <2>1, <2>2 DEF Ends
<1> QED
  BY <1>5, <1>6, <1>7, <1>8, <1>9, <1>10 DEF KInv

LEMMA LpStepKeeps ==
    ASSUME WInv, KInv, NEW t \in Thread, Process(t)
    PROVE  KInv'
<1>1. PICK s \in Lp : UNCHANGED control /\ Runs(t, s) /\ LpStep(s)
  BY DEF Process
<1> QED
  BY <1>1, RunNextStep, ScheduleStep, ScheduleRemoteStep, ReturnStep DEF LpStep
----------------------------------------------------------------------------
\* Receiving

LEMMA WaitingFinite ==
    ASSUME KernelTypeOK, NEW d \in Lp
    PROVE  Cardinality(Waiting(d)) \in Nat
<1> DEFINE f == [s \in Lp |-> {s} \X DOMAIN mailbox[d][s]]
           P == {{s} \X DOMAIN mailbox[d][s] : s \in Lp}
<1>1. IsFiniteSet(Lp)
  <2>1. 0 \in Int /\ N \in Int
    BY WorkersAssumption
  <2> QED
    BY <2>1, FS_Interval DEF Lp
<1>2. f \in Surjection(Lp, P)
  <2>1. f \in [Lp -> P]
    OBVIOUS
  <2>2. ASSUME NEW T \in P PROVE \E s \in Lp : f[s] = T
    <3>1. PICK s \in Lp : T = {s} \X DOMAIN mailbox[d][s]
      BY <2>2
    <3>2. f[s] = T
      BY <3>1
    <3> QED
      BY <3>2
  <2> HIDE DEF f, P
  <2> QED
    BY <2>1, <2>2 DEF Surjection
<1>3. IsFiniteSet(P)
  BY <1>1, <1>2, FS_Surjection
<1>4. ASSUME NEW s \in Lp PROVE IsFiniteSet({s} \X DOMAIN mailbox[d][s])
  <2>1. mailbox[d][s] \in Seq(Message)
    BY DEF KernelTypeOK
  <2>2. IsFiniteSet(DOMAIN mailbox[d][s])
    <3>1. DOMAIN mailbox[d][s] = 1 .. Len(mailbox[d][s]) /\ Len(mailbox[d][s]) \in Int
      BY <2>1, LenProperties
    <3> QED
      BY <3>1, FS_Interval
  <2>3. IsFiniteSet({s})
    BY FS_Singleton
  <2> QED
    BY <2>2, <2>3, FS_Product
<1>5. \A T \in P : IsFiniteSet(T)
  BY <1>4
<1>6. IsFiniteSet(UNION P)
  BY <1>3, <1>5, FS_UNION
<1> QED
  BY <1>6, FS_CardinalityType DEF Waiting

\* The event the message p becomes
Made(d, rank, p) ==
    [ts |-> mailbox[d][p[1]][p[2]].ts, uid |-> uid[d] + rank[p],
     kind |-> mailbox[d][p[1]][p[2]].kind]

LEMMA Received ==
    ASSUME KernelTypeOK, NEW d \in Lp, ReceiveMessages(d)
    PROVE  /\ events' \in [Lp -> SUBSET Event] /\ uid' \in [Lp -> Nat]
           /\ \A r \in Lp : r # d => events'[r] = events[r] /\ uid'[r] = uid[r]
           /\ uid'[d] >= uid[d] /\ events[d] \subseteq events'[d]
           /\ \A e \in events'[d] :
                \/ e \in events[d]
                \/ /\ \E s \in Lp : \E i \in DOMAIN mailbox[d][s] :
                        e.ts = mailbox[d][s][i].ts /\ e.kind = mailbox[d][s][i].kind
                   /\ e.uid < uid'[d]
<1> DEFINE n == Cardinality(Waiting(d))
<1>1. PICK rank \in Ranks(d) :
        events' = [events EXCEPT ![d] = events[d] \cup {Made(d, rank, p) : p \in Waiting(d)}]
  BY DEF ReceiveMessages, Made
<1>2. n \in Nat /\ uid[d] \in Nat
  BY WaitingFinite DEF KernelTypeOK
<1>3. /\ uid' = [uid EXCEPT ![d] = uid[d] + n]
      /\ uid' \in [Lp -> Nat] /\ uid'[d] = uid[d] + n /\ \A r \in Lp : r # d => uid'[r] = uid[r]
  <2>1. uid' = [uid EXCEPT ![d] = uid[d] + n]
    BY DEF ReceiveMessages
  <2> QED
    BY <1>2, <2>1 DEF KernelTypeOK
<1>4. ASSUME NEW p \in Waiting(d)
      PROVE  /\ p[1] \in Lp /\ p[2] \in DOMAIN mailbox[d][p[1]]
             /\ rank[p] \in Nat /\ rank[p] < n
  <2>1. PICK s \in Lp : p \in {s} \X DOMAIN mailbox[d][s]
    BY <1>4 DEF Waiting
  <2>2. rank \in [Waiting(d) -> 0 .. n - 1]
    BY DEF Ranks
  <2>3. rank[p] \in 0 .. n - 1
    BY <1>4, <2>2
  <2> QED
    BY <1>2, <2>1, <2>3
<1>5. ASSUME NEW p \in Waiting(d)
      PROVE  /\ Made(d, rank, p) \in Event /\ Made(d, rank, p).uid < uid'[d]
             /\ Made(d, rank, p).ts = mailbox[d][p[1]][p[2]].ts
             /\ Made(d, rank, p).kind = mailbox[d][p[1]][p[2]].kind
  <2>1. mailbox[d][p[1]][p[2]].ts \in Nat /\ mailbox[d][p[1]][p[2]].kind \in Kind
    BY <1>4, <1>5, MessageTyped
  <2>2. uid[d] + rank[p] \in Nat /\ uid[d] + rank[p] < uid'[d]
    BY <1>2, <1>3, <1>4
  <2> QED
    BY <2>1, <2>2 DEF Event, Made
<1>6. events'[d] = events[d] \cup {Made(d, rank, p) : p \in Waiting(d)}
      /\ \A r \in Lp : r # d => events'[r] = events[r]
  BY <1>1 DEF KernelTypeOK
<1>7. events'[d] \in SUBSET Event
  <2>1. events[d] \in SUBSET Event
    BY DEF KernelTypeOK
  <2> QED
    BY <1>5, <1>6, <2>1
<1>8. events' \in [Lp -> SUBSET Event]
  <2>1. PICK S \in SUBSET Event : events' = [events EXCEPT ![d] = S]
    BY <1>1, <1>6, <1>7
  <2>2. events \in [Lp -> SUBSET Event]
    BY DEF KernelTypeOK
  <2> QED
    BY <2>1, <2>2
<1>9. ASSUME NEW e \in events'[d], e \notin events[d]
      PROVE  /\ \E s \in Lp : \E i \in DOMAIN mailbox[d][s] :
                    e.ts = mailbox[d][s][i].ts /\ e.kind = mailbox[d][s][i].kind
             /\ e.uid < uid'[d]
  <2>1. PICK p \in Waiting(d) : e = Made(d, rank, p)
    BY <1>6, <1>9
  <2>2. e.ts = mailbox[d][p[1]][p[2]].ts /\ e.kind = mailbox[d][p[1]][p[2]].kind
    BY <1>5, <2>1
  <2>3. e.uid < uid'[d]
    BY <1>5, <2>1
  <2> QED
    BY <1>4, <2>2, <2>3
<1>10. uid'[d] >= uid[d]
  BY <1>2, <1>3
<1> QED
  BY <1>3, <1>6, <1>8, <1>9, <1>10
\* Where nothing runs, the handlers stay idle.
LEMMA NoneRuns ==
    ASSUME WInv, Handling, recv
    PROVE  \A s \in Lp : call[s] = Idle
<1>1. \A t \in Thread, s \in Lp : ~Runs(t, s)
  BY Running
<1> QED
  BY <1>1 DEF Handling

\* The system a thread works on
LEMMA HeldSystem ==
    ASSUME WInv, NEW t \in Thread, Busy(t)
    PROVE  lp[t] \in System /\ lp[t] # 0 /\ lp[t] \in Lp
<1>1. lp[t] \in System
  BY OrderFacts DEF WInv, Owned
<1> QED
  BY <1>1, WorkersAssumption DEF System, Lp

LEMMA ReceiveStep ==
    ASSUME WInv, KInv, NEW t \in Thread, EndReceive(t)
    PROVE  KInv'
<1>0. /\ KernelTypeOK /\ Windows /\ NoPast /\ Handling /\ Mailboxes /\ Ends
      /\ 0 \in Lp /\ System \subseteq Lp /\ Main \in Thread
      /\ \A r \in Lp : r # 0 => r \in System
  BY WorkersAssumption DEF KInv, Lp, System, Thread
<1>1. recv /\ pc[t] = "work" /\ ReceiveMessages(lp[t])
      /\ UNCHANGED <<order, index, done, recv, finished, lp>>
  BY DEF EndReceive, Worked
<1>2. pc'[t] = "count" /\ \A u \in Thread : u # t => pc'[u] = pc[u]
  BY Moves DEF WInv, EndReceive, Worked, Locs, MainLocs, WorkerLocs
<1>3. PICK d \in System : d = lp[t] /\ d # 0 /\ d \in Lp
  BY <1>1, HeldSystem DEF Busy
<1>4. /\ events' \in [Lp -> SUBSET Event] /\ uid' \in [Lp -> Nat]
      /\ \A r \in Lp : r # d => events'[r] = events[r] /\ uid'[r] = uid[r]
      /\ uid'[d] >= uid[d] /\ events[d] \subseteq events'[d]
      /\ \A e \in events'[d] :
            \/ e \in events[d]
            \/ /\ \E s \in Lp : \E i \in DOMAIN mailbox[d][s] :
                    e.ts = mailbox[d][s][i].ts /\ e.kind = mailbox[d][s][i].kind
               /\ e.uid < uid'[d]
  BY <1>0, <1>1, <1>3, Received
<1>5. /\ mailbox' = [mailbox EXCEPT ![d] = [s \in Lp |-> <<>>]]
      /\ now' = now /\ call' = call /\ stopped' = stopped
      /\ smallest' = smallest /\ nextPublic' = nextPublic
  BY <1>1, <1>3 DEF ReceiveMessages
<1>6. /\ \A s \in Lp : mailbox'[d][s] = <<>>
      /\ \A c \in Lp : c # d => mailbox'[c] = mailbox[c]
      /\ mailbox' \in [Lp -> [Lp -> Seq(Message)]]
  <2>1. [s \in Lp |-> <<>>] \in [Lp -> Seq(Message)]
    BY EmptySeq
  <2> QED
    BY <1>0, <1>3, <1>5, <2>1 DEF KernelTypeOK
<1>7. \A s \in Lp : call'[s] = Idle
  BY <1>0, <1>1, <1>5, NoneRuns
<1>8. \A c, s \in Lp : \A i \in DOMAIN mailbox'[c][s] :
        i \in DOMAIN mailbox[c][s] /\ mailbox'[c][s][i] = mailbox[c][s][i]
  <2>1. ASSUME NEW c \in Lp, NEW s \in Lp, NEW i \in DOMAIN mailbox'[c][s]
        PROVE  i \in DOMAIN mailbox[c][s] /\ mailbox'[c][s][i] = mailbox[c][s][i]
    <3>1. c # d
      <4>1. mailbox'[c][s] # <<>>
        BY <2>1
      <4> QED
        BY <1>6, <4>1
    <3> QED
      BY <1>6, <2>1, <3>1
  <2> QED
    BY <2>1
\* After the end the mailboxes are empty, whatever a late worker does.
<1>9. finished => \A r \in Lp : events'[r] = events[r]
  <2>1. ASSUME finished PROVE events'[d] = events[d]
    <3>1. Empty(d)
      BY <1>0, <2>1 DEF WInv, Flags, Mailboxes
    <3>2. \A r \in Lp : mailbox[d][r] = <<>>
      BY <3>1 DEF Empty
    <3>3. events'[d] \subseteq events[d]
      BY <1>4, <3>2
    <3> QED
      BY <1>4, <3>3
  <2> QED
    BY <1>4, <2>1
<1>10. KernelTypeOK'
  <2>1. \A r \in Lp : \A e \in events'[r] : Home[e.kind] = r /\ e.uid < uid'[r]
    <3>0. \A r \in Lp : \A e \in events[r] : Home[e.kind] = r /\ e.uid < uid[r] /\ e.uid \in Nat
      BY <1>0 DEF KernelTypeOK, Event
    <3>1. ASSUME NEW e \in events'[d] PROVE Home[e.kind] = d /\ e.uid < uid'[d]
      <4>1. CASE e \in events[d]
        BY <1>0, <1>3, <1>4, <3>0, <4>1 DEF KernelTypeOK
      <4>2. CASE e \notin events[d]
        <5>1. PICK s \in Lp : \E i \in DOMAIN mailbox[d][s] : e.kind = mailbox[d][s][i].kind
          BY <1>4, <3>1, <4>2
        <5> QED
          BY <1>0, <1>3, <1>4, <3>1, <4>2, <5>1, MessageTyped
      <4> QED
        BY <4>1, <4>2
    <3> QED
      BY <1>4, <3>0, <3>1
  <2>2. \A c, s \in Lp : \A i \in DOMAIN mailbox'[c][s] : Home[mailbox'[c][s][i].kind] = c
    BY <1>0, <1>8, MessageTyped
  <2>3. \A s \in Lp : call'[s] # Idle =>
            /\ call'[s].kind \in Kind /\ Home[call'[s].kind] = s
            /\ call'[s].next \in 1 .. Len(Calls[call'[s].kind]) + 1
    BY <1>7
  <2> QED
    BY <1>0, <1>4, <1>5, <1>6, <2>1, <2>2, <2>3 DEF KernelTypeOK
\* A message is not before the window it was sent in.
<1>11. ASSUME ~finished, NEW s \in Lp, NEW i \in DOMAIN mailbox[d][s]
       PROVE  /\ mailbox[d][s][i].ts \in Nat
              /\ mailbox[d][s][i].ts >= now[d] /\ mailbox[d][s][i].ts >= smallest
  <2>1. mailbox[d][s][i].ts >= Granted(d) /\ now[d] <= Granted(d) /\ smallest <= nextPublic
    BY <1>0, <1>11 DEF Windows
  <2>2. Granted(d) \in Nat /\ smallest <= Granted(d)
    BY <1>0, <1>3, <2>1, Grants DEF Windows
  <2>3. mailbox[d][s][i].ts \in Nat /\ now[d] \in Nat /\ smallest \in Nat
    BY <1>0, <1>3, <1>11, MessageTyped DEF KernelTypeOK
  <2> QED
    BY <2>1, <2>2, <2>3
<1>12. Windows'
  <2>1. \A r \in Lp : Granted(r)' = Granted(r)
    BY <1>5, GrantedStays
  <2>2. ASSUME ~finished
        PROVE  /\ \A r \in Lp : \A e \in events'[r] : e.ts >= smallest'
               /\ \A e \in events'[0] : e.ts >= nextPublic'
    <3>1. \A e \in events'[d] : e.ts >= smallest
      BY <1>0, <1>3, <1>4, <1>11, <2>2 DEF Windows
    <3> QED
      BY <1>0, <1>3, <1>4, <1>5, <2>2, <3>1 DEF Windows
  <2>3. ~finished => \A c \in System, s \in Lp : \A i \in DOMAIN mailbox'[c][s] :
            mailbox'[c][s][i].ts >= Granted(c)'
    BY <1>0, <1>8, <2>1 DEF Windows
  <2>4. ~finished => \A r \in System : now'[r] <= Granted(r)'
    BY <1>0, <1>5, <2>1 DEF Windows
  <2>5. smallest' <= Half /\ (~finished => smallest' <= nextPublic')
    BY <1>0, <1>5 DEF Windows
  <2> QED
    BY <1>1, <2>2, <2>3, <2>4, <2>5 DEF Windows
<1>13. NoPast'
  <2>1. ASSUME NEW e \in events'[d] PROVE e.ts >= now[d]
    <3>1. CASE e \in events[d]
      BY <1>0, <1>3, <3>1 DEF NoPast
    <3>2. CASE e \notin events[d]
      BY <1>3, <1>4, <1>9, <1>11, <2>1, <3>2
    <3> QED
      BY <3>1, <3>2
  <2> QED
    BY <1>0, <1>4, <1>5, <2>1 DEF NoPast
<1>14. Handling'
  BY <1>7 DEF Handling
<1>15. Mailboxes'
  <2>1. Empty(0)'
    BY <1>0, <1>3, <1>6 DEF Mailboxes, Empty
  <2>2. Empty(d)'
    BY <1>6 DEF Empty
  <2>3. \A c \in Lp : Empty(c) => Empty(c)'
    BY <1>6 DEF Empty
  <2>4. ASSUME pc'[Main] \in InStage, NEW c \in System, c # d
        PROVE  c \in Untaken' \/ c \in Held' \/ Empty(c)'
    <3>1. pc[Main] \in InStage
      BY <1>0, <1>1, <1>2, <2>4 DEF InStage
    <3>2. c \in Untaken \/ c \in Held \/ Empty(c)
      BY <1>0, <1>1, <3>1 DEF Mailboxes
    <3>3. Untaken' = Untaken
      BY <1>1 DEF Untaken
    <3>4. ASSUME c \in Held PROVE c \in Held'
      <4>1. PICK u \in Thread : pc[u] = "work" /\ lp[u] = c
        BY <3>4 DEF Held
      <4>2. u # t
        BY <1>3, <2>4, <4>1
      <4>3. pc'[u] = "work" /\ lp'[u] = c
        BY <1>1, <1>2, <4>1, <4>2
      <4> QED
        BY <4>3 DEF Held
    <3> QED
      BY <1>0, <2>3, <3>2, <3>3, <3>4
  <2>5. pc'[Main] \in {"advance", "close", "join", "end"} => pc'[Main] = pc[Main]
    BY <1>0, <1>2
  <2> QED
    BY <1>0, <2>1, <2>2, <2>3, <2>4, <2>5 DEF Mailboxes
<1>16. Ends'
  <2>1. ASSUME stopped, NEW r \in Lp, NEW e \in events'[r] PROVE e.ts >= now[0]
    <3>1. CASE e \in events[r]
      BY <1>0, <2>1, <3>1 DEF Ends
    <3>2. CASE e \notin events[r]
      <4>1. r = d /\ e \in events'[d]
        BY <1>4, <2>1, <3>2
      <4> QED
        BY <1>0, <1>3, <1>4, <2>1, <3>2, <4>1 DEF Ends
    <3> QED
      BY <3>1, <3>2
  <2>2. ASSUME stopped, NEW r \in Lp, NEW s \in Lp, NEW i \in DOMAIN mailbox'[r][s]
        PROVE  mailbox'[r][s][i].ts >= now[0]
    BY <1>0, <1>8, <2>2 DEF Ends
  <2>3. finished => AllFinished'
    BY <1>0, <1>5, <1>9 DEF Ends, AllFinished
  <2> QED
    BY <1>1, <1>5, <2>1, <2>2, <2>3 DEF Ends
<1> QED
  BY <1>10, <1>12, <1>13, <1>14, <1>15, <1>16 DEF KInv
----------------------------------------------------------------------------
\* The steps of the threads between the calls of the systems

\* What is left to show of a step that changes no system.
LEMMA ControlKeeps ==
    ASSUME KInv, UNCHANGED lps, finished' = finished,
           \A s \in Lp : call[s] # Idle => \E t \in Thread : Runs(t, s)',
           Mailboxes'
    PROVE  KInv'
<1>0. /\ KernelTypeOK /\ Windows /\ NoPast /\ Handling /\ Mailboxes /\ Ends
      /\ 0 \in Lp /\ System \subseteq Lp
  BY WorkersAssumption DEF KInv, Lp, System
<1>1. /\ events' = events /\ mailbox' = mailbox /\ now' = now /\ uid' = uid /\ call' = call
      /\ stopped' = stopped /\ smallest' = smallest /\ nextPublic' = nextPublic
  BY DEF lps
<1>2. KernelTypeOK'
  BY <1>0, <1>1 DEF KernelTypeOK
<1>3. Windows'
  <2>1. \A r \in Lp : Granted(r)' = Granted(r)
    BY <1>1, GrantedStays
  <2> QED
    BY <1>0, <1>1, <2>1 DEF Windows
<1>4. NoPast'
  BY <1>0, <1>1 DEF NoPast
<1>5. Handling'
  BY <1>0, <1>1 DEF Handling
<1>6. Ends'
  BY <1>0, <1>1 DEF Ends, AllFinished
<1> QED
  BY <1>2, <1>3, <1>4, <1>5, <1>6 DEF KInv

LEMMA EndRoundStep ==
    ASSUME WInv, WInv', KInv, NEW t \in Thread, EndRound(t)
    PROVE  KInv'
<1>0. Handling /\ Mailboxes /\ Main \in Thread
  BY WorkersAssumption DEF KInv, Thread
<1>1. /\ ~recv /\ pc[t] = "work" /\ call[lp[t]] = Idle
      /\ UNCHANGED <<order, index, done, recv, finished, lp>> /\ UNCHANGED lps
  BY DEF EndRound, Worked, RoundOver
<1>2. \A u \in Thread : u # t => pc'[u] = pc[u]
  BY Moves DEF WInv, EndRound, Worked, Locs, MainLocs, WorkerLocs
<1>3. ASSUME NEW s \in Lp, call[s] # Idle PROVE \E u \in Thread : Runs(u, s)'
  <2>1. PICK u \in Thread : Runs(u, s)
    BY <1>0, <1>3 DEF Handling
  <2>2. u # t
    BY <1>1, <1>3, <2>1 DEF Runs
  <2>3. Runs(u, s)'
    BY <1>1, <1>2, <2>1, <2>2 DEF Runs
  <2> QED
    BY <2>3
<1>4. Mailboxes'
  <2>1. mailbox' = mailbox
    BY <1>1 DEF lps
  <2>2. pc'[Main] \notin {"advance", "close", "join", "end"} /\ ~recv'
    BY <1>1 DEF WInv, Flags
  <2> QED
    BY <1>0, <2>1, <2>2 DEF Mailboxes, Empty
<1> QED
  BY <1>1, <1>3, <1>4, ControlKeeps

LEMMA ThreadStepKeeps ==
    ASSUME WInv, WInv', KInv, NEW t \in Thread, UNCHANGED lps,
           Take(t) \/ Count(t) \/ Test(t) \/ Spin(t)
    PROVE  KInv'
<1>0. Handling /\ Mailboxes /\ Main \in Thread
  BY WorkersAssumption DEF KInv, Thread
<1>1. /\ UNCHANGED <<order, recv, finished>> /\ mailbox' = mailbox
      /\ pc[t] \in {"take", "count", "test", "spin"}
      /\ \A u \in Thread : u # t => lp'[u] = lp[u] /\ pc'[u] = pc[u]
      /\ t = Main => pc'[Main] \in {"work", "wait", "take"} /\ pc[Main] \in {"take", "count"}
  BY WorkersAssumption
     DEF Take, Count, Test, Spin, Goto, lps, WInv, Typed, MainLocs
<1>2. ASSUME NEW s \in Lp, call[s] # Idle PROVE \E u \in Thread : Runs(u, s)'
  <2>1. PICK u \in Thread : Runs(u, s)
    BY <1>0, <1>2 DEF Handling
  <2>2. u # t
    BY <1>1, <2>1 DEF Runs
  <2>3. Runs(u, s)'
    BY <1>1, <2>1, <2>2 DEF Runs
  <2> QED
    BY <2>3
<1>3. \A c \in Held : c \in Held'
  <2>1. ASSUME NEW u \in Thread, pc[u] = "work" PROVE lp[u] \in Held'
    BY <1>1, <2>1 DEF Held
  <2> QED
    BY <2>1 DEF Held
<1>4. \A c \in Untaken : c \in Untaken' \/ c \in Held'
  <2>1. CASE Take(t)
    <3>1. ASSUME NEW i \in Number, i >= index PROVE order[i] \in Untaken' \/ order[i] \in Held'
      <4>1. CASE i = index
        <5>1. index < N
          BY <3>1, <4>1, OrderFacts DEF WInv
        <5>2. lp' = [lp EXCEPT ![t] = order[i]] /\ Goto(t, "work")
          BY <2>1, <4>1, <5>1, OrderFacts DEF Take, WInv, Typed
        <5>3. pc'[t] = "work" /\ lp'[t] = order[i]
          BY <5>2 DEF Goto, WInv, Typed
        <5> QED
          BY <5>3 DEF Held
      <4>2. CASE i # index
        <5>1. index' = index + 1 /\ index \in Nat /\ i \in Nat /\ order'[i] = order[i]
          BY <1>1, <2>1, OrderFacts DEF Take, WInv, Typed
        <5>2. i >= index'
          BY <3>1, <4>2, <5>1
        <5> QED
          BY <5>1, <5>2 DEF Untaken
      <4> QED
        BY <4>1, <4>2
    <3> QED
      BY <3>1 DEF Untaken
  <2>2. CASE ~Take(t)
    <3>1. index' = index
      BY <2>2 DEF Count, Test, Spin
    <3> QED
      BY <1>1, <3>1 DEF Untaken
  <2> QED
    BY <2>1, <2>2
<1>5. Mailboxes'
  <2>1. \A c \in Lp : Empty(c)' <=> Empty(c)
    BY <1>1 DEF Empty
  <2>2. /\ pc'[Main] \in InStage => pc[Main] \in InStage
        /\ pc'[Main] \in {"advance", "close", "join", "end"} => pc'[Main] = pc[Main]
    BY <1>0, <1>1 DEF InStage
  <2>3. 0 \in Lp /\ System \subseteq Lp
    BY WorkersAssumption DEF Lp, System
  <2> QED
    BY <1>0, <1>1, <1>3, <1>4, <2>1, <2>2, <2>3 DEF Mailboxes
<1> QED
  BY <1>1, <1>2, <1>5, ControlKeeps

\* Where the main thread goes from one stage to another, no system is in a handler.
LEMMA AllIdle ==
    ASSUME WInv, Handling,
           \/ pc[Main] \in Between \ {"public"}
           \/ pc[Main] = "join"
           \/ pc[Main] = "wait" /\ done = N
    PROVE  \A s \in Lp : call[s] = Idle
<1>1. CASE recv
  BY <1>1, NoneRuns
<1>2. CASE ~recv
  <2>1. pc[Main] # "join" /\ pc[Main] # "public"
    BY <1>2 DEF WInv, Flags
  <2>2. \A t \in Thread : ~Busy(t)
    <3>1. CASE pc[Main] \in Between
      BY <3>1 DEF WInv, Quiet
    <3>2. CASE pc[Main] = "wait" /\ done = N
      <4>1. index >= N /\ done + Cardinality(Holders) = Taken(index) /\ index \in Nat /\ N \in Nat
        BY <3>2, WorkersAssumption DEF WInv, Quiet, Counted, InStage, Typed
      <4>2. Cardinality(Holders) \in Nat
        BY ThreadsFinite DEF Holders
      <4>3. Cardinality(Holders) = 0
        BY <3>2, <4>1, <4>2 DEF Taken
      <4> QED
        BY <4>3, NoHolders
    <3> QED
      BY <2>1, <3>1, <3>2
  <2>3. \A t \in Thread, s \in Lp : ~Runs(t, s)
    BY <2>1, <2>2 DEF Runs, Busy
  <2> QED
    BY <2>3 DEF Handling
<1> QED
  BY <1>1, <1>2

LEMMA MainStepsKeep ==
    ASSUME WInv, WInv', KInv, UNCHANGED lps,
           \/ Sort \/ Reset \/ Open \/ Wait \/ Close \/ Join
           \/ Publish /\ RoundOver(0)
    PROVE  KInv'
<1>0. /\ Handling /\ Mailboxes /\ Main \in Thread /\ 0 \in Lp /\ System \subseteq Lp
      /\ \A s \in Lp : s # 0 => s \in System
  BY WorkersAssumption DEF KInv, Thread, Lp, System
<1>1. \A s \in Lp : call[s] = Idle
  <2>1. CASE Sort \/ Reset \/ Open \/ Wait \/ Close \/ Join
    BY <1>0, <2>1, AllIdle DEF Sort, Reset, Open, Wait, Close, Join, Between
  <2>2. CASE Publish /\ RoundOver(0)
    BY <1>0, <2>2, PublicRunsAlone DEF Publish, RoundOver
  <2> QED
    BY <2>1, <2>2
<1>2. finished' = finished
  BY DEF Sort, Reset, Open, Wait, Close, Join, Publish
<1>3. \A c \in Lp : Empty(c)' <=> Empty(c)
  BY DEF Empty, lps
<1>4. Mailboxes'
  <2>1. CASE Sort \/ Reset \/ (Publish /\ RoundOver(0))
    <3>1. pc'[Main] \in {"reset", "open"}
      BY <1>0, <2>1 DEF Sort, Reset, Publish, Goto, WInv, Typed
    <3> QED
      BY <1>0, <1>3, <3>1 DEF Mailboxes, InStage
  <2>2. CASE Open
    <3>1. pc'[Main] = "take" /\ index' = 0
      BY <1>0, <2>2 DEF Open, Goto, WInv, Typed
    <3>2. \A c \in System : c \in Untaken'
      <4>1. \A c \in System : \E i \in Number : order'[i] = c
        BY <2>2, OrderFacts DEF Open, WInv
      <4>2. \A i \in Number : i >= index'
        BY <3>1, OrderFacts DEF WInv
      <4> QED
        BY <4>1, <4>2 DEF Untaken
    <3> QED
      BY <1>0, <1>3, <3>1, <3>2 DEF Mailboxes
  <2>3. CASE Wait
    <3>1. pc[Main] = "wait" /\ done = N /\ pc'[Main] = (IF recv THEN "advance" ELSE "public")
          /\ recv' = recv
      BY <1>0, <2>3 DEF Wait, Goto, WInv, Typed
    <3>2. index >= N /\ done + Cardinality(Holders) = Taken(index) /\ index \in Nat /\ N \in Nat
      BY <3>1, WorkersAssumption DEF WInv, Quiet, Counted, InStage, Typed
    <3>3. Cardinality(Holders) = 0
      <4>1. Cardinality(Holders) \in Nat
        BY ThreadsFinite DEF Holders
      <4> QED
        BY <3>1, <3>2, <4>1 DEF Taken
    <3>4. Held = {}
      <4>1. \A t \in Thread : pc[t] # "work"
        BY <3>3, NoHolders DEF Busy
      <4> QED
        BY <4>1 DEF Held
    <3>5. Untaken = {}
      <4>1. \A i \in Number : ~(i >= index)
        BY <3>2, OrderFacts DEF WInv
      <4> QED
        BY <4>1 DEF Untaken
    <3>6. recv => \A c \in System : Empty(c)
      BY <1>0, <3>1, <3>4, <3>5 DEF Mailboxes, InStage
    <3> QED
      BY <1>0, <1>3, <3>1, <3>6 DEF Mailboxes, InStage
  <2>4. CASE Close \/ Join
    <3>1. pc[Main] \in {"close", "join"} /\ pc'[Main] \in {"join", "end"}
      BY <1>0, <2>4 DEF Close, Join, Goto, WInv, Typed
    <3> QED
      BY <1>0, <1>3, <3>1 DEF Mailboxes, InStage
  <2> QED
    BY <2>1, <2>2, <2>3, <2>4
<1> QED
  BY <1>1, <1>2, <1>4, ControlKeeps
LEMMA SmallestTimes ==
    ASSUME KernelTypeOK
    PROVE  /\ SmallestTime \in {Half} \cup {NextTime(s) : s \in Lp}
           /\ SmallestTime \in Nat /\ SmallestTime <= Half
           /\ \A s \in Lp : SmallestTime <= NextTime(s)
<1> DEFINE S == {Half} \cup {NextTime(s) : s \in Lp}
<1>1. S \in SUBSET Nat /\ S # {}
  BY Nexts, KernelAssumption
<1>2. \E t \in S : \A n \in S : t <= n
  BY <1>1, LeastNumber
<1>3. \E t \in S : \A s \in Lp : t <= Half /\ t <= NextTime(s)
  BY <1>2
<1>4. SmallestTime \in S /\ \A s \in Lp : SmallestTime <= Half /\ SmallestTime <= NextTime(s)
  BY <1>3 DEF SmallestTime
<1>5. 0 \in Lp
  BY WorkersAssumption DEF Lp
<1> QED
  BY <1>1, <1>4, <1>5

\* The windows only move forward, and past the clocks of all systems.
LEMMA CalculateStep ==
    ASSUME WInv, WInv', KInv, CalculateSmallestTime
    PROVE  KInv'
<1>0. /\ KernelTypeOK /\ Windows /\ NoPast /\ Handling /\ Mailboxes /\ Ends
      /\ 0 \in Lp /\ System \subseteq Lp /\ \A s \in Lp : s # 0 => s \in System
  BY WorkersAssumption DEF KInv, Lp, System
<1>1. /\ smallest' = SmallestTime /\ nextPublic' = NextTime(0)
      /\ events' = events /\ mailbox' = mailbox /\ now' = now /\ uid' = uid /\ call' = call
      /\ stopped' = stopped /\ recv' = recv
      /\ pc[Main] = "advance" /\ finished' = AllFinished
      /\ pc'[Main] = IF AllFinished THEN "close" ELSE "sort"
  BY WorkersAssumption DEF CalculateSmallestTime, Advance, Goto, WInv, Typed, Thread
<1>2. ~finished
  BY <1>1 DEF WInv, Flags
<1>3. \A s \in Lp : call[s] = Idle
  BY <1>0, <1>1, AllIdle DEF Between
<1>4. \A d \in Lp : Empty(d)
  BY <1>0, <1>1 DEF Mailboxes
<1>5. /\ smallest' \in Nat /\ smallest' <= Half /\ nextPublic' \in Nat
      /\ \A s \in Lp : smallest' <= NextTime(s)
  BY <1>0, <1>1, SmallestTimes, Nexts
<1>6. KernelTypeOK'
  <2>1. \A s \in Lp : call'[s] # Idle =>
            /\ call'[s].kind \in Kind /\ Home[call'[s].kind] = s
            /\ call'[s].next \in 1 .. Len(Calls[call'[s].kind]) + 1
    BY <1>1, <1>3
  <2> QED
    BY <1>0, <1>1, <1>5, <2>1 DEF KernelTypeOK
<1>7. ASSUME ~stopped, NEW s \in Lp
      PROVE  NextTime(s) = Max \/ \E e \in events[s] : NextTime(s) = e.ts
  BY <1>0, <1>7, Nexts DEF NextTime
<1>8. ASSUME ~stopped
      PROVE  smallest <= smallest' /\ (nextPublic <= nextPublic' \/ nextPublic' = Max)
  <2>1. \A s \in Lp : NextTime(s) = Max \/ NextTime(s) >= smallest
    BY <1>0, <1>2, <1>7, <1>8 DEF Windows
  <2>2. smallest' = Half \/ \E s \in Lp : smallest' = NextTime(s)
    BY <1>0, <1>1, SmallestTimes
  <2>3. smallest \in Nat /\ nextPublic \in Nat /\ Half \in Nat /\ smallest <= Half /\ Max >= Half
    BY <1>0, KernelAssumption DEF KernelTypeOK, Windows, Max
  <2>4. smallest <= smallest'
    BY <1>5, <2>1, <2>2, <2>3
  <2>5. nextPublic <= nextPublic' \/ nextPublic' = Max
    BY <1>0, <1>1, <1>2, <1>7, <1>8 DEF Windows
  <2> QED
    BY <2>4, <2>5
<1>9. Windows'
  <2>1. ASSUME ~finished' PROVE ~stopped
    BY <1>1, <2>1 DEF AllFinished
  <2>2. ASSUME ~finished'
        PROVE  /\ \A s \in Lp : \A e \in events[s] : e.ts >= smallest'
               /\ \A e \in events[0] : e.ts >= nextPublic'
    <3>1. \A s \in Lp : \A e \in events[s] : NextTime(s) <= e.ts /\ e.ts \in Nat
      BY <1>0, <2>1, <2>2, Nexts, SMTT(30) DEF KernelTypeOK, Event
    <3>2. \A s \in Lp : NextTime(s) \in Nat
      BY <1>0, Nexts
    <3> QED
      BY <1>0, <1>1, <1>5, <3>1, <3>2
  <2>3. ASSUME ~finished', NEW s \in System PROVE now[s] <= Granted(s)'
    <3>1. /\ now[s] <= Granted(s) /\ now[s] \in Nat
          /\ Granted(s) \in Nat /\ Granted(s) <= nextPublic /\ Granted(s) <= smallest + LookAhead(s)
      BY <1>0, <1>2, Grants DEF Windows, KernelTypeOK
    <3>2. Granted(s)' = Least(smallest' + LookAhead(s), nextPublic')
      BY DEF Granted
    <3>3. LookAhead(s) \in Nat /\ LookAhead(s) <= Half - 1 /\ smallest \in Nat /\ Half \in Nat
          /\ nextPublic \in Nat
      BY <1>0, LookAheads, KernelAssumption DEF KernelTypeOK
    <3>4. now[s] <= smallest' + LookAhead(s)
      BY <1>5, <1>8, <2>1, <2>3, <3>1, <3>3
    <3>5. now[s] <= nextPublic'
      <4>1. CASE nextPublic <= nextPublic'
        BY <1>5, <3>1, <3>3, <4>1
      <4>2. CASE nextPublic' = Max
        BY <1>5, <3>1, <3>3, <3>4, <4>2 DEF Max
      <4> QED
        BY <1>8, <2>1, <2>3, <4>1, <4>2
    <3> QED
      BY <3>2, <3>4, <3>5 DEF Least
  <2>4. \A d \in System, s \in Lp : \A i \in DOMAIN mailbox'[d][s] :
            mailbox'[d][s][i].ts >= Granted(d)'
    BY <1>0, <1>1, <1>4 DEF Empty
  <2>5. smallest' <= nextPublic'
    BY <1>0, <1>1, <1>5
  <2> QED
    BY <1>1, <1>5, <2>2, <2>3, <2>4, <2>5 DEF Windows
<1>10. NoPast'
  BY <1>0, <1>1 DEF NoPast
<1>11. Handling'
  BY <1>1, <1>3 DEF Handling
<1>12. Mailboxes'
  <2>1. \A d \in Lp : Empty(d)'
    BY <1>1, <1>4 DEF Empty
  <2> QED
    BY <1>0, <2>1 DEF Mailboxes
<1>13. Ends'
  <2>1. AllFinished' = AllFinished
    BY <1>1 DEF AllFinished
  <2> QED
    BY <1>0, <1>1, <2>1 DEF Ends
<1> QED
  BY <1>6, <1>9, <1>10, <1>11, <1>12, <1>13 DEF KInv

----------------------------------------------------------------------------
\* The whole

LEMMA KernelInitHolds == KernelInit => WInv /\ KInv
<1> SUFFICES ASSUME KernelInit PROVE WInv /\ KInv
  OBVIOUS
<1>0. 0 \in Lp /\ System \subseteq Lp /\ N \in Nat /\ Main \in Thread
      /\ \A s \in Lp : s # 0 => s \in System
  BY WorkersAssumption DEF Lp, System, Thread
<1>1. WInv
  BY InitHolds DEF KernelInit
<1>2. PICK start \in Starts :
        /\ events = start.events /\ uid = start.uid
        /\ mailbox = [d \in Lp |-> IF d = 0 THEN [s \in Lp |-> <<>>] ELSE start.mail[d]]
  BY DEF KernelInit
<1>3. /\ now = [s \in Lp |-> 0] /\ call = [s \in Lp |-> Idle]
      /\ stopped = FALSE /\ smallest = 0 /\ nextPublic = 0
      /\ recv = FALSE /\ finished = FALSE /\ pc[Main] = "sort"
  BY <1>0 DEF KernelInit, Init
<1>4. /\ start.events \in [Lp -> SUBSET Event] /\ start.uid \in [Lp -> Nat]
      /\ start.mail \in [System -> [Lp -> Seq(Message)]]
      /\ \A s \in Lp : \A e \in start.events[s] : Home[e.kind] = s /\ e.uid < start.uid[s]
      /\ \A d \in System, s \in Lp : \A i \in DOMAIN start.mail[d][s] :
            Home[start.mail[d][s][i].kind] = d
  BY KernelAssumption
<1>5. \A d, s \in Lp : mailbox[d][s] = (IF d = 0 THEN <<>> ELSE start.mail[d][s])
  BY <1>2
<1>6. mailbox \in [Lp -> [Lp -> Seq(Message)]]
  <2>1. <<>> \in Seq(Message)
    BY EmptySeq
  <2>2. \A d \in Lp : (IF d = 0 THEN [s \in Lp |-> <<>>] ELSE start.mail[d]) \in [Lp -> Seq(Message)]
    BY <1>0, <1>4, <2>1
  <2> QED
    BY <1>2, <2>2
<1>7. KernelTypeOK
  <2>1. \A d, s \in Lp : \A i \in DOMAIN mailbox[d][s] : Home[mailbox[d][s][i].kind] = d
    <3>1. ASSUME NEW d \in Lp, NEW s \in Lp, NEW i \in DOMAIN mailbox[d][s]
          PROVE  Home[mailbox[d][s][i].kind] = d
      <4>1. mailbox[d][s] # <<>>
        BY <3>1
      <4>2. mailbox[d][s] = start.mail[d][s] /\ d \in System
        BY <1>0, <1>5, <4>1
      <4> QED
        BY <1>4, <3>1, <4>2
    <3> QED
      BY <3>1
  <2>2. call \in [Lp -> [kind : Kind \cup {"none"}, next : Nat]]
    BY <1>3 DEF Idle
  <2>3. \A s \in Lp : call[s] = Idle
    BY <1>3
  <2>4. \A s \in Lp : \A e \in events[s] : Home[e.kind] = s /\ e.uid < uid[s]
    BY <1>2, <1>4
  <2> QED
    BY <1>2, <1>3, <1>4, <1>6, <2>1, <2>2, <2>3, <2>4 DEF KernelTypeOK
<1>8. \A d, s \in Lp : \A i \in DOMAIN mailbox[d][s] : mailbox[d][s][i].ts >= 0
  BY <1>7, MessageTyped
<1>9. \A s \in Lp : \A e \in events[s] : e.ts >= 0
  BY <1>7 DEF KernelTypeOK, Event
<1>10. \A s \in Lp : Granted(s) = 0
  BY <1>3, LookAheads DEF Granted, Least
<1>11. Windows
  BY <1>0, <1>3, <1>8, <1>9, <1>10, KernelAssumption DEF Windows
<1>12. NoPast
  BY <1>3, <1>9 DEF NoPast
<1>13. Handling
  BY <1>3 DEF Handling
<1>14. Mailboxes
  BY <1>0, <1>3, <1>5 DEF Mailboxes, Empty
<1>15. Ends
  BY <1>3 DEF Ends
<1> QED
  BY <1>1, <1>7, <1>11, <1>12, <1>13, <1>14, <1>15 DEF KInv

\* The threads do what MtpWorkers says.
LEMMA StepIsThreads ==
    ASSUME NEW t \in Thread, Step(t)
    PROVE  Next \/ UNCHANGED control
<1>1. CASE Process(t)
  BY <1>1 DEF Process
<1>2. CASE EndRound(t) \/ EndReceive(t)
  BY <1>2 DEF EndRound, EndReceive, Next, ThreadStep
<1>3. CASE Take(t) \/ Count(t) \/ Test(t) \/ Spin(t)
  BY <1>3 DEF Next, ThreadStep
<1>4. CASE EndPublic \/ Sort \/ Reset \/ Open \/ Wait \/ Close \/ Join
  BY <1>4 DEF EndPublic, Next, MainStep
<1>5. CASE CalculateSmallestTime
  BY <1>5 DEF CalculateSmallestTime, AllFinished, Next, MainStep
<1> QED
  BY <1>1, <1>2, <1>3, <1>4, <1>5 DEF Step
LEMMA KernelNextKeeps ==
    ASSUME WInv, KInv, [KernelNext]_vars
    PROVE  WInv' /\ KInv'
<1>1. CASE UNCHANGED vars
  <2>1. UNCHANGED control /\ UNCHANGED lps
    BY <1>1 DEF vars
  <2>2. WInv'
    BY <2>1, NextKeeps
  <2>3. \A s \in Lp : call[s] # Idle => \E t \in Thread : Runs(t, s)'
    BY <2>1, RunsStays DEF KInv, Handling
  <2>4. Mailboxes'
    BY <2>1 DEF KInv, Mailboxes, Empty, Untaken, Held, control, lps
  <2>5. finished' = finished
    BY <2>1 DEF control
  <2> QED
    BY <2>1, <2>2, <2>3, <2>4, <2>5, ControlKeeps
<1>2. ASSUME NEW t \in Thread, Step(t) PROVE WInv' /\ KInv'
  <2>1. WInv'
    BY <1>2, StepIsThreads, NextKeeps
  <2>2. CASE Process(t)
    BY <2>1, <2>2, LpStepKeeps
  <2>3. CASE EndRound(t)
    BY <2>1, <2>3, EndRoundStep
  <2>4. CASE EndReceive(t)
    BY <2>1, <2>4, ReceiveStep
  <2>5. CASE (Take(t) \/ Count(t) \/ Test(t) \/ Spin(t)) /\ UNCHANGED lps
    BY <2>1, <2>5, ThreadStepKeeps
  <2>6. CASE EndPublic \/ ((Sort \/ Reset \/ Open \/ Wait \/ Close \/ Join) /\ UNCHANGED lps)
    BY <2>1, <2>6, MainStepsKeep DEF EndPublic
  <2>7. CASE CalculateSmallestTime
    BY <2>1, <2>7, CalculateStep
  <2>8. \/ Process(t) \/ EndRound(t) \/ EndReceive(t)
        \/ (Take(t) \/ Count(t) \/ Test(t) \/ Spin(t)) /\ UNCHANGED lps
        \/ EndPublic
        \/ (Sort \/ Reset \/ Open \/ Wait \/ Close \/ Join) /\ UNCHANGED lps
        \/ CalculateSmallestTime
    BY <1>2, Zenon DEF Step
  <2> QED
    BY <2>2, <2>3, <2>4, <2>5, <2>6, <2>7, <2>8
<1> QED
  BY <1>1, <1>2 DEF KernelNext

LEMMA KernelInvariant == KernelSpec => [](WInv /\ KInv)
<1>1. KernelInit => WInv /\ KInv
  BY KernelInitHolds
<1>2. (WInv /\ KInv) /\ [KernelNext]_vars => (WInv /\ KInv)'
  BY KernelNextKeeps
<1> QED
  BY <1>1, <1>2, PTL DEF KernelSpec

\* The kernel keeps its types: an event has a number its system has given out and is on
\* the list of the system that runs it.
THEOREM KernelTypeCorrect == KernelSpec => []KernelTypeOK
<1>1. WInv /\ KInv => KernelTypeOK
  BY DEF KInv
<1> QED
  BY <1>1, KernelInvariant, PTL

\* LogicalProcess::ProcessOneRound and ReceiveMessages: no event is run, or sent, into
\* the past of its system, however the threads interleave.
THEOREM NoEventOfThePast == KernelSpec => []Causality
<1>1. WInv /\ KInv => Causality
  <2> SUFFICES ASSUME WInv, KInv PROVE Causality
    OBVIOUS
  <2>1. 0 \in Lp /\ System \subseteq Lp
    BY WorkersAssumption DEF Lp, System
  <2>2. ASSUME NEW d \in System, NEW s \in Lp, NEW i \in DOMAIN mailbox[d][s]
        PROVE  mailbox[d][s][i].ts >= now[d]
    <3>1. CASE finished
      <4>1. Empty(d)
        BY <3>1 DEF WInv, Flags, KInv, Mailboxes
      <4> QED
        BY <2>2, <4>1 DEF Empty
    <3>2. CASE ~finished
      <4>1. mailbox[d][s][i].ts >= Granted(d) /\ now[d] <= Granted(d) /\ smallest <= Half
        BY <2>2, <3>2 DEF KInv, Windows
      <4>2. Granted(d) \in Nat /\ now[d] \in Nat
        BY <2>1, <4>1, Grants DEF KInv, KernelTypeOK
      <4>3. mailbox[d][s][i].ts \in Nat
        BY <2>1, <2>2, MessageTyped DEF KInv
      <4> QED
        BY <4>1, <4>2, <4>3
    <3> QED
      BY <3>1, <3>2
  <2> QED
    BY <2>2 DEF Causality, KInv, NoPast
<1> QED
  BY <1>1, KernelInvariant, PTL

\* MtpInterface::ProcessOneRound, stage 2: an event without a node finds all systems
\* between events, none ahead of it and none with an event or a message before it.
THEOREM PublicAlone == KernelSpec => []PublicInOrder
<1>1. WInv /\ KInv => PublicInOrder
  <2> SUFFICES ASSUME WInv, KInv, call[0] # Idle, NEW s \in System
               PROVE  /\ call[s] = Idle /\ now[s] <= now[0]
                      /\ \A e \in events[s] : e.ts >= now[0]
                      /\ \A r \in Lp : \A i \in DOMAIN mailbox[s][r] : mailbox[s][r][i].ts >= now[0]
    BY DEF PublicInOrder
  <2>0. 0 \in Lp /\ System \subseteq Lp
    BY WorkersAssumption DEF Lp, System
  <2>1. PICK t \in Thread : Runs(t, 0)
    BY <2>0 DEF KInv, Handling
  <2>2. ~finished /\ pc[Main] = "public"
    BY <2>0, <2>1, Running
  <2>3. call[s] = Idle
    BY <2>2, PublicRunsAlone DEF KInv
  <2>4. nextPublic <= now[0] /\ now[0] <= smallest
    BY <2>0 DEF KInv, Handling
  <2>5. /\ smallest <= Half /\ smallest <= nextPublic /\ now[s] <= Granted(s)
        /\ \A e \in events[s] : e.ts >= smallest
        /\ \A r \in Lp : \A i \in DOMAIN mailbox[s][r] : mailbox[s][r][i].ts >= Granted(s)
    BY <2>0, <2>2 DEF KInv, Windows
  <2>6. /\ Granted(s) \in Nat /\ Granted(s) <= nextPublic /\ smallest <= Granted(s)
        /\ now[0] \in Nat /\ now[s] \in Nat /\ smallest \in Nat /\ nextPublic \in Nat
    BY <2>0, <2>5, Grants DEF KInv, KernelTypeOK
  <2>7. now[s] <= now[0] /\ now[0] <= Granted(s)
    BY <2>4, <2>5, <2>6
  <2>8. \A e \in events[s] : e.ts >= now[0]
    BY <2>0, <2>4, <2>5, <2>6 DEF KInv, KernelTypeOK, Event
  <2>9. ASSUME NEW r \in Lp, NEW i \in DOMAIN mailbox[s][r]
        PROVE  mailbox[s][r][i].ts >= now[0]
    <3>1. mailbox[s][r][i].ts \in Nat
      BY <2>0, <2>9, MessageTyped DEF KInv
    <3> QED
      BY <2>5, <2>6, <2>7, <2>9, <3>1
  <2> QED
    BY <2>3, <2>7, <2>8, <2>9
<1> QED
  BY <1>1, KernelInvariant, PTL

\* MtpInterface::ProcessOneRound, stage 3: while a system empties its mailbox, nobody
\* fills one.
THEOREM ReceivesAlone == KernelSpec => []ReceiveAlone
<1>1. WInv /\ KInv => ReceiveAlone
  BY NoneRuns DEF ReceiveAlone, KInv
<1> QED
  BY <1>1, KernelInvariant, PTL

\* MtpInterface::Run returns when nothing is left that the simulation was to run.
THEOREM RunsAll == KernelSpec => []RunsEverything
<1>1. WInv /\ KInv => RunsEverything
  <2> SUFFICES ASSUME WInv, KInv, pc[Main] = "end" PROVE RunsEverything
    BY DEF RunsEverything
  <2>1. finished /\ AllFinished
    BY DEF WInv, Flags, KInv, Ends
  <2>2. \A d \in Lp : Empty(d)
    BY WorkersAssumption DEF KInv, Mailboxes, Lp, System
  <2>3. ASSUME NEW s \in Lp, NEW e \in events[s] PROVE stopped /\ e.ts >= now[0]
    BY <2>1, <2>3 DEF AllFinished, KInv, Ends
  <2> QED
    BY <2>2, <2>3 DEF RunsEverything, Empty
<1> QED
  BY <1>1, KernelInvariant, PTL
\* With the systems in it the threads are still those of MtpWorkers, so that what holds
\* of these holds of the kernel: two threads never work on one system, and every stage
\* runs every system once.
THEOREM KernelImplementsWorkers == KernelSpec => Spec
<1>1. KernelInit => Init
  BY DEF KernelInit
<1>2. [KernelNext]_vars => [Next]_control
  <2>1. ASSUME NEW t \in Thread, Step(t) PROVE [Next]_control
    BY <2>1, StepIsThreads
  <2>2. UNCHANGED vars => UNCHANGED control
    BY DEF vars
  <2> QED
    BY <2>1, <2>2 DEF KernelNext
<1> QED
  BY <1>1, <1>2, PTL DEF KernelSpec, Spec

\* No two threads work on one system, and no worker works on any between the stages.
THEOREM KernelExcludes == KernelSpec => []Exclusion
BY KernelImplementsWorkers, WorkersExclude, PTL

\* MtpInterface::ProcessOneRound with the systems in it: every stage runs every system
\* exactly once, and none before all of the stage before are done.
THEOREM KernelImplementsBarrier == KernelSpec => BarrierSpec
BY KernelImplementsWorkers, ImplementsBarrier, PTL

=============================================================================
